---------------------------- MODULE ExitLedger -----------------------------
(***************************************************************************)
(* What the certificates of a network promise to the AggLayer: the bridge  *)
(* exits of the L2 are settled in the order they were published, and       *)
(* nothing else is.  An exit is a pair whose first component orders it.    *)
(***************************************************************************)
EXTENDS Integers

CONSTANT Exit

VARIABLES
    published,   \* exits of the L2 bridge
    settled      \* exits covered by settled certificates

Init == published = {} /\ settled = {}

Publish ==
    /\ \E e \in Exit :
          /\ \A d \in published : d[1] < e[1]
          /\ published' = published \cup {e}
    /\ UNCHANGED settled

Settle ==
    /\ settled \subseteq settled' /\ settled' \subseteq published
    /\ \A d \in published, e \in settled' : d[1] <= e[1] => d \in settled'
    /\ UNCHANGED published

Next == Publish \/ Settle

Spec == Init /\ [][Next]_<<published, settled>>
=============================================================================
