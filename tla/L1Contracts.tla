------------------------------ MODULE L1Contracts ------------------------------
(***************************************************************************)
(* The L1 blocks that l1infotreesync and bridgesync read, with the events  *)
(* of the bridge, of the global exit root manager and of the rollup        *)
(* manager.  The contracts are not code of the repository: they are        *)
(* modelled from the events that the downloaders of the two packages       *)
(* decode.  A deposit adds a leaf to the mainnet exit tree, a verification *)
(* of batches changes the leaf of its rollup in the rollup exit tree, and  *)
(* each of them adds a leaf to the L1 info tree.                           *)
(***************************************************************************)
EXTENDS MerkleTree, Sequences, SequencesExt

CONSTANTS
    RollupIDs,     \* identifiers of the rollups, 1 is the first
    Finalized,     \* number of the last final L1 block
    LastBlock,     \* bound: number of L1 blocks
    MaxForks       \* bound: number of L1 reorganisations

ASSUME L1Assumption == Finalized \in Nat /\ LastBlock \in Nat /\ MaxForks \in Nat

VARIABLES
    l1,       \* the canonical L1 blocks: their events, and the contracts after them
    forks     \* reorganisations so far, names the branch a block is on

l1Vars == <<l1, forks>>

Genesis ==
    [deposits |-> <<>>, exits |-> [k \in {r - 1 : r \in RollupIDs} |-> NoHash],
     infos |-> <<>>]

Contracts(blocks) == IF blocks = <<>> THEN Genesis ELSE Last(blocks).contracts

FromZero(seq) == [k \in 0 .. Len(seq) - 1 |-> seq[k + 1]]

\* UpdateL1InfoTree and UpdateL1InfoTreeV2.  The hash of the leaf covers the two
\* exit roots and the parent block: the block and the index of the leaf stand for
\* them in "id".
WithInfo(b, at) ==
    LET info  == [mer |-> MerkleRoot(FromZero(b.contracts.deposits)),
                  rer |-> MerkleRoot(b.contracts.exits),
                  id |-> [block |-> at, index |-> Len(b.contracts.infos)]]
        infos == Append(b.contracts.infos, <<info.id>>)
    IN [contracts |-> [b.contracts EXCEPT !.infos = infos],
        events |-> b.events \o
          <<[kind |-> "UpdateL1InfoTree", info |-> info],
            [kind |-> "UpdateL1InfoTreeV2", root |-> MerkleRoot(FromZero(infos)),
             count |-> Len(infos)]>>]

\* The leaf of a deposit is the hash of what is bridged, whatever its index
Deposit(b, at, content) ==
    WithInfo([contracts |-> [b.contracts EXCEPT !.deposits = Append(@, <<content>>)],
              events |-> Append(b.events, [kind |-> "BridgeEvent", content |-> content,
                                           index |-> Len(b.contracts.deposits)])], at)

Emit(b, r) ==
    [b EXCEPT !.events = Append(@, [kind |-> "VerifyBatches", rollupID |-> r,
                                    exitRoot |-> b.contracts.exits[r - 1]])]

Verify(b, at, r) ==
    LET next(x) == IF x = NoHash THEN <<1>> ELSE <<x[1] + 1>>
    IN Emit(WithInfo([b EXCEPT !.contracts.exits[r - 1] = next(@)], at), r)

\* What a block may hold: a deposit that differs from branch to branch, a
\* deposit that does not and new exits of a rollup, or a verification without new
\* exits, whose exit root is empty or has not changed.  As a bound, the rollups
\* take turns.
Bodies(b, at) ==
    LET rollups == {r \in RollupIDs : r % 2 = at.num % 2}
    IN {Deposit(b, at, at.fork)}
       \cup {Verify(Deposit(b, at, 0), at, r) : r \in rollups}
       \cup {Emit(b, r) : r \in rollups}

\* The branches that grow from the given blocks.  A syncer may lag behind the
\* head by any number of blocks, so a branch is there as a whole from the start.
\* The L1 info tree of the contract takes 2^Height leaves.
Branches(blocks, fork) ==
    LET bodies(c) == Bodies([events |-> <<>>, contracts |-> Contracts(c)],
                            [fork |-> fork, num |-> Len(c) + 1])
        grown[n \in Len(blocks) .. LastBlock] ==
          IF n = Len(blocks) THEN {blocks}
          ELSE UNION {{Append(c, b) : b \in {x \in bodies(c) :
                                               Len(x.contracts.infos) <= 2 ^ Height}}
                        : c \in grown[n - 1]}
    IN grown[LastBlock]

L1Init == forks = 0 /\ l1 \in Branches(<<>>, 0)

ForkAt(n) ==
    /\ forks < MaxForks
    /\ n > Finalized
    /\ forks' = forks + 1
    /\ l1' \in Branches(SubSeq(l1, 1, n - 1), forks + 1)
===============================================================================
