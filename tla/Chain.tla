------------------------------- MODULE Chain -------------------------------
(***************************************************************************)
(* The chain an Ethereum client shows to the syncers: what HeaderByNumber  *)
(* and FilterLogs answer at a given instant.  It is not code of the        *)
(* repository; it is modelled from the calls that sync/ and reorgdetector/ *)
(* make to it.  A block is its number and its hash.  Two different blocks  *)
(* of one number have different hashes, so a hash is abstracted to the     *)
(* branch the block was mined on together with what the syncer looks for   *)
(* in it: whether it carries events of the watched contracts.              *)
(***************************************************************************)
EXTENDS Integers

CONSTANTS
    InitialBlock,  \* number of the head when the node starts
    LastBlock,     \* bound: no block above this number is mined
    MaxForks,      \* bound: number of chain reorganisations
    ZeroHash       \* common.Hash{}: the hash of no block

ASSUME ChainAssumption ==
    /\ InitialBlock \in Nat
    /\ LastBlock \in Nat
    /\ InitialBlock <= LastBlock
    /\ MaxForks \in Nat

Blocks == 0 .. LastBlock
Hash   == [fork : 0 .. MaxForks, ev : BOOLEAN]

ASSUME ZeroHashAssumption == ZeroHash \notin Hash

VARIABLES
    chain,      \* hash of every canonical block, ZeroHash above the head
    head,       \* number of the latest block
    finalized,  \* number of the latest finalized block
    forks       \* number of reorganisations so far; names the branch

chainVars == <<chain, head, finalized, forks>>

Header == [num : Blocks, hash : Hash \cup {ZeroHash}]

\* ethClient.HeaderByNumber(n), for a block n that exists
HeaderByNumber(n) == [num |-> n, hash |-> chain[n]]

ChainTypeOK ==
    /\ chain \in [Blocks -> Hash \cup {ZeroHash}]
    /\ head \in Blocks
    /\ finalized \in Blocks
    /\ forks \in 0 .. MaxForks

ChainInit ==
    /\ chain = [n \in Blocks |-> IF n <= InitialBlock
                                 THEN [fork |-> 0, ev |-> FALSE] ELSE ZeroHash]
    /\ head = InitialBlock
    /\ finalized = InitialBlock
    /\ forks = 0

MineBlock ==
    /\ head < LastBlock
    /\ head' = head + 1
    /\ \E e \in BOOLEAN :
          chain' = [chain EXCEPT ![head + 1] = [fork |-> forks, ev |-> e]]
    /\ UNCHANGED <<finalized, forks>>

\* Block n and all above it are abandoned; the new branch starts with another
\* block n and grows by MineBlock.  A finalized block is never abandoned.
ReorgChain(n) ==
    /\ forks < MaxForks
    /\ n > finalized /\ n <= head
    /\ forks' = forks + 1
    /\ head' = n
    /\ \E e \in BOOLEAN :
          chain' = [m \in Blocks |-> IF m < n THEN chain[m]
                                     ELSE IF m = n THEN [fork |-> forks + 1, ev |-> e]
                                     ELSE ZeroHash]
    /\ UNCHANGED finalized

Finalize ==
    /\ finalized < head
    /\ finalized' = finalized + 1
    /\ UNCHANGED <<chain, head, forks>>
=============================================================================
