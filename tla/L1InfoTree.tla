----------------------------- MODULE L1InfoTree -----------------------------
(***************************************************************************)
(* l1infotree/: the L1 info tree in memory.  A tree is made from the       *)
(* leaves known so far and then grows leaf by leaf, keeping the left       *)
(* siblings of the next leaf; the aggregator computes Merkle proofs from   *)
(* all leaves.  A hash is the tuple of what is hashed, and the zero hash   *)
(* the empty tuple.                                                        *)
(***************************************************************************)
EXTENDS Integers, Sequences

CONSTANTS
    TreeHeight,   \* 32 in the code
    LeafHashes    \* what HashLeafData returns

ASSUME TreeAssumption == TreeHeight \in Nat \ {0}

VARIABLES
    leaves,   \* the leaves so far
    mt        \* the L1InfoTree, or NoTree

treeVars == <<leaves, mt>>

NoTree == [count |-> 0, siblings |-> << >>, currentRoot |-> << >>]
H      == 0 .. TreeHeight - 1

Hash(l, r) == <<l, r>>

generateZeroHashes[h \in 0 .. TreeHeight] ==
    IF h = 0 THEN << >> ELSE Hash(generateZeroHashes[h - 1], generateZeroHashes[h - 1])

Padded(ls, h) == IF Len(ls) % 2 = 1 THEN Append(ls, generateZeroHashes[h]) ELSE ls

buildIntermediate(ls) ==
    [i \in 1 .. Len(ls) \div 2 |-> Hash(ls[2 * i - 1], ls[2 * i])]

OrZero(ls) == IF ls = << >> THEN <<generateZeroHashes[0]>> ELSE ls

\* The hashes of each level, before the level is padded.
Level(ls) ==
    LET level[h \in 0 .. TreeHeight] ==
          IF h = 0 THEN OrZero(ls) ELSE buildIntermediate(Padded(level[h - 1], h - 1))
    IN level

\* The code returns an error when more than one hash is left.
BuildL1InfoRoot(ls) == Level(ls)[TreeHeight][1]

\* Sibling of the node above the leaf, level by level (indexes from 0).
ComputeMerkleProof(gerIndex, ls) ==
    [h \in H |->
        LET level == Padded(Level(ls)[h], h)
            index == gerIndex \div 2 ^ h
        IN IF index >= Len(level) THEN generateZeroHashes[h]
           ELSE IF index % 2 = 1 THEN level[index] ELSE level[index + 2]]

\* Mutant of initSiblings: the proof of the last leaf instead of the next.
siblingsOfLast(ls) ==
    IF ls = << >> THEN [h \in H |-> generateZeroHashes[h]] ELSE ComputeMerkleProof(Len(ls) - 1, ls)

initSiblings(ls) ==
    IF ls = << >> THEN [h \in H |-> generateZeroHashes[h]] ELSE ComputeMerkleProof(Len(ls), ls)

TreeInit == leaves = << >> /\ mt = NoTree

\* NewL1InfoTree and ResetL1InfoTree, from the leaves known so far.
NewL1InfoTree ==
    /\ mt' = [count |-> Len(leaves), siblings |-> initSiblings(leaves),
              currentRoot |-> BuildL1InfoRoot(leaves)]
    /\ UNCHANGED leaves

Bit1(index, h) == (index \div 2 ^ h) % 2 = 1

\* isFilledSubTree still holds at h, and the path is left there.
FirstLeft(index, h) == ~Bit1(index, h) /\ \A k \in 0 .. h - 1 : Bit1(index, k)

\* The path of the new leaf upwards: a right child meets the sibling that was
\* kept, a left child the zero hash.
AddLeaf(index, leaf) ==
    LET cur[h \in 0 .. TreeHeight] ==
          IF h = 0 THEN leaf
          ELSE IF Bit1(index, h - 1) THEN Hash(mt.siblings[h - 1], cur[h - 1])
          ELSE Hash(cur[h - 1], generateZeroHashes[h - 1])
    IN [count |-> mt.count + 1, currentRoot |-> cur[TreeHeight],
        siblings |-> [h \in H |-> IF FirstLeft(index, h) THEN cur[h] ELSE mt.siblings[h]]]

\* A leaf comes; the tree, if there is one, is told.
NewLeaf ==
    /\ Len(leaves) < 2 ^ TreeHeight
    /\ \E leaf \in LeafHashes :
          /\ leaves' = Append(leaves, leaf)
          /\ mt' = IF mt = NoTree THEN mt ELSE AddLeaf(mt.count, leaf)

TreeNext == NewL1InfoTree \/ NewLeaf

-----------------------------------------------------------------------------
(* Properties                                                              *)

\* The tree of the contract: the root above the 2^h leaves from position i on.
RootAbove(ls) ==
    LET above[h \in 0 .. TreeHeight, i \in 0 .. 2 ^ TreeHeight - 1] ==
          IF h = 0 THEN IF i < Len(ls) THEN ls[i + 1] ELSE << >>
          ELSE Hash(above[h - 1, i], above[h - 1, i + 2 ^ (h - 1)])
    IN above[TreeHeight, 0]

\* Where a proof leads from leaf i.
RootFrom(i, proof) ==
    LET cur[h \in 0 .. TreeHeight] ==
          IF h = 0 THEN leaves[i + 1]
          ELSE IF Bit1(i, h - 1) THEN Hash(proof[h - 1], cur[h - 1])
          ELSE Hash(cur[h - 1], proof[h - 1])
    IN cur[TreeHeight]

\* Wherever a tree is made from the known leaves and whatever is added later,
\* its root is the root of all leaves: initSiblings leaves what AddLeaf needs,
\* although it asks for the proof of a leaf that is not there.  The proof that
\* ComputeMerkleProof gives for a leaf leads to the same root.
RootOfLeaves ==
    /\ mt # NoTree => mt.currentRoot = RootAbove(leaves)
    /\ \A i \in 0 .. Len(leaves) - 1 :
          RootFrom(i, ComputeMerkleProof(i, leaves)) = RootAbove(leaves)
=============================================================================
