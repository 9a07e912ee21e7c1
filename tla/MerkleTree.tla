------------------------------ MODULE MerkleTree ------------------------------
(***************************************************************************)
(* tree/: the Merkle trees of fixed height that the syncers keep in        *)
(* SQLite, and the transaction wrapper of db/tx.go that they use.  The     *)
(* hash of a node is the pair of its children, so two nodes are equal      *)
(* exactly when keccak256 of them would be.  The hash of a leaf is a       *)
(* one-tuple, and common.Hash{} is the empty tuple.  A tree is a record:   *)
(*   root           rows of the root table: hash, index, block and position*)
(*   rht            rows of the rht table, by the hash of the node         *)
(*   lastIndex, lastLeftCache  memory of an AppendOnlyTree                 *)
(*   added          rollback callbacks registered by the open transaction  *)
(*   err            what made the open transaction fail, or "none"         *)
(***************************************************************************)
EXTENDS Integers

CONSTANT Height     \* types.DefaultHeight, 32 in the code

ASSUME HeightAssumption == Height \in Nat \ {0}

Levels   == 0 .. Height - 1
Indexes  == 0 .. 2 ^ Height - 1
NoHash   == <<>>

\* index & (1 << h) > 0
Bit(index, h) == (index \div 2 ^ h) % 2 = 1

\* generateZeroHashes: the root of an empty tree of height h
zeroHashes[h \in 0 .. Height] ==
    IF h = 0 THEN NoHash ELSE <<zeroHashes[h - 1], zeroHashes[h - 1]>>

Left(node)  == node[1]
Right(node) == node[2]

newTree ==
    [root |-> {}, rht |-> {}, lastIndex |-> -2,
     lastLeftCache |-> [h \in Levels |-> NoHash], added |-> 0, err |-> "none"]

\* ORDER BY block_num DESC, block_position DESC LIMIT 1
lastRow(rows) ==
    CHOOSE r \in rows : \A s \in rows : s.num < r.num \/ (s.num = r.num /\ s.pos <= r.pos)

\* The nodes met from the root down to the leaf at index.  A node that is not
\* in the rht table is met again at every level below it.
pathTo(rht, index, root) ==
    LET node[h \in 0 .. Height] ==
          IF h = Height THEN root
          ELSE IF node[h + 1] \notin rht THEN node[h + 1]
          ELSE IF Bit(index, h) THEN Right(node[h + 1]) ELSE Left(node[h + 1])
    IN node

\* Zero hashes stand for the siblings below a node that is not stored
getSiblings(rht, index, root) ==
    LET node == pathTo(rht, index, root)
    IN [h \in Levels |-> IF node[h + 1] \notin rht THEN zeroHashes[h]
                         ELSE IF Bit(index, h) THEN Left(node[h + 1]) ELSE Right(node[h + 1])]

\* The set holding the leaf, empty when GetLeaf returns ErrNotFound
GetLeaf(rht, index, root) ==
    LET node == pathTo(rht, index, root)
    IN IF \A h \in 1 .. Height : node[h] \in rht THEN {node[0]} ELSE {}

CalculateRoot(leafHash, proof, index) ==
    LET node[h \in 0 .. Height] ==
          IF h = 0 THEN leafHash
          ELSE IF Bit(index, h - 1) THEN <<proof[h - 1], node[h - 1]>>
          ELSE <<node[h - 1], proof[h - 1]>>
    IN node[Height]

\* initCache: lastIndex and the left nodes on the path of the last leaf,
\* read from the tables the transaction sees
initCache(t) ==
    IF t.root = {}
    THEN [t EXCEPT !.lastIndex = -1, !.lastLeftCache = [h \in Levels |-> NoHash]]
    ELSE LET last == lastRow(t.root)
             node == pathTo(t.rht, last.index, last.hash)
         IN IF \E h \in 1 .. Height : node[h] \notin t.rht
            THEN [t EXCEPT !.lastIndex = last.index, !.err = "not found"]
            ELSE [t EXCEPT !.lastIndex = last.index,
                           !.lastLeftCache = [h \in Levels |-> Left(node[h + 1])]]

\* storeRoot and storeNodes: the hash is the primary key of both tables; a
\* duplicated node is ignored, a duplicated root is an error
store(t, num, pos, index, path) ==
    IF \E r \in t.root : r.hash = path[Height]
    THEN [t EXCEPT !.err = "unique"]
    ELSE [t EXCEPT !.root = @ \cup {[hash |-> path[Height], index |-> index,
                                     num |-> num, pos |-> pos]},
                   !.rht = @ \cup {path[h] : h \in 1 .. Height}]

\* The cache is rebuilt only when the index is not the next one of the memory
AddLeaf(t, num, pos, index, hash) ==
    LET c == IF index = t.lastIndex + 1 THEN t ELSE initCache(t)
        path[h \in 0 .. Height] ==
          IF h = 0 THEN hash
          ELSE IF Bit(index, h - 1) THEN <<c.lastLeftCache[h - 1], path[h - 1]>>
          ELSE <<path[h - 1], zeroHashes[h - 1]>>
        s == store([c EXCEPT !.lastLeftCache =
                      [h \in Levels |-> IF Bit(index, h) THEN @[h] ELSE path[h]]],
                   num, pos, index, path)
    IN IF c.err # "none" THEN c
       ELSE IF index # c.lastIndex + 1 THEN [c EXCEPT !.err = "mismatched index"]
       ELSE IF s.err # "none" THEN s
       ELSE [s EXCEPT !.lastIndex = @ + 1, !.added = @ + 1]

UpsertLeaf(t, num, pos, index, hash) ==
    LET root     == IF t.root = {} THEN zeroHashes[Height] ELSE lastRow(t.root).hash
        siblings == getSiblings(t.rht, index, root)
        path[h \in 0 .. Height] ==
          IF h = 0 THEN hash
          ELSE IF Bit(index, h - 1) THEN <<siblings[h - 1], path[h - 1]>>
          ELSE <<path[h - 1], siblings[h - 1]>>
    IN store(t, num, pos, index, path)

\* Tree.Reorg: roots go, nodes and the memory of the tree stay
Reorg(t, firstReorgedBlock) ==
    [t EXCEPT !.root = {r \in @ : r.num < firstReorgedBlock}]

Begin(t) == [t EXCEPT !.added = 0, !.err = "none"]

\* Tx.Rollback: the tables of before the transaction, and one decrement of
\* lastIndex per leaf added; lastLeftCache is not put back
Rollback(before, t) ==
    [Begin(t) EXCEPT !.root = before.root, !.rht = before.rht, !.lastIndex = @ - t.added]

\* Tx.Commit fails: the sql.Tx is done, so the Rollback that follows returns
\* an error before it runs the callbacks
CommitFails(before, t) == [Begin(t) EXCEPT !.root = before.root, !.rht = before.rht]

-------------------------------------------------------------------------------
(* The reference: the root of the full tree whose leaf k is leaf[k], or     *)
(* empty outside of leaf's domain.                                          *)
MerkleRoot(leaf) ==
    LET level[h \in 0 .. Height] ==
          IF h = 0
          THEN [k \in Indexes |-> IF k \in DOMAIN leaf THEN leaf[k] ELSE NoHash]
          ELSE [k \in 0 .. 2 ^ (Height - h) - 1 |->
                   <<level[h - 1][2 * k], level[h - 1][2 * k + 1]>>]
    IN level[Height][0]
===============================================================================
