----------------------- MODULE MerkleTreeWithHistory -----------------------
(***************************************************************************)
(* The pool's commitment tree: a binary Merkle tree of fixed depth to      *)
(* which leaves are added in pairs, kept as one hash per level, and a ring *)
(* of its latest roots.                                                    *)
(*                                                                         *)
(* The contract never holds the whole tree.  An insertion rehashes one     *)
(* path: at a level where the path is a right child it meets the left      *)
(* sibling saved there by an earlier insertion, where it is a left child   *)
(* it saves its own hash and meets the hash of an empty subtree.           *)
(*                                                                         *)
(* leaves and roots are history: the whole tree and every root there has   *)
(* been, for the properties only.                                          *)
(***************************************************************************)
EXTENDS Integers, RootWindow

CONSTANTS
    Levels,        \* depth of the tree
    LeafValues,    \* commitments that may be inserted
    ZeroLeaf,      \* zeroes[0], the hash that stands for an absent leaf
    FieldZero,     \* the field element 0, which is never a known root
    Hash(_, _)     \* poseidon2_compress

ASSUME LevelsAssumption == Levels \in 1 .. 32

VARIABLES
    filled,             \* FilledSubtree: level -> last left hash of that level
    ring,               \* Root: slot -> root, for the slots written so far
    currentRootIndex,   \* the slot of the current root
    nextIndex,          \* leaves inserted
    leaves,             \* history: leaf index -> leaf
    roots               \* history: insertions made -> root

treeVars == <<filled, nextIndex, leaves>>
ringVars == <<ring, currentRootIndex, roots>>
vars == <<treeVars, ringVars>>

Insertions == nextIndex \div 2
Capacity == 2 ^ Levels

\* Zeroes[lvl]: the hash of an empty subtree of height lvl.
Zeroes[lvl \in 0 .. Levels] ==
    IF lvl = 0 THEN ZeroLeaf ELSE Hash(Zeroes[lvl - 1], Zeroes[lvl - 1])

Init ==
    /\ filled = Zeroes
    /\ ring = [slot \in {0} |-> Zeroes[Levels]]
    /\ currentRootIndex = 0
    /\ nextIndex = 0
    /\ leaves = [i \in 0 .. -1 |-> 0]
    /\ roots = [n \in {0} |-> Zeroes[Levels]]

----------------------------------------------------------------------------
LateRight(lvl) == (nextIndex \div 2 ^ (lvl - 1)) % 2 = 1   \* a mutation of the next
\* The path of the next pair is a right child at level lvl.
IsRight(lvl) == (nextIndex \div 2 ^ lvl) % 2 = 1

\* current_hash on entering level lvl of the loop; at Levels it is the root.
PathHash(leaf_1, leaf_2) ==
    LET hash[lvl \in 1 .. Levels] ==
            IF lvl = 1 THEN Hash(leaf_1, leaf_2)
            ELSE IF IsRight(lvl - 1)
                 THEN Hash(filled[lvl - 1], hash[lvl - 1])
                 ELSE Hash(hash[lvl - 1], Zeroes[lvl - 1])
    IN  hash

LongRing == (currentRootIndex + 1) % (RootHistorySize + 1)   \* a mutation of the next
NextRootIndex == (currentRootIndex + 1) % RootHistorySize

\* The new root takes the next slot of the ring.
PushRoot(root) ==
    /\ currentRootIndex' = NextRootIndex
    /\ ring' = [slot \in DOMAIN ring \cup {NextRootIndex} |->
                   IF slot = NextRootIndex THEN root ELSE ring[slot]]
    /\ roots' = [n \in 0 .. Insertions + 1 |->
                   IF n <= Insertions THEN roots[n] ELSE root]

RoomForNone == nextIndex <= Capacity   \* a mutation of the next
HasRoom == nextIndex + 2 <= Capacity

InsertTwoLeaves(leaf_1, leaf_2) ==
    LET hash == PathHash(leaf_1, leaf_2)
    IN  /\ nextIndex % 2 = 0
        /\ HasRoom
        /\ filled' = [lvl \in 0 .. Levels |->
                         IF lvl \in 1 .. Levels - 1 /\ ~IsRight(lvl)
                         THEN hash[lvl] ELSE filled[lvl]]
        /\ nextIndex' = nextIndex + 2
        /\ leaves' = [i \in 0 .. nextIndex + 1 |->
                         IF i < nextIndex THEN leaves[i]
                         ELSE IF i = nextIndex THEN leaf_1 ELSE leaf_2]
        /\ PushRoot(hash[Levels])

Next == \E leaf_1, leaf_2 \in LeafValues : InsertTwoLeaves(leaf_1, leaf_2)

Spec == Init /\ [][Next]_vars

\* The roots is_known_root answers true to: it looks in every slot of the ring
\* that holds one, and refuses the field's zero before it looks.
Recognised == {ring[slot] : slot \in DOMAIN ring} \ {FieldZero}

GetLastRoot == ring[currentRootIndex]

----------------------------------------------------------------------------
(***************************************************************************)
(* The tree as it would be computed from all its leaves.                   *)
(***************************************************************************)

LeafAt(i) == IF i < nextIndex THEN leaves[i] ELSE ZeroLeaf

\* The nodes of the tree of these leaves, level by level.
TreeOf(leaf) ==
    LET level[lvl \in 0 .. Levels] ==
            IF lvl = 0 THEN leaf
            ELSE [i \in 0 .. 2 ^ (Levels - lvl) - 1 |->
                     Hash(level[lvl - 1][2 * i], level[lvl - 1][2 * i + 1])]
    IN  level

ReferenceRoot == TreeOf([i \in 0 .. Capacity - 1 |-> LeafAt(i)])[Levels][0]

\* The incremental update is right: the current root is that of the tree of
\* all the leaves, so every holder can prove membership of any note from the
\* leaves the contract has announced.
RootOfAllLeaves == GetLastRoot = ReferenceRoot

\* The ring recognises exactly the roots of the window that the pool counts
\* on: a proof made against one of them is not refused early, and one made
\* against an older root is not accepted.
RingHoldsWindow ==
    Recognised = {roots[n] : n \in KnownRoots(Insertions)} \ {FieldZero}

\* The tree holds whole pairs and no more than it has room for; every hash and
\* root that a later call reads has been stored.
TypeOK ==
    /\ nextIndex \in 0 .. Capacity
    /\ nextIndex % 2 = 0
    /\ DOMAIN filled = 0 .. Levels
    /\ DOMAIN leaves = 0 .. nextIndex - 1
    /\ DOMAIN roots = 0 .. Insertions
    /\ currentRootIndex \in 0 .. RootHistorySize - 1
    /\ DOMAIN ring \subseteq 0 .. RootHistorySize - 1
=============================================================================
