------------------------------ MODULE MerkleTree ------------------------------
(***************************************************************************)
(* Inclusion proofs of the transparency log (verify/scitt/merkle.go): the  *)
(* walk along a path from a leaf to the root, and beside it the tree and   *)
(* the paths as RFC 9162 defines them, which the walk is checked against.  *)
(*                                                                         *)
(* Hashes are free terms: two are equal only if they hash the same data    *)
(* under the same prefix.  A tree is the sequence of its events.           *)
(***************************************************************************)
EXTENDS Integers, SequencesExt

CONSTANTS
  MaxSize,        \* bound: the sizes a tree may have, or a proof may claim
  MaxHashPathLen  \* MaxHashPathLen

ASSUME SizeAssumption == MaxSize \in Nat \ {0}

ComputeLeafHash(event) == <<"leaf", event>>
ComputeNodeHash(left, right) == <<"node", left, right>>

\* What a walk gives that fails.
NoRoot == <<>>

\* The node a walk is at and the last node of its level.
Levels == [fn : 0..MaxSize, sn : 0..MaxSize]

\* The last node of a level, when it is a left one, has no sibling there: it is
\* carried up to the level at which it is a right one.
Climb[at \in Levels] ==
  IF at.fn % 2 = 0 /\ at.fn # 0 THEN Climb[[fn |-> at.fn \div 2, sn |-> at.sn \div 2]]
  ELSE at

\* Bug: the last node of a level that has no sibling is taken for a left one.
WalkStepLeft(w, p) ==
  IF w.sn = 0 THEN [w EXCEPT !.excess = TRUE]
  ELSE [w EXCEPT !.fn = w.fn \div 2, !.sn = w.sn \div 2,
                 !.r = IF w.fn % 2 = 1 THEN ComputeNodeHash(p, w.r)
                       ELSE ComputeNodeHash(w.r, p)]

\* One element of the path.
WalkStep(w, p) ==
  IF w.sn = 0 THEN [w EXCEPT !.excess = TRUE]
  ELSE LET right == w.fn % 2 = 1 \/ w.fn = w.sn
           level == [fn |-> w.fn, sn |-> w.sn]
           at == IF right THEN Climb[level] ELSE level
       IN  [w EXCEPT !.fn = at.fn \div 2, !.sn = at.sn \div 2,
                     !.r = IF right THEN ComputeNodeHash(p, w.r)
                           ELSE ComputeNodeHash(w.r, p)]

\* Where the walk is after each element of the path.
Walk(event, leafIndex, treeSize, hashPath) ==
  LET W[k \in 0..Len(hashPath)] ==
        IF k = 0 THEN [fn |-> leafIndex, sn |-> treeSize - 1, excess |-> FALSE,
                       r |-> ComputeLeafHash(event)]
        ELSE WalkStep(W[k - 1], hashPath[k])
  IN  W

\* The root that the path of an event leads to, or none: the index is outside of
\* the tree, or the path has too many elements or too few.
WalkInclusionPath(event, leafIndex, treeSize, hashPath) ==
  LET end == Walk(event, leafIndex, treeSize, hashPath)[Len(hashPath)]
  IN  IF \/ treeSize = 0 \/ leafIndex >= treeSize \/ Len(hashPath) > MaxHashPathLen
         \/ end.excess \/ end.sn # 0
      THEN NoRoot ELSE end.r

-----------------------------------------------------------------------------
(* The reference: RFC 9162, section 2.1.  A span <<lo, hi>> of a tree is    *)
(* its events from lo + 1 to hi.                                           *)

Power[i \in 0..MaxSize] == IF i = 0 THEN 1 ELSE 2 * Power[i - 1]

\* No tree is larger than a path can be long for: 63 elements are enough for 2^63
\* events.
ASSUME PathAssumption ==
  /\ MaxHashPathLen \in Nat
  /\ \E i \in 0..MaxSize : Power[i] >= MaxSize /\ i <= MaxHashPathLen

\* The largest power of two below n.
Split(n) == CHOOSE k \in {Power[i] : i \in 0..n} : k < n /\ 2 * k >= n

Spans(tree) == (0..Len(tree)) \X (0..Len(tree))
Middle(span) == span[1] + Split(span[2] - span[1])
LeftOf(span) == <<span[1], Middle(span)>>
RightOf(span) == <<Middle(span), span[2]>>

TreeHash(tree) ==
  LET H[span \in Spans(tree)] ==
        IF span[2] - span[1] <= 1 THEN ComputeLeafHash(tree[span[2]])
        ELSE ComputeNodeHash(H[LeftOf(span)], H[RightOf(span)])
  IN  H

Whole(tree) == <<0, Len(tree)>>
Root(tree) == TreeHash(tree)[Whole(tree)]

\* The path from an event to the root of each span it is in.
PathsFrom(tree, index) ==
  LET P[span \in Spans(tree)] ==
        IF span[2] - span[1] <= 1 THEN <<>>
        ELSE IF index < Middle(span)
        THEN Append(P[LeftOf(span)], TreeHash(tree)[RightOf(span)])
        ELSE Append(P[RightOf(span)], TreeHash(tree)[LeftOf(span)])
  IN  P

\* The path the log puts in the receipt of the event at an index.
InclusionPath(tree, index) == PathsFrom(tree, index)[Whole(tree)]

\* The hash of every subtree: what the elements of a path may be drawn from.
\* Other values cannot lead to the root.
SubtreeHashes(tree) ==
  LET S[span \in Spans(tree)] ==
        {TreeHash(tree)[span]} \cup
        IF span[2] - span[1] <= 1 THEN {} ELSE S[LeftOf(span)] \cup S[RightOf(span)]
  IN  S[Whole(tree)]
=============================================================================
