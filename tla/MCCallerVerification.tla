----------------------- MODULE MCCallerVerification -----------------------
(* Instances of the caller verification: agent a holds certificate ca,     *)
(* agent b holds cb, and cx names a in its SAN but is vouched for by no    *)
(* status token.                                                           *)
EXTENDS CallerVerification, TLC

CONSTANTS a, b, ca, cb, cx

Symmetry == Permutations(Deliveries) \cup Permutations(Proofs)
            \cup Permutations(Requests)

OneAgent == {a}
OneCert == {ca}
OneRegistered == [x \in {a} |-> {ca}]
OneAnsOf == [c \in {ca} |-> a]
OneNotBefore == [c \in {ca} |-> 2]
OneNotAfter == [c \in {ca} |-> 5]

TwoAgents == {a, b}
ThreeCerts == {ca, cb, cx}
TwoRegistered == [x \in {a, b} |-> IF x = a THEN {ca} ELSE {cb}]
ThreeAnsOf == [c \in ThreeCerts |-> IF c = cb THEN b ELSE a]
ThreeNotBefore == [c \in ThreeCerts |-> IF c = cb THEN 3 ELSE 2]
ThreeNotAfter == [c \in ThreeCerts |-> 5]

\* The clock of a caller may be ahead by one.
Ahead == {0, 1}
Exact == {0}
NoPins == {}
=============================================================================
