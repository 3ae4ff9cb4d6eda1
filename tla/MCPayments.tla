----------------------------- MODULE MCPayments -----------------------------
(* Small instances of Payments for TLC. *)
EXTENDS Payments, TLC

CONSTANTS a1, a2, c1, c2, u1, p1

OwnedByAccount == [c \in Carts |-> IF c = c1 THEN u1 ELSE Guest]
AllOwnedByAccount == [c \in Carts |-> u1]
OneOfEach == [p \in Products |-> 1]
AttemptSymmetry == Permutations(Attempts)
TwoOfEach == [p \in Products |-> 2]
=============================================================================
