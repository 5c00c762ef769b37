--------------------------- MODULE MCIdempotency ----------------------------
(* Idempotency on a small instance: three requests on one key, two of them *)
(* repeats of each other and the third with another input.                 *)
EXTENDS Idempotency

CONSTANTS q1, q2, q3, k1, i1, i2

OneKey == [q \in {q1, q2, q3} |-> k1]
TwoInputs == [q \in {q1, q2, q3} |-> IF q = q3 THEN i2 ELSE i1]
=============================================================================
