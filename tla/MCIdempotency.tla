--------------------------- MODULE MCIdempotency ---------------------------
\* Two messages with one key between them and two workers, each in a process of
\* its own.
EXTENDS Idempotency

CONSTANTS w1, w2, n1, n2, m1, m2, k1

OwnProcess == [w \in Workers |-> IF w = w1 THEN n1 ELSE n2]
OneKey     == [m \in Messages |-> k1]
=============================================================================
