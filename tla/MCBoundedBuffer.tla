--------------------------- MODULE MCBoundedBuffer ---------------------------
(* A small instance of the buffer: three readers and two printing threads    *)
(* over a ring of two slots, so that several threads block on each side.     *)
EXTENDS BoundedBuffer, TLC

CONSTANTS p1, p2, p3, c1, c2, d1, d2

MCProducers == {p1, p2, p3}
MCConsumers == {c1, c2}
MCData == {d1, d2}
==============================================================================
