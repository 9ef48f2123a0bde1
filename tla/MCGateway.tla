------------------------------ MODULE MCGateway ------------------------------
(* Instances of Gateway for TLC: buffers, connection objects and workers are *)
(* interchangeable.                                                          *)
EXTENDS Gateway, TLC

Symmetry == Permutations(Bufs) \cup Permutations(Conns) \cup Permutations(Workers)
              \cup Permutations(Fds)
=============================================================================
