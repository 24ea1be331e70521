--------------------------- MODULE MCBackendPool ---------------------------
(* Small instances of BackendPool.                                         *)
EXTENDS BackendPool, TLC

Symmetry == Permutations(Handlers)
=============================================================================
