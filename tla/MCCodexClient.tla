--------------------------- MODULE MCCodexClient ---------------------------
(* One client with one or two callers of request.                          *)
EXTENDS CodexClient

CallerSymmetry == Permutations(Callers)
============================================================================
