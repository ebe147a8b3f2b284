---------------------------- MODULE MCAuthProxy ----------------------------
(* One request; the environment that logs in and revokes at any moment is  *)
(* also what the other requests, with their own refreshes, are to it.      *)
EXTENDS AuthProxy, TLC
============================================================================
