----------------------------- MODULE MCExecutor -----------------------------
(* The executor on one or two tasks of one context.                        *)
EXTENDS Executor, TLC

TaskSymmetry == Permutations(Tasks)
============================================================================
