--------------------------- MODULE ClientContract ---------------------------
(***************************************************************************)
(* What a caller of codexClient.request may count on, without channels,    *)
(* pipes or goroutines.  While the client is up a call can be answered;    *)
(* once it is down, the answers already on their way may still arrive and  *)
(* no call begun later succeeds.  A call may also end because its own      *)
(* context does.                                                           *)
(***************************************************************************)
CONSTANT Callers

VARIABLES
  up,    \* the process runs and its client has not finished
  call   \* how far each call is, or how it ended

vars == <<up, call>>

Verdicts == {"ok", "refused"}                    \* a response, or an error response
Ends == Verdicts \cup {"failed", "empty", "context"}

Init == up = TRUE /\ call = [k \in Callers |-> "idle"]

(* Nothing can come of a call begun with a client that is down.            *)
Ask(k) ==
  /\ call[k] = "idle"
  /\ call' = [call EXCEPT ![k] = IF up THEN "asked" ELSE "hopeless"]
  /\ UNCHANGED up

Answer(k, verdict) ==
  /\ call[k] = "asked"
  /\ call' = [call EXCEPT ![k] = verdict]
  /\ UNCHANGED up

(* Going down, and after, answers on their way may be lost.                *)
Lose(lost) ==
  /\ \A k \in lost : call[k] = "asked"
  /\ call' = [k \in Callers |-> IF k \in lost THEN "hopeless" ELSE call[k]]
GoDown(lost) == up /\ up' = FALSE /\ Lose(lost)
LoseMore(lost) == ~ up /\ Lose(lost) /\ UNCHANGED up

(* With an error, or with neither an answer nor an error.                  *)
Fail(k) ==
  /\ call[k] \in {"asked", "hopeless"} /\ ~ up
  /\ call' = [call EXCEPT ![k] = "failed"]
  /\ UNCHANGED up
ReturnEmpty(k) ==
  /\ call[k] \in {"asked", "hopeless"} /\ ~ up
  /\ call' = [call EXCEPT ![k] = "empty"]
  /\ UNCHANGED up

GiveUp(k) ==
  /\ call[k] \in {"asked", "hopeless"}
  /\ call' = [call EXCEPT ![k] = "context"]
  /\ UNCHANGED up

Next ==
  \/ \E k \in Callers :
       Ask(k) \/ Fail(k) \/ ReturnEmpty(k) \/ GiveUp(k) \/ \E v \in Verdicts : Answer(k, v)
  \/ \E lost \in SUBSET Callers : GoDown(lost) \/ LoseMore(lost)

Spec == Init /\ [][Next]_vars
=============================================================================
