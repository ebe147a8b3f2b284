------------------------- MODULE ExecutorTaskProofs -------------------------
(* Theorems about one task's executions and cancels: what its stored status, *)
(* its two goroutines, its runtime and its Codex thread have to do with one  *)
(* another at every step, for any tasks, contexts and bounds.  Every         *)
(* invariant here is about one task; the steps of another task do not touch  *)
(* what it reads (OthersKeepTask), so that each proof is about the steps of  *)
(* the task itself and about Close.                                          *)
EXTENDS ExecutorProofs

----------------------------------------------------------------------------
(* The inductive invariant.                                                  *)

(* Where Execute still relies on the runtime it was given or has registered. *)
Holding == {"turnStart", "turnWait", "turnAck", "turnAckEmpty", "respond", "consume", "next",
            "writeWorking", "writeUpdate", "writeAsk", "writeAskAgain", "writeReady", "park"}
(* Where Cancel has yet to announce, or never will.                          *)
Canceling == {"interrupt", "interrupting", "announce", "nilClient"}
(* Where the execution has a turn behind it.                                 *)
InTurn == {"turnAck", "turnAckEmpty", "writeWorking", "writeUpdate", "consume", "next",
           "writeAsk", "park", "respond", "writeAskAgain"}

(* Codex runs no turn of the thread and no end of one is left to be read.    *)
AtRest(t) == codexTurn[t] = 0 /\ EndsIn(t) = {}

(* An execution that needs its runtime has registered it and still has it,   *)
(* unless Close took it; one that reports an error has none.                 *)
HoldInv(t) ==
  /\ pc[t] \in Holding => phase[t] = "registered" /\ (t \in active \/ closed)
  /\ At(t, "report") => t \notin active
  /\ At(t, "nilClient") => closed

(* A terminal status closes the stream, and short of that only a consumer    *)
(* closes it under a goroutine.  A cancel that was accepted is still to be   *)
(* announced, or the task is over.                                           *)
RecordInv(t) ==
  /\ stored[t] \in Terminal => ~ open[t]
  /\ ~ Quiet(t) => open[t] \/ t \in stopped \/ stored[t] \in Terminal
  /\ cancelRequested[t] => cpc[t] \in Canceling \/ t \in stopped \/ stored[t] \in Terminal
  /\ At(t, "park") => stored[t] \in {"input-required"} \cup Terminal
  /\ At(t, "finish") => cancelRequested[t] \/ stored[t] \in Terminal
  /\ At(t, "idle") /\ t \notin stopped =>
       cancelRequested[t] \/ stored[t] \in {"none", "input-required"} \cup Terminal

(* A task that rests in input-required keeps its runtime, and one that is    *)
(* over has lost it, or Cleanup is about to take it.                         *)
PauseInv(t) ==
  /\ At(t, "idle") /\ stored[t] = "input-required" =>
       t \in active \/ cancelRequested[t] \/ closed \/ t \in stopped
  /\ stored[t] \in Terminal /\ t \in active /\ pc[t] \in {"idle", "park"} =>
       cpc[t] = "cleanup" /\ stored[t] = "canceled"

(* A turn that runs has sent no end, a turn that ended has sent one, and     *)
(* the executor has read it before it starts the next.                       *)
ThreadInv(t) ==
  /\ codexTurn[t] # 0 => Running(t) /\ EndsIn(t) = {}
  /\ \A i, j \in EndsIn(t) : i = j
  /\ phase[t] \in {"new", "resolved"} => codexTurn[t] = 0 /\ inbox[t] = <<>>
  /\ pc[t] \in {"turnStart", "turnWait", "writeReady"} => AtRest(t)
  /\ pc[t] \in InTurn /\ Running(t) => ~ AtRest(t)

(* turnActive and pending are what resumeInputRequired and blocksBranching   *)
(* take them for.                                                            *)
FlagInv(t) ==
  /\ At(t, "writeReady") => ~ turnActive[t] /\ ~ pending[t]
  /\ At(t, "writeAskAgain") => pending[t]
  /\ At(t, "idle") /\ t \in active /\ pending[t] /\ Running(t) => ~ AtRest(t)
  /\ At(t, "idle") /\ t \in active /\ ~ pending[t] => AtRest(t) /\ ~ turnActive[t]
  /\ codexTurn[t] # 0 /\ t \in active => turnActive[t] \/ pc[t] \in {"turnAck", "discard"}

TaskInv(t) ==
  HoldInv(t) /\ RecordInv(t) /\ PauseInv(t) /\ ThreadInv(t) /\ FlagInv(t)

ExecutorInv ==
  /\ OwnerInv /\ A2aTypes /\ CancelTypes
  /\ \A t \in Tasks : TaskInv(t)

(* What the proofs below use of the owner invariant and of the types.        *)
LEMMA TaskFacts ==
  ASSUME ExecutorInv, NEW t \in Tasks
  PROVE  /\ client[t] <=> t \in active
         /\ t \in active => phase[t] = "registered"
         /\ At(t, "resolve") => phase[t] = "new"
         /\ pc[t] \in {"launch", "thread", "register"} => phase[t] = "resolved"
         /\ Running(t) => pc[t] \in Starting \/ t \in active
         /\ active \subseteq Tasks /\ client \in [Tasks -> BOOLEAN]
         /\ phase \in [Tasks -> Phases]
         /\ turnActive \in [Tasks -> BOOLEAN] /\ pending \in [Tasks -> BOOLEAN]
BY DEF ExecutorInv, OwnerInv, BrokerInv, ClientIffActive, RuntimesRegistered, TypeOK,
       StartStages, NoOrphanProcess

LEMMA TaskTypes ==
  ASSUME ExecutorInv
  PROVE  A2aTypes /\ ExecuteTypes /\ CancelTypes /\ CodexTypes
BY DEF ExecutorInv, OwnerInv

----------------------------------------------------------------------------
(* Steps of other tasks.                                                     *)

(* What TaskInv(t) reads.                                                    *)
KeepsTask(t) ==
  /\ pc'[t] = pc[t] /\ cpc'[t] = cpc[t] /\ cancelRequested'[t] = cancelRequested[t]
  /\ stored'[t] = stored[t] /\ open'[t] = open[t] /\ (t \in stopped' <=> t \in stopped)
  /\ proc'[t] = proc[t] /\ codexTurn'[t] = codexTurn[t] /\ inbox'[t] = inbox[t]
  /\ (t \in active' <=> t \in active) /\ phase'[t] = phase[t]
  /\ turnActive'[t] = turnActive[t] /\ pending'[t] = pending[t]
  /\ closed' = closed

LEMMA KeptTask ==
  ASSUME NEW t \in Tasks, TaskInv(t), KeepsTask(t)
  PROVE  TaskInv(t)'
<1> USE DEF KeepsTask
<1>1. HoldInv(t)'
  BY DEF TaskInv, HoldInv, At
<1>2. RecordInv(t)'
  BY DEF TaskInv, RecordInv, At, Quiet
<1>3. PauseInv(t)'
  BY DEF TaskInv, PauseInv, At
<1>4. EndsIn(t)' = EndsIn(t)
  BY DEF EndsIn
<1>5. ThreadInv(t)'
  BY <1>4 DEF TaskInv, ThreadInv, AtRest, Running
<1>6. FlagInv(t)'
  BY <1>4 DEF TaskInv, FlagInv, At, AtRest, Running
<1>7. QED
  BY <1>1, <1>2, <1>3, <1>5, <1>6 DEF TaskInv

LEMMA OtherKillsOther ==
  ASSUME CodexTypes, NEW t \in Tasks, NEW S, Kill(S), t \notin S
  PROVE  proc'[t] = proc[t] /\ codexTurn'[t] = codexTurn[t] /\ inbox'[t] = inbox[t]
BY DEF Kill, CodexTypes

LEMMA OthersExecute ==
  ASSUME ExecutorInv, NEW t \in Tasks, NEW u \in Tasks \ {t}, ExecuteStep(u)
  PROVE  KeepsTask(t)
<1>0. A2aTypes /\ ExecuteTypes /\ CodexTypes
  BY TaskTypes
<1>a. /\ active \subseteq Tasks /\ client \in [Tasks -> BOOLEAN] /\ phase \in [Tasks -> Phases]
      /\ turnActive \in [Tasks -> BOOLEAN] /\ pending \in [Tasks -> BOOLEAN]
  BY TaskFacts
<1> USE DEF KeepsTask, ExecuteTypes, Go, a2aVars, cancelVars
<1>1. CASE ResolveBase(u)
  BY <1>0, <1>a, <1>1 DEF ResolveBase, Resolve, ResolveRejected, codexVars, runtimeVars
<1>2. CASE StartTaskFails(u)
  BY <1>0, <1>a, <1>2, OtherKillsOther DEF StartTaskFails, StartFails, runtimeVars
<1>3. CASE Register(u)
  BY <1>0, <1>a, <1>3 DEF Register, RegisterTask, codexVars, runtimeVars
<1>4. CASE AcknowledgeTurn(u) \/ Park(u)
  BY <1>0, <1>a, <1>4 DEF AcknowledgeTurn, Park, StartTurn, SetPending, RuntimeStep, codexVars
<1>5. CASE SendAnswer(u)
  BY <1>0, <1>a, <1>5 DEF SendAnswer, ClearPending, RuntimeStep
<1>6. CASE ReceiveCompletion(u) \/ ReceiveMessage(u)
  <2>1. \E to : Received(u, to)
    BY <1>6 DEF ReceiveCompletion, ReceiveMessage
  <2>2. /\ \E to : pc' = [pc EXCEPT ![u] = to]
        /\ inbox' = [inbox EXCEPT ![u] = Tail(inbox[u])]
        /\ UNCHANGED <<stored, open, stopped, cpc, cancelRequested, proc, codexTurn, closed>>
    BY <2>1 DEF Received
  <2>3. inbox'[t] = inbox[t] /\ pc'[t] = pc[t]
    BY <1>0, <2>2 DEF CodexTypes
  <2>4. /\ (t \in active' <=> t \in active) /\ phase'[t] = phase[t]
        /\ turnActive'[t] = turnActive[t] /\ pending'[t] = pending[t]
    BY <1>a, <1>6 DEF ReceiveCompletion, ReceiveMessage, FinishTurnForNextMessage, RuntimeStep,
       brokerVars
  <2>5. QED
    BY <2>2, <2>3, <2>4
<1>7. CASE FinishExecution(u)
  <2>1. t \notin Held(u)
    BY DEF Held
  <2>2. QED
    BY <1>0, <1>a, <1>7, <2>1, OtherKillsOther
       DEF FinishExecution, FinishTask, runtimeVars
<1>8. CASE DiscardAfterTurnStart(u)
  <2>1. t \notin Held(u)
    BY DEF Held
  <2>2. QED
    BY <1>0, <1>a, <1>8, <2>1, OtherKillsOther
       DEF DiscardAfterTurnStart, DiscardTask, runtimeVars, brokerVars
<1>9. CASE LaunchCodex(u)
  BY <1>0, <1>9 DEF LaunchCodex, CodexTypes, brokerVars
<1>10. CASE WriteEvent(u) \/ ReportFailure(u)
  BY <1>0, <1>10 DEF WriteEvent, ReportFailure, A2aTypes, brokerVars, codexVars
<1>11. CASE \/ RejectContent(u) \/ OpenThread(u) \/ SendTurnStart(u) \/ TurnStartFails(u)
            \/ TurnStartAnsweredEmpty(u) \/ AnswerFails(u) \/ CallNext(u) \/ ReceiveFails(u)
            \/ WriteStops(u) \/ ExecuteDereferencesNil(u)
  BY <1>0, <1>11 DEF RejectContent, OpenThread, SendTurnStart, TurnStartFails,
     TurnStartAnsweredEmpty, AnswerFails, CallNext, ReceiveFails, WriteStops,
     ExecuteDereferencesNil, brokerVars, codexVars
<1>12. QED
  BY <1>1, <1>2, <1>3, <1>4, <1>5, <1>6, <1>7, <1>8, <1>9, <1>10, <1>11 DEF ExecuteStep

LEMMA OthersCancel ==
  ASSUME ExecutorInv, NEW t \in Tasks, NEW u \in Tasks \ {t}, CancelStep(u)
  PROVE  KeepsTask(t)
<1>0. A2aTypes /\ CancelTypes /\ CodexTypes
  BY TaskTypes
<1> USE DEF KeepsTask, CancelTypes, execVars
<1>1. CASE SendInterrupt(u) \/ InterruptFails(u)
  BY <1>0, <1>1 DEF SendInterrupt, InterruptFails, brokerVars, a2aVars, codexVars
<1>2. CASE AnnounceCanceled(u)
  BY <1>0, <1>2 DEF AnnounceCanceled, A2aTypes, brokerVars, a2aVars, codexVars
<1>3. CASE CleanupCanceled(u)
  <2>1. t \notin Held(u)
    BY DEF Held
  <2>2. QED
    BY <1>0, <1>3, <2>1, OtherKillsOther
       DEF CleanupCanceled, FinishTask, runtimeVars, brokerVars, a2aVars, codexVars
<1>4. QED
  BY <1>1, <1>2, <1>3 DEF CancelStep

LEMMA OthersEnvironment ==
  ASSUME ExecutorInv, NEW t \in Tasks, NEW u \in Tasks \ {t}, Environment(u)
  PROVE  KeepsTask(t)
<1>0. A2aTypes /\ ExecuteTypes /\ CancelTypes /\ CodexTypes
  BY TaskTypes
<1> USE DEF KeepsTask, brokerVars
<1>1. CASE BeginTask(u) \/ ContinueTask(u) \/ BeginCancel(u) \/ ConsumerStops(u)
  BY <1>0, <1>1 DEF BeginTask, ContinueTask, BeginCancel, ConsumerStops, A2aTypes, ExecuteTypes,
     CancelTypes, Go, execVars, cancelVars, codexVars
<1>2. CASE CodexEmits(u)
  BY <1>0, <1>2 DEF CodexEmits, Send, CodexTypes, a2aVars, execVars, cancelVars
<1>3. CASE CodexEndsTurn(u)
  BY <1>0, <1>3 DEF CodexEndsTurn, EndTurn, Send, CodexTypes, a2aVars, execVars, cancelVars
<1>4. CASE CodexCrashes(u)
  BY <1>0, <1>4, OtherKillsOther DEF CodexCrashes, a2aVars, execVars, cancelVars
<1>5. CASE CodexAcceptsTurn(u)
  BY <1>0, <1>5 DEF CodexAcceptsTurn, Go, ExecuteTypes, CodexTypes, a2aVars, cancelVars
<1>6. CASE CodexAnswersInterrupt(u)
  BY <1>0, <1>6 DEF CodexAnswersInterrupt, EndTurn, Send, CodexTypes, CancelTypes, a2aVars,
     execVars, codexVars
<1>7. QED
  BY <1>1, <1>2, <1>3, <1>4, <1>5, <1>6 DEF Environment

LEMMA OthersKeepTask ==
  ASSUME ExecutorInv, NEW t \in Tasks, NEW u \in Tasks \ {t},
         ExecuteStep(u) \/ CancelStep(u) \/ Environment(u)
  PROVE  TaskInv(t)'
<1>1. KeepsTask(t)
  BY OthersExecute, OthersCancel, OthersEnvironment
<1>2. TaskInv(t)
  BY DEF ExecutorInv
<1>3. QED
  BY <1>1, <1>2, KeptTask

----------------------------------------------------------------------------
(* The steps of the task itself, part by part.                               *)

(* queue.Write, spelled out for each of the goroutine's writes.              *)
Wrote(t, from, status, then) ==
  /\ At(t, from) /\ open[t] /\ Go(t, then)
  /\ stored' = [stored EXCEPT ![t] = IF status = "same" THEN @ ELSE status]
  /\ open' = [open EXCEPT ![t] = status \notin Terminal]
  /\ UNCHANGED <<brokerVars, stopped, turnID, cancelVars, codexVars, closed>>

LEMMA WriteCases ==
  ASSUME NEW t \in Tasks, WriteEvent(t)
  PROVE  \/ Wrote(t, "writeWorking", "working", "consume")
         \/ Wrote(t, "writeUpdate", "same", "consume")
         \/ Wrote(t, "writeAsk", "input-required", "park")
         \/ Wrote(t, "writeAskAgain", "input-required", "idle")
         \/ Wrote(t, "writeReady", "input-required", "idle")
         \/ Wrote(t, "writeCanceled", "canceled", "finish")
         \/ Wrote(t, "writeFailed", "failed", "finish")
<1>1. pc[t] \in DOMAIN Writes
  BY DEF WriteEvent
<1>2. DOMAIN Writes = {"writeWorking", "writeUpdate", "writeAsk", "writeAskAgain",
                       "writeReady", "writeCanceled", "writeFailed"}
  BY WriteNames
<1>3. Wrote(t, pc[t], Writes[pc[t]].status, Writes[pc[t]].then)
  BY DEF WriteEvent, Wrote, At
<1>4. QED
  BY <1>1, <1>2, <1>3 DEF Writes

LEMMA HoldExecute ==
  ASSUME ExecutorInv, NEW t \in Tasks, ExecuteStep(t)
  PROVE  HoldInv(t)'
<1>0. ExecuteTypes /\ HoldInv(t)
  BY TaskTypes DEF ExecutorInv, TaskInv
<1>a. /\ client[t] <=> t \in active
      /\ t \in active => phase[t] = "registered"
      /\ At(t, "resolve") => phase[t] = "new"
      /\ pc[t] \in {"launch", "thread", "register"} => phase[t] = "resolved"
      /\ phase \in [Tasks -> Phases]
  BY TaskFacts
<1> USE DEF HoldInv, Holding, At, Go, ExecuteTypes
<1>1. CASE \/ RejectContent(t) \/ LaunchCodex(t) \/ OpenThread(t) \/ SendTurnStart(t)
           \/ TurnStartFails(t) \/ TurnStartAnsweredEmpty(t) \/ AnswerFails(t)
           \/ CallNext(t) \/ ReceiveFails(t) \/ ReportFailure(t)
  BY <1>0, <1>a, <1>1 DEF RejectContent, LaunchCodex, OpenThread, SendTurnStart, TurnStartFails,
     TurnStartAnsweredEmpty, AnswerFails, CallNext, ReceiveFails, ReportFailure, brokerVars
<1>2. CASE ResolveBase(t)
  BY <1>0, <1>a, <1>2 DEF ResolveBase, Resolve, ResolveRejected
<1>3. CASE StartTaskFails(t)
  BY <1>0, <1>a, <1>3 DEF StartTaskFails, StartFails
<1>4. CASE Register(t)
  <2>1. pc'[t] = "turnStart" /\ phase'[t] = "registered" /\ t \in active'
    BY <1>0, <1>a, <1>4 DEF Register, RegisterTask
  <2>2. QED
    BY <2>1
<1>5. CASE AcknowledgeTurn(t) \/ SendAnswer(t) \/ ReceiveCompletion(t) \/ Park(t)
  BY <1>0, <1>a, <1>5 DEF AcknowledgeTurn, SendAnswer, ReceiveCompletion, Received, Park, StartTurn,
     ClearPending, FinishTurnForNextMessage, SetPending, RuntimeStep
<1>6. CASE ReceiveMessage(t)
  BY <1>0, <1>6 DEF ReceiveMessage, Received, brokerVars
<1>7. CASE DiscardAfterTurnStart(t)
  BY <1>0, <1>7 DEF DiscardAfterTurnStart, DiscardTask, brokerVars
<1>8. CASE FinishExecution(t)
  BY <1>0, <1>8 DEF FinishExecution, FinishTask
<1>9. CASE WriteEvent(t)
  BY <1>0, <1>9, WriteCases DEF Wrote, brokerVars
<1>10. CASE WriteStops(t)
  BY <1>0, <1>10 DEF WriteStops, brokerVars
<1>11. CASE ExecuteDereferencesNil(t)
  BY <1>0, <1>a, <1>11 DEF ExecuteDereferencesNil, brokerVars
<1>12. QED
  BY <1>1, <1>2, <1>3, <1>4, <1>5, <1>6, <1>7, <1>8, <1>9, <1>10, <1>11 DEF ExecuteStep

LEMMA HoldOther ==
  ASSUME ExecutorInv, NEW t \in Tasks, CancelStep(t) \/ Environment(t) \/ CloseExecutor
  PROVE  HoldInv(t)'
<1>0. ExecuteTypes /\ HoldInv(t)
  BY TaskTypes DEF ExecutorInv, TaskInv
<1>a. (client[t] <=> t \in active) /\ (t \in active => phase[t] = "registered")
  BY TaskFacts
<1> USE DEF HoldInv, Holding, At
<1>1. CASE BeginTask(t) \/ ContinueTask(t) \/ CodexAcceptsTurn(t)
  BY <1>0, <1>a, <1>1 DEF BeginTask, ContinueTask, CodexAcceptsTurn, Go, ExecuteTypes, brokerVars
<1>2. CASE CleanupCanceled(t)
  BY <1>0, <1>2 DEF CleanupCanceled, Panics, FinishTask, execVars, brokerVars
<1>3. CASE \/ SendInterrupt(t) \/ InterruptFails(t) \/ AnnounceCanceled(t) \/ BeginCancel(t)
           \/ ConsumerStops(t) \/ CodexEmits(t) \/ CodexEndsTurn(t) \/ CodexCrashes(t)
           \/ CodexAnswersInterrupt(t)
  BY <1>0, <1>3 DEF SendInterrupt, InterruptFails, AnnounceCanceled, BeginCancel, ConsumerStops,
     CodexEmits, CodexEndsTurn, CodexCrashes, CodexAnswersInterrupt, execVars, brokerVars
<1>4. CASE CloseExecutor
  BY <1>0, <1>4 DEF CloseExecutor, CloseBroker, execVars
<1>5. QED
  BY <1>1, <1>2, <1>3, <1>4 DEF CancelStep, Environment

(* Steps that leave the status, the stream and the cancel of the task alone  *)
(* and whose goroutine neither pauses, nor comes to rest, nor starts.        *)
LEMMA RecordKept ==
  ASSUME ExecutorInv, NEW t \in Tasks, NEW to, Go(t, to), pc[t] # "idle",
         to \notin {"park", "finish", "idle"},
         UNCHANGED <<a2aVars, cancelVars>>
  PROVE  RecordInv(t)'
BY TaskTypes DEF ExecutorInv, TaskInv, RecordInv, ExecuteTypes, Go, At, Quiet, a2aVars, cancelVars

LEMMA RecordExecute ==
  ASSUME ExecutorInv, NEW t \in Tasks, ExecuteStep(t)
  PROVE  RecordInv(t)'
<1>0. ExecuteTypes /\ A2aTypes /\ CancelTypes /\ RecordInv(t)
  BY TaskTypes DEF ExecutorInv, TaskInv
<1>1. CASE \/ RejectContent(t) \/ LaunchCodex(t) \/ OpenThread(t) \/ SendTurnStart(t)
           \/ TurnStartFails(t) \/ TurnStartAnsweredEmpty(t) \/ AnswerFails(t) \/ SendAnswer(t)
           \/ CallNext(t) \/ ReceiveFails(t) \/ ExecuteDereferencesNil(t)
           \/ StartTaskFails(t) \/ Register(t) \/ DiscardAfterTurnStart(t)
  BY <1>1, RecordKept DEF RejectContent, LaunchCodex, OpenThread, SendTurnStart, TurnStartFails,
     TurnStartAnsweredEmpty, AnswerFails, SendAnswer, CallNext, ReceiveFails,
     ExecuteDereferencesNil, StartTaskFails, Register, DiscardAfterTurnStart, At
<1>2. CASE ResolveBase(t) \/ ReceiveCompletion(t) \/ AcknowledgeTurn(t)
  BY <1>2, RecordKept DEF ResolveBase, ReceiveCompletion, Received, AcknowledgeTurn, At
<1>3. CASE ReceiveMessage(t)
  <2>1. CASE Received(t, "finish") /\ cancelRequested[t]
    BY <1>0, <2>1 DEF Received, RecordInv, ExecuteTypes, Go, At, Quiet, a2aVars, cancelVars
  <2>2. CASE \E to : Received(t, to) /\ to \notin {"park", "finish", "idle"}
    BY <2>2, RecordKept DEF Received, At
  <2>3. QED
    BY <1>3, <2>1, <2>2 DEF ReceiveMessage
<1>4. CASE WriteEvent(t)
  <2> USE DEF Wrote, RecordInv, ExecuteTypes, A2aTypes, Go, At, Quiet, cancelVars, Terminal
  <2>1. CASE Wrote(t, "writeWorking", "working", "consume") \/ Wrote(t, "writeUpdate", "same", "consume")
    BY <1>0, <2>1
  <2>2. CASE Wrote(t, "writeAsk", "input-required", "park")
    BY <1>0, <2>2
  <2>3. CASE \/ Wrote(t, "writeAskAgain", "input-required", "idle")
             \/ Wrote(t, "writeReady", "input-required", "idle")
    BY <1>0, <2>3
  <2>4. CASE Wrote(t, "writeCanceled", "canceled", "finish") \/ Wrote(t, "writeFailed", "failed", "finish")
    BY <1>0, <2>4
  <2>5. QED
    BY <1>4, <2>1, <2>2, <2>3, <2>4, WriteCases
<1>5. CASE WriteStops(t)
  BY <1>5, WriteNames, RecordKept DEF WriteStops
<1>6. CASE Park(t)
  BY <1>0, <1>6 DEF Park, RecordInv, ExecuteTypes, Go, At, Quiet, a2aVars, cancelVars
<1>7. CASE FinishExecution(t)
  BY <1>0, <1>7 DEF FinishExecution, RecordInv, ExecuteTypes, Go, At, Quiet, a2aVars, cancelVars
<1>8. CASE ReportFailure(t)
  BY <1>0, <1>8 DEF ReportFailure, RecordInv, ExecuteTypes, A2aTypes, Go, At, Quiet, cancelVars,
     Terminal
<1>9. QED
  BY <1>1, <1>2, <1>3, <1>4, <1>5, <1>6, <1>7, <1>8 DEF ExecuteStep

LEMMA RecordCancel ==
  ASSUME ExecutorInv, NEW t \in Tasks, CancelStep(t)
  PROVE  RecordInv(t)'
<1>0. ExecuteTypes /\ A2aTypes /\ CancelTypes /\ RecordInv(t)
  BY TaskTypes DEF ExecutorInv, TaskInv
<1> USE DEF RecordInv, Canceling, CancelTypes, At, Quiet, execVars
<1>1. CASE SendInterrupt(t) \/ InterruptFails(t)
  BY <1>0, <1>1 DEF SendInterrupt, InterruptFails, a2aVars
<1>2. CASE AnnounceCanceled(t)
  <2>1. CASE open[t]
    BY <1>0, <1>2, <2>1 DEF AnnounceCanceled, A2aTypes, Terminal, a2aVars
  <2>2. CASE ~ open[t]
    BY <1>0, <1>2, <2>2 DEF AnnounceCanceled, a2aVars
  <2>3. QED
    BY <2>1, <2>2
<1>3. CASE CleanupCanceled(t)
  BY <1>0, <1>3 DEF CleanupCanceled, a2aVars
<1>4. QED
  BY <1>1, <1>2, <1>3 DEF CancelStep

LEMMA RecordEnvironment ==
  ASSUME ExecutorInv, NEW t \in Tasks, Environment(t) \/ CloseExecutor
  PROVE  RecordInv(t)'
<1>0. ExecuteTypes /\ A2aTypes /\ CancelTypes /\ RecordInv(t)
  BY TaskTypes DEF ExecutorInv, TaskInv
<1> USE DEF RecordInv, At, Quiet
<1>1. CASE BeginTask(t)
  BY <1>0, <1>1 DEF BeginTask, Go, A2aTypes, ExecuteTypes, Terminal, cancelVars
<1>2. CASE ContinueTask(t)
  BY <1>0, <1>2 DEF ContinueTask, Go, A2aTypes, ExecuteTypes, cancelVars
<1>3. CASE BeginCancel(t)
  BY <1>0, <1>3 DEF BeginCancel, Canceling, A2aTypes, CancelTypes, execVars
<1>4. CASE ConsumerStops(t)
  BY <1>0, <1>4 DEF ConsumerStops, A2aTypes, cancelVars, execVars
<1>5. CASE CodexAcceptsTurn(t)
  BY <1>0, <1>5 DEF CodexAcceptsTurn, Go, ExecuteTypes, a2aVars, cancelVars
<1>6. CASE CodexAnswersInterrupt(t)
  BY <1>0, <1>6 DEF CodexAnswersInterrupt, Canceling, CancelTypes, a2aVars, execVars
<1>7. CASE CodexEmits(t) \/ CodexEndsTurn(t) \/ CodexCrashes(t) \/ CloseExecutor
  BY <1>0, <1>7 DEF CodexEmits, CodexEndsTurn, CodexCrashes, CloseExecutor, a2aVars, execVars,
     cancelVars
<1>8. QED
  BY <1>1, <1>2, <1>3, <1>4, <1>5, <1>6, <1>7 DEF Environment

LEMMA PauseExecute ==
  ASSUME ExecutorInv, NEW t \in Tasks, ExecuteStep(t)
  PROVE  PauseInv(t)'
<1>0. ExecuteTypes /\ A2aTypes /\ HoldInv(t) /\ RecordInv(t) /\ PauseInv(t)
  BY TaskTypes DEF ExecutorInv, TaskInv
<1>1. ASSUME NEW to, Go(t, to), to \notin {"idle", "park"} PROVE PauseInv(t)'
  BY <1>0, <1>1 DEF PauseInv, ExecuteTypes, Go, At
<1>2. CASE \/ RejectContent(t) \/ LaunchCodex(t) \/ OpenThread(t) \/ SendTurnStart(t)
           \/ TurnStartFails(t) \/ TurnStartAnsweredEmpty(t) \/ AnswerFails(t) \/ SendAnswer(t)
           \/ CallNext(t) \/ ReceiveFails(t) \/ ExecuteDereferencesNil(t)
           \/ StartTaskFails(t) \/ Register(t) \/ DiscardAfterTurnStart(t)
  BY <1>1, <1>2 DEF RejectContent, LaunchCodex, OpenThread, SendTurnStart, TurnStartFails,
     TurnStartAnsweredEmpty, AnswerFails, SendAnswer, CallNext, ReceiveFails,
     ExecuteDereferencesNil, StartTaskFails, Register, DiscardAfterTurnStart
<1>3. CASE ResolveBase(t) \/ ReceiveCompletion(t) \/ AcknowledgeTurn(t) \/ ReceiveMessage(t)
           \/ WriteStops(t)
  BY <1>1, <1>3 DEF ResolveBase, ReceiveCompletion, ReceiveMessage, Received, AcknowledgeTurn,
     WriteStops
<1>4. CASE WriteEvent(t)
  <2> USE DEF Wrote, PauseInv, At, A2aTypes, ExecuteTypes, Go, Terminal
  <2>1. CASE \/ Wrote(t, "writeAskAgain", "input-required", "idle")
             \/ Wrote(t, "writeReady", "input-required", "idle")
             \/ Wrote(t, "writeAsk", "input-required", "park")
    BY <1>0, <2>1 DEF HoldInv, Holding, brokerVars
  <2>2. CASE \E from, status : Wrote(t, from, status, "consume") \/ Wrote(t, from, status, "finish")
    BY <1>1, <2>2
  <2>3. QED
    BY <1>4, <2>1, <2>2, WriteCases
<1>5. CASE Park(t)
  <2>1. /\ At(t, "park") /\ pc'[t] = "idle"
        /\ UNCHANGED <<active, stored, stopped, cpc, cancelRequested, closed>>
    BY <1>0, <1>5 DEF Park, SetPending, RuntimeStep, ExecuteTypes, Go, a2aVars, cancelVars
  <2>2. QED
    BY <1>0, <2>1 DEF PauseInv, HoldInv, Holding, At
<1>6. CASE FinishExecution(t)
  <2>1. CASE At(t, "finish")
    <3>1. t \notin active' /\ UNCHANGED <<stored, cancelRequested>>
      BY <1>6 DEF FinishExecution, FinishTask, a2aVars, cancelVars
    <3>2. QED
      BY <1>0, <2>1, <3>1 DEF PauseInv, RecordInv, Terminal
  <2>2. CASE ~ At(t, "finish")
    BY <1>1, <1>6, <2>2 DEF FinishExecution
  <2>3. QED
    BY <2>1, <2>2
<1>7. CASE ReportFailure(t)
  <2>1. At(t, "report") /\ UNCHANGED <<active, stopped>>
    BY <1>7 DEF ReportFailure, brokerVars
  <2>2. t \notin active'
    BY <1>0, <2>1 DEF HoldInv
  <2>3. stored'[t] = "input-required" => t \in stopped
    BY <1>0, <1>7 DEF ReportFailure, RecordInv, A2aTypes, At, Quiet, Terminal
  <2>4. QED
    BY <2>1, <2>2, <2>3 DEF PauseInv
<1>8. QED
  BY <1>2, <1>3, <1>4, <1>5, <1>6, <1>7 DEF ExecuteStep

LEMMA PauseOther ==
  ASSUME ExecutorInv, NEW t \in Tasks, CancelStep(t) \/ Environment(t) \/ CloseExecutor
  PROVE  PauseInv(t)'
<1>0. ExecuteTypes /\ A2aTypes /\ CancelTypes /\ RecordInv(t) /\ PauseInv(t)
  BY TaskTypes DEF ExecutorInv, TaskInv
<1> USE DEF PauseInv, At
<1>1. CASE BeginTask(t) \/ ContinueTask(t) \/ CodexAcceptsTurn(t)
  BY <1>0, <1>1 DEF BeginTask, ContinueTask, CodexAcceptsTurn, Go, ExecuteTypes
<1>2. CASE SendInterrupt(t) \/ InterruptFails(t) \/ CodexAnswersInterrupt(t)
  BY <1>0, <1>2 DEF SendInterrupt, InterruptFails, CodexAnswersInterrupt, CancelTypes,
     brokerVars, a2aVars, execVars
<1>3. CASE AnnounceCanceled(t)
  <2>1. cpc'[t] = "cleanup" /\ cpc[t] = "announce"
    BY <1>0, <1>3 DEF AnnounceCanceled, CancelTypes
  <2>2. UNCHANGED <<active, pc, cancelRequested, closed, stopped>>
    BY <1>3 DEF AnnounceCanceled, brokerVars, execVars, a2aVars
  <2>3. stored'[t] = "canceled" \/ stored'[t] = stored[t]
    BY <1>0, <1>3 DEF AnnounceCanceled, A2aTypes, a2aVars
  <2>4. QED
    BY <1>0, <2>1, <2>2, <2>3
<1>4. CASE CleanupCanceled(t)
  <2>1. CASE stored[t] = "canceled"
    BY <1>4, <2>1 DEF CleanupCanceled, FinishTask, a2aVars
  <2>2. CASE stored[t] # "canceled"
    BY <1>0, <1>4, <2>2 DEF CleanupCanceled, a2aVars, brokerVars, execVars
  <2>3. QED
    BY <2>1, <2>2
<1>5. CASE BeginCancel(t)
  BY <1>0, <1>5 DEF BeginCancel, CancelTypes, brokerVars, execVars
<1>6. CASE ConsumerStops(t) \/ CodexEmits(t) \/ CodexEndsTurn(t) \/ CodexCrashes(t)
  BY <1>0, <1>6 DEF ConsumerStops, CodexEmits, CodexEndsTurn, CodexCrashes, brokerVars, a2aVars,
     execVars, cancelVars
<1>7. CASE CloseExecutor
  BY <1>0, <1>7 DEF CloseExecutor, CloseBroker, a2aVars, execVars, cancelVars
<1>8. QED
  BY <1>1, <1>2, <1>3, <1>4, <1>5, <1>6, <1>7 DEF CancelStep, Environment

(* The ends of turns in the inbox, when Codex sends and when next returns.   *)
LEMMA EndsAfterSend ==
  ASSUME CodexTypes, NEW t \in Tasks, NEW kind, Send(t, kind)
  PROVE  EndsIn(t)' = EndsIn(t) \cup (IF kind \in TurnEnds THEN {Len(inbox[t]) + 1} ELSE {})
<1> DEFINE m == [kind |-> kind, turn |-> codexTurn[t]]
<1>1. inbox'[t] = Append(inbox[t], m) /\ inbox[t] \in Seq(Messages)
  BY DEF Send, CodexTypes
<1>2. m.kind = kind
  OBVIOUS
<1> HIDE DEF m
<1>3. Len(inbox[t]) \in Nat /\ DOMAIN inbox[t] = 1 .. Len(inbox[t])
  BY <1>1
<1>4. /\ DOMAIN inbox'[t] = DOMAIN inbox[t] \cup {Len(inbox[t]) + 1}
      /\ \A i \in DOMAIN inbox[t] : inbox'[t][i] = inbox[t][i]
      /\ inbox'[t][Len(inbox[t]) + 1] = m
  BY <1>1, <1>3
<1>5. QED
  BY <1>2, <1>3, <1>4 DEF EndsIn

LEMMA EndsAfterReceive ==
  ASSUME CodexTypes, NEW t \in Tasks, NEW to, Received(t, to)
  PROVE  /\ NextKind(t) \in TurnEnds <=> 1 \in EndsIn(t)
         /\ \A i \in EndsIn(t)' : i + 1 \in EndsIn(t) /\ i + 1 # 1
         /\ \A i \in EndsIn(t) : i # 1 => i - 1 \in EndsIn(t)'
<1>1. inbox[t] \in Seq(Messages) /\ inbox[t] # <<>> /\ inbox'[t] = Tail(inbox[t])
  BY DEF Received, CodexTypes
<1>2. Len(inbox[t]) \in Nat /\ DOMAIN inbox[t] = 1 .. Len(inbox[t]) /\ Len(inbox[t]) # 0
  BY <1>1
<1>3. /\ DOMAIN inbox'[t] = 1 .. (Len(inbox[t]) - 1)
      /\ \A i \in 1 .. (Len(inbox[t]) - 1) : inbox'[t][i] = inbox[t][i + 1]
      /\ Head(inbox[t]) = inbox[t][1]
  BY <1>1, <1>2
<1>4. NextKind(t) \in TurnEnds <=> 1 \in EndsIn(t)
  BY <1>2, <1>3 DEF NextKind, EndsIn
<1>5. \A i \in EndsIn(t)' : i + 1 \in EndsIn(t) /\ i + 1 # 1
  BY <1>2, <1>3 DEF EndsIn
<1>6. \A i \in EndsIn(t) : i # 1 => i - 1 \in EndsIn(t)'
  BY <1>2, <1>3 DEF EndsIn
<1>7. QED
  BY <1>4, <1>5, <1>6

(* A message that ends no turn leaves the thread as it was; the one end of a *)
(* turn leaves it at rest.                                                   *)
LEMMA ThreadAfterReceive ==
  ASSUME ExecutorInv, NEW t \in Tasks, NEW to, Received(t, to)
  PROVE  /\ codexTurn'[t] = codexTurn[t] /\ proc'[t] = proc[t]
         /\ codexTurn[t] # 0 => EndsIn(t)' = {}
         /\ \A i, j \in EndsIn(t)' : i = j
         /\ NextKind(t) \notin TurnEnds => (AtRest(t)' <=> AtRest(t))
         /\ NextKind(t) \in TurnEnds => AtRest(t)'
<1>0. CodexTypes /\ ThreadInv(t)
  BY TaskTypes DEF ExecutorInv, TaskInv
<1>1. codexTurn'[t] = codexTurn[t] /\ proc'[t] = proc[t]
  BY DEF Received
<1>2. /\ NextKind(t) \in TurnEnds <=> 1 \in EndsIn(t)
      /\ \A i \in EndsIn(t)' : i + 1 \in EndsIn(t) /\ i + 1 # 1
      /\ \A i \in EndsIn(t) : i # 1 => i - 1 \in EndsIn(t)'
  BY <1>0, EndsAfterReceive
<1>3. EndsIn(t) \subseteq Int /\ EndsIn(t)' \subseteq Int
  <2>1. inbox[t] \in Seq(Messages) /\ inbox[t] # <<>> /\ inbox'[t] = Tail(inbox[t])
    BY <1>0 DEF Received, CodexTypes
  <2>2. inbox'[t] \in Seq(Messages)
    BY <2>1
  <2>3. DOMAIN inbox[t] \subseteq Int /\ DOMAIN inbox'[t] \subseteq Int
    BY <2>1, <2>2
  <2>4. QED
    BY <2>3 DEF EndsIn
<1>4. /\ codexTurn[t] # 0 => EndsIn(t) = {}
      /\ \A i, j \in EndsIn(t) : i = j
  BY <1>0 DEF ThreadInv
<1>5. codexTurn[t] # 0 => EndsIn(t)' = {}
  BY <1>2, <1>4
<1>6. \A i, j \in EndsIn(t)' : i = j
  BY <1>2, <1>3, <1>4
<1>7. NextKind(t) \notin TurnEnds => (EndsIn(t)' = {} <=> EndsIn(t) = {})
  BY <1>2, <1>3
<1>8. NextKind(t) \in TurnEnds => codexTurn[t] = 0 /\ EndsIn(t)' = {}
  BY <1>2, <1>3, <1>4
<1>9. QED
  BY <1>1, <1>5, <1>6, <1>7, <1>8 DEF AtRest

(* Steps that leave the thread and the phase alone.                          *)
LEMMA ThreadKept ==
  ASSUME ExecutorInv, NEW t \in Tasks, NEW to, Go(t, to),
         UNCHANGED <<phase, codexTurn, proc, inbox>>,
         to \in {"turnStart", "turnWait", "writeReady"} => AtRest(t),
         to \in InTurn /\ Running(t) => ~ AtRest(t)
  PROVE  ThreadInv(t)'
<1>0. ExecuteTypes /\ ThreadInv(t)
  BY TaskTypes DEF ExecutorInv, TaskInv
<1>1. EndsIn(t)' = EndsIn(t) /\ pc'[t] = to
  BY <1>0 DEF EndsIn, ExecuteTypes, Go
<1>2. QED
  BY <1>0, <1>1 DEF ThreadInv, AtRest, Running

(* A process that dies takes its turn with it.                               *)
LEMMA ThreadKilled ==
  ASSUME ExecutorInv, NEW t \in Tasks, NEW S, Kill(S),
         phase'[t] \in {"new", "resolved"} => phase[t] \in {"new", "resolved"},
         pc'[t] \notin {"turnStart", "turnWait", "writeReady"} \cup InTurn \/ pc'[t] = pc[t]
  PROVE  ThreadInv(t)'
<1>0. CodexTypes /\ ThreadInv(t)
  BY TaskTypes DEF ExecutorInv, TaskInv
<1>1. inbox' = inbox /\ EndsIn(t)' = EndsIn(t)
  BY DEF Kill, EndsIn
<1>2. CASE t \in S
  <2>1. codexTurn'[t] = 0 /\ proc'[t] # "running"
    BY <1>0, <1>2 DEF Kill, CodexTypes, Running
  <2>2. QED
    BY <1>0, <1>1, <2>1 DEF ThreadInv, AtRest, Running
<1>3. CASE t \notin S
  <2>1. codexTurn'[t] = codexTurn[t] /\ proc'[t] = proc[t]
    BY <1>0, <1>3, OtherKillsOther
  <2>2. QED
    BY <1>0, <1>1, <2>1 DEF ThreadInv, AtRest, Running
<1>4. QED
  BY <1>2, <1>3

LEMMA ThreadExecute ==
  ASSUME ExecutorInv, NEW t \in Tasks, ExecuteStep(t)
  PROVE  ThreadInv(t)'
<1>0. ExecuteTypes /\ CodexTypes /\ ThreadInv(t)
  BY TaskTypes DEF ExecutorInv, TaskInv
<1>a. /\ At(t, "resolve") => phase[t] = "new"
      /\ pc[t] \in {"launch", "thread", "register"} => phase[t] = "resolved"
      /\ phase \in [Tasks -> Phases]
  BY TaskFacts
<1>b. EndsIn(t)' = EndsIn(t) \/ inbox' # inbox
  BY DEF EndsIn
<1>c. inbox[t] = <<>> => EndsIn(t) = {}
  BY <1>0 DEF EndsIn, CodexTypes
<1>1. CASE \/ RejectContent(t) \/ OpenThread(t) \/ SendTurnStart(t) \/ TurnStartFails(t)
           \/ TurnStartAnsweredEmpty(t) \/ AnswerFails(t) \/ CallNext(t) \/ ReceiveFails(t)
           \/ WriteStops(t) \/ ReportFailure(t) \/ ExecuteDereferencesNil(t)
  BY <1>0, <1>1, ThreadKept DEF RejectContent, OpenThread, SendTurnStart, TurnStartFails,
     TurnStartAnsweredEmpty, AnswerFails, CallNext, ReceiveFails, WriteStops, ReportFailure,
     ExecuteDereferencesNil, ThreadInv, InTurn, At, brokerVars, codexVars
<1>2. CASE AcknowledgeTurn(t) \/ SendAnswer(t) \/ Park(t)
  BY <1>0, <1>2, ThreadKept DEF AcknowledgeTurn, SendAnswer, Park, StartTurn, ClearPending,
     SetPending, RuntimeStep, ThreadInv, InTurn, At, codexVars
<1>3. CASE WriteEvent(t)
  BY <1>0, <1>3, ThreadKept, WriteCases DEF Wrote, ThreadInv, InTurn, At, brokerVars, codexVars
<1>4. CASE ResolveBase(t)
  <2>1. phase[t] = "new" /\ phase'[t] \in {"resolved", "failed"} /\ pc'[t] \in {"launch", "report"}
    BY <1>0, <1>a, <1>4 DEF ResolveBase, Resolve, ResolveRejected, Go, ExecuteTypes
  <2>2. UNCHANGED <<proc, codexTurn, inbox>>
    BY <1>4 DEF ResolveBase, codexVars
  <2>3. QED
    BY <1>0, <1>b, <1>c, <2>1, <2>2 DEF ThreadInv, InTurn, AtRest, Running
<1>5. CASE LaunchCodex(t)
  <2>1. phase[t] = "resolved" /\ UNCHANGED <<phase, codexTurn, inbox>> /\ pc'[t] = "thread"
    BY <1>0, <1>a, <1>5 DEF LaunchCodex, Go, At, ExecuteTypes, brokerVars
  <2>2. QED
    BY <1>0, <1>b, <1>c, <2>1 DEF ThreadInv, InTurn, AtRest
<1>6. CASE Register(t)
  <2>1. phase[t] = "resolved" /\ phase'[t] = "registered" /\ pc'[t] = "turnStart"
    BY <1>0, <1>a, <1>6 DEF Register, RegisterTask, Go, ExecuteTypes
  <2>2. UNCHANGED <<proc, codexTurn, inbox>>
    BY <1>6 DEF Register, codexVars
  <2>3. QED
    BY <1>0, <1>b, <1>c, <2>1, <2>2 DEF ThreadInv, InTurn, AtRest, Running
<1>7. CASE StartTaskFails(t)
  <2>1. Kill({t}) /\ phase'[t] = "failed" /\ pc'[t] = "report"
    BY <1>0, <1>a, <1>7 DEF StartTaskFails, StartFails, Go, ExecuteTypes
  <2>2. QED
    BY <2>1, ThreadKilled DEF InTurn
<1>8. CASE DiscardAfterTurnStart(t)
  <2>1. Kill(Held(t)) /\ (phase'[t] = "discarded" \/ phase' = phase) /\ pc'[t] = "report"
    BY <1>0, <1>a, <1>8 DEF DiscardAfterTurnStart, DiscardTask, brokerVars, Go, ExecuteTypes
  <2>2. QED
    BY <2>1, ThreadKilled DEF InTurn
<1>9. CASE FinishExecution(t)
  <2>1. Kill(Held(t)) /\ phase' = phase /\ pc'[t] \in {"idle", "report", "yieldAfterStop"}
    BY <1>0, <1>9 DEF FinishExecution, FinishTask, Go, ExecuteTypes
  <2>2. QED
    BY <2>1, ThreadKilled DEF InTurn
<1>10. CASE ReceiveMessage(t)
  <2>1. PICK to \in {"writeUpdate", "consume", "writeAsk", "failing", "writeFailed",
                     "writeCanceled", "finish"} :
          /\ Received(t, to)
          /\ to \in {"writeUpdate", "consume", "writeAsk"} => NextKind(t) \in {"update", "ask"}
    BY <1>10 DEF ReceiveMessage
  <2>2. At(t, "next") /\ phase' = phase /\ pc'[t] = to /\ inbox[t] # <<>>
    BY <1>0, <1>10, <2>1 DEF ReceiveMessage, Received, brokerVars, Go, ExecuteTypes
  <2>3. to \in InTurn => NextKind(t) \notin TurnEnds
    BY <2>1 DEF InTurn, TurnEnds
  <2>4. /\ codexTurn'[t] = codexTurn[t] /\ proc'[t] = proc[t]
        /\ codexTurn[t] # 0 => EndsIn(t)' = {}
        /\ \A i, j \in EndsIn(t)' : i = j
        /\ NextKind(t) \notin TurnEnds => (AtRest(t)' <=> AtRest(t))
    BY <2>1, ThreadAfterReceive
  <2>5. phase[t] \notin {"new", "resolved"} /\ (Running(t) => ~ AtRest(t))
    BY <1>0, <2>2 DEF ThreadInv, InTurn, At
  <2>6. Running(t)' <=> Running(t)
    BY <2>4 DEF Running
  <2>7. (to \in InTurn /\ Running(t)) => ~ AtRest(t)'
    BY <2>3, <2>4, <2>5
  <2>8. QED
    BY <1>0, <2>1, <2>2, <2>4, <2>5, <2>6, <2>7 DEF ThreadInv
<1>11. CASE ReceiveCompletion(t)
  <2>1. /\ Received(t, "writeReady") /\ NextKind(t) \in TurnEnds
        /\ phase[t] = "registered" /\ phase' = phase
    BY <1>11 DEF ReceiveCompletion, FinishTurnForNextMessage, RuntimeStep, TurnEnds
  <2>2. pc'[t] = "writeReady"
    BY <1>0, <2>1 DEF Received, Go, ExecuteTypes
  <2>3. /\ codexTurn'[t] = codexTurn[t] /\ proc'[t] = proc[t]
        /\ codexTurn[t] # 0 => EndsIn(t)' = {}
        /\ \A i, j \in EndsIn(t)' : i = j
        /\ AtRest(t)'
    BY <2>1, ThreadAfterReceive
  <2>4. QED
    BY <1>0, <2>1, <2>2, <2>3 DEF ThreadInv, InTurn, Running
<1>12. QED
  BY <1>1, <1>2, <1>3, <1>4, <1>5, <1>6, <1>7, <1>8, <1>9, <1>10, <1>11 DEF ExecuteStep

(* The end of a running turn goes into an inbox that holds no other end.     *)
LEMMA ThreadEnds ==
  ASSUME ExecutorInv, NEW t \in Tasks, NEW kind \in TurnEnds, EndTurn(t, kind),
         UNCHANGED <<pc, phase>>
  PROVE  ThreadInv(t)'
<1>0. CodexTypes /\ ThreadInv(t)
  BY TaskTypes DEF ExecutorInv, TaskInv
<1>1. codexTurn[t] # 0 /\ codexTurn'[t] = 0 /\ UNCHANGED proc
  BY <1>0 DEF EndTurn, CodexTypes
<1>2. EndsIn(t)' = EndsIn(t) \cup {Len(inbox[t]) + 1}
  BY <1>0, EndsAfterSend DEF EndTurn
<1>3. EndsIn(t) = {} /\ ~ AtRest(t)
  BY <1>0, <1>1 DEF ThreadInv, AtRest
<1>4. ~ AtRest(t)'
  BY <1>2 DEF AtRest
<1>5. phase[t] \notin {"new", "resolved"}
  BY <1>0, <1>1 DEF ThreadInv
<1>6. QED
  BY <1>0, <1>1, <1>2, <1>3, <1>4, <1>5 DEF ThreadInv

LEMMA ThreadOther ==
  ASSUME ExecutorInv, NEW t \in Tasks, CancelStep(t) \/ Environment(t) \/ CloseExecutor
  PROVE  ThreadInv(t)'
<1>0. ExecuteTypes /\ CodexTypes /\ HoldInv(t) /\ ThreadInv(t) /\ FlagInv(t)
  BY TaskTypes DEF ExecutorInv, TaskInv
<1>a. client[t] <=> t \in active
  BY TaskFacts
<1>1. ASSUME UNCHANGED <<pc, phase, codexTurn, proc, inbox>> PROVE ThreadInv(t)'
  <2>1. EndsIn(t)' = EndsIn(t)
    BY <1>1 DEF EndsIn
  <2>2. QED
    BY <1>0, <1>1, <2>1 DEF ThreadInv, AtRest, Running
<1>2. CASE \/ SendInterrupt(t) \/ InterruptFails(t) \/ AnnounceCanceled(t) \/ BeginCancel(t)
           \/ ConsumerStops(t)
  BY <1>1, <1>2 DEF SendInterrupt, InterruptFails, AnnounceCanceled, BeginCancel, ConsumerStops,
     brokerVars, execVars, codexVars
<1>3. CASE CleanupCanceled(t)
  <2>1. CASE UNCHANGED <<brokerVars, codexVars>>
    BY <1>1, <1>3, <2>1 DEF CleanupCanceled, brokerVars, codexVars, execVars
  <2>2. CASE FinishTask(t) /\ Kill(Held(t))
    BY <1>3, <2>2, ThreadKilled DEF CleanupCanceled, FinishTask, execVars
  <2>3. QED
    BY <1>3, <2>1, <2>2 DEF CleanupCanceled
<1>4. CASE CodexCrashes(t) \/ CloseExecutor
  <2>1. UNCHANGED <<pc, phase>> /\ \E S : Kill(S)
    BY <1>4 DEF CodexCrashes, CloseExecutor, CloseBroker, brokerVars, execVars
  <2>2. QED
    BY <2>1, ThreadKilled
<1>5. CASE BeginTask(t)
  BY <1>5, ThreadKept DEF BeginTask, InTurn, brokerVars, codexVars
<1>6. CASE ContinueTask(t)
  <2>1. PICK to : /\ Go(t, to)
                  /\ \/ to = "failing"
                     \/ to \in {"respond", "writeAskAgain"} /\ t \in active /\ pending[t]
                     \/ to = "turnStart" /\ t \in active /\ ~ pending[t]
    BY <1>6 DEF ContinueTask
  <2>2. At(t, "idle") /\ UNCHANGED <<phase, codexTurn, proc, inbox>>
    BY <1>6 DEF ContinueTask, brokerVars, codexVars
  <2>3. /\ to \in {"turnStart", "turnWait", "writeReady"} => AtRest(t)
        /\ to \in InTurn /\ Running(t) => ~ AtRest(t)
    BY <1>0, <2>1, <2>2 DEF FlagInv, InTurn
  <2>4. QED
    BY <2>1, <2>2, <2>3, ThreadKept
<1>7. CASE CodexAcceptsTurn(t)
  <2>1. /\ At(t, "turnWait") /\ Running(t) /\ pc'[t] = "turnAck"
        /\ UNCHANGED <<phase, proc, inbox>>
    BY <1>0, <1>7 DEF CodexAcceptsTurn, Go, ExecuteTypes, brokerVars
  <2>2. codexTurn'[t] = turnNo[t] + 1 /\ turnNo[t] \in Nat
    BY <1>0, <1>7 DEF CodexAcceptsTurn, CodexTypes
  <2>3. codexTurn'[t] # 0
    BY <2>2
  <2>4. EndsIn(t) = {} /\ EndsIn(t)' = EndsIn(t)
    BY <1>0, <2>1 DEF ThreadInv, At, AtRest, EndsIn
  <2>5. phase[t] \notin {"new", "resolved"}
    BY <1>0, <2>1 DEF HoldInv, Holding, At
  <2>6. QED
    BY <1>0, <2>1, <2>3, <2>4, <2>5 DEF ThreadInv, AtRest, Running
<1>8. CASE CodexEmits(t)
  <2>1. PICK kind \in {"update", "unusable", "ask"} : Send(t, kind)
    BY <1>8 DEF CodexEmits
  <2>2. UNCHANGED <<pc, phase, codexTurn, proc>> /\ codexTurn[t] # 0
    BY <1>8 DEF CodexEmits, brokerVars, execVars
  <2>3. EndsIn(t)' = EndsIn(t)
    BY <1>0, <2>1, EndsAfterSend DEF TurnEnds
  <2>4. phase[t] \notin {"new", "resolved"}
    BY <1>0, <2>2 DEF ThreadInv
  <2>5. QED
    BY <1>0, <2>2, <2>3, <2>4 DEF ThreadInv, AtRest, Running
<1>9. CASE CodexEndsTurn(t)
  BY <1>9, ThreadEnds DEF CodexEndsTurn, brokerVars, execVars
<1>10. CASE CodexAnswersInterrupt(t)
  <2>1. CASE EndTurn(t, "interrupted")
    BY <1>10, <2>1, ThreadEnds DEF CodexAnswersInterrupt, TurnEnds, brokerVars, execVars
  <2>2. CASE UNCHANGED codexVars
    BY <1>1, <1>10, <2>2 DEF CodexAnswersInterrupt, codexVars, brokerVars, execVars
  <2>3. QED
    BY <1>10, <2>1, <2>2 DEF CodexAnswersInterrupt
<1>11. QED
  BY <1>2, <1>3, <1>4, <1>5, <1>6, <1>7, <1>8, <1>9, <1>10 DEF CancelStep, Environment

(* Steps after which the goroutine neither pauses nor is about to.           *)
LEMMA FlagKept ==
  ASSUME ExecutorInv, NEW t \in Tasks, NEW to, Go(t, to),
         to \notin {"writeReady", "writeAskAgain", "idle"},
         codexTurn'[t] # 0 /\ t \in active' =>
           \/ to \in {"turnAck", "discard"}
           \/ turnActive'[t]
           \/ /\ codexTurn[t] # 0 /\ t \in active
              /\ pc[t] \notin {"turnAck", "discard"} /\ turnActive'[t] = turnActive[t]
  PROVE  FlagInv(t)'
<1>0. ExecuteTypes /\ FlagInv(t)
  BY TaskTypes DEF ExecutorInv, TaskInv
<1>1. pc'[t] = to
  BY <1>0 DEF Go, ExecuteTypes
<1>2. codexTurn'[t] # 0 /\ t \in active' => turnActive'[t] \/ to \in {"turnAck", "discard"}
  BY <1>0 DEF FlagInv
<1>3. QED
  BY <1>1, <1>2 DEF FlagInv, At

LEMMA FlagExecute ==
  ASSUME ExecutorInv, NEW t \in Tasks, ExecuteStep(t)
  PROVE  FlagInv(t)'
<1>0. ExecuteTypes /\ CodexTypes /\ HoldInv(t) /\ ThreadInv(t) /\ FlagInv(t)
  BY TaskTypes DEF ExecutorInv, TaskInv
<1>a. /\ pc[t] \in {"launch", "thread", "register"} => phase[t] = "resolved"
      /\ turnActive \in [Tasks -> BOOLEAN] /\ pending \in [Tasks -> BOOLEAN]
  BY TaskFacts
<1>1. CASE \/ RejectContent(t) \/ OpenThread(t) \/ LaunchCodex(t) \/ SendTurnStart(t)
           \/ TurnStartFails(t) \/ AnswerFails(t) \/ CallNext(t) \/ ReceiveFails(t)
           \/ ExecuteDereferencesNil(t)
  BY <1>1, FlagKept DEF RejectContent, OpenThread, LaunchCodex, SendTurnStart, TurnStartFails,
     AnswerFails, CallNext, ReceiveFails, ExecuteDereferencesNil, At, brokerVars, codexVars
<1>2. CASE ResolveBase(t)
  BY <1>2, FlagKept DEF ResolveBase, Resolve, ResolveRejected, At, runtimeVars, codexVars
<1>3. CASE StartTaskFails(t)
  <2>1. Go(t, "report") /\ codexTurn'[t] = 0
    BY <1>3 DEF StartTaskFails, Kill
  <2>2. QED
    BY <2>1, FlagKept
<1>4. CASE Register(t)
  <2>1. Go(t, "turnStart") /\ codexTurn'[t] = codexTurn[t] /\ phase[t] = "resolved"
    BY <1>4 DEF Register, RegisterTask, codexVars
  <2>2. codexTurn'[t] = 0
    BY <1>0, <2>1 DEF ThreadInv
  <2>3. QED
    BY <2>1, <2>2, FlagKept
<1>5. CASE TurnStartAnsweredEmpty(t)
  <2>1. Go(t, "turnAckEmpty") /\ codexTurn'[t] = codexTurn[t] /\ ~ Running(t)
    BY <1>5 DEF TurnStartAnsweredEmpty, codexVars
  <2>2. codexTurn'[t] = 0
    BY <1>0, <2>1 DEF ThreadInv
  <2>3. QED
    BY <2>1, <2>2, FlagKept
<1>6. CASE AcknowledgeTurn(t)
  <2>1. Go(t, "writeWorking") /\ turnActive'[t]
    BY <1>a, <1>6 DEF AcknowledgeTurn, StartTurn
  <2>2. QED
    BY <2>1, FlagKept
<1>7. CASE DiscardAfterTurnStart(t)
  <2>1. Go(t, "report") /\ t \notin active'
    BY <1>7 DEF DiscardAfterTurnStart, DiscardTask, brokerVars
  <2>2. QED
    BY <2>1, FlagKept
<1>8. CASE SendAnswer(t)
  BY <1>8, FlagKept DEF SendAnswer, ClearPending, RuntimeStep, At
<1>9. CASE ReceiveMessage(t)
  <2>1. PICK to \in {"writeUpdate", "consume", "writeAsk", "failing", "writeFailed",
                     "writeCanceled", "finish"} : Received(t, to)
    BY <1>9 DEF ReceiveMessage
  <2>2. QED
    BY <1>9, <2>1, FlagKept DEF ReceiveMessage, Received, At, brokerVars
<1>10. CASE ReceiveCompletion(t)
  <2>1. /\ Received(t, "writeReady") /\ NextKind(t) \in TurnEnds
        /\ ~ turnActive'[t] /\ ~ pending'[t]
    BY <1>a, <1>10 DEF ReceiveCompletion, FinishTurnForNextMessage, TurnEnds
  <2>2. pc'[t] = "writeReady"
    BY <1>0, <2>1 DEF Received, Go, ExecuteTypes
  <2>3. AtRest(t)'
    BY <2>1, ThreadAfterReceive
  <2>4. QED
    BY <2>1, <2>2, <2>3 DEF FlagInv, At, AtRest
<1>11. CASE WriteEvent(t)
  <2>1. CASE \/ Wrote(t, "writeWorking", "working", "consume")
             \/ Wrote(t, "writeUpdate", "same", "consume")
             \/ Wrote(t, "writeAsk", "input-required", "park")
             \/ Wrote(t, "writeCanceled", "canceled", "finish")
             \/ Wrote(t, "writeFailed", "failed", "finish")
    BY <2>1, FlagKept DEF Wrote, At, brokerVars, codexVars
  <2>2. ASSUME NEW from \in {"writeAskAgain", "writeReady"},
               Wrote(t, from, "input-required", "idle")
        PROVE  FlagInv(t)'
    <3>1. /\ At(t, from) /\ pc'[t] = "idle"
          /\ UNCHANGED <<active, turnActive, pending, proc, codexTurn, inbox>>
      BY <1>0, <2>2 DEF Wrote, Go, ExecuteTypes, brokerVars, codexVars
    <3>2. EndsIn(t)' = EndsIn(t)
      BY <3>1 DEF EndsIn
    <3>3. QED
      BY <1>0, <3>1, <3>2 DEF FlagInv, ThreadInv, InTurn, At, AtRest, Running
  <2>3. QED
    BY <1>11, <2>1, <2>2, WriteCases
<1>12. CASE WriteStops(t)
  BY <1>12, FlagKept, WriteNames DEF WriteStops, At, brokerVars, codexVars
<1>13. CASE Park(t)
  <2>1. /\ At(t, "park") /\ pc'[t] = "idle" /\ pending'[t]
        /\ UNCHANGED <<active, turnActive, proc, codexTurn, inbox>>
    BY <1>0, <1>a, <1>13 DEF Park, SetPending, RuntimeStep, Go, ExecuteTypes, codexVars
  <2>2. EndsIn(t)' = EndsIn(t)
    BY <2>1 DEF EndsIn
  <2>3. QED
    BY <1>0, <2>1, <2>2 DEF FlagInv, ThreadInv, InTurn, At, AtRest, Running
<1>14. CASE FinishExecution(t)
  <2>1. t \notin active' /\ pc'[t] \in {"idle", "report", "yieldAfterStop"}
    BY <1>0, <1>14 DEF FinishExecution, FinishTask, Go, ExecuteTypes
  <2>2. QED
    BY <2>1 DEF FlagInv, At
<1>15. CASE ReportFailure(t)
  <2>1. t \notin active' /\ pc'[t] = "idle"
    BY <1>0, <1>15 DEF ReportFailure, HoldInv, Go, ExecuteTypes, brokerVars
  <2>2. QED
    BY <2>1 DEF FlagInv, At
<1>16. QED
  BY <1>1, <1>2, <1>3, <1>4, <1>5, <1>6, <1>7, <1>8, <1>9, <1>10, <1>11, <1>12, <1>13, <1>14,
     <1>15 DEF ExecuteStep

(* What a running turn says, and its end, when nobody is reading.            *)
LEMMA FlagSends ==
  ASSUME ExecutorInv, NEW t \in Tasks, codexTurn[t] # 0,
         codexTurn'[t] # 0 \/ EndsIn(t)' # {}, codexTurn'[t] # 0 => codexTurn' = codexTurn,
         UNCHANGED <<brokerVars, pc>>
  PROVE  FlagInv(t)'
<1>1. FlagInv(t) /\ ~ AtRest(t) /\ ~ AtRest(t)'
  BY DEF ExecutorInv, TaskInv, AtRest
<1>2. UNCHANGED <<active, turnActive, pending>>
  BY DEF brokerVars
<1>3. QED
  BY <1>1, <1>2 DEF FlagInv, At

LEMMA FlagOther ==
  ASSUME ExecutorInv, NEW t \in Tasks, CancelStep(t) \/ Environment(t) \/ CloseExecutor
  PROVE  FlagInv(t)'
<1>0. ExecuteTypes /\ CodexTypes /\ HoldInv(t) /\ ThreadInv(t) /\ FlagInv(t)
  BY TaskTypes DEF ExecutorInv, TaskInv
<1>1. ASSUME UNCHANGED <<pc, active, turnActive, pending, codexTurn, proc, inbox>>
      PROVE  FlagInv(t)'
  <2>1. EndsIn(t)' = EndsIn(t)
    BY <1>1 DEF EndsIn
  <2>2. QED
    BY <1>0, <1>1, <2>1 DEF FlagInv, At, AtRest, Running
<1>2. CASE \/ SendInterrupt(t) \/ InterruptFails(t) \/ AnnounceCanceled(t) \/ BeginCancel(t)
           \/ ConsumerStops(t)
  BY <1>1, <1>2 DEF SendInterrupt, InterruptFails, AnnounceCanceled, BeginCancel, ConsumerStops,
     brokerVars, execVars, codexVars
<1>3. CASE CleanupCanceled(t)
  <2>1. CASE UNCHANGED <<brokerVars, codexVars>>
    BY <1>1, <1>3, <2>1 DEF CleanupCanceled, brokerVars, codexVars, execVars
  <2>2. CASE FinishTask(t)
    <3>1. t \notin active' /\ pc[t] \in {"idle"} \cup Panics /\ UNCHANGED pc
      BY <1>3, <2>2 DEF CleanupCanceled, FinishTask, execVars
    <3>2. QED
      BY <3>1 DEF FlagInv, At, Panics
  <2>3. QED
    BY <1>3, <2>1, <2>2 DEF CleanupCanceled
<1>4. CASE CloseExecutor
  <2>1. active' = {} /\ UNCHANGED <<pc, turnActive, pending>>
    BY <1>4 DEF CloseExecutor, CloseBroker, runtimeVars, execVars
  <2>2. QED
    BY <1>0, <2>1 DEF FlagInv, At
<1>5. CASE CodexCrashes(t)
  <2>1. /\ UNCHANGED <<pc, active, turnActive, pending>> /\ inbox' = inbox
        /\ codexTurn'[t] = 0 /\ proc'[t] = "dead"
    BY <1>5 DEF CodexCrashes, Kill, brokerVars, execVars
  <2>2. EndsIn(t)' = EndsIn(t)
    BY <2>1 DEF EndsIn
  <2>3. QED
    BY <1>0, <2>1, <2>2 DEF FlagInv, At, AtRest, Running
<1>6. CASE BeginTask(t)
  BY <1>6, FlagKept DEF BeginTask, At, brokerVars, codexVars
<1>7. CASE ContinueTask(t)
  <2>1. PICK to \in {"failing", "respond", "writeAskAgain", "turnStart"} :
          Go(t, to) /\ (to = "writeAskAgain" => pending[t])
    BY <1>7 DEF ContinueTask
  <2>2. /\ At(t, "idle") /\ pc'[t] = to
        /\ UNCHANGED <<active, turnActive, pending, codexTurn>>
    BY <1>0, <1>7, <2>1 DEF ContinueTask, brokerVars, codexVars, Go, ExecuteTypes
  <2>3. QED
    BY <1>0, <2>1, <2>2 DEF FlagInv, At
<1>8. CASE CodexAcceptsTurn(t)
  <2>1. Go(t, "turnAck")
    BY <1>8 DEF CodexAcceptsTurn
  <2>2. QED
    BY <2>1, FlagKept
<1>9. CASE CodexEmits(t)
  BY <1>9, FlagSends DEF CodexEmits, execVars
<1>10. ASSUME NEW kind \in TurnEnds, EndTurn(t, kind), UNCHANGED <<brokerVars, pc>>
       PROVE  FlagInv(t)'
  <2>1. codexTurn[t] # 0 /\ codexTurn'[t] = 0
    BY <1>0, <1>10 DEF EndTurn, CodexTypes
  <2>2. EndsIn(t)' # {}
    BY <1>0, <1>10, EndsAfterSend DEF EndTurn
  <2>3. QED
    BY <1>10, <2>1, <2>2, FlagSends
<1>11. CASE CodexEndsTurn(t)
  BY <1>10, <1>11 DEF CodexEndsTurn, execVars
<1>12. CASE CodexAnswersInterrupt(t)
  <2>1. CASE EndTurn(t, "interrupted")
    BY <1>10, <1>12, <2>1 DEF CodexAnswersInterrupt, TurnEnds, execVars
  <2>2. CASE UNCHANGED codexVars
    BY <1>1, <1>12, <2>2 DEF CodexAnswersInterrupt, codexVars, brokerVars, execVars
  <2>3. QED
    BY <1>12, <2>1, <2>2 DEF CodexAnswersInterrupt
<1>13. QED
  BY <1>2, <1>3, <1>4, <1>5, <1>6, <1>7, <1>8, <1>9, <1>11, <1>12 DEF CancelStep, Environment

----------------------------------------------------------------------------
(* The invariant.                                                            *)

LEMMA InitTask ==
  ASSUME ExecInit, NEW t \in Tasks
  PROVE  TaskInv(t)
<1>1. /\ pc[t] = "idle" /\ cpc[t] = "idle" /\ stored[t] = "none" /\ ~ cancelRequested[t]
      /\ codexTurn[t] = 0 /\ inbox[t] = <<>> /\ active = {}
  BY DEF ExecInit, BrokerInit
<1>2. EndsIn(t) = {}
  BY <1>1 DEF EndsIn
<1>3. QED
  BY <1>1, <1>2 DEF TaskInv, HoldInv, Holding, RecordInv, PauseInv, ThreadInv, InTurn, FlagInv,
     AtRest, At, Quiet, Terminal

LEMMA TaskStep ==
  ASSUME ExecutorInv, [Next]_vars, NEW t \in Tasks
  PROVE  TaskInv(t)'
<1>1. CASE ExecuteStep(t)
  BY <1>1, HoldExecute, RecordExecute, PauseExecute, ThreadExecute, FlagExecute DEF TaskInv
<1>2. CASE CancelStep(t)
  BY <1>2, HoldOther, RecordCancel, PauseOther, ThreadOther, FlagOther DEF TaskInv
<1>3. CASE Environment(t) \/ CloseExecutor
  BY <1>3, HoldOther, RecordEnvironment, PauseOther, ThreadOther, FlagOther DEF TaskInv
<1>4. CASE \E u \in Tasks \ {t} : ExecuteStep(u) \/ CancelStep(u) \/ Environment(u)
  BY <1>4, OthersKeepTask
<1>5. CASE UNCHANGED vars
  <2>1. KeepsTask(t)
    BY <1>5 DEF vars, brokerVars, a2aVars, execVars, cancelVars, codexVars, KeepsTask
  <2>2. QED
    BY <2>1, KeptTask DEF ExecutorInv
<1>6. QED
  BY <1>1, <1>2, <1>3, <1>4, <1>5 DEF Next

LEMMA ExecutorInvariant == Spec => []ExecutorInv
<1>1. ExecInit => ExecutorInv
  <2>1. ExecInit => BrokerInv
    BY BrokerInitInv DEF ExecInit
  <2>2. ExecInit => A2aTypes /\ ExecuteTypes /\ CancelTypes /\ CodexTypes
    BY ExecutorInitTypes
  <2>3. ExecInit => StartStages /\ NoOrphanProcess
    BY DEF ExecInit, StartStages, NoOrphanProcess, At, Running
  <2>4. QED
    BY <2>1, <2>2, <2>3, InitTask DEF ExecutorInv, OwnerInv
<1>2. ExecutorInv /\ [Next]_vars => ExecutorInv'
  <2> SUFFICES ASSUME ExecutorInv, [Next]_vars PROVE ExecutorInv'
    OBVIOUS
  <2>1. OwnerInv'
    BY OwnerStep DEF ExecutorInv
  <2>2. A2aTypes' /\ CancelTypes'
    BY TaskTypes, A2aTypesStep, CancelTypesStep
  <2>3. \A t \in Tasks : TaskInv(t)'
    BY TaskStep
  <2>4. QED
    BY <2>1, <2>2, <2>3 DEF ExecutorInv
<1>3. QED
  BY <1>1, <1>2, PTL DEF Spec

----------------------------------------------------------------------------
(* What a task can rely on.                                                  *)

(* Whatever fails, is canceled, loses its consumer or is overtaken by Close, *)
(* a task stored as canceled or failed has let go of its runtime and of its  *)
(* process once both goroutines are gone (executor.go:228-230, 735-744).     *)
THEOREM TerminalTasksAreReleased == Spec => []TerminalTaskReleased
<1>1. ExecutorInv => TerminalTaskReleased
  <2> SUFFICES ASSUME ExecutorInv, NEW t \in Tasks, stored[t] \in Terminal, Quiet(t)
               PROVE  t \notin active /\ ~ Running(t)
    BY DEF TerminalTaskReleased
  <2>1. t \notin active
    BY DEF ExecutorInv, TaskInv, PauseInv, Quiet, At
  <2>2. ~ Running(t)
    BY <2>1, TaskFacts DEF Quiet, At, Starting
  <2>3. QED
    BY <2>1, <2>2
<1>2. QED
  BY <1>1, ExecutorInvariant, PTL

(* An execution finds Session.Client cleared only after Close: no cancel, no *)
(* cleanup and no other execution takes it from under it (broker.go:397-398, *)
(* 422, executor.go:735-744).                                                *)
THEOREM ClientsAreLostOnlyToClose == Spec => []ClientLostOnlyToClose
<1>1. ExecutorInv => ClientLostOnlyToClose
  BY DEF ExecutorInv, TaskInv, HoldInv, ClientLostOnlyToClose
<1>2. QED
  BY <1>1, ExecutorInvariant, PTL

(* Unless a consumer goes away, a cancel that found its task ends with the   *)
(* task over, whatever became of its interrupt and of the execution beside   *)
(* it (executor.go:717-733).                                                 *)
THEOREM CancelsAreRecorded == Spec => []CancelRecorded
<1>1. ExecutorInv => CancelRecorded
  BY DEF ExecutorInv, TaskInv, RecordInv, CancelRecorded, Quiet, Canceling
<1>2. QED
  BY <1>1, ExecutorInvariant, PTL

(* Unless a consumer goes away, a task nobody works on waits for input or is *)
(* over (executor.go:76-84, 223-231, 287-289).                               *)
THEOREM TasksAreNotInLimbo == Spec => []NoLimbo
<1>1. ExecutorInv => NoLimbo
  BY DEF ExecutorInv, TaskInv, RecordInv, NoLimbo, Quiet, Canceling
<1>2. QED
  BY <1>1, ExecutorInvariant, PTL

(* A turn is started only on a thread at rest, and the inbox holds no end of *)
(* an older turn that consumeTurn, which compares no turn ids, would take    *)
(* for the end of the new one (README.md:162, executor.go:278-303).          *)
THEOREM TurnsStartOnQuietThreads == Spec => []TurnStartsOnQuietThread
<1>1. ExecutorInv => TurnStartsOnQuietThread
  BY DEF ExecutorInv, TaskInv, ThreadInv, TurnStartsOnQuietThread, AtRest, At
<1>2. QED
  BY <1>1, ExecutorInvariant, PTL

(* The wait of consumeTurn, which has no deadline, always has a turn or the  *)
(* end of one to wait for while Codex is alive (executor.go:193).            *)
THEOREM ConsumersHaveTurns == Spec => []ConsumerHasTurn
<1>1. ExecutorInv => ConsumerHasTurn
  BY DEF ExecutorInv, TaskInv, ThreadInv, InTurn, ConsumerHasTurn, AtRest
<1>2. QED
  BY <1>1, ExecutorInvariant, PTL

(* A turn that the executor knows of keeps its thread from being forked      *)
(* (broker.go:69-87, executor.go:130-148).                                   *)
THEOREM KnownTurnsBlockBranching == Spec => []KnownTurnBlocksBranching
<1>1. ExecutorInv => KnownTurnBlocksBranching
  BY DEF ExecutorInv, TaskInv, FlagInv, KnownTurnBlocksBranching, BlocksBranching
<1>2. QED
  BY <1>1, ExecutorInvariant, PTL

(* A task at rest in input-required, not lost to Close or to a consumer that *)
(* walked away, can be continued: its runtime has a client, and while Codex  *)
(* lives, a pending request has a turn or the end of one behind it and a     *)
(* task without one has no turn (README.md:158, executor.go:104-116,         *)
(* 205-210).                                                                 *)
THEOREM PausedTasksAreResumable == Spec => []PausedTaskIsResumable
<1>1. ExecutorInv => PausedTaskIsResumable
  <2> SUFFICES ASSUME ExecutorInv, NEW t \in Tasks,
                      stored[t] = "input-required", Quiet(t), ~ closed, t \notin stopped
               PROVE  /\ t \in active /\ client[t]
                      /\ Running(t) =>
                           IF pending[t] THEN codexTurn[t] # 0 \/ EndsIn(t) # {}
                           ELSE codexTurn[t] = 0 /\ EndsIn(t) = {} /\ ~ turnActive[t]
    BY DEF PausedTaskIsResumable
  <2>1. RecordInv(t) /\ PauseInv(t) /\ FlagInv(t)
    BY DEF ExecutorInv, TaskInv
  <2>2. ~ cancelRequested[t]
    BY <2>1 DEF RecordInv, Quiet, Canceling, Terminal
  <2>3. t \in active
    BY <2>1, <2>2 DEF PauseInv, Quiet
  <2>4. client[t]
    BY <2>3, TaskFacts
  <2>5. QED
    BY <2>1, <2>3, <2>4 DEF FlagInv, Quiet, AtRest
<1>2. QED
  BY <1>1, ExecutorInvariant, PTL

----------------------------------------------------------------------------
(* Which turn a message and an interrupt are about.                          *)

(* Where Execute works on the turn it has started, to the write after it.    *)
Reading == {"writeWorking", "writeUpdate", "writeAsk", "writeAskAgain", "writeReady",
            "consume", "next", "park", "respond"}
Waiting(t) == At(t, "idle") /\ t \in active

(* What Codex has sent and nobody has read comes from the last turn, whose   *)
(* end is its last message, and before the next turn all of it was read.     *)
MessageInv(t) ==
  /\ \A i \in DOMAIN inbox[t] : inbox[t][i].turn = turnNo[t]
  /\ \A i \in EndsIn(t) : i = Len(inbox[t])
  /\ pc[t] \in {"turnStart", "turnWait", "writeReady"} => inbox[t] = <<>>
  /\ Waiting(t) /\ ~ pending[t] => inbox[t] = <<>>

(* The turn that runs is the last one, and TurnID names it as soon as the    *)
(* response to turn/start has been read.                                     *)
NameInv(t) ==
  /\ codexTurn[t] \in {0, turnNo[t]}
  /\ turnID[t] <= turnNo[t] /\ aim[t] <= turnNo[t]
  /\ codexTurn[t] # 0 => turnID[t] = codexTurn[t] \/ pc[t] \in {"turnAck", "discard"}
  /\ At(t, "turnAckEmpty") => codexTurn[t] = 0
  /\ pc[t] \in Reading \/ Waiting(t) => turnID[t] \in {0, turnNo[t]}

TurnInv == \A t \in Tasks : MessageInv(t) /\ NameInv(t)

(* Steps that send nothing, read nothing, and name and start no turn.        *)
LEMMA TurnKept ==
  ASSUME NEW t \in Tasks, MessageInv(t), NameInv(t),
         inbox'[t] = inbox[t], turnNo'[t] = turnNo[t], turnID'[t] = turnID[t],
         aim'[t] = aim[t], codexTurn'[t] \in {0, codexTurn[t]},
         pc'[t] \in {"turnStart", "turnWait", "writeReady"} => inbox[t] = <<>>,
         Waiting(t)' /\ ~ pending'[t] => inbox[t] = <<>>,
         codexTurn'[t] # 0 /\ pc[t] \in {"turnAck", "discard"} =>
           pc'[t] \in {"turnAck", "discard"},
         pc'[t] = "turnAckEmpty" => codexTurn'[t] = 0,
         pc'[t] \in Reading \/ Waiting(t)' => pc[t] \in Reading \/ Waiting(t)
  PROVE  MessageInv(t)' /\ NameInv(t)'
<1>1. EndsIn(t)' = EndsIn(t)
  BY DEF EndsIn
<1>2. MessageInv(t)'
  BY <1>1 DEF MessageInv
<1>3. NameInv(t)'
  BY DEF NameInv, At
<1>4. QED
  BY <1>2, <1>3

(* A step of the goroutine that touches neither Codex nor the turn's name.   *)
LEMMA TurnGoes ==
  ASSUME ExecutorInv, NEW t \in Tasks, MessageInv(t), NameInv(t), NEW to, Go(t, to),
         UNCHANGED <<inbox, turnNo, turnID, aim>>, codexTurn'[t] \in {0, codexTurn[t]},
         to \in {"turnStart", "turnWait", "writeReady"} => inbox[t] = <<>>,
         to = "idle" /\ t \in active' =>
           /\ pc[t] \in Reading
           /\ pending'[t] \/ inbox[t] = <<>>,
         pc[t] \in {"turnAck", "discard"} =>
           codexTurn'[t] = 0 \/ to \in {"turnAck", "discard"},
         to = "turnAckEmpty" => codexTurn'[t] = 0,
         to \in Reading => pc[t] \in Reading \/ Waiting(t)
  PROVE  MessageInv(t)' /\ NameInv(t)'
<1>1. pc'[t] = to
  BY TaskTypes DEF ExecuteTypes, Go
<1>2. Waiting(t)' => to = "idle" /\ t \in active'
  BY <1>1 DEF Waiting, At
<1>3. QED
  BY <1>1, <1>2, TurnKept

(* next takes the oldest message; behind the end of a turn there is none.    *)
LEMMA TurnReceives ==
  ASSUME ExecutorInv, NEW t \in Tasks, MessageInv(t), NameInv(t),
         NEW to \in {"writeUpdate", "consume", "writeAsk", "failing", "writeFailed",
                     "writeCanceled", "finish", "writeReady"},
         Received(t, to), to = "writeReady" => NextKind(t) \in TurnEnds
  PROVE  MessageInv(t)' /\ NameInv(t)'
<1>0. ExecuteTypes /\ CodexTypes
  BY TaskTypes
<1>1. /\ inbox[t] \in Seq(Messages) /\ inbox[t] # <<>> /\ inbox'[t] = Tail(inbox[t])
      /\ pc[t] = "next" /\ pc'[t] = to
  BY <1>0 DEF Received, CodexTypes, ExecuteTypes, Go, At
<1>2. UNCHANGED <<turnID, aim, codexTurn, turnNo>>
  BY DEF Received, cancelVars
<1>3. /\ Len(inbox[t]) \in Nat /\ Len(inbox'[t]) = Len(inbox[t]) - 1
      /\ DOMAIN inbox[t] = 1 .. Len(inbox[t])
      /\ DOMAIN inbox'[t] = 1 .. Len(inbox[t]) - 1
      /\ \A i \in DOMAIN inbox'[t] : inbox'[t][i] = inbox[t][i + 1]
  BY <1>1
<1>4. /\ NextKind(t) \in TurnEnds => 1 \in EndsIn(t)
      /\ \A i \in EndsIn(t)' : i + 1 \in EndsIn(t)
  BY <1>0, EndsAfterReceive
<1>5. \A i \in DOMAIN inbox'[t] : i + 1 \in DOMAIN inbox[t]
  BY <1>3
<1>6. \A i \in EndsIn(t)' : i = Len(inbox'[t])
  BY <1>3, <1>4 DEF MessageInv, EndsIn
<1>7. \A i \in DOMAIN inbox'[t] : inbox'[t][i].turn = turnNo[t]
  BY <1>3, <1>5 DEF MessageInv
<1>8. to = "writeReady" => inbox'[t] = <<>>
  <2> SUFFICES ASSUME to = "writeReady" PROVE inbox'[t] = <<>>
    OBVIOUS
  <2>1. Len(inbox[t]) = 1
    BY <1>4 DEF MessageInv
  <2>2. inbox'[t] \in Seq(Messages) /\ Len(inbox'[t]) = 0
    BY <1>1, <1>3, <2>1
  <2>3. QED
    BY <2>2
<1>9. ~ Waiting(t)'
  BY <1>1 DEF Waiting, At
<1>10. MessageInv(t)'
  BY <1>1, <1>2, <1>6, <1>7, <1>8, <1>9 DEF MessageInv
<1>11. NameInv(t)'
  BY <1>1, <1>2, <1>9 DEF NameInv, Reading, At
<1>12. QED
  BY <1>10, <1>11

LEMMA TurnExecute ==
  ASSUME ExecutorInv, ExecutorInv', NEW t \in Tasks, MessageInv(t), NameInv(t), ExecuteStep(t)
  PROVE  MessageInv(t)' /\ NameInv(t)'
<1>0. ExecuteTypes /\ CancelTypes /\ CodexTypes /\ HoldInv(t) /\ ThreadInv(t)
  BY TaskTypes DEF ExecutorInv, TaskInv
<1>a. /\ pc[t] \in {"launch", "thread", "register"} => phase[t] = "resolved"
      /\ pending \in [Tasks -> BOOLEAN]
  BY TaskFacts
<1>b. ~ Running(t) => codexTurn[t] = 0
  BY <1>0 DEF ThreadInv
<1>1. CASE \/ RejectContent(t) \/ OpenThread(t) \/ AnswerFails(t) \/ CallNext(t)
           \/ ReceiveFails(t) \/ ExecuteDereferencesNil(t)
  BY <1>1, TurnGoes DEF RejectContent, OpenThread, AnswerFails, CallNext, ReceiveFails,
     ExecuteDereferencesNil, Reading, At, cancelVars, codexVars
<1>2. CASE SendTurnStart(t)
  <2>1. inbox[t] = <<>>
    BY <1>2 DEF SendTurnStart, MessageInv, At
  <2>2. QED
    BY <1>2, <2>1, TurnGoes DEF SendTurnStart, Reading, At, cancelVars, codexVars
<1>3. CASE TurnStartFails(t)
  BY <1>3, TurnGoes DEF TurnStartFails, Reading, cancelVars, codexVars
<1>4. CASE TurnStartAnsweredEmpty(t)
  BY <1>4, <1>b, TurnGoes DEF TurnStartAnsweredEmpty, Reading, cancelVars, codexVars
<1>5. CASE ResolveBase(t)
  BY <1>5, TurnGoes DEF ResolveBase, Reading, At, cancelVars, codexVars
<1>6. CASE LaunchCodex(t)
  BY <1>6, TurnGoes DEF LaunchCodex, Reading, At, cancelVars
<1>7. CASE StartTaskFails(t)
  <2>1. codexTurn'[t] = 0 /\ inbox' = inbox /\ turnNo' = turnNo
    BY <1>7 DEF StartTaskFails, Kill
  <2>2. QED
    BY <1>7, <2>1, TurnGoes DEF StartTaskFails, Reading, cancelVars
<1>8. CASE Register(t)
  <2>1. inbox[t] = <<>>
    BY <1>0, <1>a, <1>8 DEF Register, At, ThreadInv
  <2>2. QED
    BY <1>8, <2>1, TurnGoes DEF Register, Reading, At, cancelVars, codexVars
<1>9. CASE AcknowledgeTurn(t)
  <2>1. /\ pc[t] \in {"turnAck", "turnAckEmpty"} /\ pc'[t] = "writeWorking"
        /\ turnID'[t] = IF At(t, "turnAck") THEN turnNo[t] ELSE 0
        /\ UNCHANGED <<aim, codexTurn, turnNo, inbox>>
    BY <1>0, <1>9 DEF AcknowledgeTurn, Go, ExecuteTypes, cancelVars, codexVars
  <2>2. EndsIn(t)' = EndsIn(t) /\ ~ Waiting(t)'
    BY <2>1 DEF EndsIn, Waiting, At
  <2>3. MessageInv(t)'
    BY <2>1, <2>2 DEF MessageInv
  <2>4. turnNo[t] \in Nat
    BY <1>0 DEF CodexTypes
  <2>5. NameInv(t)'
    BY <2>1, <2>2, <2>4 DEF NameInv, Reading, At
  <2>6. QED
    BY <2>3, <2>5
<1>10. CASE DiscardAfterTurnStart(t)
  <2>1. t \notin active' /\ pc'[t] = "report" /\ Go(t, "report")
    BY <1>0, <1>10 DEF DiscardAfterTurnStart, DiscardTask, brokerVars, Go, ExecuteTypes
  <2>2. codexTurn'[t] = 0
    <3>1. Running(t)' => pc'[t] \in Starting \/ t \in active'
      BY DEF ExecutorInv, OwnerInv, NoOrphanProcess
    <3>2. codexTurn'[t] # 0 => Running(t)'
      BY DEF ExecutorInv, TaskInv, ThreadInv
    <3>3. QED
      BY <2>1, <3>1, <3>2 DEF Starting
  <2>3. UNCHANGED <<inbox, turnNo, turnID, aim>>
    BY <1>10 DEF DiscardAfterTurnStart, Kill, cancelVars
  <2>4. QED
    BY <2>1, <2>2, <2>3, TurnGoes DEF Reading
<1>11. CASE SendAnswer(t)
  BY <1>11, TurnGoes DEF SendAnswer, Reading, At, cancelVars
<1>12. CASE ReceiveMessage(t)
  <2>1. PICK to \in {"writeUpdate", "consume", "writeAsk", "failing", "writeFailed",
                     "writeCanceled", "finish"} : Received(t, to)
    BY <1>12 DEF ReceiveMessage
  <2>2. QED
    BY <2>1, TurnReceives
<1>13. CASE ReceiveCompletion(t)
  <2>1. Received(t, "writeReady") /\ NextKind(t) \in TurnEnds
    BY <1>13 DEF ReceiveCompletion, TurnEnds
  <2>2. QED
    BY <2>1, TurnReceives
<1>14. CASE WriteEvent(t)
  <2>1. CASE \/ Wrote(t, "writeWorking", "working", "consume")
             \/ Wrote(t, "writeUpdate", "same", "consume")
             \/ Wrote(t, "writeAsk", "input-required", "park")
             \/ Wrote(t, "writeCanceled", "canceled", "finish")
             \/ Wrote(t, "writeFailed", "failed", "finish")
    BY <2>1, TurnGoes DEF Wrote, Reading, At, cancelVars, codexVars
  <2>2. CASE Wrote(t, "writeAskAgain", "input-required", "idle")
    <3>1. pending'[t]
      BY <2>2 DEF Wrote, ExecutorInv, TaskInv, FlagInv, brokerVars
    <3>2. QED
      BY <2>2, <3>1, TurnGoes DEF Wrote, Reading, At, cancelVars, codexVars
  <2>3. CASE Wrote(t, "writeReady", "input-required", "idle")
    <3>1. inbox[t] = <<>>
      BY <2>3 DEF Wrote, MessageInv, At
    <3>2. QED
      BY <2>3, <3>1, TurnGoes DEF Wrote, Reading, At, cancelVars, codexVars
  <2>4. QED
    BY <1>14, <2>1, <2>2, <2>3, WriteCases
<1>15. CASE WriteStops(t)
  BY <1>15, TurnGoes, WriteNames DEF WriteStops, Reading, At, cancelVars, codexVars
<1>16. CASE Park(t)
  <2>1. pending'[t]
    BY <1>a, <1>16 DEF Park, SetPending
  <2>2. QED
    BY <1>16, <2>1, TurnGoes DEF Park, Reading, At, cancelVars, codexVars
<1>17. CASE FinishExecution(t)
  <2>1. PICK to \in {"idle", "report", "yieldAfterStop"} : Go(t, to)
    BY <1>17 DEF FinishExecution
  <2>2. /\ t \notin active' /\ pc[t] \in {"finish", "failing", "stopped"}
        /\ UNCHANGED <<inbox, turnNo, turnID, aim>>
    BY <1>17 DEF FinishExecution, FinishTask, Kill, At, cancelVars
  <2>3. codexTurn'[t] \in {0, codexTurn[t]}
    BY <1>17 DEF FinishExecution, Kill
  <2>4. QED
    BY <2>1, <2>2, <2>3, TurnGoes DEF Reading
<1>18. CASE ReportFailure(t)
  <2>1. t \notin active'
    BY <1>0, <1>18 DEF ReportFailure, HoldInv, brokerVars
  <2>2. QED
    BY <1>18, <2>1, TurnGoes DEF ReportFailure, Reading, At, cancelVars, codexVars
<1>19. QED
  BY <1>1, <1>2, <1>3, <1>4, <1>5, <1>6, <1>7, <1>8, <1>9, <1>10, <1>11, <1>12, <1>13, <1>14,
     <1>15, <1>16, <1>17, <1>18 DEF ExecuteStep

(* Codex speaks for the turn it runs, which is the last one.                 *)
LEMMA TurnSends ==
  ASSUME ExecutorInv, NEW t \in Tasks, MessageInv(t), NameInv(t), codexTurn[t] # 0,
         NEW kind, Send(t, kind),
         kind \in TurnEnds \/ codexTurn'[t] # 0, codexTurn'[t] \in {0, codexTurn[t]},
         UNCHANGED <<brokerVars, execVars, aim, turnNo>>
  PROVE  MessageInv(t)' /\ NameInv(t)'
<1>0. CodexTypes /\ ThreadInv(t) /\ FlagInv(t)
  BY TaskTypes DEF ExecutorInv, TaskInv
<1> DEFINE m == [kind |-> kind, turn |-> codexTurn[t]]
<1>1. inbox'[t] = Append(inbox[t], m) /\ inbox[t] \in Seq(Messages)
  BY <1>0 DEF Send, CodexTypes
<1>2. m.turn = turnNo[t]
  BY DEF NameInv
<1> HIDE DEF m
<1>3. /\ Len(inbox[t]) \in Nat /\ DOMAIN inbox[t] = 1 .. Len(inbox[t])
      /\ Len(inbox'[t]) = Len(inbox[t]) + 1
      /\ DOMAIN inbox'[t] = DOMAIN inbox[t] \cup {Len(inbox[t]) + 1}
      /\ \A i \in DOMAIN inbox[t] : inbox'[t][i] = inbox[t][i]
      /\ inbox'[t][Len(inbox[t]) + 1] = m
  BY <1>1
<1>4. \A i \in DOMAIN inbox'[t] : inbox'[t][i].turn = turnNo'[t]
  BY <1>2, <1>3 DEF MessageInv
<1>5. EndsIn(t) = {}
  BY <1>0 DEF ThreadInv
<1>6. \A i \in EndsIn(t)' : i = Len(inbox'[t])
  BY <1>0, <1>3, <1>5, EndsAfterSend
<1>7. UNCHANGED <<pc, turnID, active, pending>>
  BY DEF brokerVars, execVars
<1>8. pc[t] \notin {"turnStart", "turnWait", "writeReady"} /\ ~ (Waiting(t) /\ ~ pending[t])
  BY <1>0 DEF ThreadInv, FlagInv, AtRest, Waiting
<1>9. MessageInv(t)'
  BY <1>4, <1>6, <1>7, <1>8 DEF MessageInv, Waiting, At
<1>10. NameInv(t)'
  BY <1>7 DEF NameInv, Waiting, At
<1>11. QED
  BY <1>9, <1>10

LEMMA TurnOther ==
  ASSUME ExecutorInv, NEW t \in Tasks, MessageInv(t), NameInv(t),
         CancelStep(t) \/ Environment(t) \/ CloseExecutor
  PROVE  MessageInv(t)' /\ NameInv(t)'
<1>0. ExecuteTypes /\ CancelTypes /\ CodexTypes /\ ThreadInv(t) /\ FlagInv(t)
  BY TaskTypes DEF ExecutorInv, TaskInv
<1>1. ASSUME UNCHANGED <<pc, turnID, turnNo, inbox, pending>>, aim'[t] = aim[t],
             active' \subseteq active, codexTurn'[t] \in {0, codexTurn[t]}
      PROVE  MessageInv(t)' /\ NameInv(t)'
  <2>1. Waiting(t)' => Waiting(t)
    BY <1>1 DEF Waiting, At
  <2>2. QED
    BY <1>1, <2>1, TurnKept DEF MessageInv, NameInv, At
<1>2. CASE InterruptFails(t) \/ AnnounceCanceled(t) \/ BeginCancel(t) \/ ConsumerStops(t)
  BY <1>1, <1>2 DEF InterruptFails, AnnounceCanceled, BeginCancel, ConsumerStops,
     brokerVars, execVars, cancelVars, codexVars
<1>3. CASE SendInterrupt(t)
  <2>1. aim'[t] = aim[t] \/ aim'[t] \in 0 .. turnID[t]
    BY <1>0, <1>3 DEF SendInterrupt, CancelTypes
  <2>2. UNCHANGED <<pc, turnID, active, pending, codexTurn, turnNo, inbox>>
    BY <1>3 DEF SendInterrupt, brokerVars, execVars, codexVars
  <2>3. EndsIn(t)' = EndsIn(t)
    BY <2>2 DEF EndsIn
  <2>4. MessageInv(t)'
    BY <2>2, <2>3 DEF MessageInv, Waiting, At
  <2>5. turnID[t] \in Nat /\ turnNo[t] \in Nat
    BY <1>0 DEF ExecuteTypes, CodexTypes
  <2>6. NameInv(t)'
    BY <2>1, <2>2, <2>5 DEF NameInv, Waiting, At
  <2>7. QED
    BY <2>4, <2>6
<1>4. CASE CleanupCanceled(t)
  BY <1>0, <1>1, <1>4 DEF CleanupCanceled, FinishTask, Kill, brokerVars, runtimeVars, execVars,
     codexVars
<1>5. CASE CloseExecutor
  BY <1>0, <1>1, <1>5 DEF CloseExecutor, CloseBroker, Kill, runtimeVars, execVars, cancelVars
<1>6. CASE CodexCrashes(t)
  BY <1>0, <1>1, <1>6 DEF CodexCrashes, Kill, brokerVars, execVars, cancelVars
<1>7. CASE BeginTask(t)
  BY <1>7, TurnGoes DEF BeginTask, Reading, At, cancelVars, codexVars
<1>8. CASE ContinueTask(t)
  <2>1. PICK to \in {"failing", "respond", "writeAskAgain", "turnStart"} :
          /\ Go(t, to)
          /\ to # "failing" => t \in active
          /\ to = "turnStart" => ~ pending[t]
    BY <1>8 DEF ContinueTask
  <2>2. At(t, "idle") /\ UNCHANGED <<inbox, turnNo, turnID, aim, codexTurn>>
    BY <1>8 DEF ContinueTask, cancelVars, codexVars
  <2>3. to = "turnStart" => inbox[t] = <<>>
    BY <2>1, <2>2 DEF MessageInv, Waiting
  <2>4. QED
    BY <2>1, <2>2, <2>3, TurnGoes DEF Reading, Waiting, At
<1>9. CASE CodexAcceptsTurn(t)
  <2>1. /\ pc[t] = "turnWait" /\ pc'[t] = "turnAck" /\ UNCHANGED <<turnID, aim, inbox>>
        /\ turnNo'[t] = turnNo[t] + 1 /\ codexTurn'[t] = turnNo[t] + 1
    BY <1>0, <1>9 DEF CodexAcceptsTurn, At, Go, ExecuteTypes, CodexTypes, cancelVars
  <2>2. inbox[t] = <<>> /\ EndsIn(t)' = {} /\ ~ Waiting(t)'
    BY <2>1 DEF MessageInv, EndsIn, Waiting, At
  <2>3. MessageInv(t)'
    BY <2>1, <2>2 DEF MessageInv
  <2>4. turnID[t] \in Nat /\ turnNo[t] \in Nat /\ aim[t] \in Nat
    BY <1>0 DEF ExecuteTypes, CodexTypes, CancelTypes
  <2>5. NameInv(t)'
    BY <2>1, <2>2, <2>4 DEF NameInv, Reading, At
  <2>6. QED
    BY <2>3, <2>5
<1>10. CASE CodexEmits(t)
  <2>1. PICK kind : Send(t, kind)
    BY <1>10 DEF CodexEmits
  <2>2. codexTurn[t] # 0 /\ codexTurn' = codexTurn
        /\ UNCHANGED <<brokerVars, execVars, aim, turnNo>>
    BY <1>10 DEF CodexEmits, cancelVars
  <2>3. QED
    BY <2>1, <2>2, TurnSends
<1>11. ASSUME NEW kind \in TurnEnds, EndTurn(t, kind), UNCHANGED <<brokerVars, execVars, aim>>
       PROVE  MessageInv(t)' /\ NameInv(t)'
  <2>1. codexTurn[t] # 0 /\ codexTurn'[t] = 0 /\ Send(t, kind) /\ turnNo' = turnNo
    BY <1>0, <1>11 DEF EndTurn, CodexTypes
  <2>2. QED
    BY <1>11, <2>1, TurnSends
<1>12. CASE CodexEndsTurn(t)
  BY <1>11, <1>12 DEF CodexEndsTurn, cancelVars
<1>13. CASE CodexAnswersInterrupt(t)
  <2>1. CASE EndTurn(t, "interrupted")
    BY <1>11, <1>13, <2>1 DEF CodexAnswersInterrupt, TurnEnds
  <2>2. CASE UNCHANGED codexVars
    BY <1>1, <1>13, <2>2 DEF CodexAnswersInterrupt, codexVars, brokerVars, execVars
  <2>3. QED
    BY <1>13, <2>1, <2>2 DEF CodexAnswersInterrupt
<1>14. QED
  BY <1>2, <1>3, <1>4, <1>5, <1>6, <1>7, <1>8, <1>9, <1>10, <1>12, <1>13 DEF CancelStep, Environment

LEMMA OthersKeepTurn ==
  ASSUME ExecutorInv, NEW t \in Tasks, NEW u \in Tasks \ {t},
         ExecuteStep(u) \/ CancelStep(u) \/ Environment(u)
  PROVE  turnID'[t] = turnID[t] /\ turnNo'[t] = turnNo[t] /\ aim'[t] = aim[t]
<1>0. ExecuteTypes /\ CancelTypes /\ CodexTypes
  BY TaskTypes
<1>1. CASE ExecuteStep(u)
  <2>1. turnNo' = turnNo /\ aim' = aim
    BY <1>1 DEF ExecuteStep, RejectContent, ResolveBase, LaunchCodex, OpenThread, StartTaskFails,
       Register, SendTurnStart, TurnStartFails, TurnStartAnsweredEmpty, AcknowledgeTurn,
       DiscardAfterTurnStart, SendAnswer, AnswerFails, CallNext, ReceiveMessage, ReceiveCompletion,
       ReceiveFails, Received, WriteEvent, WriteStops, Park, FinishExecution, ReportFailure,
       ExecuteDereferencesNil, Kill, cancelVars, codexVars
  <2>2. turnID'[t] = turnID[t]
    <3>1. CASE AcknowledgeTurn(u)
      BY <1>0, <3>1 DEF AcknowledgeTurn, ExecuteTypes
    <3>2. CASE ~ AcknowledgeTurn(u)
      BY <1>1, <3>2 DEF ExecuteStep, RejectContent, ResolveBase, LaunchCodex, OpenThread,
         StartTaskFails, Register, SendTurnStart, TurnStartFails, TurnStartAnsweredEmpty,
         DiscardAfterTurnStart, SendAnswer, AnswerFails, CallNext, ReceiveMessage,
         ReceiveCompletion, ReceiveFails, Received, WriteEvent, WriteStops, Park, FinishExecution,
         ReportFailure, ExecuteDereferencesNil
    <3>3. QED
      BY <3>1, <3>2
  <2>3. QED
    BY <2>1, <2>2
<1>2. CASE CancelStep(u)
  BY <1>0, <1>2 DEF CancelStep, SendInterrupt, InterruptFails, AnnounceCanceled, CleanupCanceled,
     Kill, CancelTypes, execVars, codexVars
<1>3. CASE Environment(u)
  BY <1>0, <1>3 DEF Environment, BeginTask, ContinueTask, BeginCancel, ConsumerStops, CodexEmits,
     CodexEndsTurn, EndTurn, CodexCrashes, Kill, CodexAcceptsTurn, CodexAnswersInterrupt,
     CodexTypes, execVars, cancelVars, codexVars
<1>4. QED
  BY <1>1, <1>2, <1>3

(* What is kept for the task is enough for its turns.                        *)
LEMMA TurnOthers ==
  ASSUME ExecutorInv, NEW t \in Tasks, MessageInv(t), NameInv(t), KeepsTask(t),
         turnID'[t] = turnID[t], turnNo'[t] = turnNo[t], aim'[t] = aim[t]
  PROVE  MessageInv(t)' /\ NameInv(t)'
<1>1. Waiting(t)' <=> Waiting(t)
  BY DEF KeepsTask, Waiting, At
<1>2. /\ pc'[t] = pc[t] /\ pending'[t] = pending[t]
      /\ inbox'[t] = inbox[t] /\ codexTurn'[t] = codexTurn[t]
  BY DEF KeepsTask
<1>3. EndsIn(t)' = EndsIn(t)
  BY <1>2 DEF EndsIn
<1>4. QED
  BY <1>1, <1>2, <1>3 DEF MessageInv, NameInv, At

LEMMA TurnStep ==
  ASSUME ExecutorInv, ExecutorInv', TurnInv, [Next]_vars
  PROVE  TurnInv'
<1> SUFFICES ASSUME NEW t \in Tasks PROVE MessageInv(t)' /\ NameInv(t)'
  BY DEF TurnInv
<1>0. MessageInv(t) /\ NameInv(t)
  BY DEF TurnInv
<1>1. CASE ExecuteStep(t)
  BY <1>0, <1>1, TurnExecute
<1>2. CASE CancelStep(t) \/ Environment(t) \/ CloseExecutor
  BY <1>0, <1>2, TurnOther
<1>3. ASSUME NEW u \in Tasks \ {t}, ExecuteStep(u) \/ CancelStep(u) \/ Environment(u)
      PROVE  MessageInv(t)' /\ NameInv(t)'
  <2>1. KeepsTask(t)
    BY <1>3, OthersExecute, OthersCancel, OthersEnvironment
  <2>2. turnID'[t] = turnID[t] /\ turnNo'[t] = turnNo[t] /\ aim'[t] = aim[t]
    BY <1>3, OthersKeepTurn
  <2>3. QED
    BY <1>0, <2>1, <2>2, TurnOthers
<1>4. CASE UNCHANGED vars
  <2>1. KeepsTask(t) /\ UNCHANGED <<turnID, turnNo, aim>>
    BY <1>4 DEF vars, brokerVars, a2aVars, execVars, cancelVars, codexVars, KeepsTask
  <2>2. QED
    BY <1>0, <2>1, TurnOthers
<1>5. QED
  BY <1>1, <1>2, <1>3, <1>4 DEF Next

LEMMA TurnInvariant == Spec => []TurnInv
<1>1. ExecInit => TurnInv
  <2> SUFFICES ASSUME ExecInit, NEW t \in Tasks PROVE MessageInv(t) /\ NameInv(t)
    BY DEF TurnInv
  <2>1. /\ pc[t] = "idle" /\ inbox[t] = <<>> /\ codexTurn[t] = 0 /\ turnNo[t] = 0
        /\ turnID[t] = 0 /\ aim[t] = 0
    BY DEF ExecInit
  <2>2. EndsIn(t) = {}
    BY <2>1 DEF EndsIn
  <2>3. QED
    BY <2>1, <2>2 DEF MessageInv, NameInv, At
<1>2. ExecutorInv /\ ExecutorInv' /\ TurnInv /\ [Next]_vars => TurnInv'
  BY TurnStep
<1>3. QED
  BY <1>1, <1>2, ExecutorInvariant, PTL DEF Spec

(* Everything Execute can read is about the turn it is working on.           *)
ReaderSeesItsTurn ==
  \A t \in Tasks :
    pc[t] \in {"consume", "next"} /\ turnID[t] # 0 =>
      \A i \in DOMAIN inbox[t] : inbox[t][i].turn = turnID[t]

(* consumeTurn takes whatever the client hands it for its own turn and       *)
(* compares no turn ids (executor.go:193-303).  It need not: through         *)
(* continuations, refused turns, cancels, crashes and Close, every message   *)
(* it can still read carries the id it got from turn/start.                  *)
THEOREM ReadersSeeTheirTurn == Spec => []ReaderSeesItsTurn
<1>1. TurnInv => ReaderSeesItsTurn
  BY DEF TurnInv, MessageInv, NameInv, ReaderSeesItsTurn, Reading
<1>2. QED
  BY <1>1, TurnInvariant, PTL

(* TurnID names the turn that runs, but for the moment between turn/start    *)
(* and startTurn; no turn/interrupt ever names a turn still to come.         *)
RunningTurnIsNamed ==
  \A t \in Tasks :
    /\ codexTurn[t] # 0 => turnID[t] = codexTurn[t] \/ pc[t] \in {"turnAck", "discard"}
    /\ aim[t] <= turnNo[t]

(* A Cancel that finds its task finds the turn to interrupt in TurnID, or    *)
(* the response that carries it has not been read yet; the unlocked read of  *)
(* TurnID can be late, never early (executor.go:136-148, 717-728).           *)
THEOREM RunningTurnsAreNamed == Spec => []RunningTurnIsNamed
<1>1. TurnInv => RunningTurnIsNamed
  BY DEF TurnInv, NameInv, RunningTurnIsNamed
<1>2. QED
  BY <1>1, TurnInvariant, PTL

----------------------------------------------------------------------------
(* What is final.                                                            *)

OutcomeIsFinal ==
  \A t \in Tasks : stored[t] \in Terminal => stored'[t] = stored[t]

LEMMA OutcomeStep ==
  ASSUME ExecutorInv, [Next]_vars
  PROVE  OutcomeIsFinal
<1> SUFFICES ASSUME NEW t \in Tasks, stored[t] \in Terminal
             PROVE  stored'[t] = stored[t]
  BY DEF OutcomeIsFinal
<1>0. A2aTypes /\ ~ open[t]
  BY TaskTypes DEF ExecutorInv, TaskInv, RecordInv
<1>1. CASE ExecuteStep(t)
  <2>1. CASE WriteEvent(t)
    BY <1>0, <2>1 DEF WriteEvent
  <2>2. CASE ReportFailure(t)
    BY <1>0, <2>2 DEF ReportFailure, A2aTypes
  <2>3. CASE ~ WriteEvent(t) /\ ~ ReportFailure(t)
    BY <1>1, <2>3 DEF ExecuteStep, RejectContent, ResolveBase, LaunchCodex, OpenThread,
       StartTaskFails, Register, SendTurnStart, TurnStartFails, TurnStartAnsweredEmpty,
       AcknowledgeTurn, DiscardAfterTurnStart, SendAnswer, AnswerFails, CallNext, ReceiveMessage,
       ReceiveCompletion, ReceiveFails, Received, WriteStops, Park, FinishExecution,
       ExecuteDereferencesNil, a2aVars
  <2>4. QED
    BY <2>1, <2>2, <2>3
<1>2. CASE CancelStep(t)
  BY <1>0, <1>2 DEF CancelStep, SendInterrupt, InterruptFails, AnnounceCanceled, CleanupCanceled,
     a2aVars
<1>3. CASE Environment(t)
  BY <1>3 DEF Environment, BeginTask, ContinueTask, BeginCancel, ConsumerStops, CodexEmits,
     CodexEndsTurn, CodexCrashes, CodexAcceptsTurn, CodexAnswersInterrupt, Terminal, a2aVars
<1>4. ASSUME NEW u \in Tasks \ {t}, ExecuteStep(u) \/ CancelStep(u) \/ Environment(u)
      PROVE  stored'[t] = stored[t]
  BY <1>4, OthersExecute, OthersCancel, OthersEnvironment DEF KeepsTask
<1>5. CASE CloseExecutor \/ UNCHANGED vars
  BY <1>5 DEF CloseExecutor, vars, a2aVars
<1>6. QED
  BY <1>1, <1>2, <1>3, <1>4, <1>5 DEF Next

(* Execute and Cancel both report how a task ended, and so does the error    *)
(* path of executeStream.  Whichever comes first decides: a stored canceled  *)
(* is never overwritten by failed, working or input-required, nor failed by  *)
(* canceled (executor.go:50-63, 717-733).                                    *)
THEOREM OutcomesAreFinal == Spec => [][OutcomeIsFinal]_vars
<1>1. ExecutorInv /\ [Next]_vars => OutcomeIsFinal
  BY OutcomeStep
<1>2. QED
  BY <1>1, ExecutorInvariant, PTL DEF Spec

(* The task has ended and both of its goroutines have returned.              *)
Over(t) == stored[t] \in Terminal /\ Quiet(t)

TasksStayOver ==
  \A t \in Tasks : Over(t) => Over(t)' /\ t \notin active' /\ ~ Running(t)'

LEMMA OverStep ==
  ASSUME ExecutorInv, ExecutorInv', [Next]_vars
  PROVE  TasksStayOver
<1> SUFFICES ASSUME NEW t \in Tasks, Over(t)
             PROVE  Over(t)' /\ t \notin active' /\ ~ Running(t)'
  BY DEF TasksStayOver
<1>0. stored[t] \in Terminal /\ At(t, "idle") /\ cpc[t] = "idle"
  BY DEF Over, Quiet
<1>1. stored'[t] = stored[t]
  BY <1>0, OutcomeStep DEF OutcomeIsFinal
<1>2. ~ Running(t) /\ t \notin active
  BY <1>0, TaskFacts DEF ExecutorInv, TaskInv, PauseInv, At, Starting
<1>3. At(t, "idle")' /\ cpc'[t] = "idle"
  <2>1. CASE ExecuteStep(t)
    <3>1. pc[t] # "idle"
      BY <2>1, WriteNames DEF ExecuteStep, RejectContent, ResolveBase, LaunchCodex, OpenThread,
         StartTaskFails, Register, SendTurnStart, TurnStartFails, TurnStartAnsweredEmpty,
         AcknowledgeTurn, DiscardAfterTurnStart, SendAnswer, AnswerFails, CallNext, ReceiveMessage,
         ReceiveCompletion, ReceiveFails, Received, WriteEvent, WriteStops, Park, FinishExecution,
         ReportFailure, ExecuteDereferencesNil, At
    <3>2. QED
      BY <1>0, <3>1 DEF At
  <2>2. CASE CancelStep(t)
    BY <1>0, <2>2 DEF CancelStep, SendInterrupt, InterruptFails, AnnounceCanceled, CleanupCanceled
  <2>3. CASE Environment(t)
    BY <1>0, <1>2, <2>3 DEF Environment, BeginTask, ContinueTask, BeginCancel, ConsumerStops,
       CodexEmits, CodexEndsTurn, EndTurn, CodexCrashes, CodexAcceptsTurn, CodexAnswersInterrupt,
       At, Terminal
  <2>4. ASSUME NEW u \in Tasks \ {t}, ExecuteStep(u) \/ CancelStep(u) \/ Environment(u)
        PROVE  At(t, "idle")' /\ cpc'[t] = "idle"
    BY <1>0, <2>4, OthersExecute, OthersCancel, OthersEnvironment DEF KeepsTask, At
  <2>5. CASE CloseExecutor \/ UNCHANGED vars
    BY <1>0, <2>5 DEF CloseExecutor, vars, execVars, cancelVars, At
  <2>6. QED
    BY <2>1, <2>2, <2>3, <2>4, <2>5 DEF Next
<1>4. Over(t)'
  BY <1>0, <1>1, <1>3 DEF Over, Quiet
<1>5. t \notin active'
  BY <1>0, <1>1, <1>3 DEF ExecutorInv, TaskInv, PauseInv, At
<1>6. ~ Running(t)'
  BY <1>3, <1>5 DEF ExecutorInv, OwnerInv, NoOrphanProcess, At, Starting
<1>7. QED
  BY <1>4, <1>5, <1>6

(* A task that is over stays over: no message, cancel or late step brings a  *)
(* runtime or a Codex process back to it (executor.go:76-84, 223-231,        *)
(* 735-744).                                                                 *)
THEOREM EndedTasksStayOver == Spec => [][TasksStayOver]_vars
<1>1. ExecutorInv /\ ExecutorInv' /\ [Next]_vars => TasksStayOver
  BY OverStep
<1>2. QED
  BY <1>1, ExecutorInvariant, PTL DEF Spec
=============================================================================
