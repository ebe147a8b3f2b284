--------------------------- MODULE ExecutorProofs ---------------------------
(* Theorems about the executor, for any tasks, contexts and bounds.  Every   *)
(* step of it is a step of the broker or leaves the broker alone, so that    *)
(* what BrokerProofs proves of arbitrary callers holds with the real ones;   *)
(* and no Codex process is ever without an owner.                            *)
EXTENDS Executor, BrokerProofs

USE BoundsAssumption

----------------------------------------------------------------------------
(* The executor and the broker.                                              *)

LEMMA ExecuteStepOnBroker ==
  ASSUME NEW t \in Tasks, ExecuteStep(t)
  PROVE  [BrokerNext]_brokerVars
<1>1. CASE ResolveBase(t)
  BY <1>1 DEF ResolveBase, BrokerNext
<1>2. CASE StartTaskFails(t) \/ Register(t) \/ AcknowledgeTurn(t) \/ SendAnswer(t)
  BY <1>2 DEF StartTaskFails, Register, AcknowledgeTurn, SendAnswer, BrokerNext
<1>3. CASE ReceiveCompletion(t) \/ Park(t) \/ FinishExecution(t) \/ DiscardAfterTurnStart(t)
  BY <1>3 DEF ReceiveCompletion, Park, FinishExecution, DiscardAfterTurnStart, BrokerNext
<1>4. CASE \/ RejectContent(t) \/ LaunchCodex(t) \/ OpenThread(t) \/ SendTurnStart(t)
           \/ TurnStartFails(t) \/ TurnStartAnsweredEmpty(t)
  BY <1>4 DEF RejectContent, LaunchCodex, OpenThread, SendTurnStart, TurnStartFails,
              TurnStartAnsweredEmpty
<1>5. CASE \/ AnswerFails(t) \/ ReceiveMessage(t) \/ CallNext(t) \/ ReceiveFails(t) \/ WriteEvent(t)
           \/ WriteStops(t) \/ ReportFailure(t) \/ ExecuteDereferencesNil(t)
  BY <1>5 DEF AnswerFails, ReceiveMessage, CallNext, ReceiveFails, WriteEvent, WriteStops,
              ReportFailure, ExecuteDereferencesNil
<1>6. QED
  BY <1>1, <1>2, <1>3, <1>4, <1>5 DEF ExecuteStep

LEMMA ExecutorStepOnBroker == [Next]_vars => [BrokerNext]_brokerVars
<1> SUFFICES ASSUME [Next]_vars PROVE [BrokerNext]_brokerVars
  OBVIOUS
<1>1. ASSUME NEW t \in Tasks, ExecuteStep(t) PROVE [BrokerNext]_brokerVars
  BY <1>1, ExecuteStepOnBroker
<1>2. ASSUME NEW t \in Tasks, CancelStep(t) PROVE [BrokerNext]_brokerVars
  BY <1>2 DEF CancelStep, SendInterrupt, InterruptFails, AnnounceCanceled,
              CleanupCanceled, BrokerNext
<1>3. ASSUME NEW t \in Tasks, Environment(t) PROVE UNCHANGED brokerVars
  BY <1>3 DEF Environment, BeginTask, ContinueTask, BeginCancel, ConsumerStops,
              CodexEmits, CodexEndsTurn, CodexCrashes, CodexAcceptsTurn,
              CodexAnswersInterrupt
<1>4. CASE CloseExecutor
  BY <1>4 DEF CloseExecutor, BrokerNext
<1>5. CASE UNCHANGED vars
  BY <1>5 DEF vars
<1>6. QED
  BY <1>1, <1>2, <1>3, <1>4, <1>5 DEF Next

(* Execute, Cancel, Cleanup and Close call the broker only as Broker.tla     *)
(* lets them: a registration follows a resolution, a runtime's method a      *)
(* registration (executor.go:53-233, 717-744).                               *)
THEOREM ExecutorUsesBroker == Spec => BrokerSpec
<1>1. ExecInit => BrokerInit
  BY DEF ExecInit
<1>2. QED
  BY <1>1, ExecutorStepOnBroker, PTL DEF Spec, BrokerSpec

(* With the real callers and a Codex that may die, be canceled or be closed  *)
(* at any moment, the broker still implements the family of threads          *)
(* (broker.go:263-405).                                                      *)
THEOREM ExecutorImplementsForest == Spec => ImplementsForest
BY ExecutorUsesBroker, BrokerImplementsForest

----------------------------------------------------------------------------
(* Types.                                                                    *)

LEMMA WriteNames ==
  /\ DOMAIN Writes = {"writeWorking", "writeUpdate", "writeAsk", "writeAskAgain",
                      "writeReady", "writeCanceled", "writeFailed"}
  /\ \A p \in DOMAIN Writes :
       /\ Writes[p].status \in {"working", "same", "input-required", "canceled", "failed"}
       /\ Writes[p].then \in {"consume", "park", "idle", "finish"}
BY DEF Writes

LEMMA PcNames ==
  /\ ExecPcs = {"idle", "resolve", "launch", "thread", "register", "turnStart", "turnWait",
       "turnAck", "turnAckEmpty", "consume", "next", "park", "respond", "finish", "discard",
       "failing", "stopped", "report", "nilClient", "yieldAfterStop",
       "writeWorking", "writeUpdate", "writeAsk", "writeAskAgain", "writeReady",
       "writeCanceled", "writeFailed"}
BY WriteNames DEF ExecPcs, Starting, Panics

(* The types of the executor's own variables, goroutine by goroutine.        *)
A2aTypes ==
  /\ stored \in [Tasks -> Statuses]
  /\ open \in [Tasks -> BOOLEAN]
  /\ stopped \subseteq Tasks
  /\ closed \in BOOLEAN
ExecuteTypes ==
  /\ pc \in [Tasks -> ExecPcs]
  /\ turnID \in [Tasks -> 0 .. MaxTurns]
CancelTypes ==
  /\ cpc \in [Tasks -> CancelPcs]
  /\ aim \in [Tasks -> 0 .. MaxTurns]
  /\ cancelRequested \in [Tasks -> BOOLEAN]
CodexTypes ==
  /\ proc \in [Tasks -> {"none", "running", "dead"}]
  /\ codexTurn \in [Tasks -> 0 .. MaxTurns]
  /\ turnNo \in [Tasks -> 0 .. MaxTurns]
  /\ asked \in [Tasks -> BOOLEAN]
  /\ inbox \in [Tasks -> Seq(Messages)]
  /\ \A t \in Tasks : Len(inbox[t]) <= InboxCap

LEMMA TypesSplit ==
  ExecTypeOK <=> TypeOK /\ A2aTypes /\ ExecuteTypes /\ CancelTypes /\ CodexTypes
BY DEF ExecTypeOK, A2aTypes, ExecuteTypes, CancelTypes, CodexTypes

LEMMA KillTypes ==
  ASSUME CodexTypes, NEW S, Kill(S)
  PROVE  CodexTypes'
BY DEF CodexTypes, Kill, Running

LEMMA SendTypes ==
  ASSUME CodexTypes, NEW t \in Tasks, NEW kind \in {"update", "ask", "unusable"} \cup TurnEnds,
         codexTurn[t] # 0, Send(t, kind)
  PROVE  /\ inbox' \in [Tasks -> Seq(Messages)]
         /\ \A u \in Tasks : Len(inbox'[u]) <= InboxCap
<1> DEFINE m == [kind |-> kind, turn |-> codexTurn[t]]
<1>1. codexTurn[t] \in 1 .. MaxTurns
  BY DEF CodexTypes
<1>2. m \in Messages
  BY <1>1 DEF Messages
<1>3. inbox' = [inbox EXCEPT ![t] = Append(inbox[t], m)] /\ Len(inbox[t]) < InboxCap
  BY DEF Send
<1>4. inbox[t] \in Seq(Messages)
  BY DEF CodexTypes
<1> HIDE DEF m
<1>5. Append(inbox[t], m) \in Seq(Messages) /\ Len(Append(inbox[t], m)) = Len(inbox[t]) + 1
  BY <1>2, <1>4
<1>6. Len(inbox[t]) \in Nat
  BY <1>4
<1>7. QED
  BY <1>3, <1>5, <1>6 DEF CodexTypes

LEMMA EndTurnTypes ==
  ASSUME CodexTypes, NEW t \in Tasks, NEW kind \in TurnEnds, EndTurn(t, kind)
  PROVE  CodexTypes'
<1>1. Send(t, kind) /\ codexTurn[t] # 0
  BY DEF EndTurn
<1>2. inbox' \in [Tasks -> Seq(Messages)] /\ \A u \in Tasks : Len(inbox'[u]) <= InboxCap
  BY <1>1, SendTypes
<1>3. codexTurn' = [codexTurn EXCEPT ![t] = 0] /\ 0 \in 0 .. MaxTurns
  BY DEF EndTurn
<1>4. codexTurn' \in [Tasks -> 0 .. MaxTurns]
  BY <1>3 DEF CodexTypes
<1>5. asked' \in [Tasks -> BOOLEAN] /\ UNCHANGED <<proc, turnNo>>
  BY DEF EndTurn, CodexTypes
<1>6. QED
  BY <1>2, <1>4, <1>5 DEF CodexTypes

LEMMA A2aTypesStep ==
  ASSUME A2aTypes, [Next]_vars
  PROVE  A2aTypes'
<1> USE DEF A2aTypes, a2aVars, Statuses, Terminal
<1>1. ASSUME NEW t \in Tasks, ExecuteStep(t) PROVE A2aTypes'
  <2>1. CASE WriteEvent(t)
    BY <2>1, WriteNames DEF WriteEvent
  <2>2. CASE ReportFailure(t)
    BY <2>2 DEF ReportFailure
  <2>3. CASE UNCHANGED <<a2aVars, closed>>
    BY <2>3
  <2>4. QED
    BY <1>1, <2>1, <2>2, <2>3
       DEF ExecuteStep, RejectContent, ResolveBase, LaunchCodex, OpenThread, StartTaskFails,
           Register, SendTurnStart, TurnStartFails, TurnStartAnsweredEmpty, AcknowledgeTurn,
           DiscardAfterTurnStart, SendAnswer, AnswerFails, Received, ReceiveMessage,
           ReceiveCompletion, CallNext, ReceiveFails, WriteStops, Park, FinishExecution,
           ExecuteDereferencesNil
<1>2. ASSUME NEW t \in Tasks, CancelStep(t) PROVE A2aTypes'
  BY <1>2 DEF CancelStep, SendInterrupt, InterruptFails, AnnounceCanceled, CleanupCanceled
<1>3. ASSUME NEW t \in Tasks, Environment(t) PROVE A2aTypes'
  BY <1>3 DEF Environment, BeginTask, ContinueTask, BeginCancel, ConsumerStops,
              CodexEmits, CodexEndsTurn, CodexCrashes, CodexAcceptsTurn, CodexAnswersInterrupt
<1>4. CASE CloseExecutor
  BY <1>4 DEF CloseExecutor
<1>5. CASE UNCHANGED vars
  BY <1>5 DEF vars
<1>6. QED
  BY <1>1, <1>2, <1>3, <1>4, <1>5 DEF Next

LEMMA ExecuteTypesStep ==
  ASSUME ExecuteTypes, CodexTypes, [Next]_vars
  PROVE  ExecuteTypes'
<1> USE DEF ExecuteTypes, execVars, Go, At
<1>1. ASSUME NEW t \in Tasks, ExecuteStep(t) PROVE ExecuteTypes'
  <2>1. CASE WriteEvent(t)
    BY <2>1, WriteNames, PcNames DEF WriteEvent
  <2>2. CASE AcknowledgeTurn(t)
    <3>1. 0 \in 0 .. MaxTurns /\ turnNo[t] \in 0 .. MaxTurns
      BY DEF CodexTypes
    <3>2. QED
      BY <2>2, <3>1, PcNames DEF AcknowledgeTurn
  <2>3. CASE \E p \in ExecPcs : Go(t, p) /\ UNCHANGED turnID
    BY <2>3
  <2>4. CASE \/ RejectContent(t) \/ ResolveBase(t) \/ LaunchCodex(t) \/ OpenThread(t)
             \/ StartTaskFails(t) \/ Register(t) \/ SendTurnStart(t) \/ TurnStartFails(t)
             \/ TurnStartAnsweredEmpty(t)
    BY <2>4, PcNames DEF RejectContent, ResolveBase, LaunchCodex, OpenThread, StartTaskFails,
           Register, SendTurnStart, TurnStartFails, TurnStartAnsweredEmpty
  <2>5. CASE \/ DiscardAfterTurnStart(t) \/ SendAnswer(t) \/ AnswerFails(t)
             \/ ReceiveMessage(t) \/ ReceiveCompletion(t) \/ CallNext(t) \/ ReceiveFails(t)
    BY <2>5, PcNames DEF DiscardAfterTurnStart, SendAnswer, AnswerFails, Received,
           ReceiveMessage, ReceiveCompletion, CallNext, ReceiveFails
  <2>6. CASE \/ WriteStops(t) \/ Park(t) \/ FinishExecution(t) \/ ReportFailure(t)
             \/ ExecuteDereferencesNil(t)
    BY <2>6, PcNames DEF WriteStops, Park, FinishExecution, ReportFailure,
           ExecuteDereferencesNil
  <2>7. QED
    BY <1>1, <2>1, <2>2, <2>4, <2>5, <2>6 DEF ExecuteStep
<1>2. ASSUME NEW t \in Tasks, CancelStep(t) PROVE ExecuteTypes'
  BY <1>2 DEF CancelStep, SendInterrupt, InterruptFails, AnnounceCanceled, CleanupCanceled
<1>3. ASSUME NEW t \in Tasks, Environment(t) PROVE ExecuteTypes'
  BY <1>3, PcNames
     DEF Environment, BeginTask, ContinueTask, BeginCancel, ConsumerStops,
         CodexEmits, CodexEndsTurn, CodexCrashes, CodexAcceptsTurn, CodexAnswersInterrupt
<1>4. CASE CloseExecutor
  BY <1>4 DEF CloseExecutor
<1>5. CASE UNCHANGED vars
  BY <1>5 DEF vars
<1>6. QED
  BY <1>1, <1>2, <1>3, <1>4, <1>5 DEF Next

LEMMA CancelTypesStep ==
  ASSUME CancelTypes, ExecuteTypes, [Next]_vars
  PROVE  CancelTypes'
<1> USE DEF CancelTypes, cancelVars, CancelPcs
<1>1. ASSUME NEW t \in Tasks, ExecuteStep(t) PROVE CancelTypes'
  <2>1. UNCHANGED cancelVars
    BY <1>1 DEF ExecuteStep, RejectContent, ResolveBase, LaunchCodex, OpenThread,
         StartTaskFails, Register, SendTurnStart, TurnStartFails, TurnStartAnsweredEmpty,
         AcknowledgeTurn, DiscardAfterTurnStart, SendAnswer, AnswerFails, Received,
         ReceiveMessage, ReceiveCompletion, CallNext, ReceiveFails, WriteEvent, WriteStops, Park,
         FinishExecution, ReportFailure, ExecuteDereferencesNil
  <2>2. QED
    BY <2>1
<1>2. ASSUME NEW t \in Tasks, CancelStep(t) PROVE CancelTypes'
  <2>1. \A id \in 0 .. turnID[t] : id \in 0 .. MaxTurns
    BY DEF ExecuteTypes
  <2>2. QED
    BY <1>2, <2>1
       DEF CancelStep, SendInterrupt, InterruptFails, AnnounceCanceled, CleanupCanceled
<1>3. ASSUME NEW t \in Tasks, Environment(t) PROVE CancelTypes'
  BY <1>3 DEF Environment, BeginTask, ContinueTask, BeginCancel, ConsumerStops,
              CodexEmits, CodexEndsTurn, CodexCrashes, CodexAcceptsTurn, CodexAnswersInterrupt
<1>4. CASE CloseExecutor
  BY <1>4 DEF CloseExecutor
<1>5. CASE UNCHANGED vars
  BY <1>5 DEF vars
<1>6. QED
  BY <1>1, <1>2, <1>3, <1>4, <1>5 DEF Next

LEMMA ReceivedTypes ==
  ASSUME CodexTypes, NEW t \in Tasks, NEW to, Received(t, to)
  PROVE  CodexTypes'
<1>1. inbox[t] \in Seq(Messages) /\ inbox[t] # <<>>
  BY DEF Received, CodexTypes
<1>2. Tail(inbox[t]) \in Seq(Messages) /\ Len(Tail(inbox[t])) = Len(inbox[t]) - 1
  BY <1>1
<1>3. inbox' = [inbox EXCEPT ![t] = Tail(inbox[t])]
  BY DEF Received
<1>4. Len(inbox[t]) \in Nat
  BY <1>1
<1>5. inbox' \in [Tasks -> Seq(Messages)] /\ \A u \in Tasks : Len(inbox'[u]) <= InboxCap
  BY <1>2, <1>3, <1>4 DEF CodexTypes
<1>6. UNCHANGED <<proc, codexTurn, turnNo, asked>>
  BY DEF Received
<1>7. QED
  BY <1>5, <1>6 DEF CodexTypes

LEMMA CodexTypesStep ==
  ASSUME CodexTypes, [Next]_vars
  PROVE  CodexTypes'
<1>0. ASSUME UNCHANGED codexVars PROVE CodexTypes'
  BY <1>0 DEF CodexTypes, codexVars
<1>1. ASSUME NEW t \in Tasks, ExecuteStep(t) PROVE CodexTypes'
  <2>1. CASE LaunchCodex(t)
    BY <2>1 DEF LaunchCodex, CodexTypes
  <2>2. CASE SendAnswer(t)
    BY <2>2 DEF SendAnswer, CodexTypes
  <2>3. CASE StartTaskFails(t) \/ DiscardAfterTurnStart(t) \/ FinishExecution(t)
    BY <2>3, KillTypes DEF StartTaskFails, DiscardAfterTurnStart, FinishExecution
  <2>4. CASE ReceiveMessage(t) \/ ReceiveCompletion(t)
    BY <2>4, ReceivedTypes DEF ReceiveMessage, ReceiveCompletion
  <2>5. CASE UNCHANGED codexVars
    BY <1>0, <2>5
  <2>6. QED
    BY <1>1, <2>1, <2>2, <2>3, <2>4, <2>5
       DEF ExecuteStep, RejectContent, ResolveBase, OpenThread, Register, SendTurnStart,
           TurnStartFails, TurnStartAnsweredEmpty, AcknowledgeTurn, AnswerFails, CallNext, ReceiveFails,
           WriteEvent, WriteStops, Park, ReportFailure, ExecuteDereferencesNil
<1>2. ASSUME NEW t \in Tasks, CancelStep(t) PROVE CodexTypes'
  <2>1. CASE CleanupCanceled(t)
    BY <1>0, <2>1, KillTypes DEF CleanupCanceled
  <2>2. CASE UNCHANGED codexVars
    BY <1>0, <2>2
  <2>3. QED
    BY <1>2, <2>1, <2>2 DEF CancelStep, SendInterrupt, InterruptFails, AnnounceCanceled
<1>3. ASSUME NEW t \in Tasks, Environment(t) PROVE CodexTypes'
  <2>1. CASE CodexEmits(t)
    <3>1. PICK kind \in {"update", "ask", "unusable"} \cup TurnEnds : Send(t, kind)
      BY <2>1 DEF CodexEmits
    <3>2. codexTurn[t] # 0
      BY <2>1 DEF CodexEmits
    <3>3. inbox' \in [Tasks -> Seq(Messages)] /\ \A u \in Tasks : Len(inbox'[u]) <= InboxCap
      BY <3>1, <3>2, SendTypes
    <3>4. asked' \in [Tasks -> BOOLEAN] /\ UNCHANGED <<proc, codexTurn, turnNo>>
      BY <2>1 DEF CodexEmits, CodexTypes
    <3>5. QED
      BY <3>3, <3>4 DEF CodexTypes
  <2>2. CASE CodexEndsTurn(t)
    BY <2>2, EndTurnTypes DEF CodexEndsTurn
  <2>3. CASE CodexCrashes(t)
    BY <2>3, KillTypes DEF CodexCrashes
  <2>4. CASE CodexAcceptsTurn(t)
    <3>1. turnNo[t] \in 0 .. MaxTurns /\ turnNo[t] < MaxTurns
      BY <2>4 DEF CodexAcceptsTurn, CodexTypes
    <3>2. turnNo[t] + 1 \in 0 .. MaxTurns
      BY <3>1
    <3>3. /\ turnNo' = [turnNo EXCEPT ![t] = turnNo[t] + 1]
          /\ codexTurn' = [codexTurn EXCEPT ![t] = turnNo[t] + 1]
          /\ UNCHANGED <<proc, asked, inbox>>
      BY <2>4 DEF CodexAcceptsTurn
    <3>4. QED
      BY <3>2, <3>3 DEF CodexTypes
  <2>5. CASE CodexAnswersInterrupt(t)
    <3>1. "interrupted" \in TurnEnds
      BY DEF TurnEnds
    <3>2. QED
      BY <1>0, <2>5, <3>1, EndTurnTypes DEF CodexAnswersInterrupt
  <2>6. CASE UNCHANGED codexVars
    BY <1>0, <2>6
  <2>7. QED
    BY <1>3, <2>1, <2>2, <2>3, <2>4, <2>5, <2>6
       DEF Environment, BeginTask, ContinueTask, BeginCancel, ConsumerStops
<1>4. CASE CloseExecutor
  BY <1>4, KillTypes DEF CloseExecutor
<1>5. CASE UNCHANGED vars
  BY <1>0, <1>5 DEF vars
<1>6. QED
  BY <1>1, <1>2, <1>3, <1>4, <1>5 DEF Next

LEMMA ExecutorInitTypes ==
  ExecInit => A2aTypes /\ ExecuteTypes /\ CancelTypes /\ CodexTypes
<1>0. 0 \in 0 .. MaxTurns
  OBVIOUS
<1>1. ExecInit => A2aTypes /\ CancelTypes
  <2>1. ExecInit => stored \in [Tasks -> Statuses] /\ open \in [Tasks -> BOOLEAN] /\ stopped \subseteq Tasks
    BY DEF ExecInit, Statuses
  <2>2. ExecInit => closed \in BOOLEAN
    BY DEF ExecInit
  <2>3. ExecInit => CancelTypes
    BY <1>0 DEF ExecInit, CancelTypes, CancelPcs
  <2>4. QED
    BY <2>1, <2>2, <2>3 DEF A2aTypes
<1>2. ExecInit => ExecuteTypes
  BY <1>0, PcNames DEF ExecInit, ExecuteTypes
<1>3. ExecInit => CodexTypes
  <2>1. <<>> \in Seq(Messages) /\ Len(<<>>) = 0
    OBVIOUS
  <2>2. QED
    BY <1>0, <2>1 DEF ExecInit, CodexTypes
<1>4. QED
  BY <1>1, <1>2, <1>3

(* The variables of the executor, and of Codex and a2a-go as it sees them,   *)
(* keep their types, and codexClient.events its bound (executor.go:31-47,    *)
(* codex_client.go:108-117).                                                 *)
THEOREM ExecutorTypeCorrect == Spec => []ExecTypeOK
<1> DEFINE Types == A2aTypes /\ ExecuteTypes /\ CancelTypes /\ CodexTypes
<1>1. ExecInit => Types
  BY ExecutorInitTypes
<1>2. Types /\ [Next]_vars => Types'
  BY A2aTypesStep, ExecuteTypesStep, CancelTypesStep, CodexTypesStep
<1>3. Types /\ TypeOK => ExecTypeOK
  BY TypesSplit
<1> HIDE DEF Types
<1>4. Spec => []TypeOK
  BY ExecutorUsesBroker, BrokerTypeCorrect, PTL
<1>5. QED
  BY <1>1, <1>2, <1>3, <1>4, PTL DEF Spec

----------------------------------------------------------------------------
(* Every process has an owner.                                               *)

(* Until a task is resolved it has no process, and while it is being started *)
(* the goroutine and the broker agree on how far it got                      *)
(* (executor.go:94-103, broker.go:306-349).                                  *)
StartStages ==
  \A t \in Tasks :
    /\ At(t, "resolve") => phase[t] = "new"
    /\ pc[t] \in {"launch", "thread", "register"} => phase[t] = "resolved"
    /\ phase[t] = "new" => proc[t] = "none"

OwnerInv == BrokerInv /\ ExecuteTypes /\ CodexTypes /\ StartStages /\ NoOrphanProcess

(* A task nobody has resolved, one that is being started and the others, at  *)
(* a step that moves only the goroutine of t.                                *)
LEMMA GoKeepsOwners ==
  ASSUME OwnerInv, NEW t \in Tasks, NEW to \in ExecPcs \ Starting,
         pc[t] \notin Starting \/ ~ Running(t),
         Go(t, to), UNCHANGED proc,
         \A u \in Tasks : phase'[u] = phase[u] \/ (u = t /\ phase[u] # "new" /\ phase'[u] # "new"),
         \A u \in Tasks : Running(u) => (u \in active' /\ client'[u] <=> u \in active /\ client[u])
  PROVE  StartStages' /\ NoOrphanProcess'
BY DEF OwnerInv, ExecuteTypes, StartStages, NoOrphanProcess, Go, At, Running, Starting

LEMMA ExecuteStepOwners ==
  ASSUME OwnerInv, NEW t \in Tasks, ExecuteStep(t)
  PROVE  StartStages' /\ NoOrphanProcess'
<1> USE DEF At
<1>a. /\ \A u \in Tasks : client[u] <=> u \in active
      /\ \A u \in Tasks : u \in active => phase[u] = "registered"
      /\ active \subseteq Tasks
      /\ phase \in [Tasks -> Phases] /\ client \in [Tasks -> BOOLEAN]
  BY DEF OwnerInv, BrokerInv, ClientIffActive, RuntimesRegistered, TypeOK
<1>1. CASE RejectContent(t)
  <2>1. ~ Running(t)
    BY <1>1 DEF RejectContent, OwnerInv, StartStages, Running
  <2>2. "report" \in ExecPcs \ Starting
    BY PcNames DEF Starting
  <2>3. QED
    BY <1>1, <2>1, <2>2, GoKeepsOwners DEF RejectContent, brokerVars, codexVars
<1>2. CASE ResolveBase(t)
  <2>1. phase[t] = "new" /\ proc[t] = "none"
    BY <1>2 DEF ResolveBase, Resolve, ResolveRejected, OwnerInv, StartStages
  <2>2. UNCHANGED <<proc, active, client>>
    BY <1>2 DEF ResolveBase, Resolve, ResolveRejected, codexVars
  <2>3. \/ phase' = [phase EXCEPT ![t] = "resolved"] /\ pc' = [pc EXCEPT ![t] = "launch"]
        \/ phase' = [phase EXCEPT ![t] = "failed"] /\ pc' = [pc EXCEPT ![t] = "report"]
    BY <1>2 DEF ResolveBase, Resolve, ResolveRejected, Go
  <2>4. QED
    BY <1>a, <2>1, <2>2, <2>3
       DEF OwnerInv, ExecuteTypes, StartStages, NoOrphanProcess, Running, Starting
<1>3. CASE LaunchCodex(t)
  BY <1>3 DEF LaunchCodex, OwnerInv, ExecuteTypes, CodexTypes, StartStages, NoOrphanProcess,
              Go, Running, Starting, brokerVars
<1>4. CASE OpenThread(t)
  BY <1>4 DEF OpenThread, OwnerInv, ExecuteTypes, StartStages, NoOrphanProcess, Go, Running,
              Starting, brokerVars, codexVars
<1>5. CASE StartTaskFails(t)
  BY <1>5, <1>a DEF StartTaskFails, StartFails, Kill, OwnerInv, ExecuteTypes, CodexTypes,
              StartStages, NoOrphanProcess, Go, Running, Starting
<1>6. CASE Register(t)
  BY <1>6, <1>a DEF Register, RegisterTask, OwnerInv, ExecuteTypes, StartStages,
              NoOrphanProcess, Go, Running, Starting, codexVars
<1>7. CASE DiscardAfterTurnStart(t)
  <2>1. /\ pc[t] = "discard" /\ pc' = [pc EXCEPT ![t] = "report"]
        /\ proc' = [u \in Tasks |-> IF u \in Held(t) /\ Running(u) THEN "dead" ELSE proc[u]]
    BY <1>7 DEF DiscardAfterTurnStart, Kill, Go
  <2>2. \/ UNCHANGED <<active, client, phase>>
        \/ /\ active' = active \ {t} /\ client' = [client EXCEPT ![t] = FALSE]
           /\ phase' = [phase EXCEPT ![t] = "discarded"] /\ phase[t] = "registered"
    BY <1>7, <1>a DEF DiscardAfterTurnStart, DiscardTask, brokerVars
  <2>3. \A u \in Tasks : Running(u)' => Running(u) /\ u \notin Held(t)
    BY <2>1 DEF Running
  <2>4. StartStages'
    <3>1. pc' \in [Tasks -> ExecPcs] /\ pc'[t] = "report"
          /\ \A u \in Tasks : u # t => pc'[u] = pc[u]
      BY <2>1, PcNames DEF OwnerInv, ExecuteTypes, StartStages
    <3>2. \A u \in Tasks : proc[u] = "none" => proc'[u] = "none"
      BY <2>1 DEF Running
    <3>3. /\ \A u \in Tasks : u # t => phase'[u] = phase[u]
          /\ phase'[t] = "new" => phase[t] = "new"
      BY <1>a, <2>2
    <3>4. QED
      BY <3>1, <3>2, <3>3 DEF OwnerInv, StartStages
  <2>5. ASSUME NEW u \in Tasks, Running(u)'
        PROVE  pc'[u] \in Starting \/ (u \in active' /\ client'[u])
    <3>1. Running(u) /\ u \notin Held(t)
      BY <2>3, <2>5
    <3>2. pc[u] \in Starting \/ (u \in active /\ client[u])
      BY <3>1 DEF OwnerInv, NoOrphanProcess
    <3>3. u # t
      BY <2>1, <3>1, <3>2 DEF Held, Starting
    <3>4. pc'[u] = pc[u]
      BY <2>1, <3>3 DEF OwnerInv, ExecuteTypes
    <3>5. (u \in active' <=> u \in active) /\ client'[u] = client[u]
      BY <1>a, <2>2, <3>3
    <3>6. QED
      BY <3>2, <3>4, <3>5
  <2>6. QED
    BY <2>4, <2>5 DEF NoOrphanProcess
<1>8. CASE FinishExecution(t)
  BY <1>8, <1>a DEF FinishExecution, FinishTask, Kill, Held, OwnerInv, ExecuteTypes,
              CodexTypes, StartStages, NoOrphanProcess, Go, Running, Starting
<1>9. CASE WriteEvent(t)
  <2>1. Writes[pc[t]].then \in ExecPcs \ Starting /\ pc[t] \notin Starting
    BY <1>9, WriteNames, PcNames DEF WriteEvent, Starting
  <2>2. Go(t, Writes[pc[t]].then) /\ UNCHANGED <<brokerVars, codexVars>>
    BY <1>9 DEF WriteEvent
  <2>3. QED
    BY <2>1, <2>2, GoKeepsOwners DEF brokerVars, codexVars
<1>10. CASE \/ SendTurnStart(t) \/ TurnStartFails(t) \/ TurnStartAnsweredEmpty(t)
            \/ AnswerFails(t) \/ CallNext(t) \/ ReceiveFails(t) \/ WriteStops(t) \/ ReportFailure(t)
            \/ ExecuteDereferencesNil(t)
  <2>1. pc[t] \notin Starting
    BY <1>10, WriteNames DEF SendTurnStart, TurnStartFails, TurnStartAnsweredEmpty,
       AnswerFails, CallNext, ReceiveFails, WriteStops, ReportFailure, ExecuteDereferencesNil, Starting
  <2>2. \E to \in ExecPcs \ Starting : Go(t, to)
    BY <1>10, PcNames DEF SendTurnStart, TurnStartFails, TurnStartAnsweredEmpty,
       AnswerFails, CallNext, ReceiveFails, WriteStops, ReportFailure, ExecuteDereferencesNil, Starting
  <2>3. UNCHANGED <<phase, active, client, proc>>
    BY <1>10 DEF SendTurnStart, TurnStartFails, TurnStartAnsweredEmpty, AnswerFails,
       CallNext, ReceiveFails, WriteStops, ReportFailure, ExecuteDereferencesNil, brokerVars, codexVars
  <2>4. QED
    BY <2>1, <2>2, <2>3, GoKeepsOwners
<1>11. CASE \/ AcknowledgeTurn(t) \/ SendAnswer(t) \/ ReceiveMessage(t)
            \/ ReceiveCompletion(t) \/ Park(t)
  <2>1. pc[t] \notin Starting
    BY <1>11 DEF AcknowledgeTurn, SendAnswer, ReceiveMessage, ReceiveCompletion, Received,
       Park, Starting
  <2>2. \E to \in ExecPcs \ Starting : Go(t, to)
    BY <1>11, PcNames DEF AcknowledgeTurn, SendAnswer, ReceiveMessage, ReceiveCompletion,
       Received, Park, Starting
  <2>3. UNCHANGED <<phase, active, client, proc>>
    BY <1>11 DEF AcknowledgeTurn, SendAnswer, ReceiveMessage, ReceiveCompletion, Received,
       Park, StartTurn, ClearPending, FinishTurnForNextMessage, SetPending, RuntimeStep,
       brokerVars, codexVars
  <2>4. QED
    BY <2>1, <2>2, <2>3, GoKeepsOwners
<1>12. QED
  BY <1>1, <1>2, <1>3, <1>4, <1>5, <1>6, <1>7, <1>8, <1>9, <1>10, <1>11 DEF ExecuteStep

LEMMA EnvironmentOwners ==
  ASSUME OwnerInv, NEW t \in Tasks, Environment(t)
  PROVE  StartStages' /\ NoOrphanProcess'
<1>1. CASE BeginTask(t)
  BY <1>1 DEF BeginTask, OwnerInv, ExecuteTypes, StartStages, NoOrphanProcess, Go, At,
              Running, Starting, brokerVars, codexVars
<1>2. CASE ContinueTask(t)
  <2>1. pc[t] \notin Starting
    BY <1>2 DEF ContinueTask, At, Starting
  <2>2. \E to \in ExecPcs \ Starting : Go(t, to)
    BY <1>2, PcNames DEF ContinueTask, Starting
  <2>3. UNCHANGED <<phase, active, client, proc>>
    BY <1>2 DEF ContinueTask, brokerVars, codexVars
  <2>4. QED
    BY <2>1, <2>2, <2>3, GoKeepsOwners
<1>3. CASE CodexAcceptsTurn(t)
  <2>1. pc[t] \notin Starting
    BY <1>3 DEF CodexAcceptsTurn, At, Starting
  <2>2. "turnAck" \in ExecPcs \ Starting
    BY PcNames DEF Starting
  <2>3. QED
    BY <1>3, <2>1, <2>2, GoKeepsOwners DEF CodexAcceptsTurn, brokerVars
<1>4. CASE CodexCrashes(t)
  <2>1. UNCHANGED <<pc, phase, active, client>>
    BY <1>4 DEF CodexCrashes, brokerVars, execVars
  <2>2. \A u \in Tasks : proc'[u] = proc[u] \/ (Running(u) /\ proc'[u] = "dead")
    BY <1>4 DEF CodexCrashes, Kill, Running
  <2>3. QED
    BY <2>1, <2>2
       DEF OwnerInv, BrokerInv, ClientIffActive, StartStages, NoOrphanProcess, At, Running
<1>5. CASE \/ BeginCancel(t) \/ ConsumerStops(t) \/ CodexEmits(t) \/ CodexEndsTurn(t)
           \/ CodexAnswersInterrupt(t)
  <2>1. UNCHANGED <<pc, phase, active, client, proc>>
    BY <1>5 DEF BeginCancel, ConsumerStops, CodexEmits, CodexEndsTurn, CodexAnswersInterrupt,
                EndTurn, brokerVars, execVars, codexVars
  <2>2. QED
    BY <2>1 DEF OwnerInv, StartStages, NoOrphanProcess, At, Running
<1>6. QED
  BY <1>1, <1>2, <1>3, <1>4, <1>5 DEF Environment

LEMMA OwnerStep ==
  ASSUME OwnerInv, [Next]_vars
  PROVE  OwnerInv'
<1>0. BrokerInv' /\ ExecuteTypes' /\ CodexTypes'
  BY ExecutorStepOnBroker, BrokerNextInv, ExecuteTypesStep, CodexTypesStep DEF OwnerInv
<1>a. /\ \A u \in Tasks : client[u] <=> u \in active
      /\ \A u \in Tasks : u \in active => phase[u] = "registered"
      /\ active \subseteq Tasks
  BY DEF OwnerInv, BrokerInv, ClientIffActive, RuntimesRegistered, TypeOK
<1>1. ASSUME NEW t \in Tasks, ExecuteStep(t) PROVE StartStages' /\ NoOrphanProcess'
  BY <1>1, ExecuteStepOwners
<1>2. ASSUME NEW t \in Tasks, CancelStep(t) PROVE StartStages' /\ NoOrphanProcess'
  <2>1. CASE FinishTask(t) /\ Kill(Held(t)) /\ UNCHANGED pc
    BY <2>1, <1>a DEF FinishTask, Kill, Held, OwnerInv, CodexTypes, StartStages,
       NoOrphanProcess, At, Running
  <2>2. CASE UNCHANGED <<pc, phase, active, client, proc>>
    BY <2>2 DEF OwnerInv, StartStages, NoOrphanProcess, At, Running
  <2>3. QED
    BY <1>2, <2>1, <2>2 DEF CancelStep, SendInterrupt, InterruptFails, AnnounceCanceled,
       CleanupCanceled, brokerVars, execVars, codexVars
<1>3. ASSUME NEW t \in Tasks, Environment(t) PROVE StartStages' /\ NoOrphanProcess'
  BY <1>3, EnvironmentOwners
<1>4. CASE CloseExecutor
  <2>1. UNCHANGED <<pc, phase>>
    BY <1>4 DEF CloseExecutor, CloseBroker, execVars
  <2>2. \A u \in Tasks : proc'[u] = IF u \in active /\ client[u] /\ Running(u)
                                    THEN "dead" ELSE proc[u]
    BY <1>4 DEF CloseExecutor, Kill
  <2>3. \A u \in Tasks : phase[u] = "new" => proc'[u] = proc[u]
    BY <1>a, <2>2
  <2>4. \A u \in Tasks : proc'[u] = "running" => Running(u) /\ u \notin active
    BY <1>a, <2>2 DEF Running
  <2>5. StartStages'
    BY <2>1, <2>3 DEF OwnerInv, StartStages, At
  <2>6. NoOrphanProcess'
    BY <2>1, <2>4 DEF OwnerInv, NoOrphanProcess, Running
  <2>7. QED
    BY <1>0, <2>5, <2>6 DEF OwnerInv
<1>5. CASE UNCHANGED vars
  <2>1. UNCHANGED <<pc, phase, active, client, proc>>
    BY <1>5 DEF vars, brokerVars, execVars, codexVars
  <2>2. QED
    BY <1>0, <2>1 DEF OwnerInv, StartStages, NoOrphanProcess, At, Running
<1>6. QED
  BY <1>0, <1>1, <1>2, <1>3, <1>4, <1>5 DEF Next, OwnerInv

(* Whatever fails, is canceled, crashes or is closed, and in whatever order, *)
(* a running Codex process belongs to a start in progress or to a runtime    *)
(* that finishTask, discardTask or Close will find (broker.go:192-261,       *)
(* 369-435).                                                                 *)
THEOREM ProcessesHaveOwners == Spec => []NoOrphanProcess
<1>1. ExecInit => OwnerInv
  <2>1. ExecInit => BrokerInv
    BY BrokerInitInv DEF ExecInit
  <2>2. ExecInit => ExecuteTypes /\ CodexTypes
    BY ExecutorInitTypes
  <2>3. ExecInit => StartStages /\ NoOrphanProcess
    BY DEF ExecInit, StartStages, NoOrphanProcess, At, Running
  <2>4. QED
    BY <2>1, <2>2, <2>3 DEF OwnerInv
<1>2. OwnerInv /\ [Next]_vars => OwnerInv'
  BY OwnerStep
<1>3. OwnerInv => NoOrphanProcess
  BY DEF OwnerInv
<1>4. QED
  BY <1>1, <1>2, <1>3, PTL DEF Spec
=============================================================================
