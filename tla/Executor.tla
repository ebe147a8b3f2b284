------------------------------ MODULE Executor ------------------------------
(***************************************************************************)
(* The executor (src/internal/service/executor.go): the goroutine that     *)
(* runs Execute for a task, the goroutine that runs Cancel beside it, the  *)
(* broker they share, and their environment.                               *)
(*                                                                         *)
(* Environment, as the code in src/ uses it:                               *)
(*  - a2a-go runs one Execute per task at a time (README.md:162) and may   *)
(*    run one Cancel beside it; it stores each status it is yielded; after *)
(*    a terminal status, or when its consumer went away, yield returns     *)
(*    false and the contexts of both goroutines are cancelled; Cleanup of  *)
(*    a Cancel comes after the Execute beside it has returned;             *)
(*  - one Codex process per session runs at most one turn at a time,       *)
(*    answers requests in order, emits notifications and server requests   *)
(*    while a turn runs, and may die at any moment.                        *)
(*                                                                         *)
(* A step of a goroutine ends where another one can interfere: at a yield, *)
(* at a lock of the broker or of a runtime, at a use of Session.Client and *)
(* at a wait for Codex.                                                    *)
(***************************************************************************)
EXTENDS Broker

CONSTANTS
  MaxTurns,        \* bound on the turns Codex starts for one task
  InboxCap,        \* messages Codex can be ahead of the executor
  MayCancel,       \* clients cancel tasks
  MayStop,         \* the consumer of an execution may go away
  MayClose,        \* Executor.Close is called
  MayCrash         \* Codex processes die on their own

ASSUME BoundsAssumption ==
  /\ MaxTurns \in Nat \ {0} /\ InboxCap \in Nat \ {0}
  /\ {MayCancel, MayStop, MayClose, MayCrash} \subseteq BOOLEAN

VARIABLES
  stored,          \* the task's status in the task store ("none": no task)
  open,            \* yield still returns true; the request context is alive
  stopped,         \* tasks a consumer has ever walked away from (history)
  pc,              \* where the Execute goroutine is
  turnID,          \* taskRuntime.TurnID; 0 is the empty string
  cpc,             \* where the Cancel goroutine is
  aim,             \* the turn its turn/interrupt names
  cancelRequested, \* taskRuntime.cancelRequested
  proc,            \* the session's Codex process
  codexTurn,       \* the turn it runs; 0 is none
  turnNo,          \* the last turn it started
  asked,           \* it waits for the answer to a server request
  inbox,           \* codexClient.events: what it sent and nobody read yet
  closed           \* Executor.Close has run

a2aVars == <<stored, open, stopped>>
execVars == <<pc, turnID>>
cancelVars == <<cpc, aim, cancelRequested>>
codexVars == <<proc, codexTurn, turnNo, asked, inbox>>
vars == <<brokerVars, a2aVars, execVars, cancelVars, codexVars, closed>>

Terminal == {"canceled", "failed"}
Statuses == {"none", "submitted", "working", "input-required"} \cup Terminal
TurnEnds == {"completed", "interrupted", "failed"}
Messages == [kind : {"update", "ask", "unusable"} \cup TurnEnds, turn : 1 .. MaxTurns]

(* Mutant: a completed turn is taken for one more notification.            *)
WritesReadyContinues ==
  [ writeWorking  |-> [status |-> "working",        then |-> "consume"],
    writeUpdate   |-> [status |-> "same",           then |-> "consume"],
    writeAsk      |-> [status |-> "input-required", then |-> "park"],
    writeAskAgain |-> [status |-> "input-required", then |-> "idle"],
    writeReady    |-> [status |-> "input-required", then |-> "consume"],
    writeCanceled |-> [status |-> "canceled",       then |-> "finish"],
    writeFailed   |-> [status |-> "failed",         then |-> "finish"] ]

(* What each write yields and where the goroutine goes when yield is true. *)
(* "same" is an artifact event, which leaves the status alone.             *)
Writes ==
  [ writeWorking  |-> [status |-> "working",        then |-> "consume"],
    writeUpdate   |-> [status |-> "same",           then |-> "consume"],
    writeAsk      |-> [status |-> "input-required", then |-> "park"],
    writeAskAgain |-> [status |-> "input-required", then |-> "idle"],
    writeReady    |-> [status |-> "input-required", then |-> "idle"],
    writeCanceled |-> [status |-> "canceled",       then |-> "finish"],
    writeFailed   |-> [status |-> "failed",         then |-> "finish"] ]

Starting == {"resolve", "launch", "thread", "register"}
Panics == {"nilClient", "yieldAfterStop"}
ExecPcs == Starting \cup DOMAIN Writes \cup Panics \cup
  {"idle", "turnStart", "turnWait", "turnAck", "turnAckEmpty", "consume", "next",
   "park", "respond", "finish", "discard", "failing", "stopped", "report"}
CancelPcs == {"idle", "interrupt", "interrupting", "announce", "cleanup", "nilClient"}

At(t, from) == pc[t] = from
Go(t, to) == pc' = [pc EXCEPT ![t] = to]

ExecInit ==
  /\ BrokerInit
  /\ stored = [t \in Tasks |-> "none"]
  /\ open = [t \in Tasks |-> FALSE]
  /\ stopped = {}
  /\ pc = [t \in Tasks |-> "idle"]
  /\ turnID = [t \in Tasks |-> 0]
  /\ cpc = [t \in Tasks |-> "idle"]
  /\ aim = [t \in Tasks |-> 0]
  /\ cancelRequested = [t \in Tasks |-> FALSE]
  /\ proc = [t \in Tasks |-> "none"]
  /\ codexTurn = [t \in Tasks |-> 0]
  /\ turnNo = [t \in Tasks |-> 0]
  /\ asked = [t \in Tasks |-> FALSE]
  /\ inbox = [t \in Tasks |-> <<>>]
  /\ closed = FALSE

----------------------------------------------------------------------------
(* Codex processes.                                                        *)

Running(t) == proc[t] = "running"

(* A killed or crashed process takes its turn and its question with it.    *)
(* What it already sent can still be read.                                 *)
Kill(S) ==
  /\ proc' = [t \in Tasks |-> IF t \in S /\ Running(t) THEN "dead" ELSE proc[t]]
  /\ codexTurn' = [t \in Tasks |-> IF t \in S THEN 0 ELSE codexTurn[t]]
  /\ asked' = [t \in Tasks |-> asked[t] /\ t \notin S]
  /\ UNCHANGED <<turnNo, inbox>>

(* The client whose process finishTask, discardTask or Close kills.        *)
Held(t) == {t} \cap {u \in active : client[u]}

(* Mutant: the events channel never pushes back.                           *)
SendUnbounded(t, kind) ==
  inbox' = [inbox EXCEPT ![t] = Append(@, [kind |-> kind, turn |-> codexTurn[t]])]

Send(t, kind) ==
  /\ Len(inbox[t]) < InboxCap
  /\ inbox' = [inbox EXCEPT ![t] = Append(@, [kind |-> kind, turn |-> codexTurn[t]])]

CodexEmits(t) ==
  /\ Running(t) /\ codexTurn[t] # 0
  /\ \/ Send(t, "update") /\ UNCHANGED asked
     \/ Send(t, "unusable") /\ UNCHANGED asked
     \/ Send(t, "ask") /\ ~ asked[t] /\ asked' = [asked EXCEPT ![t] = TRUE]
  /\ UNCHANGED <<brokerVars, a2aVars, execVars, cancelVars, proc, codexTurn, turnNo, closed>>

EndTurn(t, kind) ==
  /\ Running(t) /\ codexTurn[t] # 0
  /\ Send(t, kind)
  /\ codexTurn' = [codexTurn EXCEPT ![t] = 0]
  /\ asked' = [asked EXCEPT ![t] = FALSE]
  /\ UNCHANGED <<proc, turnNo>>

CodexEndsTurn(t) ==
  /\ \E kind \in TurnEnds : EndTurn(t, kind)
  /\ UNCHANGED <<brokerVars, a2aVars, execVars, cancelVars, closed>>

CodexCrashes(t) ==
  /\ MayCrash /\ Running(t)
  /\ Kill({t})
  /\ UNCHANGED <<brokerVars, a2aVars, execVars, cancelVars, closed>>

(* turn/start: the turn runs before its response has been read.            *)
CodexAcceptsTurn(t) ==
  /\ At(t, "turnWait") /\ Running(t) /\ codexTurn[t] = 0
  /\ turnNo[t] < MaxTurns
  /\ turnNo' = [turnNo EXCEPT ![t] = @ + 1]
  /\ codexTurn' = [codexTurn EXCEPT ![t] = turnNo[t] + 1]
  /\ Go(t, "turnAck")
  /\ UNCHANGED <<brokerVars, a2aVars, turnID, cancelVars, proc, asked, inbox, closed>>

(* turn/interrupt: a turn that is over, or another one, is not touched.    *)
CodexAnswersInterrupt(t) ==
  /\ cpc[t] = "interrupting" /\ Running(t)
  /\ \/ codexTurn[t] = aim[t] /\ EndTurn(t, "interrupted")
     \/ codexTurn[t] # aim[t] /\ UNCHANGED codexVars
  /\ cpc' = [cpc EXCEPT ![t] = "announce"]
  /\ UNCHANGED <<brokerVars, a2aVars, execVars, aim, cancelRequested, closed>>

----------------------------------------------------------------------------
(* Execute.  a2a-go hands a message over when no other one is in flight.   *)

(* A message without a stored task: NewSubmittedTask is yielded first.     *)
BeginTask(t) ==
  /\ At(t, "idle") /\ stored[t] = "none" /\ phase[t] = "new"
  /\ stored' = [stored EXCEPT ![t] = "submitted"]
  /\ open' = [open EXCEPT ![t] = TRUE]
  /\ Go(t, "resolve")
  /\ UNCHANGED <<brokerVars, stopped, turnID, cancelVars, codexVars, closed>>

(* Mutant: every continuation starts a turn, pending request or not.       *)
ContinueIgnoringPending(t) ==
  /\ At(t, "idle") /\ cpc[t] = "idle"
  /\ stored[t] \notin {"none"} \cup Terminal
  /\ open' = [open EXCEPT ![t] = TRUE]
  /\ Go(t, IF stored[t] = "input-required" /\ t \in active THEN "turnStart" ELSE "failing")
  /\ UNCHANGED <<brokerVars, stored, stopped, turnID, cancelVars, codexVars, closed>>

(* A message for a stored task: the switch of execute and the decisions of *)
(* resumeInputRequired that touch nothing.                                 *)
ContinueTask(t) ==
  /\ At(t, "idle") /\ cpc[t] = "idle"
  /\ stored[t] \notin {"none"} \cup Terminal
  /\ open' = [open EXCEPT ![t] = TRUE]
  /\ \/ stored[t] # "input-required" /\ Go(t, "failing")
     \/ stored[t] = "input-required" /\ t \notin active /\ Go(t, "failing")
     \/ /\ stored[t] = "input-required" /\ t \in active /\ pending[t]
        /\ \/ Go(t, "respond")           \* responseForPending understood it
           \/ Go(t, "writeAskAgain")     \* it did not: ask again
     \/ /\ stored[t] = "input-required" /\ t \in active /\ ~ pending[t]
        /\ \/ Go(t, "turnStart")
           \/ Go(t, "failing")           \* codexInputsFromMessage failed
  /\ UNCHANGED <<brokerVars, stored, stopped, turnID, cancelVars, codexVars, closed>>

(* startTask: content, resolution, process, thread, registration.          *)
RejectContent(t) ==
  /\ At(t, "resolve") /\ Go(t, "report")
  /\ UNCHANGED <<brokerVars, a2aVars, turnID, cancelVars, codexVars, closed>>

ResolveBase(t) ==
  /\ At(t, "resolve")
  /\ \E c \in Contexts, refs \in References :
       \/ Resolve(t, c, refs) /\ Go(t, "launch")
       \/ ResolveRejected(t, c, refs) /\ Go(t, "report")
  /\ UNCHANGED <<a2aVars, turnID, cancelVars, codexVars, closed>>

LaunchCodex(t) ==
  /\ At(t, "launch") /\ proc' = [proc EXCEPT ![t] = "running"] /\ Go(t, "thread")
  /\ UNCHANGED <<brokerVars, a2aVars, turnID, cancelVars, closed>>
  /\ UNCHANGED <<codexTurn, turnNo, asked, inbox>>

(* thread/start or thread/fork has been carried out.                       *)
OpenThread(t) ==
  /\ At(t, "thread") /\ Running(t) /\ Go(t, "register")
  /\ UNCHANGED <<brokerVars, a2aVars, turnID, cancelVars, codexVars, closed>>

(* Mutant: the error path forgets client.Close.                            *)
StartTaskFailsOpen(t) ==
  /\ pc[t] \in {"launch", "thread"}
  /\ StartFails(t) /\ Go(t, "report")
  /\ UNCHANGED <<a2aVars, turnID, cancelVars, codexVars, closed>>

(* The launch, the handshake or the thread request fails, or the request   *)
(* context ends: startTask closes the client and returns the error.        *)
StartTaskFails(t) ==
  /\ pc[t] \in {"launch", "thread"}
  /\ StartFails(t) /\ Kill({t}) /\ Go(t, "report")
  /\ UNCHANGED <<a2aVars, turnID, cancelVars, closed>>

(* Mutant: a runtime is born busy.                                         *)
RegisterBusy(t) ==
  /\ At(t, "register") /\ phase[t] = "resolved"
  /\ phase' = [phase EXCEPT ![t] = "registered"]
  /\ childCount' = CountChild(t)
  /\ sessions' = [sessions EXCEPT ![context[t]] = @ \cup {t}]
  /\ active' = active \cup {t}
  /\ client' = [client EXCEPT ![t] = TRUE]
  /\ startedAt' = [startedAt EXCEPT ![t] = clock]
  /\ clock' = clock + 1
  /\ turnActive' = [turnActive EXCEPT ![t] = TRUE]
  /\ Go(t, "turnStart")
  /\ UNCHANGED <<requestVars, pending, a2aVars, turnID, cancelVars, codexVars, closed>>

Register(t) ==
  /\ At(t, "register") /\ RegisterTask(t) /\ Go(t, "turnStart")
  /\ UNCHANGED <<a2aVars, turnID, cancelVars, codexVars, closed>>

(* startNewTurn.                                                           *)
SendTurnStart(t) ==
  /\ At(t, "turnStart") /\ client[t] /\ Go(t, "turnWait")
  /\ UNCHANGED <<brokerVars, a2aVars, turnID, cancelVars, codexVars, closed>>

(* Codex refuses the turn, its process dies or the context ends, whichever *)
(* the select of request sees.                                             *)
TurnStartFails(t) ==
  /\ \/ At(t, "turnWait")
     \/ At(t, "turnAck") /\ (~ Running(t) \/ ~ open[t])
  /\ Go(t, "discard")
  /\ UNCHANGED <<brokerVars, a2aVars, turnID, cancelVars, codexVars, closed>>

(* A client that has finished can make request return (nil, nil), which    *)
(* decodes to an empty turn id (codex_client.go:313-314, 375-379).         *)
TurnStartAnsweredEmpty(t) ==
  /\ pc[t] \in {"turnWait", "turnAck"} /\ ~ Running(t) /\ Go(t, "turnAckEmpty")
  /\ UNCHANGED <<brokerVars, a2aVars, turnID, cancelVars, codexVars, closed>>

AcknowledgeTurn(t) ==
  /\ pc[t] \in {"turnAck", "turnAckEmpty"}
  /\ StartTurn(t)
  /\ turnID' = [turnID EXCEPT ![t] = IF At(t, "turnAck") THEN turnNo[t] ELSE 0]
  /\ Go(t, "writeWorking")
  /\ UNCHANGED <<a2aVars, cancelVars, codexVars, closed>>

DiscardAfterTurnStart(t) ==
  /\ At(t, "discard") /\ DiscardTask(t) /\ Kill(Held(t)) /\ Go(t, "report")
  /\ UNCHANGED <<a2aVars, turnID, cancelVars, closed>>

(* Mutant: the answer also marks the turn as over.                         *)
SendAnswerEndingTurn(t) ==
  /\ At(t, "respond") /\ client[t]
  /\ FinishTurnForNextMessage(t)
  /\ asked' = [asked EXCEPT ![t] = FALSE]
  /\ Go(t, "writeWorking")
  /\ UNCHANGED <<a2aVars, turnID, cancelVars, proc, codexTurn, turnNo, inbox, closed>>

(* resumeInputRequired: the answer goes out, then pending is cleared.  A   *)
(* dead process may still swallow the write.                               *)
SendAnswer(t) ==
  /\ At(t, "respond") /\ client[t]
  /\ ClearPending(t)
  /\ asked' = [asked EXCEPT ![t] = FALSE]
  /\ Go(t, "writeWorking")
  /\ UNCHANGED <<a2aVars, turnID, cancelVars, proc, codexTurn, turnNo, inbox, closed>>

AnswerFails(t) ==
  /\ At(t, "respond") /\ ~ Running(t) /\ Go(t, "failing")
  /\ UNCHANGED <<brokerVars, a2aVars, turnID, cancelVars, codexVars, closed>>

(* consumeTurn calls next on the client it finds; while it waits there, it *)
(* does not notice that the session has lost it.                           *)
CallNext(t) ==
  /\ At(t, "consume") /\ client[t] /\ Go(t, "next")
  /\ UNCHANGED <<brokerVars, a2aVars, turnID, cancelVars, codexVars, closed>>

(* What next returned.  The end of a turn is recognised by its status alone; its  *)
(* turn id is not compared with TurnID.                                    *)
Received(t, to) ==
  /\ At(t, "next") /\ inbox[t] # <<>>
  /\ inbox' = [inbox EXCEPT ![t] = Tail(@)]
  /\ Go(t, to)
  /\ UNCHANGED <<a2aVars, turnID, cancelVars, proc, codexTurn, turnNo, asked, closed>>

NextKind(t) == Head(inbox[t]).kind

(* Mutant: an interrupted turn always ends in silence.                     *)
ReceiveSilently(t) ==
  /\ UNCHANGED brokerVars
  /\ \/ Received(t, "writeUpdate") /\ NextKind(t) = "update"
     \/ Received(t, "writeAsk") /\ NextKind(t) = "ask"
     \/ Received(t, "failing") /\ NextKind(t) = "unusable"
     \/ Received(t, "writeFailed") /\ NextKind(t) = "failed"
     \/ Received(t, "finish") /\ NextKind(t) = "interrupted"

ReceiveMessage(t) ==
  /\ UNCHANGED brokerVars
  /\ \/ Received(t, "writeUpdate") /\ NextKind(t) = "update"
     \/ Received(t, "consume") /\ NextKind(t) = "update"   \* nothing to publish
     \/ Received(t, "writeAsk") /\ NextKind(t) = "ask"
     \/ Received(t, "failing") /\ NextKind(t) = "unusable"
     \/ Received(t, "writeFailed") /\ NextKind(t) = "failed"
     \/ Received(t, "writeCanceled") /\ NextKind(t) = "interrupted" /\ ~ cancelRequested[t]
     \/ Received(t, "finish") /\ NextKind(t) = "interrupted" /\ cancelRequested[t]

ReceiveCompletion(t) ==
  /\ Received(t, "writeReady") /\ NextKind(t) = "completed"
  /\ FinishTurnForNextMessage(t)

(* Mutants: next watches only the client, or only the context.             *)
ReceiveFailsOnExit(t) ==
  /\ At(t, "next") /\ ~ Running(t) /\ Go(t, "failing")
  /\ UNCHANGED <<brokerVars, a2aVars, turnID, cancelVars, codexVars, closed>>
ReceiveFailsOnContext(t) ==
  /\ At(t, "next") /\ ~ open[t] /\ Go(t, "failing")
  /\ UNCHANGED <<brokerVars, a2aVars, turnID, cancelVars, codexVars, closed>>

(* next returns the client's end or the context's, whatever is buffered.   *)
ReceiveFails(t) ==
  /\ At(t, "next") /\ (~ Running(t) \/ ~ open[t]) /\ Go(t, "failing")
  /\ UNCHANGED <<brokerVars, a2aVars, turnID, cancelVars, codexVars, closed>>

(* queue.Write.  Only a terminal status ends the stream.                   *)
WriteEvent(t) ==
  /\ pc[t] \in DOMAIN Writes /\ open[t]
  /\ LET w == Writes[pc[t]] IN
       /\ stored' = [stored EXCEPT ![t] = IF w.status = "same" THEN @ ELSE w.status]
       /\ open' = [open EXCEPT ![t] = w.status \notin Terminal]
       /\ Go(t, w.then)
  /\ UNCHANGED <<brokerVars, stopped, turnID, cancelVars, codexVars, closed>>

(* yield returned false: errStopStreaming goes up to executeStream.        *)
WriteStops(t) ==
  /\ pc[t] \in DOMAIN Writes /\ ~ open[t] /\ Go(t, "stopped")
  /\ UNCHANGED <<brokerVars, a2aVars, turnID, cancelVars, codexVars, closed>>

(* Mutant: the pending request is shown and not kept.                      *)
ParkForgetting(t) ==
  /\ At(t, "park") /\ Go(t, "idle")
  /\ UNCHANGED <<brokerVars, a2aVars, turnID, cancelVars, codexVars, closed>>

Park(t) ==
  /\ At(t, "park") /\ SetPending(t) /\ Go(t, "idle")
  /\ UNCHANGED <<a2aVars, turnID, cancelVars, codexVars, closed>>

(* finishTask at the end of a turn, on an error, and on errStopStreaming.  *)
(* executeStream calls it again on its way out and finds nothing to do.    *)
FinishExecution(t) ==
  /\ \/ At(t, "finish") /\ Go(t, "idle")
     \/ At(t, "failing") /\ Go(t, "report")
     \/ At(t, "stopped") /\ Go(t, "yieldAfterStop")
  /\ FinishTask(t) /\ Kill(Held(t))
  /\ UNCHANGED <<a2aVars, turnID, cancelVars, closed>>

(* executeStream turns the error into a failed status.                     *)
ReportFailure(t) ==
  /\ At(t, "report") /\ Go(t, "idle")
  /\ stored' = [stored EXCEPT ![t] = IF open[t] THEN "failed" ELSE @]
  /\ open' = [open EXCEPT ![t] = FALSE]
  /\ UNCHANGED <<brokerVars, stopped, turnID, cancelVars, codexVars, closed>>

(* Session.Client is dereferenced after another goroutine has cleared it.  *)
ExecuteDereferencesNil(t) ==
  /\ pc[t] \in {"turnStart", "respond", "consume"} /\ ~ client[t]
  /\ Go(t, "nilClient")
  /\ UNCHANGED <<brokerVars, a2aVars, turnID, cancelVars, codexVars, closed>>

----------------------------------------------------------------------------
(* Cancel, and the Cleanup that follows it.                                *)

(* broker.cancel finds the runtime and marks it, or the request fails.     *)
BeginCancel(t) ==
  /\ MayCancel
  /\ cpc[t] = "idle" /\ stored[t] \notin {"none"} \cup Terminal
  /\ t \in active
  /\ open' = [open EXCEPT ![t] = @ \/ At(t, "idle")]
  /\ cancelRequested' = [cancelRequested EXCEPT ![t] = TRUE]
  /\ cpc' = [cpc EXCEPT ![t] = "interrupt"]
  /\ UNCHANGED <<brokerVars, stored, stopped, execVars, aim, codexVars, closed>>

(* TurnID is read with no lock while startTurn may be writing it: any id   *)
(* it ever held can be seen.                                               *)
SendInterrupt(t) ==
  /\ cpc[t] = "interrupt"
  /\ \E id \in 0 .. turnID[t] :
       \/ /\ id = 0
          /\ cpc' = [cpc EXCEPT ![t] = "announce"]
          /\ UNCHANGED aim
       \/ /\ id # 0 /\ client[t]
          /\ cpc' = [cpc EXCEPT ![t] = "interrupting"]
          /\ aim' = [aim EXCEPT ![t] = id]
       \/ /\ id # 0 /\ ~ client[t]
          /\ cpc' = [cpc EXCEPT ![t] = "nilClient"]
          /\ UNCHANGED aim
  /\ UNCHANGED <<brokerVars, a2aVars, execVars, cancelRequested, codexVars, closed>>

(* Mutant: the error of the request is returned.                           *)
InterruptFailureEndsCancel(t) ==
  /\ cpc[t] = "interrupting" /\ (~ Running(t) \/ ~ open[t])
  /\ cpc' = [cpc EXCEPT ![t] = "cleanup"]
  /\ UNCHANGED <<brokerVars, a2aVars, execVars, aim, cancelRequested, codexVars, closed>>

(* The error of the request is dropped.                                    *)
InterruptFails(t) ==
  /\ cpc[t] = "interrupting" /\ (~ Running(t) \/ ~ open[t])
  /\ cpc' = [cpc EXCEPT ![t] = "announce"]
  /\ UNCHANGED <<brokerVars, a2aVars, execVars, aim, cancelRequested, codexVars, closed>>

(* Mutant: Cancel also finishes the task, as Cleanup should.               *)
AnnounceAndFinish(t) ==
  /\ cpc[t] = "announce"
  /\ stored' = [stored EXCEPT ![t] = IF open[t] THEN "canceled" ELSE @]
  /\ open' = [open EXCEPT ![t] = FALSE]
  /\ FinishTask(t) /\ Kill(Held(t))
  /\ cpc' = [cpc EXCEPT ![t] = "cleanup"]
  /\ UNCHANGED <<stopped, execVars, aim, cancelRequested, closed>>

AnnounceCanceled(t) ==
  /\ cpc[t] = "announce"
  /\ \/ /\ open[t]
        /\ stored' = [stored EXCEPT ![t] = "canceled"]
        /\ open' = [open EXCEPT ![t] = FALSE]
        /\ UNCHANGED stopped
     \/ ~ open[t] /\ UNCHANGED a2aVars
  /\ cpc' = [cpc EXCEPT ![t] = "cleanup"]
  /\ UNCHANGED <<brokerVars, execVars, aim, cancelRequested, codexVars, closed>>

(* Mutant: Cleanup leaves the runtime to the execution.                    *)
CleanupNothing(t) ==
  /\ cpc[t] = "cleanup" /\ pc[t] \in {"idle"} \cup Panics
  /\ cpc' = [cpc EXCEPT ![t] = "idle"]
  /\ UNCHANGED <<brokerVars, codexVars, a2aVars, execVars, aim, cancelRequested, closed>>

(* Cleanup with a nil Message releases a task that ended up canceled.      *)
CleanupCanceled(t) ==
  /\ cpc[t] = "cleanup" /\ pc[t] \in {"idle"} \cup Panics
  /\ \/ stored[t] = "canceled" /\ FinishTask(t) /\ Kill(Held(t))
     \/ stored[t] # "canceled" /\ UNCHANGED <<brokerVars, codexVars>>
  /\ cpc' = [cpc EXCEPT ![t] = "idle"]
  /\ UNCHANGED <<a2aVars, execVars, aim, cancelRequested, closed>>

----------------------------------------------------------------------------
(* The rest of the environment.                                            *)

ConsumerStops(t) ==
  /\ MayStop /\ open[t] /\ ~ At(t, "idle")
  /\ open' = [open EXCEPT ![t] = FALSE]
  /\ stopped' = stopped \cup {t}
  /\ UNCHANGED <<brokerVars, stored, execVars, cancelVars, codexVars, closed>>

(* Executor.Close, once.                                                   *)
CloseExecutor ==
  /\ MayClose /\ ~ closed
  /\ closed' = TRUE
  /\ CloseBroker /\ Kill({t \in active : client[t]})
  /\ UNCHANGED <<a2aVars, execVars, cancelVars>>

----------------------------------------------------------------------------
ExecuteStep(t) ==
  \/ RejectContent(t) \/ ResolveBase(t) \/ LaunchCodex(t) \/ OpenThread(t)
  \/ StartTaskFails(t) \/ Register(t)
  \/ SendTurnStart(t) \/ TurnStartFails(t) \/ TurnStartAnsweredEmpty(t)
  \/ AcknowledgeTurn(t) \/ DiscardAfterTurnStart(t)
  \/ SendAnswer(t) \/ AnswerFails(t)
  \/ CallNext(t) \/ ReceiveMessage(t) \/ ReceiveCompletion(t) \/ ReceiveFails(t)
  \/ WriteEvent(t) \/ WriteStops(t) \/ Park(t)
  \/ FinishExecution(t) \/ ReportFailure(t) \/ ExecuteDereferencesNil(t)

CancelStep(t) ==
  SendInterrupt(t) \/ InterruptFails(t) \/ AnnounceCanceled(t) \/ CleanupCanceled(t)

Environment(t) ==
  \/ BeginTask(t) \/ ContinueTask(t) \/ BeginCancel(t) \/ ConsumerStops(t)
  \/ CodexEmits(t) \/ CodexEndsTurn(t) \/ CodexCrashes(t)
  \/ CodexAcceptsTurn(t) \/ CodexAnswersInterrupt(t)

Next ==
  \/ \E t \in Tasks : ExecuteStep(t) \/ CancelStep(t) \/ Environment(t)
  \/ CloseExecutor

Spec == ExecInit /\ [][Next]_vars

(* Go runs every goroutine that can run, and a select in a loop does not   *)
(* pass over the same ready case for ever: it chooses at random among the  *)
(* ready ones.  Nothing is assumed of Codex, of the clients or of Close.   *)
FairSpec ==
  /\ Spec
  /\ \A t \in Tasks :
       /\ WF_vars(ExecuteStep(t)) /\ WF_vars(CancelStep(t))
       /\ SF_vars(ReceiveFails(t))

----------------------------------------------------------------------------
(* Properties.                                                             *)

(* The variables have their types and codexClient.events its bound         *)
(* (executor.go:31-47, codex_client.go:108-117).                           *)
ExecTypeOK ==
  /\ TypeOK
  /\ stored \in [Tasks -> Statuses]
  /\ open \in [Tasks -> BOOLEAN]
  /\ stopped \subseteq Tasks
  /\ pc \in [Tasks -> ExecPcs]
  /\ turnID \in [Tasks -> 0 .. MaxTurns]
  /\ cpc \in [Tasks -> CancelPcs]
  /\ aim \in [Tasks -> 0 .. MaxTurns]
  /\ cancelRequested \in [Tasks -> BOOLEAN]
  /\ proc \in [Tasks -> {"none", "running", "dead"}]
  /\ codexTurn \in [Tasks -> 0 .. MaxTurns]
  /\ turnNo \in [Tasks -> 0 .. MaxTurns]
  /\ asked \in [Tasks -> BOOLEAN]
  /\ inbox \in [Tasks -> Seq(Messages)]
  /\ \A t \in Tasks : Len(inbox[t]) <= InboxCap
  /\ closed \in BOOLEAN

(* Neither goroutine of the task is at work (or dead in the middle of it). *)
Quiet(t) == At(t, "idle") /\ cpc[t] = "idle"

(* Every Codex process belongs to a start that is still in progress or to  *)
(* a runtime the broker can find, whichever step failed, was cancelled or  *)
(* was overtaken by Close (broker.go:192-261, 369-435).                    *)
NoOrphanProcess ==
  \A t \in Tasks : Running(t) => pc[t] \in Starting \/ (t \in active /\ client[t])

(* README.md:158 "Successful Codex turns leave the A2A task in             *)
(* input-required so clients can keep appending follow-up messages": a     *)
(* task that is at rest in input-required, and not lost to Close or to a   *)
(* consumer that walked away, has a runtime with a client; and while its   *)
(* process lives, its pending request has a turn or the end of one behind  *)
(* it, or it has no pending request and no turn (executor.go:104-116,      *)
(* 205-210).                                                               *)
EndsIn(t) == {i \in DOMAIN inbox[t] : inbox[t][i].kind \in TurnEnds}

PausedTaskIsResumable ==
  \A t \in Tasks :
    stored[t] = "input-required" /\ Quiet(t) /\ ~ closed /\ t \notin stopped =>
      /\ t \in active /\ client[t]
      /\ Running(t) =>
           IF pending[t] THEN codexTurn[t] # 0 \/ EndsIn(t) # {}
                         ELSE codexTurn[t] = 0 /\ EndsIn(t) = {} /\ ~ turnActive[t]

(* executor.go:193 waits without a deadline: when it does, and Codex is    *)
(* alive, a turn is running or its end is on its way.                      *)
ConsumerHasTurn ==
  \A t \in Tasks :
    pc[t] \in {"consume", "next"} /\ Running(t) /\ client[t] =>
      codexTurn[t] # 0 \/ EndsIn(t) # {}

(* turn/start goes out only to a thread at rest (README.md:162), and no    *)
(* end of an older turn is left for the new one to trip over: consumeTurn  *)
(* does not compare turn ids (executor.go:278-303).                        *)
TurnStartsOnQuietThread ==
  \A t \in Tasks :
    At(t, "turnStart") \/ At(t, "turnWait") => codexTurn[t] = 0 /\ EndsIn(t) = {}

(* A turn the executor knows of keeps its thread from being forked:        *)
(* resolveBaseSession sees it through blocksBranching at every moment but  *)
(* the one between turn/start and startTurn (broker.go:69-87,              *)
(* executor.go:130-148).                                                   *)
KnownTurnBlocksBranching ==
  \A t \in Tasks :
    codexTurn[t] # 0 /\ t \in active =>
      BlocksBranching(t) \/ pc[t] \in {"turnWait", "turnAck", "discard"}

(* A task stored as canceled or failed holds nothing once its goroutines   *)
(* are gone: no runtime, no client, no process (executor.go:228-230,       *)
(* 735-744).                                                               *)
TerminalTaskReleased ==
  \A t \in Tasks :
    stored[t] \in Terminal /\ Quiet(t) => t \notin active /\ ~ Running(t)

(* Only Close takes the client from under an execution: Cancel leaves that *)
(* to Cleanup, and every other finishTask or discardTask is the            *)
(* execution's own (broker.go:397-398, 422, executor.go:735-744).          *)
ClientLostOnlyToClose ==
  \A t \in Tasks : At(t, "nilClient") => closed

(* Unless a consumer goes away, a cancel that found its task leaves        *)
(* it canceled, or failed before it could be, whatever became of the turn  *)
(* and the interrupt (executor.go:717-733).  "Quiet" excludes the cancel   *)
(* that lost its client to the end of the execution.                       *)
CancelRecorded ==
  \A t \in Tasks : cancelRequested[t] /\ Quiet(t) /\ t \notin stopped => stored[t] \in Terminal

(* Unless a consumer goes away, a task nobody works on is in a status      *)
(* a client can act on: it waits for input or is over (executor.go:76-84,  *)
(* 223-231, 287-289).                                                      *)
NoLimbo ==
  \A t \in Tasks :
    Quiet(t) /\ t \notin stopped => stored[t] \in {"none", "input-required"} \cup Terminal

----------------------------------------------------------------------------
(* What the code's documents and tests expect and the runs refute.         *)

(* errStopStreaming says that the consumer wants no more: it is filtered   *)
(* out so that nothing is yielded after it (executor.go:56, 756-759).      *)
NoYieldAfterStop ==
  \A t \in Tasks : ~ At(t, "yieldAfterStop")

(* A session whose turn ran stays in its context, to be forked from.       *)
ContextKeepsHistory ==
  [][\A t \in Tasks, c \in Contexts :
       t \in sessions[c] /\ turnID[t] # 0 => t \in sessions'[c]]_vars

----------------------------------------------------------------------------
(* Liveness.                                                               *)

(* A canceled task is let go of for good: the execution beside the cancel  *)
(* comes to an end, and the runtime and the process with it                *)
(* (executor.go:193-197, 743).                                             *)
CanceledTaskIsReleased ==
  \A t \in Tasks : stored[t] = "canceled" ~> (t \notin active /\ ~ Running(t))

(* "stream did not terminate after executor.Close()"                       *)
(* (executor_compliance_test.go:241): an execution that was reading a turn *)
(* when Close took its client away does terminate.                         *)
CloseEndsReaders ==
  \A t \in Tasks :
    At(t, "next") /\ closed /\ ~ client[t] ~> pc[t] \in {"idle"} \cup Panics
============================================================================
