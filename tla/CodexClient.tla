----------------------------- MODULE CodexClient -----------------------------
(***************************************************************************)
(* The JSON-RPC client of one `codex app-server` process                   *)
(* (src/internal/service/codex_client.go), goroutine by goroutine and      *)
(* channel by channel: readLoop, waitLoop, finish (run by either of them), *)
(* stderrLoop, any number of callers of request, and one caller of next.   *)
(*                                                                         *)
(* A step ends at a channel operation, at a lock of c.mu or at an atomic.  *)
(* An event is its number, so that order and loss can be told.             *)
(***************************************************************************)
EXTENDS Integers, Sequences, FiniteSets, TLC

CONSTANTS
  Callers,      \* goroutines that call request, once each
  EventsCap,    \* capacity of c.events (256 in the code)
  PipeCap,      \* lines the stdout pipe holds
  MaxEvents,    \* bound on the notifications Codex sends
  MayGarble,    \* Codex may print a line that is not JSON
  MayGiveUp     \* the context of a caller may end

ASSUME ClientAssumption ==
  /\ EventsCap \in Nat \ {0} /\ PipeCap \in Nat \ {0} /\ MaxEvents \in Nat
  /\ {MayGarble, MayGiveUp} \subseteq BOOLEAN

VARIABLES
  alive,        \* the process runs
  sent,         \* notifications it has printed
  todo,         \* requests it has read and not answered
  pipe,         \* its stdout
  stderr,       \* "none", "written", "read" (by stderrLoop)
  reaped,       \* cmd.Wait has returned, closing our ends of the pipes
  reader,       \* where readLoop is
  held,         \* the line readLoop has in hand
  waiter,       \* where waitLoop is
  fin,          \* where finish is; anything but "open" is closed = true
  finisher,     \* the goroutine that won closed.CompareAndSwap
  reason,       \* the error it passed to finish
  events,       \* c.events, the buffer
  eventsClosed,
  done,         \* the errors buffered in c.done (capacity 1)
  doneClosed,
  waiting,      \* c.pending: callers readLoop or finish will answer
  answer,       \* the one-slot response channel of each caller
  call,         \* where each caller of request is
  result,       \* what request returned
  syncPoint,    \* how many notifications came before the caller's response
  consumer,     \* where the caller of next is
  got           \* what next returned so far

processVars == <<alive, sent, todo, pipe, stderr, syncPoint>>
readerVars == <<reader, held>>
finishVars == <<fin, finisher, reason>>
channelVars == <<events, eventsClosed, done, doneClosed>>
callVars == <<call, result>>
consumerVars == <<consumer, got>>
userVars == <<waiting, answer, callVars, consumerVars>>
loopVars == <<reaped, readerVars, waiter>>
clientVars == <<loopVars, finishVars, channelVars, userVars>>
vars == <<processVars, clientVars>>

Reasons == {"exited", "exited, stderr", "read error", "decode error"}
Event(n) == [kind |-> "event", n |-> n]
Reply(k, verdict) == [kind |-> "reply", to |-> k, verdict |-> verdict]
Garbage == [kind |-> "garbage"]
NoLine == [kind |-> "none"]
Verdicts == {"ok", "refused"}
Lines == {Event(n) : n \in 1 .. MaxEvents} \cup {Reply(k, v) : k \in Callers, v \in Verdicts}
         \cup {Garbage}

Init ==
  /\ alive = TRUE /\ sent = 0 /\ todo = {} /\ pipe = <<>> /\ stderr = "none"
  /\ reaped = FALSE /\ reader = "read" /\ held = NoLine /\ waiter = "wait"
  /\ fin = "open" /\ finisher = "nobody" /\ reason = "none"
  /\ events = <<>> /\ eventsClosed = FALSE /\ done = <<>> /\ doneClosed = FALSE
  /\ waiting = {}
  /\ answer = [k \in Callers |-> "empty"]
  /\ call = [k \in Callers |-> "idle"]
  /\ result = [k \in Callers |-> "none"]
  /\ syncPoint = [k \in Callers |-> 0]
  /\ consumer = "away" /\ got = <<>>

----------------------------------------------------------------------------
(* The process.                                                            *)

Prints(line) == alive /\ Len(pipe) < PipeCap /\ pipe' = Append(pipe, line)

CodexNotifies ==
  /\ sent < MaxEvents /\ Prints(Event(sent + 1))
  /\ sent' = sent + 1
  /\ UNCHANGED <<alive, todo, stderr, syncPoint, clientVars>>

CodexReplies(k) ==
  /\ k \in todo
  /\ \E verdict \in Verdicts : Prints(Reply(k, verdict))
  /\ todo' = todo \ {k}
  /\ syncPoint' = [syncPoint EXCEPT ![k] = sent]
  /\ UNCHANGED <<alive, sent, stderr, clientVars>>

CodexGarbles ==
  /\ MayGarble /\ Prints(Garbage)
  /\ UNCHANGED <<alive, sent, todo, stderr, syncPoint, clientVars>>

(* The process exits, with or without a word on stderr, or Close kills it. *)
CodexExits ==
  /\ alive /\ alive' = FALSE
  /\ stderr' \in {"none", "written"}
  /\ UNCHANGED <<sent, todo, pipe, syncPoint, clientVars>>

(* stderrLoop; what it has not read when Wait returns is lost.             *)
ReadStderr ==
  /\ stderr = "written" /\ ~ reaped /\ stderr' = "read"
  /\ UNCHANGED <<alive, sent, todo, pipe, syncPoint, clientVars>>

----------------------------------------------------------------------------
(* readLoop.                                                               *)

(* Wait closes the read end of stdout, so lines still in the pipe are lost *)
(* unless they were read before.                                           *)
ReadLine ==
  /\ reader = "read" /\ pipe # <<>> /\ ~ reaped
  /\ held' = Head(pipe) /\ pipe' = Tail(pipe)
  /\ reader' = CASE Head(pipe).kind = "event"   -> "deliver"
                 [] Head(pipe).kind = "reply"   -> "reply"
                 [] Head(pipe).kind = "garbage" -> "fail"
  /\ UNCHANGED <<alive, sent, todo, stderr, syncPoint, reaped, waiter,
                 finishVars, channelVars, userVars>>

(* io.EOF ends the loop without a word; a closed file is a read error.     *)
ReadEnds ==
  /\ reader = "read"
  /\ \/ ~ reaped /\ ~ alive /\ pipe = <<>> /\ reader' = "returned"
     \/ reaped /\ reader' = "fail"
  /\ UNCHANGED <<processVars, reaped, held, waiter, finishVars, channelVars,
                 userVars>>

(* Mutants: a full buffer drops the oldest event or the new one, or does   *)
(* not exist.                                                              *)
DeliverOverOldest ==
  /\ reader = "deliver" /\ ~ eventsClosed
  /\ events' = Append(IF Len(events) < EventsCap THEN events ELSE Tail(events), held.n)
  /\ reader' = "read" /\ held' = NoLine
  /\ UNCHANGED <<processVars, reaped, waiter, finishVars, eventsClosed, done,
                 doneClosed, userVars>>
DeliverOrDrop ==
  /\ reader = "deliver" /\ ~ eventsClosed
  /\ events' = IF Len(events) < EventsCap THEN Append(events, held.n) ELSE events
  /\ reader' = "read" /\ held' = NoLine
  /\ UNCHANGED <<processVars, reaped, waiter, finishVars, eventsClosed, done,
                 doneClosed, userVars>>
DeliverUnbounded ==
  /\ reader = "deliver" /\ ~ eventsClosed
  /\ events' = Append(events, held.n)
  /\ reader' = "read" /\ held' = NoLine
  /\ UNCHANGED <<processVars, reaped, waiter, finishVars, eventsClosed, done,
                 doneClosed, userVars>>

(* The select between c.events and c.done.  A send on a closed channel     *)
(* panics, also for a sender that was already blocked.                     *)
DeliverEvent ==
  /\ reader = "deliver" /\ ~ eventsClosed /\ Len(events) < EventsCap
  /\ events' = Append(events, held.n)
  /\ reader' = "read" /\ held' = NoLine
  /\ UNCHANGED <<processVars, reaped, waiter, finishVars, eventsClosed, done,
                 doneClosed, userVars>>

DeliverSeesDone ==
  /\ reader = "deliver" /\ (done # <<>> \/ doneClosed)
  /\ done' = <<>>
  /\ reader' = "returned" /\ held' = NoLine
  /\ UNCHANGED <<processVars, reaped, waiter, finishVars, events,
                 eventsClosed, doneClosed, userVars>>

DeliverPanics ==
  /\ reader = "deliver" /\ eventsClosed
  /\ reader' = "panic"
  /\ UNCHANGED <<processVars, reaped, held, waiter, finishVars, channelVars,
                 userVars>>

(* Mutant: the response goes to whoever waits.                             *)
DeliverReplyAnywhere ==
  /\ reader = "reply"
  /\ \/ \E k \in waiting :
          /\ waiting' = waiting \ {k}
          /\ answer' = [answer EXCEPT ![k] = held.verdict]
     \/ waiting = {} /\ UNCHANGED <<waiting, answer>>
  /\ reader' = "read" /\ held' = NoLine
  /\ UNCHANGED <<processVars, reaped, waiter, finishVars, channelVars,
                 callVars, consumerVars>>

(* Mutant: the pending entry is deleted and its channel left alone.        *)
DeliverReplyNowhere ==
  /\ reader = "reply"
  /\ waiting' = waiting \ {held.to}
  /\ reader' = "read" /\ held' = NoLine
  /\ UNCHANGED <<processVars, reaped, waiter, finishVars, channelVars, answer,
                 callVars, consumerVars>>

(* The caller may have gone (a write error) or have been answered by       *)
(* finish: then the response is dropped.                                   *)
DeliverReply ==
  /\ reader = "reply"
  /\ waiting' = waiting \ {held.to}
  /\ answer' = IF held.to \in waiting
                 THEN [answer EXCEPT ![held.to] = held.verdict] ELSE answer
  /\ reader' = "read" /\ held' = NoLine
  /\ UNCHANGED <<processVars, reaped, waiter, finishVars, channelVars,
                 callVars, consumerVars>>

----------------------------------------------------------------------------
(* waitLoop.                                                               *)

WaitReturns ==
  /\ waiter = "wait" /\ ~ alive
  /\ reaped' = TRUE
  /\ waiter' = "exited"
  /\ UNCHANGED <<processVars, readerVars, finishVars, channelVars, userVars>>

WaitSeesClosed ==
  /\ waiter = "exited" /\ fin # "open"
  /\ waiter' = "returned"
  /\ UNCHANGED <<processVars, reaped, readerVars, finishVars, channelVars,
                 userVars>>

----------------------------------------------------------------------------
(* finish(err): the winner of the compare-and-swap answers every pending   *)
(* request, then closes c.events, then sends the error on c.done and       *)
(* closes it, in steps that other goroutines can see between.              *)

ReaderFails ==
  /\ reader = "fail"
  /\ reader' = "returned" /\ held' = NoLine
  /\ IF fin = "open"
       THEN /\ fin' = "drain" /\ finisher' = "reader"
            /\ reason' = IF held = Garbage THEN "decode error" ELSE "read error"
       ELSE UNCHANGED finishVars
  /\ UNCHANGED <<processVars, reaped, waiter, channelVars, userVars>>

(* Mutant: a silent exit is not worth an error.                            *)
WaiterIgnoresSilentExit ==
  /\ waiter = "exited" /\ fin = "open"
  /\ waiter' = "returned"
  /\ IF stderr = "read"
       THEN fin' = "drain" /\ finisher' = "waiter" /\ reason' = "exited, stderr"
       ELSE UNCHANGED finishVars
  /\ UNCHANGED <<processVars, reaped, readerVars, channelVars, userVars>>

WaiterFinishes ==
  /\ waiter = "exited" /\ fin = "open"
  /\ waiter' = "returned"
  /\ fin' = "drain" /\ finisher' = "waiter"
  /\ reason' = IF stderr = "read" THEN "exited, stderr" ELSE "exited"
  /\ UNCHANGED <<processVars, reaped, readerVars, channelVars, userVars>>

(* Mutant: finish leaves the pending requests to c.done.                   *)
FinishDrainsNothing ==
  /\ fin = "drain" /\ fin' = "close events"
  /\ UNCHANGED <<processVars, loopVars, finisher, reason, channelVars,
                 userVars>>

FinishDrains ==
  /\ fin = "drain" /\ fin' = "close events"
  /\ answer' = [k \in Callers |-> IF k \in waiting THEN reason ELSE answer[k]]
  /\ waiting' = {}
  /\ UNCHANGED <<processVars, loopVars, finisher, reason, channelVars,
                 callVars, consumerVars>>

FinishClosesEvents ==
  /\ fin = "close events" /\ fin' = "send"
  /\ eventsClosed' = TRUE
  /\ UNCHANGED <<processVars, loopVars, finisher, reason, events, done,
                 doneClosed, userVars>>

FinishSendsError ==
  /\ fin = "send" /\ done = <<>> /\ fin' = "close done"
  /\ done' = <<reason>>
  /\ UNCHANGED <<processVars, loopVars, finisher, reason, events,
                 eventsClosed, doneClosed, userVars>>

FinishClosesDone ==
  /\ fin = "close done" /\ fin' = "closed"
  /\ doneClosed' = TRUE
  /\ UNCHANGED <<processVars, loopVars, finisher, reason, events,
                 eventsClosed, done, userVars>>

----------------------------------------------------------------------------
(* request.                                                                *)

Return(k, what) ==
  /\ call' = [call EXCEPT ![k] = "returned"]
  /\ result' = [result EXCEPT ![k] = what]

AddPending(k) ==
  /\ call[k] = "idle"
  /\ call' = [call EXCEPT ![k] = "write"]
  /\ waiting' = waiting \cup {k}
  /\ UNCHANGED <<processVars, loopVars, finishVars, channelVars, answer,
                 result, consumerVars>>

(* writeJSON succeeds; a process that has just died may leave the line     *)
(* unread.                                                                 *)
WriteRequest(k) ==
  /\ call[k] = "write" /\ fin = "open"
  /\ call' = [call EXCEPT ![k] = "select"]
  /\ todo' = IF alive THEN todo \cup {k} ELSE todo
  /\ UNCHANGED <<alive, sent, pipe, stderr, syncPoint, loopVars, finishVars,
                 channelVars, waiting, answer, result, consumerVars>>

(* Not Alive, or the write fails: the pending entry is taken back.         *)
WriteFails(k) ==
  /\ call[k] = "write"
  /\ \/ fin # "open" /\ Return(k, "not running")
     \/ ~ alive /\ Return(k, "write error")
  /\ waiting' = waiting \ {k}
  /\ UNCHANGED <<processVars, loopVars, finishVars, channelVars, answer,
                 consumerVars>>

(* Mutant: the error of the response is dropped.                           *)
SelectAnswerDroppingError(k) ==
  /\ call[k] = "select" /\ answer[k] # "empty"
  /\ Return(k, IF answer[k] = "ok" THEN "ok" ELSE "nil, nil")
  /\ answer' = [answer EXCEPT ![k] = "empty"]
  /\ UNCHANGED <<processVars, loopVars, finishVars, channelVars, waiting,
                 consumerVars>>

(* The select of request, one action per case.                             *)
SelectAnswer(k) ==
  /\ call[k] = "select" /\ answer[k] # "empty"
  /\ Return(k, answer[k])
  /\ answer' = [answer EXCEPT ![k] = "empty"]
  /\ UNCHANGED <<processVars, loopVars, finishVars, channelVars, waiting,
                 consumerVars>>

(* `case err := <-c.done: return nil, err`.  The second receiver gets the  *)
(* zero error of the closed channel: a nil error beside a nil result.      *)
SelectDone(k) ==
  /\ call[k] = "select"
  /\ \/ done # <<>> /\ Return(k, done[1]) /\ done' = <<>>
     \/ done = <<>> /\ doneClosed /\ Return(k, "nil, nil") /\ UNCHANGED done
  /\ UNCHANGED <<processVars, loopVars, finishVars, events, eventsClosed,
                 doneClosed, waiting, answer, consumerVars>>

(* ctx.Done: the entry stays in c.pending.                                 *)
SelectContext(k) ==
  /\ MayGiveUp /\ call[k] = "select"
  /\ Return(k, "context")
  /\ UNCHANGED <<processVars, loopVars, finishVars, channelVars, waiting,
                 answer, consumerVars>>

----------------------------------------------------------------------------
(* next: one goroutine, which reads for as long as a turn lasts and stops  *)
(* reading for good at the first error.                                    *)

CallNext ==
  /\ consumer = "away" /\ consumer' = "select"
  /\ UNCHANGED <<processVars, loopVars, finishVars, channelVars, waiting,
                 answer, callVars, got>>

NextEvent ==
  /\ consumer = "select" /\ events # <<>>
  /\ got' = Append(got, Head(events)) /\ events' = Tail(events)
  /\ consumer' = "away"
  /\ UNCHANGED <<processVars, loopVars, finishVars, eventsClosed, done,
                 doneClosed, waiting, answer, callVars>>

(* The error comes first even if events are left, when select picks it.    *)
NextFails ==
  /\ consumer = "select"
  /\ \/ done # <<>> \/ doneClosed
     \/ eventsClosed /\ events = <<>>
  /\ done' = <<>> /\ consumer' = "ended"
  /\ UNCHANGED <<processVars, loopVars, finishVars, events, eventsClosed,
                 doneClosed, waiting, answer, callVars, got>>

----------------------------------------------------------------------------
ReadLoop == ReadLine \/ ReadEnds \/ DeliverEvent \/ DeliverSeesDone \/ DeliverPanics
            \/ DeliverReply \/ ReaderFails
WaitLoop == WaitReturns \/ WaitSeesClosed \/ WaiterFinishes
Finish == FinishDrains \/ FinishClosesEvents \/ FinishSendsError \/ FinishClosesDone
Request(k) == AddPending(k) \/ WriteRequest(k) \/ WriteFails(k)
              \/ SelectAnswer(k) \/ SelectDone(k) \/ SelectContext(k)
Codex == CodexNotifies \/ CodexGarbles \/ CodexExits \/ \E k \in Callers : CodexReplies(k)
NextCall == CallNext \/ NextEvent \/ NextFails

Next ==
  \/ Codex \/ ReadStderr \/ ReadLoop \/ WaitLoop \/ Finish \/ NextCall
  \/ \E k \in Callers : Request(k)

Spec == Init /\ [][Next]_vars

(* The goroutines of the client run when they can.  A caller that is in    *)
(* request or in next stays there until it returns; nobody has to call.    *)
FairSpec ==
  /\ Spec
  /\ WF_vars(ReadLoop) /\ WF_vars(WaitLoop) /\ WF_vars(Finish)
  /\ WF_vars(NextEvent \/ NextFails)
  /\ \A k \in Callers :
       WF_vars(WriteRequest(k) \/ WriteFails(k) \/ SelectAnswer(k) \/ SelectDone(k))

----------------------------------------------------------------------------
(* Properties.                                                             *)

(* The channels keep within their capacities and every goroutine is at one *)
(* of its steps (codex_client.go:29-50, 108-117).                          *)
ProcessTypes ==
  /\ alive \in BOOLEAN /\ sent \in 0 .. MaxEvents /\ todo \subseteq Callers
  /\ pipe \in Seq(Lines) /\ Len(pipe) <= PipeCap
  /\ stderr \in {"none", "written", "read"}
  /\ syncPoint \in [Callers -> 0 .. MaxEvents]
LoopTypes ==
  /\ reaped \in BOOLEAN
  /\ reader \in {"read", "deliver", "reply", "fail", "returned", "panic"}
  /\ held \in Lines \cup {NoLine}
  /\ waiter \in {"wait", "exited", "returned"}
  /\ fin \in {"open", "drain", "close events", "send", "close done", "closed"}
  /\ finisher \in {"nobody", "reader", "waiter"}
  /\ reason \in {"none"} \cup Reasons
ChannelTypes ==
  /\ events \in Seq(1 .. MaxEvents) /\ Len(events) <= EventsCap
  /\ done \in Seq(Reasons) /\ Len(done) <= 1
  /\ {eventsClosed, doneClosed} \subseteq BOOLEAN
CallTypes ==
  /\ waiting \subseteq Callers
  /\ answer \in [Callers -> {"empty"} \cup Verdicts \cup Reasons]
  /\ call \in [Callers -> {"idle", "write", "select", "returned"}]
  /\ result \in [Callers -> {"none", "nil, nil", "context", "not running", "write error"}
                            \cup Verdicts \cup Reasons]
  /\ consumer \in {"away", "select", "ended"} /\ got \in Seq(1 .. MaxEvents)
TypeOK == ProcessTypes /\ LoopTypes /\ ChannelTypes /\ CallTypes

(* next hands out the notifications in the order Codex sent them, each     *)
(* once, without a gap: an error may cut the sequence short and nothing    *)
(* else may (codex_client.go:147-176, 350-373).                            *)
Delivered == got \o events
InOrder == \A i \in 1 .. Len(Delivered) : Delivered[i] = i

Answered(k) == answer[k] \in Verdicts \/ result[k] \in Verdicts

(* A response is handed to its caller only when every notification that    *)
(* Codex sent before it can be had from next: when turn/start returns, no  *)
(* older event can still turn up later (codex_client.go:164-195).          *)
ResponseFollowsEvents ==
  \A k \in Callers :
    Answered(k) => syncPoint[k] <= Len(Delivered)

(* However request, readLoop and finish interleave, a caller in its select *)
(* is known to whoever must answer it, or has its answer, or has been left *)
(* with the closed c.done (codex_client.go:216-233, 294-317).              *)
NoCallerForgotten ==
  \A k \in Callers :
    call[k] = "select" /\ fin \notin {"open", "drain"} => answer[k] # "empty"

RepliesTo(line, k) == line.kind = "reply" /\ line.to = k

(* A caller never gets the answer to somebody else's request               *)
(* (codex_client.go:183-195).                                              *)
AnswersAreOwn ==
  \A k \in Callers :
    Answered(k) => k \notin todo /\ ~ \E i \in DOMAIN pipe : RepliesTo(pipe[i], k)

(* Refinement: what request promises its callers.  A call can be answered  *)
(* while its request, or the response to it, is still on its way.          *)
Up == alive /\ fin = "open"
ReplyPrinted(k) ==
  \/ \E i \in DOMAIN pipe : RepliesTo(pipe[i], k)
  \/ RepliesTo(held, k)
CanBeAnswered(k) ==
  \/ call[k] = "write" /\ Up
  \/ answer[k] \in Verdicts
  \/ k \in waiting /\ (ReplyPrinted(k) \/ (k \in todo /\ alive))
CallOf(k) ==
  CASE call[k] = "idle" -> "idle"
    [] call[k] \in {"write", "select"} -> IF CanBeAnswered(k) THEN "asked" ELSE "hopeless"
    [] call[k] = "returned" ->
         CASE result[k] \in {"ok", "refused", "context"} -> result[k]
           [] result[k] = "nil, nil" -> "empty"
           [] OTHER -> "failed"

Contract == INSTANCE ClientContract WITH
  up <- Up, call <- [k \in Callers |-> CallOf(k)]

(* A call that starts after the client has gone never succeeds, an error   *)
(* or an empty result means it has gone, and nothing brings it back        *)
(* (codex_client.go:282-318, 216-233).                                     *)
ImplementsContract == Contract!Spec

(* Nobody waits for a dead process for ever, neither in request, whether   *)
(* or not anyone reads its events, nor in next (codex_client.go:199-233,   *)
(* 307-317, 350-373).                                                      *)
DeadProcessReleasesWaiters ==
  /\ \A k \in Callers : ~ alive /\ call[k] = "select" ~> call[k] = "returned"
  /\ ~ alive /\ consumer = "select" ~> consumer # "select"

(* A response Codex has printed reaches its caller, if somebody keeps      *)
(* calling next: consumeTurn during a turn, drainNotifications always, and *)
(* nobody while a task is paused (codex_client.go:171-172, executor.go:193,*)
(* auth_proxy.go:107-111).                                                 *)
PrintedReplyArrives ==
  WF_vars(CallNext) => \A k \in Callers : ReplyPrinted(k) /\ call[k] = "select" ~> call[k] = "returned"

----------------------------------------------------------------------------
(* What the code's tests expect and the runs refute.                       *)

(* A client that is closed in the middle of a stream ends the stream       *)
(* (executor_compliance_test.go:212-242); a panic in readLoop would take   *)
(* the whole server down.                                                  *)
ReaderSurvives == reader # "panic"
=============================================================================
