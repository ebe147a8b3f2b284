-------------------------- MODULE CodexClientProofs --------------------------
(* Theorems about the client of one app-server, for any callers, channel     *)
(* capacities and number of notifications: events come out in order, an      *)
(* answer reaches the caller it is for and comes after the events that came  *)
(* before it, and nobody is forgotten when the process dies.                 *)
EXTENDS CodexClient, SequenceTheorems, TLAPS

USE ClientAssumption

----------------------------------------------------------------------------
(* The inductive invariant.                                                  *)

(* readLoop is where the line in its hand says; finish closes c.done, runs   *)
(* once the process has exited or readLoop has failed, and its error is in   *)
(* the slots of the callers only once it has drained c.pending.              *)
HandInv ==
  /\ reader \in {"deliver", "panic"} => held.kind = "event"
  /\ reader = "reply" => held.kind = "reply"
  /\ reader = "fail" => held \in {Garbage, NoLine}
  /\ reader \in {"read", "returned"} => held = NoLine
ExitInv == (waiter # "wait" => ~ alive) /\ (doneClosed => fin = "closed")
FinishInv ==
  /\ fin = "open" <=> reason = "none"
  /\ done # <<>> => fin \in {"close done", "closed"}
  /\ \A k \in Callers : answer[k] \in Reasons => fin \notin {"open", "drain"}
StageInv == HandInv /\ FinishInv /\ ExitInv

(* A request, once written, is in one place at a time: read by Codex, on its *)
(* way back as one line of the pipe, in readLoop's hand, or answered.        *)
Written(k) == call[k] \in {"select", "returned"}
InPipe(k, i) == i \in DOMAIN pipe /\ RepliesTo(pipe[i], k)
OnePlace(k) ==
  /\ k \in todo => Written(k) /\ ~ RepliesTo(held, k) /\ ~ Answered(k) /\ \A i \in DOMAIN pipe : ~ InPipe(k, i)
  /\ \A i \in DOMAIN pipe : InPipe(k, i) =>
       /\ Written(k) /\ ~ RepliesTo(held, k) /\ ~ Answered(k)
       /\ \A j \in DOMAIN pipe : InPipe(k, j) => j = i
  /\ RepliesTo(held, k) => Written(k) /\ ~ Answered(k)
  /\ Answered(k) => Written(k)
PlaceInv == \A k \in Callers : OnePlace(k)

(* Until finish has drained c.pending, a caller that has joined it is in it  *)
(* or has its answer.                                                        *)
KnownInv ==
  /\ \A k \in Callers :
       call[k] \in {"write", "select"} /\ fin \in {"open", "drain"} =>
         k \in waiting \/ answer[k] # "empty"
  /\ NoCallerForgotten

(* The lines of a pipe that are events are the ones after `from` and up to   *)
(* `to`, in order; in front of the response to k are those up to `to`.       *)
IsEvent(line, n) == line.kind = "event" /\ line.n = n
Carries(p, from, to) ==
  /\ \A i, j \in DOMAIN p :
       i < j /\ p[i].kind = "event" /\ p[j].kind = "event" => p[i].n < p[j].n
  /\ \A i \in DOMAIN p : p[i].kind = "event" => p[i].n \in from + 1 .. to
  /\ \A n \in from + 1 .. to : \E i \in DOMAIN p : IsEvent(p[i], n)
Precede(p, from, to, k) ==
  \A i \in DOMAIN p : RepliesTo(p[i], k) =>
    \A n \in from + 1 .. to : \E j \in DOMAIN p : j < i /\ IsEvent(p[j], n)

(* While readLoop runs, what it has taken from the pipe, up to the event in  *)
(* its hand, and the events still in the pipe are all that Codex has sent,   *)
(* in order.                                                                 *)
Reading == reader \in {"read", "deliver", "reply"}
Taken == IF held.kind = "event" THEN Len(Delivered) + 1 ELSE Len(Delivered)
StreamInv ==
  /\ InOrder
  /\ Reading => (held.kind = "event" => held.n = Taken) /\ Taken <= sent /\ Carries(pipe, Taken, sent)

(* In front of a response are all the events that were sent before it and    *)
(* not taken yet.                                                            *)
SyncInv ==
  /\ ResponseFollowsEvents
  /\ Reading => \A k \in Callers :
       /\ RepliesTo(held, k) => syncPoint[k] <= Len(Delivered)
       /\ Precede(pipe, Taken, syncPoint[k], k)

ClientInv == TypeOK /\ StageInv /\ PlaceInv /\ KnownInv /\ StreamInv /\ SyncInv

----------------------------------------------------------------------------
(* Lines and the pipe.                                                       *)

LEMMA LineKinds ==
  ASSUME NEW line \in Lines \cup {NoLine}
  PROVE  /\ line.kind \in {"event", "reply", "garbage", "none"}
         /\ line.kind = "event" => line.n \in 1 .. MaxEvents
         /\ line.kind = "reply" => line.to \in Callers /\ line.verdict \in Verdicts
         /\ line.kind = "garbage" => line = Garbage
         /\ line.kind = "none" <=> line = NoLine
<1>1. CASE line = NoLine
  BY <1>1 DEF NoLine
<1>2. CASE line = Garbage
  BY <1>2 DEF NoLine, Garbage
<1>3. ASSUME NEW n \in 1 .. MaxEvents, line = Event(n)
      PROVE  line.kind = "event" /\ line.n = n /\ line # NoLine
  <2>1. line.kind = "event" /\ line.n = n
    BY <1>3 DEF Event
  <2> QED
    BY <2>1 DEF NoLine
<1>4. ASSUME NEW k \in Callers, NEW v \in Verdicts, line = Reply(k, v)
      PROVE  line.kind = "reply" /\ line.to = k /\ line.verdict = v /\ line # NoLine
  <2>1. line.kind = "reply" /\ line.to = k /\ line.verdict = v
    BY <1>4 DEF Reply
  <2> QED
    BY <2>1 DEF NoLine
<1> QED
  BY <1>1, <1>2, <1>3, <1>4 DEF Lines

LEMMA PrintedKinds ==
  /\ \A n \in 1 .. MaxEvents :
       Event(n) \in Lines /\ Event(n).kind = "event" /\ Event(n).n = n
  /\ \A k \in Callers, v \in Verdicts :
       /\ Reply(k, v) \in Lines /\ Reply(k, v).kind = "reply"
       /\ Reply(k, v).to = k /\ Reply(k, v).verdict = v
  /\ Garbage \in Lines /\ Garbage.kind = "garbage" /\ NoLine.kind = "none"
<1>1. \A n \in 1 .. MaxEvents : Event(n) \in Lines
  BY DEF Lines
<1>2. \A n \in 1 .. MaxEvents : Event(n).kind = "event" /\ Event(n).n = n
  BY DEF Event
<1>3. \A k \in Callers, v \in Verdicts : Reply(k, v) \in Lines
  BY DEF Lines
<1>4. \A k \in Callers, v \in Verdicts :
        Reply(k, v).kind = "reply" /\ Reply(k, v).to = k /\ Reply(k, v).verdict = v
  BY DEF Reply
<1>5. Garbage \in Lines /\ Garbage.kind = "garbage" /\ NoLine.kind = "none"
  BY DEF Lines, Garbage, NoLine
<1> QED
  BY <1>1, <1>2, <1>3, <1>4, <1>5

LEMMA PipeGrows ==
  ASSUME pipe \in Seq(Lines), NEW line \in Lines, Prints(line)
  PROVE  /\ pipe' \in Seq(Lines) /\ Len(pipe') = Len(pipe) + 1 /\ Len(pipe') <= PipeCap
         /\ DOMAIN pipe' = 1 .. Len(pipe) + 1 /\ DOMAIN pipe = 1 .. Len(pipe)
         /\ \A i \in DOMAIN pipe : pipe'[i] = pipe[i]
         /\ pipe'[Len(pipe) + 1] = line
BY DEF Prints

LEMMA SequenceFacts ==
  ASSUME NEW S, NEW s \in Seq(S)
  PROVE  /\ <<>> \in Seq(S) /\ Len(<<>>) = 0 /\ Len(s) \in Nat
         /\ \A e \in S : <<e>> \in Seq(S) /\ Len(<<e>>) = 1 /\ <<e>> # <<>> /\ <<e>>[1] = e
         /\ \A e \in S : Append(s, e) \in Seq(S) /\ Len(Append(s, e)) = Len(s) + 1
         /\ s # <<>> => /\ Head(s) \in S /\ s[1] \in S /\ Head(s) = s[1]
                        /\ Tail(s) \in Seq(S) /\ Len(Tail(s)) = Len(s) - 1
<1>1. <<>> \in Seq(S) /\ Len(<<>>) = 0 /\ Len(s) \in Nat
  OBVIOUS
<1>2. \A e \in S : <<e>> \in Seq(S) /\ Len(<<e>>) = 1 /\ <<e>> # <<>> /\ <<e>>[1] = e
  OBVIOUS
<1>3. \A e \in S : Append(s, e) \in Seq(S) /\ Len(Append(s, e)) = Len(s) + 1
  OBVIOUS
<1>4. s # <<>> => Head(s) \in S /\ s[1] \in S /\ Head(s) = s[1]
  OBVIOUS
<1>5. s # <<>> => Tail(s) \in Seq(S) /\ Len(Tail(s)) = Len(s) - 1
  OBVIOUS
<1> QED
  BY <1>1, <1>2, <1>3, <1>4, <1>5

LEMMA PipeShrinks ==
  ASSUME pipe \in Seq(Lines), pipe # <<>>, pipe' = Tail(pipe)
  PROVE  /\ Len(pipe) \in Nat \ {0}
         /\ pipe' \in Seq(Lines) /\ Len(pipe') = Len(pipe) - 1
         /\ DOMAIN pipe' = 1 .. Len(pipe) - 1 /\ DOMAIN pipe = 1 .. Len(pipe)
         /\ \A i \in DOMAIN pipe' : pipe'[i] = pipe[i + 1]
         /\ Head(pipe) = pipe[1] /\ Head(pipe) \in Lines
<1>1. Len(pipe) \in Nat \ {0} /\ DOMAIN pipe = 1 .. Len(pipe) /\ \A i \in DOMAIN pipe : pipe[i] \in Lines
  OBVIOUS
<1>2. pipe' \in Seq(Lines) /\ Len(pipe') = Len(pipe) - 1
  OBVIOUS
<1>3. \A i \in 1 .. Len(pipe) - 1 : pipe'[i] = pipe[i + 1]
  OBVIOUS
<1>4. Head(pipe) = pipe[1]
  OBVIOUS
<1> QED
  BY <1>1, <1>2, <1>3, <1>4

----------------------------------------------------------------------------
(* Types.                                                                    *)

LEMMA InitialTypes == Init => TypeOK
<1> SUFFICES ASSUME Init PROVE TypeOK
  OBVIOUS
<1>1. ProcessTypes
  BY DEF Init, ProcessTypes
<1>2. LoopTypes
  BY DEF Init, LoopTypes
<1>3. CallTypes
  BY DEF Init, CallTypes
<1>4. ChannelTypes
  <2>1. <<>> \in Seq(1 .. MaxEvents) /\ <<>> \in Seq(Reasons) /\ Len(<<>>) = 0
    OBVIOUS
  <2>2. events = <<>> /\ done = <<>> /\ eventsClosed = FALSE /\ doneClosed = FALSE
    BY DEF Init
  <2>3. events \in Seq(1 .. MaxEvents) /\ Len(events) = 0
    BY ONLY <2>1, <2>2, Zenon
  <2>4. done \in Seq(Reasons) /\ Len(done) = 0
    BY ONLY <2>1, <2>2, Zenon
  <2>5. {eventsClosed, doneClosed} \subseteq BOOLEAN
    BY <2>2
  <2> QED
    BY ONLY <2>3, <2>4, <2>5, ClientAssumption DEF ChannelTypes
<1> QED
  BY <1>1, <1>2, <1>3, <1>4 DEF TypeOK

(* Which steps touch what.                                                   *)
LEMMA ProcessFrame ==
  ASSUME \/ ReadEnds \/ DeliverEvent \/ DeliverSeesDone \/ DeliverPanics \/ DeliverReply \/ ReaderFails
         \/ WaitLoop \/ Finish \/ NextCall \/ UNCHANGED vars
         \/ \E k \in Callers : AddPending(k) \/ WriteFails(k) \/ SelectAnswer(k) \/ SelectDone(k)
                               \/ SelectContext(k)
  PROVE  UNCHANGED processVars
<1>1. CASE ReadEnds \/ DeliverEvent \/ DeliverSeesDone \/ DeliverPanics \/ DeliverReply \/ ReaderFails
  BY <1>1 DEF ReadEnds, DeliverEvent, DeliverSeesDone, DeliverPanics, DeliverReply, ReaderFails
<1>2. CASE WaitLoop \/ NextCall \/ UNCHANGED vars
  BY <1>2 DEF WaitLoop, WaitReturns, WaitSeesClosed, WaiterFinishes, NextCall, CallNext, NextEvent, NextFails,
     vars
<1>3. CASE Finish
  BY <1>3 DEF Finish, FinishDrains, FinishClosesEvents, FinishSendsError, FinishClosesDone
<1>4. ASSUME NEW k \in Callers,
             AddPending(k) \/ WriteFails(k) \/ SelectAnswer(k) \/ SelectDone(k) \/ SelectContext(k)
      PROVE  UNCHANGED processVars
  BY <1>4 DEF AddPending, WriteFails, SelectAnswer, SelectDone, SelectContext
<1> QED
  BY <1>1, <1>2, <1>3, <1>4

LEMMA LoopFrame ==
  ASSUME \/ Codex \/ ReadStderr \/ CallNext \/ UNCHANGED vars
         \/ \E k \in Callers : AddPending(k) \/ WriteRequest(k) \/ WriteFails(k) \/ SelectAnswer(k)
                               \/ SelectContext(k)
  PROVE  UNCHANGED <<loopVars, finishVars, channelVars>>
<1>1. CASE Codex \/ ReadStderr
  BY <1>1 DEF Codex, CodexNotifies, CodexGarbles, CodexExits, CodexReplies, ReadStderr, clientVars
<1>2. CASE CallNext \/ UNCHANGED vars
  BY <1>2 DEF CallNext, vars, clientVars
<1>3. ASSUME NEW k \in Callers,
             AddPending(k) \/ WriteRequest(k) \/ WriteFails(k) \/ SelectAnswer(k) \/ SelectContext(k)
      PROVE  UNCHANGED <<loopVars, finishVars, channelVars>>
  BY <1>3 DEF AddPending, WriteRequest, WriteFails, SelectAnswer, SelectContext
<1> QED
  BY <1>1, <1>2, <1>3

LEMMA CallFrame ==
  ASSUME \/ Codex \/ ReadStderr \/ ReadLine \/ ReadEnds \/ DeliverEvent \/ DeliverSeesDone \/ DeliverPanics
         \/ ReaderFails \/ WaitLoop \/ FinishClosesEvents \/ FinishSendsError \/ FinishClosesDone
         \/ UNCHANGED vars
  PROVE  UNCHANGED userVars
<1>1. CASE Codex \/ ReadStderr
  BY <1>1 DEF Codex, CodexNotifies, CodexGarbles, CodexExits, CodexReplies, ReadStderr, clientVars
<1>2. CASE ReadLine \/ ReadEnds \/ DeliverEvent \/ DeliverSeesDone \/ DeliverPanics \/ ReaderFails
  BY <1>2 DEF ReadLine, ReadEnds, DeliverEvent, DeliverSeesDone, DeliverPanics, ReaderFails
<1>3. CASE WaitLoop \/ UNCHANGED vars
  BY <1>3 DEF WaitLoop, WaitReturns, WaitSeesClosed, WaiterFinishes, vars, clientVars
<1>4. CASE FinishClosesEvents \/ FinishSendsError \/ FinishClosesDone
  BY <1>4 DEF FinishClosesEvents, FinishSendsError, FinishClosesDone
<1> QED
  BY <1>1, <1>2, <1>3, <1>4

LEMMA StepProcessTypes == TypeOK /\ StageInv /\ [Next]_vars => ProcessTypes'
<1> SUFFICES ASSUME ProcessTypes, TypeOK, [Next]_vars PROVE ProcessTypes'
  BY DEF TypeOK
<1>1. CASE UNCHANGED processVars
  BY <1>1 DEF processVars, ProcessTypes
<1>2. CASE CodexNotifies
  <2>1. sent + 1 \in 1 .. MaxEvents
    BY <1>2 DEF CodexNotifies, ProcessTypes
  <2>2. pipe' \in Seq(Lines) /\ Len(pipe') <= PipeCap
    BY <1>2, <2>1, PrintedKinds, PipeGrows DEF CodexNotifies, ProcessTypes
  <2> QED
    BY <1>2, <2>1, <2>2 DEF CodexNotifies, ProcessTypes, Prints
<1>3. CASE CodexGarbles
  <2>1. pipe' \in Seq(Lines) /\ Len(pipe') <= PipeCap
    BY <1>3, PrintedKinds, PipeGrows DEF CodexGarbles, ProcessTypes
  <2> QED
    BY <1>3, <2>1 DEF CodexGarbles, ProcessTypes
<1>4. CASE CodexExits \/ ReadStderr
  BY <1>4 DEF CodexExits, ReadStderr, ProcessTypes
<1>5. ASSUME NEW k \in Callers, CodexReplies(k) PROVE ProcessTypes'
  <2>1. PICK v \in Verdicts : Prints(Reply(k, v))
    BY <1>5 DEF CodexReplies
  <2>2. pipe' \in Seq(Lines) /\ Len(pipe') <= PipeCap
    BY <2>1, PrintedKinds, PipeGrows DEF ProcessTypes
  <2> QED
    BY <1>5, <2>2 DEF CodexReplies, ProcessTypes
<1>6. CASE ReadLine
  <2>1. pipe' \in Seq(Lines) /\ Len(pipe') <= PipeCap
    BY <1>6, PipeShrinks DEF ReadLine, ProcessTypes
  <2> QED
    BY <1>6, <2>1 DEF ReadLine, ProcessTypes
<1>7. ASSUME NEW k \in Callers, WriteRequest(k) PROVE ProcessTypes'
  BY <1>7 DEF WriteRequest, ProcessTypes
<1> QED
  BY <1>1, <1>2, <1>3, <1>4, <1>5, <1>6, <1>7, ProcessFrame
  DEF Next, Codex, ReadLoop, Request

LEMMA StepLoopTypes == TypeOK /\ StageInv /\ [Next]_vars => LoopTypes'
<1> SUFFICES ASSUME LoopTypes, ProcessTypes, StageInv, [Next]_vars PROVE LoopTypes'
  BY DEF TypeOK
<1>1. CASE UNCHANGED <<loopVars, finishVars>>
  BY <1>1 DEF loopVars, readerVars, finishVars, LoopTypes
<1>2. CASE ReadLine
  <2>1. Head(pipe) \in Lines /\ Head(pipe).kind \in {"event", "reply", "garbage"}
    <3>1. Head(pipe) \in Lines
      BY <1>2, PipeShrinks DEF ReadLine, ProcessTypes
    <3> QED
      BY <3>1, LineKinds, PrintedKinds DEF Lines
  <2> QED
    BY <1>2, <2>1 DEF ReadLine, finishVars, LoopTypes
<1>3. CASE ReadEnds \/ DeliverPanics \/ DeliverReply \/ DeliverEvent \/ DeliverSeesDone
  BY <1>3 DEF ReadEnds, DeliverPanics, DeliverReply, DeliverEvent, DeliverSeesDone, finishVars, LoopTypes
<1>4. CASE ReaderFails
  BY <1>4 DEF ReaderFails, finishVars, LoopTypes, Reasons
<1>5. CASE WaitLoop
  <2>1. CASE WaitReturns
    BY <2>1 DEF WaitReturns, readerVars, finishVars, LoopTypes
  <2>2. CASE WaitSeesClosed
    BY <2>2 DEF WaitSeesClosed, readerVars, finishVars, LoopTypes
  <2>3. CASE WaiterFinishes
    BY <2>3 DEF WaiterFinishes, readerVars, finishVars, LoopTypes, Reasons
  <2> QED
    BY <1>5, <2>1, <2>2, <2>3 DEF WaitLoop
<1>6. CASE Finish
  BY <1>6 DEF Finish, FinishDrains, FinishClosesEvents, FinishSendsError, FinishClosesDone, loopVars,
     readerVars, LoopTypes
<1>7. ASSUME NEW k \in Callers, SelectDone(k) PROVE LoopTypes'
  BY <1>1, <1>7 DEF SelectDone
<1>8. CASE NextCall
  BY <1>1, <1>8, LoopFrame DEF NextCall, NextEvent, NextFails
<1> QED
  BY <1>1, <1>2, <1>3, <1>4, <1>5, <1>6, <1>7, <1>8, LoopFrame DEF Next, ReadLoop, Request

LEMMA StepChannelTypes == TypeOK /\ StageInv /\ [Next]_vars => ChannelTypes'
<1> SUFFICES ASSUME ChannelTypes, LoopTypes, StageInv, [Next]_vars PROVE ChannelTypes'
  BY DEF TypeOK
<1> DEFINE Numbers == 1 .. MaxEvents
<1>0. /\ events \in Seq(Numbers) /\ Len(events) <= EventsCap
      /\ done \in Seq(Reasons) /\ Len(done) <= 1
      /\ {eventsClosed, doneClosed} \subseteq BOOLEAN
  BY DEF ChannelTypes
<1> SUFFICES /\ events' \in Seq(Numbers) /\ Len(events') <= EventsCap
             /\ done' \in Seq(Reasons) /\ Len(done') <= 1
             /\ {eventsClosed', doneClosed'} \subseteq BOOLEAN
  BY DEF ChannelTypes
<1>1. CASE UNCHANGED channelVars
  BY <1>0, <1>1 DEF channelVars
<1>2. CASE DeliverEvent
  <2>1. held.n \in Numbers
    BY <1>2, LineKinds DEF DeliverEvent, LoopTypes, StageInv, HandInv
  <2> HIDE DEF Numbers
  <2> QED
    BY <1>0, <1>2, <2>1, SequenceFacts DEF DeliverEvent
<1>3. CASE DeliverSeesDone
  <2> HIDE DEF Numbers
  <2> QED
    BY <1>0, <1>3, SequenceFacts DEF DeliverSeesDone
<1>4. CASE FinishSendsError
  <2>1. reason \in Reasons
    BY <1>4 DEF FinishSendsError, StageInv, FinishInv, LoopTypes
  <2>2. done' \in Seq(Reasons) /\ Len(done') = 1
    BY ONLY <1>0, <1>4, <2>1, SequenceFacts DEF FinishSendsError
  <2>3. UNCHANGED <<events, eventsClosed, doneClosed>>
    BY <1>4 DEF FinishSendsError
  <2> QED
    BY ONLY <1>0, <2>2, <2>3
<1>5. CASE FinishClosesEvents \/ FinishClosesDone
  BY <1>0, <1>5 DEF FinishClosesEvents, FinishClosesDone
<1>6. ASSUME NEW k \in Callers, SelectDone(k)
      PROVE  UNCHANGED <<events, eventsClosed, doneClosed>> /\ done' \in {done, <<>>}
  BY <1>6 DEF SelectDone
<1>7. CASE NextEvent
  <2> HIDE DEF Numbers
  <2> QED
    BY <1>0, <1>7, SequenceFacts DEF NextEvent
<1>8. NextFails => UNCHANGED <<events, eventsClosed, doneClosed>> /\ done' \in {done, <<>>}
  BY DEF NextFails
<1>9. UNCHANGED <<events, eventsClosed, doneClosed>> /\ done' \in {done, <<>>}
      => /\ events' \in Seq(Numbers) /\ Len(events') <= EventsCap
         /\ done' \in Seq(Reasons) /\ Len(done') <= 1
         /\ {eventsClosed', doneClosed'} \subseteq BOOLEAN
  <2>1. <<>> \in Seq(Reasons) /\ Len(<<>>) = 0
    OBVIOUS
  <2>2. ASSUME done' \in {done, <<>>} PROVE done' \in Seq(Reasons) /\ Len(done') <= 1
    <3>1. CASE done' = done
      BY ONLY <1>0, <3>1
    <3>2. CASE done' = <<>>
      BY ONLY <2>1, <3>2
    <3> QED
      BY <2>2, <3>1, <3>2
  <2> QED
    BY ONLY <1>0, <2>2
<1>10. \/ UNCHANGED channelVars \/ DeliverEvent \/ DeliverSeesDone \/ FinishSendsError \/ FinishClosesEvents
       \/ FinishClosesDone \/ NextEvent \/ NextFails \/ \E k \in Callers : SelectDone(k)
  <2>1. ReadLine \/ ReadEnds \/ DeliverPanics \/ DeliverReply \/ ReaderFails \/ WaitLoop \/ FinishDrains
        => UNCHANGED channelVars
    BY DEF ReadLine, ReadEnds, DeliverPanics, DeliverReply, ReaderFails, WaitLoop, WaitReturns, WaitSeesClosed,
       WaiterFinishes, FinishDrains
  <2> QED
    BY <2>1, LoopFrame DEF Next, ReadLoop, Finish, Request, NextCall
<1> QED
  BY <1>1, <1>2, <1>3, <1>4, <1>5, <1>6, <1>7, <1>8, <1>9, <1>10

LEMMA StepCallTypes == TypeOK /\ StageInv /\ [Next]_vars => CallTypes'
<1> SUFFICES ASSUME CallTypes, LoopTypes, ChannelTypes, StageInv, [Next]_vars PROVE CallTypes'
  BY DEF TypeOK
<1>1. CASE UNCHANGED userVars
  BY <1>1 DEF userVars, callVars, consumerVars, CallTypes
<1>2. CASE DeliverReply
  <2>1. held.verdict \in Verdicts /\ held.to \in Callers
    BY <1>2, LineKinds DEF DeliverReply, StageInv, HandInv, LoopTypes
  <2> QED
    BY <1>2, <2>1 DEF DeliverReply, callVars, consumerVars, CallTypes
<1>3. CASE FinishDrains
  <2>1. reason \in Reasons
    BY <1>3 DEF FinishDrains, StageInv, FinishInv, LoopTypes
  <2> QED
    BY <1>3, <2>1 DEF FinishDrains, callVars, consumerVars, CallTypes
<1>4. ASSUME NEW k \in Callers, AddPending(k) \/ WriteRequest(k) PROVE CallTypes'
  BY <1>4 DEF AddPending, WriteRequest, consumerVars, CallTypes
<1>5. ASSUME NEW k \in Callers, WriteFails(k) \/ SelectAnswer(k) \/ SelectContext(k) PROVE CallTypes'
  <2>1. CASE WriteFails(k)
    BY <2>1 DEF WriteFails, Return, consumerVars, CallTypes
  <2>2. CASE SelectAnswer(k)
    BY <2>2 DEF SelectAnswer, Return, consumerVars, CallTypes
  <2>3. CASE SelectContext(k)
    BY <2>3 DEF SelectContext, Return, consumerVars, CallTypes
  <2> QED
    BY <1>5, <2>1, <2>2, <2>3
<1>6. ASSUME NEW k \in Callers, SelectDone(k) PROVE CallTypes'
  <2>1. done # <<>> => done[1] \in Reasons
    BY SequenceFacts DEF ChannelTypes
  <2> QED
    BY <1>6, <2>1 DEF SelectDone, Return, consumerVars, CallTypes
<1>7. CASE NextCall
  <2>1. CASE CallNext \/ NextFails
    BY <2>1 DEF CallNext, NextFails, callVars, CallTypes
  <2>2. CASE NextEvent
    <3> DEFINE Numbers == 1 .. MaxEvents
    <3>1. got \in Seq(Numbers) /\ events \in Seq(Numbers)
      BY DEF CallTypes, ChannelTypes
    <3>2. got' \in Seq(Numbers)
      <4> HIDE DEF Numbers
      <4> QED
        BY <2>2, <3>1, SequenceFacts DEF NextEvent
    <3> QED
      BY <2>2, <3>2 DEF NextEvent, callVars, CallTypes
  <2> QED
    BY <1>7, <2>1, <2>2 DEF NextCall
<1> QED
  BY <1>1, <1>2, <1>3, <1>4, <1>5, <1>6, <1>7, CallFrame DEF Next, ReadLoop, Finish, Request

LEMMA StepTypes == TypeOK /\ StageInv /\ [Next]_vars => TypeOK'
BY StepProcessTypes, StepLoopTypes, StepChannelTypes, StepCallTypes DEF TypeOK

----------------------------------------------------------------------------
(* Where the goroutines are.                                                 *)

LEMMA ReaderFrame ==
  ASSUME \/ Codex \/ ReadStderr \/ WaitLoop \/ Finish \/ NextCall \/ UNCHANGED vars
         \/ \E k \in Callers : Request(k)
  PROVE  UNCHANGED readerVars
<1>1. CASE Finish \/ WaitLoop
  BY <1>1 DEF Finish, FinishDrains, FinishClosesEvents, FinishSendsError, FinishClosesDone, loopVars,
     WaitLoop, WaitReturns, WaitSeesClosed, WaiterFinishes
<1>2. CASE NextCall
  BY <1>2 DEF NextCall, CallNext, NextEvent, NextFails, loopVars
<1>3. ASSUME NEW k \in Callers, SelectDone(k) PROVE UNCHANGED readerVars
  BY <1>3 DEF SelectDone, loopVars
<1> QED
  BY <1>1, <1>2, <1>3, LoopFrame DEF Request, loopVars

LEMMA StepHand == TypeOK /\ HandInv /\ [Next]_vars => HandInv'
<1> SUFFICES ASSUME ProcessTypes, LoopTypes, HandInv, [Next]_vars PROVE HandInv'
  BY DEF TypeOK
<1>1. CASE UNCHANGED readerVars
  BY <1>1 DEF readerVars, HandInv
<1>2. CASE ReadLine
  <2>1. Head(pipe) \in Lines
    BY <1>2, PipeShrinks DEF ReadLine, ProcessTypes
  <2>2. Head(pipe).kind \in {"event", "reply", "garbage"} /\ (Head(pipe).kind = "garbage" => Head(pipe) = Garbage)
    BY <2>1, LineKinds, PrintedKinds DEF Lines
  <2> QED
    BY <1>2, <2>2 DEF ReadLine, HandInv
<1>3. CASE ReadEnds \/ DeliverPanics \/ DeliverReply \/ DeliverEvent \/ DeliverSeesDone \/ ReaderFails
  BY <1>3 DEF ReadEnds, DeliverPanics, DeliverReply, DeliverEvent, DeliverSeesDone, ReaderFails, HandInv
<1> QED
  BY <1>1, <1>2, <1>3, ReaderFrame DEF Next, ReadLoop

LEMMA VerdictsAreNotReasons == Verdicts \cap Reasons = {} /\ "empty" \notin Verdicts \cup Reasons
                               /\ "none" \notin Reasons
BY DEF Verdicts, Reasons

LEMMA StepFinish == TypeOK /\ StageInv /\ [Next]_vars => FinishInv'
<1> SUFFICES ASSUME TypeOK, HandInv, FinishInv, [Next]_vars PROVE FinishInv'
  BY DEF StageInv
<1>0. LoopTypes /\ CallTypes
  BY DEF TypeOK
<1>1. CASE Codex
  BY <1>1 DEF Codex, CodexNotifies, CodexGarbles, CodexExits, CodexReplies, Prints, clientVars, loopVars,
     finishVars, channelVars, userVars, FinishInv
<1>2. CASE ReadStderr \/ UNCHANGED vars
  BY <1>2 DEF ReadStderr, vars, clientVars, loopVars, finishVars, channelVars, userVars, FinishInv
<1>3. CASE ReadLine \/ ReadEnds \/ DeliverEvent \/ DeliverPanics
  BY <1>3 DEF ReadLine, ReadEnds, DeliverEvent, DeliverPanics, finishVars, channelVars, userVars,
     FinishInv
<1>4. CASE DeliverSeesDone
  BY <1>4 DEF DeliverSeesDone, finishVars, userVars, FinishInv
<1>5. CASE DeliverReply
  <2>1. held.verdict \in Verdicts /\ held.to \in Callers
    BY <1>5, <1>0, LineKinds DEF DeliverReply, HandInv, LoopTypes
  <2>2. \A k \in Callers : answer'[k] \in Reasons => answer[k] \in Reasons
    BY <1>5, <1>0, <2>1, VerdictsAreNotReasons DEF DeliverReply, CallTypes
  <2> QED
    BY <1>5, <2>2 DEF DeliverReply, finishVars, channelVars, FinishInv
<1>6. CASE ReaderFails
  BY <1>6, <1>0 DEF ReaderFails, finishVars, channelVars, userVars, FinishInv, LoopTypes
<1>7. CASE WaitLoop
  BY <1>7, <1>0 DEF WaitLoop, WaitReturns, WaitSeesClosed, WaiterFinishes, finishVars, channelVars,
     userVars, FinishInv, LoopTypes
<1>8. CASE FinishDrains
  BY <1>8 DEF FinishDrains, loopVars, channelVars, FinishInv
<1>9. CASE FinishClosesEvents \/ FinishSendsError \/ FinishClosesDone
  BY <1>9 DEF FinishClosesEvents, FinishSendsError, FinishClosesDone, loopVars, userVars, FinishInv
<1>10. ASSUME NEW k \in Callers, AddPending(k) \/ WriteRequest(k) \/ WriteFails(k) \/ SelectContext(k)
       PROVE  FinishInv'
  BY <1>10 DEF AddPending, WriteRequest, WriteFails, SelectContext, loopVars, finishVars,
     channelVars, FinishInv
<1>11. ASSUME NEW k \in Callers, SelectAnswer(k) PROVE FinishInv'
  <2>1. \A j \in Callers : answer'[j] \in Reasons => answer[j] \in Reasons
    BY <1>11, <1>0, VerdictsAreNotReasons DEF SelectAnswer, CallTypes
  <2> QED
    BY <1>11, <2>1 DEF SelectAnswer, loopVars, finishVars, channelVars, FinishInv
<1>12. ASSUME NEW k \in Callers, SelectDone(k) PROVE FinishInv'
  BY <1>12 DEF SelectDone, loopVars, finishVars, FinishInv
<1>13. CASE NextCall
  BY <1>13 DEF NextCall, CallNext, NextEvent, NextFails, loopVars, finishVars, channelVars, FinishInv
<1> QED
  BY <1>1, <1>2, <1>3, <1>4, <1>5, <1>6, <1>7, <1>8, <1>9, <1>10, <1>11, <1>12, <1>13
  DEF Next, ReadLoop, Finish, Request

LEMMA StepExit == TypeOK /\ StageInv /\ [Next]_vars => ExitInv'
<1> SUFFICES ASSUME ExitInv, [Next]_vars PROVE ExitInv'
  BY DEF StageInv
<1>1. (alive' => alive) /\ (waiter' # waiter => waiter # "wait" \/ ~ alive')
  <2>1. CASE UNCHANGED <<alive, waiter>>
    BY <2>1
  <2>2. CASE CodexExits \/ WaitLoop
    <3>1. CodexExits => ~ alive' /\ alive
      BY DEF CodexExits
    <3>2. WaitLoop => UNCHANGED alive /\ (waiter = "wait" => ~ alive)
      BY DEF WaitLoop, WaitReturns, WaitSeesClosed, WaiterFinishes, processVars
    <3> QED
      BY <2>2, <3>1, <3>2
  <2>3. UNCHANGED alive \/ CodexExits
    <3>1. CodexNotifies \/ CodexGarbles \/ ReadStderr \/ ReadLine \/ (\E k \in Callers : WriteRequest(k) \/ CodexReplies(k))
          => UNCHANGED alive
      BY DEF CodexNotifies, CodexGarbles, ReadStderr, ReadLine, WriteRequest, CodexReplies
    <3>2. UNCHANGED processVars => UNCHANGED alive
      BY DEF processVars
    <3> QED
      BY <3>1, <3>2, ProcessFrame DEF Next, Codex, ReadLoop, Request
  <2>4. UNCHANGED waiter \/ WaitLoop
    <3>1. ReadLoop \/ NextCall \/ (\E k \in Callers : SelectDone(k)) => UNCHANGED waiter
      BY DEF ReadLoop, ReadLine, ReadEnds, DeliverEvent, DeliverSeesDone, DeliverPanics, DeliverReply, ReaderFails,
         NextCall, CallNext, NextEvent, NextFails, SelectDone, loopVars
    <3>2. Finish \/ UNCHANGED loopVars => UNCHANGED waiter
      BY DEF Finish, FinishDrains, FinishClosesEvents, FinishSendsError, FinishClosesDone, loopVars
    <3> QED
      BY <3>1, <3>2, LoopFrame DEF Next, Request
  <2> QED
    BY <2>1, <2>2, <2>3, <2>4
<1>2. CASE UNCHANGED <<doneClosed, fin>>
  BY <1>1, <1>2 DEF ExitInv
<1>3. ASSUME fin # "closed", ~ doneClosed' PROVE ExitInv'
  BY <1>1, <1>3 DEF ExitInv
<1>4. CASE FinishClosesDone
  BY <1>1, <1>4 DEF FinishClosesDone, ExitInv
<1>5. UNCHANGED <<doneClosed, fin>> \/ FinishClosesDone \/ (fin # "closed" /\ UNCHANGED doneClosed)
  <2>1. ReadLine \/ ReadEnds \/ DeliverEvent \/ DeliverSeesDone \/ DeliverPanics \/ DeliverReply \/ NextCall
        \/ (\E k \in Callers : SelectDone(k))
        => UNCHANGED <<doneClosed, fin>>
    BY DEF ReadLine, ReadEnds, DeliverEvent, DeliverSeesDone, DeliverPanics, DeliverReply, NextCall, CallNext,
       NextEvent, NextFails, SelectDone, finishVars, channelVars
  <2>2. ReaderFails \/ WaitLoop => UNCHANGED <<doneClosed, fin>> \/ (fin # "closed" /\ UNCHANGED doneClosed)
    BY DEF ReaderFails, WaitLoop, WaitReturns, WaitSeesClosed, WaiterFinishes, finishVars, channelVars
  <2>3. FinishDrains \/ FinishClosesEvents \/ FinishSendsError => fin # "closed" /\ UNCHANGED doneClosed
    BY DEF FinishDrains, FinishClosesEvents, FinishSendsError, channelVars
  <2> QED
    BY <2>1, <2>2, <2>3, LoopFrame DEF Next, ReadLoop, Finish, Request, finishVars, channelVars
<1> QED
  BY <1>2, <1>3, <1>4, <1>5 DEF ExitInv

LEMMA StepStage == TypeOK /\ StageInv /\ [Next]_vars => StageInv'
BY StepHand, StepFinish, StepExit DEF StageInv

----------------------------------------------------------------------------
(* A request is in one place at a time.                                      *)

LEMMA InitialPlaces == Init => PlaceInv
<1> SUFFICES ASSUME Init, NEW k \in Callers PROVE OnePlace(k)
  BY DEF PlaceInv
<1>1. ~ RepliesTo(held, k)
  BY PrintedKinds DEF Init, RepliesTo
<1>2. k \notin todo /\ DOMAIN pipe = {} /\ ~ Answered(k)
  BY DEF Init, Answered, Verdicts
<1> QED
  BY <1>1, <1>2 DEF OnePlace

(* A caller is answered by readLoop alone.                                   *)
LEMMA StepAnswered ==
  ASSUME TypeOK, StageInv, [Next]_vars, NEW k \in Callers, Answered(k)'
  PROVE  Answered(k) \/ (DeliverReply /\ RepliesTo(held, k))
<1>0. LoopTypes /\ CallTypes
  BY DEF TypeOK
<1>1. CASE \/ Codex \/ ReadStderr \/ ReadLine \/ ReadEnds \/ DeliverEvent \/ DeliverSeesDone \/ DeliverPanics
           \/ ReaderFails \/ WaitLoop \/ FinishClosesEvents \/ FinishSendsError \/ FinishClosesDone
           \/ UNCHANGED vars
  BY <1>1, CallFrame DEF userVars, callVars, Answered
<1>2. CASE DeliverReply
  <2>1. held.to \in Callers /\ RepliesTo(held, held.to)
    BY <1>2, <1>0, LineKinds DEF DeliverReply, StageInv, HandInv, LoopTypes, RepliesTo
  <2>2. k # held.to => Answered(k)
    BY <1>2, <1>0, <2>1 DEF DeliverReply, Answered, callVars, CallTypes
  <2> QED
    BY <1>2, <2>1, <2>2
<1>3. CASE FinishDrains
  <2>1. reason \in Reasons
    BY <1>3, <1>0 DEF FinishDrains, StageInv, FinishInv, LoopTypes
  <2> QED
    BY <1>3, <2>1, <1>0, VerdictsAreNotReasons DEF FinishDrains, Answered, callVars, CallTypes
<1>4. ASSUME NEW j \in Callers, Request(j) PROVE Answered(k)
  <2>1. done # <<>> => done[1] \in Reasons
    BY SequenceFacts DEF TypeOK, ChannelTypes
  <2>2. {"not running", "write error", "nil, nil", "context"} \cap Verdicts = {}
    BY DEF Verdicts
  <2>3. CASE AddPending(j) \/ WriteRequest(j) \/ WriteFails(j) \/ SelectContext(j)
    BY <2>2, <2>3, <1>0 DEF AddPending, WriteRequest, WriteFails, SelectContext, Return, Answered, CallTypes
  <2>4. CASE SelectAnswer(j)
    BY <2>4, <1>0, VerdictsAreNotReasons DEF SelectAnswer, Return, Answered, CallTypes
  <2>5. CASE SelectDone(j)
    BY <2>1, <2>2, <2>5, <1>0, VerdictsAreNotReasons DEF SelectDone, Return, Answered, CallTypes
  <2> QED
    BY <1>4, <2>3, <2>4, <2>5 DEF Request
<1>5. CASE NextCall
  BY <1>5 DEF NextCall, CallNext, NextEvent, NextFails, callVars, Answered
<1> QED
  BY <1>1, <1>2, <1>3, <1>4, <1>5 DEF Next, ReadLoop, Finish

(* What a step may do to a request without making it be in two places.       *)
LEMMA PlaceKept ==
  ASSUME NEW k \in Callers, OnePlace(k),
         Written(k) => Written(k)', k \in todo' => k \in todo,
         UNCHANGED pipe,
         RepliesTo(held, k)' => RepliesTo(held, k), Answered(k)' => Answered(k)
  PROVE  OnePlace(k)'
BY DEF OnePlace, InPipe, Written

LEMMA StepPlaces == TypeOK /\ StageInv /\ PlaceInv /\ [Next]_vars => PlaceInv'
<1> SUFFICES ASSUME TypeOK, StageInv, PlaceInv, [Next]_vars, NEW k \in Callers PROVE OnePlace(k)'
  BY DEF PlaceInv
<1>0. OnePlace(k) /\ ProcessTypes /\ LoopTypes /\ CallTypes
  BY DEF PlaceInv, TypeOK
<1>1. CASE \/ Codex \/ ReadStderr \/ ReadLine \/ ReadEnds \/ DeliverEvent \/ DeliverSeesDone \/ DeliverPanics
           \/ ReaderFails \/ WaitLoop \/ FinishClosesEvents \/ FinishSendsError \/ FinishClosesDone
           \/ UNCHANGED vars
  <2>0. (Answered(k)' <=> Answered(k)) /\ (Written(k)' <=> Written(k))
    BY <1>1, CallFrame DEF userVars, callVars, Answered, Written
  <2>1. CASE \/ CodexExits \/ ReadStderr \/ WaitLoop \/ FinishClosesEvents \/ FinishSendsError
             \/ FinishClosesDone \/ UNCHANGED vars
    <3>1. UNCHANGED <<todo, pipe, held>>
      BY <2>1, ReaderFrame, ProcessFrame DEF Codex, Finish, CodexExits, ReadStderr, processVars, readerVars
    <3> QED
      BY <3>1, <2>0, <1>0, PlaceKept DEF RepliesTo
  <2>2. CASE ReadEnds \/ DeliverPanics \/ DeliverEvent \/ DeliverSeesDone \/ ReaderFails
    <3>1. UNCHANGED <<todo, pipe>> /\ held' \in {held, NoLine}
      BY <2>2 DEF ReadEnds, DeliverPanics, DeliverEvent, DeliverSeesDone, ReaderFails, processVars
    <3> QED
      BY <3>1, <2>0, <1>0, PlaceKept, PrintedKinds DEF RepliesTo
  <2>3. ASSUME NEW line \in Lines, line.kind # "reply", Prints(line), UNCHANGED <<todo, held>>
        PROVE  OnePlace(k)'
    <3>1. \A i \in DOMAIN pipe' : InPipe(k, i)' => i \in DOMAIN pipe /\ InPipe(k, i)
      BY <2>3, <1>0, PipeGrows DEF InPipe, RepliesTo, ProcessTypes
    <3>2. RepliesTo(held, k)' <=> RepliesTo(held, k)
      BY <2>3 DEF RepliesTo
    <3> QED
      BY <1>0, <2>0, <2>3, <3>1, <3>2 DEF OnePlace
  <2>4. CASE CodexNotifies
    <3>1. sent + 1 \in 1 .. MaxEvents
      BY <2>4, <1>0 DEF CodexNotifies, ProcessTypes
    <3> QED
      BY <2>3, <2>4, <3>1, PrintedKinds DEF CodexNotifies, clientVars, loopVars, readerVars
  <2>5. CASE CodexGarbles
    BY <2>3, <2>5, PrintedKinds DEF CodexGarbles, clientVars, loopVars, readerVars
  <2>6. ASSUME NEW j \in Callers, CodexReplies(j) PROVE OnePlace(k)'
    <3>1. PICK v \in Verdicts : Prints(Reply(j, v))
      BY <2>6 DEF CodexReplies
    <3>2. Reply(j, v) \in Lines /\ (RepliesTo(Reply(j, v), k) <=> j = k)
      BY PrintedKinds DEF RepliesTo
    <3>3. \A i \in DOMAIN pipe' : InPipe(k, i)' <=> InPipe(k, i) \/ (i = Len(pipe) + 1 /\ j = k)
      BY <3>1, <3>2, <1>0, PipeGrows DEF InPipe, RepliesTo, ProcessTypes
    <3>4. RepliesTo(held, k)' <=> RepliesTo(held, k)
      BY <2>6 DEF CodexReplies, clientVars, loopVars, readerVars, RepliesTo
    <3>5. todo' = todo \ {j} /\ j \in todo
      BY <2>6 DEF CodexReplies
    <3>6. \A i \in DOMAIN pipe' : InPipe(k, i) => i \in DOMAIN pipe
      BY DEF InPipe
    <3> QED
      BY <1>0, <2>0, <3>3, <3>4, <3>5, <3>6 DEF OnePlace
  <2>7. CASE ReadLine
    <3>1. \A i \in DOMAIN pipe' : InPipe(k, i)' <=> InPipe(k, i + 1)
      BY <2>7, <1>0, PipeShrinks DEF ReadLine, InPipe, RepliesTo, ProcessTypes
    <3>2. RepliesTo(held, k)' <=> InPipe(k, 1)
      BY <2>7, <1>0, PipeShrinks DEF ReadLine, InPipe, RepliesTo, ProcessTypes
    <3>3. UNCHANGED todo
      BY <2>7 DEF ReadLine
    <3>4. 1 \in DOMAIN pipe /\ \A i \in DOMAIN pipe' : i \in Nat \ {0} /\ i + 1 \in DOMAIN pipe
      BY <2>7, <1>0, PipeShrinks DEF ReadLine, ProcessTypes
    <3> QED
      BY <1>0, <2>0, <3>1, <3>2, <3>3, <3>4 DEF OnePlace
  <2> QED
    BY <1>1, <2>1, <2>2, <2>4, <2>5, <2>6, <2>7 DEF Codex
<1>2. CASE DeliverReply
  <2>1. /\ held.to \in Callers /\ RepliesTo(held, held.to) /\ ~ RepliesTo(NoLine, k)
        /\ (RepliesTo(held, k) <=> k = held.to)
    BY <1>2, <1>0, LineKinds, PrintedKinds DEF DeliverReply, StageInv, HandInv, LoopTypes, RepliesTo
  <2>2. k # held.to => (Answered(k)' <=> Answered(k))
    BY <1>2, <1>0, <2>1 DEF DeliverReply, Answered, callVars, CallTypes
  <2>3. UNCHANGED <<todo, pipe>> /\ (Written(k)' <=> Written(k)) /\ ~ RepliesTo(held, k)'
    BY <1>2, <2>1 DEF DeliverReply, processVars, callVars, Written, RepliesTo
  <2>4. \A i \in DOMAIN pipe : InPipe(k, i)' <=> InPipe(k, i)
    BY <2>3 DEF InPipe, RepliesTo
  <2> QED
    BY <1>0, <2>1, <2>2, <2>3, <2>4 DEF OnePlace
<1>3. CASE FinishDrains
  <2>2. Answered(k)' => Answered(k)
    BY <1>3, StepAnswered DEF FinishDrains, loopVars, DeliverReply, readerVars, NoLine
  <2>3. UNCHANGED <<todo, pipe, held>> /\ (Written(k)' <=> Written(k))
    BY <1>3 DEF FinishDrains, processVars, loopVars, readerVars, callVars, Written
  <2> QED
    BY <1>0, <2>2, <2>3, PlaceKept DEF RepliesTo
<1>4. ASSUME NEW j \in Callers, AddPending(j) \/ WriteFails(j) \/ SelectAnswer(j) \/ SelectDone(j) \/ SelectContext(j)
      PROVE  OnePlace(k)'
  <2>1. UNCHANGED <<todo, pipe, held>>
    BY <1>4, ProcessFrame, ReaderFrame DEF Request, processVars, readerVars
  <2>2. Written(k) => Written(k)'
    BY <1>4, <1>0 DEF AddPending, WriteFails, SelectAnswer, SelectDone, SelectContext, Return, Written, CallTypes
  <2>3. Answered(k)' => Answered(k)
    <3>1. DeliverReply => UNCHANGED call
      BY DEF DeliverReply, callVars
    <3>2. ~ DeliverReply \/ ~ UNCHANGED call
      BY <1>4, <1>0 DEF AddPending, WriteFails, SelectAnswer, SelectDone, SelectContext, Return, CallTypes
    <3> QED
      BY <3>1, <3>2, StepAnswered
  <2> QED
    BY <1>0, <2>1, <2>2, <2>3, PlaceKept DEF RepliesTo
<1>5. ASSUME NEW j \in Callers, WriteRequest(j) PROVE OnePlace(k)'
  <2>1. UNCHANGED <<pipe, held>> /\ todo' \in {todo, todo \cup {j}}
    BY <1>5 DEF WriteRequest, loopVars, readerVars
  <2>2. ~ Written(j) /\ (k = j => Written(k)') /\ (Written(k) => Written(k)')
    BY <1>5, <1>0 DEF WriteRequest, Written, CallTypes
  <2>3. Answered(k)' <=> Answered(k)
    BY <1>5 DEF WriteRequest, Answered
  <2>4. (RepliesTo(held, k)' <=> RepliesTo(held, k)) /\ \A i \in DOMAIN pipe : InPipe(k, i)' <=> InPipe(k, i)
    BY <2>1 DEF InPipe, RepliesTo
  <2> QED
    BY <1>0, <2>1, <2>2, <2>3, <2>4 DEF OnePlace
<1>6. CASE NextCall
  <2>1. UNCHANGED <<todo, pipe, held, answer, call, result>>
    BY <1>6, ProcessFrame, ReaderFrame DEF processVars, readerVars, callVars, NextCall, CallNext, NextEvent, NextFails
  <2> QED
    BY <1>0, <2>1, PlaceKept DEF RepliesTo, Written, Answered
<1> QED
  BY <1>1, <1>2, <1>3, <1>4, <1>5, <1>6 DEF Next, ReadLoop, Finish, Request

----------------------------------------------------------------------------
(* Nobody is forgotten.                                                      *)

LEMMA StepKnown == TypeOK /\ StageInv /\ PlaceInv /\ KnownInv /\ [Next]_vars => KnownInv'
<1> SUFFICES ASSUME TypeOK, StageInv, PlaceInv, KnownInv, [Next]_vars, NEW k \in Callers,
                    call'[k] \in {"write", "select"}
             PROVE  /\ fin' \in {"open", "drain"} => k \in waiting' \/ answer'[k] # "empty"
                    /\ call'[k] = "select" /\ fin' \notin {"open", "drain"} => answer'[k] # "empty"
  BY DEF KnownInv, NoCallerForgotten
<1>0. LoopTypes /\ CallTypes
  BY DEF TypeOK
<1> DEFINE Known == /\ call[k] \in {"write", "select"} /\ fin \in {"open", "drain"} => k \in waiting \/ answer[k] # "empty"
                    /\ call[k] = "select" /\ fin \notin {"open", "drain"} => answer[k] # "empty"
<1>a. Known
  BY DEF KnownInv, NoCallerForgotten
<1>1. ASSUME fin' = fin \/ (fin = "open" /\ fin' = "drain") \/ (fin \notin {"open", "drain"} /\ fin' \notin {"open", "drain"}),
             call'[k] = call[k],
             answer[k] # "empty" => answer'[k] # "empty",
             k \in waiting => k \in waiting' \/ answer'[k] # "empty"
      PROVE  Known'
  BY <1>a, <1>1
<1>2. CASE \/ Codex \/ ReadStderr \/ ReadLine \/ ReadEnds \/ DeliverEvent \/ DeliverSeesDone \/ DeliverPanics
           \/ ReaderFails \/ WaitLoop \/ FinishClosesEvents \/ FinishSendsError \/ FinishClosesDone
           \/ UNCHANGED vars
  <2>1. UNCHANGED <<call, answer, waiting>>
    BY <1>2, CallFrame DEF userVars, callVars
  <2>2. fin' = fin \/ (fin = "open" /\ fin' = "drain") \/ (fin \notin {"open", "drain"} /\ fin' \notin {"open", "drain"})
    <3>1. Codex \/ ReadStderr \/ UNCHANGED vars => fin' = fin
      BY LoopFrame DEF finishVars
    <3>2. ReadLine \/ ReadEnds \/ DeliverEvent \/ DeliverSeesDone \/ DeliverPanics => fin' = fin
      BY DEF ReadLine, ReadEnds, DeliverEvent, DeliverSeesDone, DeliverPanics, finishVars
    <3>3. ReaderFails \/ WaitLoop => fin' = fin \/ (fin = "open" /\ fin' = "drain")
      BY DEF ReaderFails, WaitLoop, WaitReturns, WaitSeesClosed, WaiterFinishes, finishVars
    <3>4. FinishClosesEvents \/ FinishSendsError \/ FinishClosesDone
          => fin \notin {"open", "drain"} /\ fin' \notin {"open", "drain"}
      BY DEF FinishClosesEvents, FinishSendsError, FinishClosesDone
    <3> QED
      BY <1>2, <3>1, <3>2, <3>3, <3>4
  <2> QED
    BY <1>1, <2>1, <2>2
<1>3. CASE DeliverReply
  <2>1. held.to \in Callers /\ held.verdict \in Verdicts
    BY <1>3, <1>0, LineKinds DEF DeliverReply, StageInv, HandInv, LoopTypes
  <2>2. answer[k] # "empty" => answer'[k] # "empty"
    BY <1>3, <1>0, <2>1, VerdictsAreNotReasons DEF DeliverReply, CallTypes
  <2>3. k \in waiting => k \in waiting' \/ answer'[k] # "empty"
    BY <1>3, <1>0, <2>1, VerdictsAreNotReasons DEF DeliverReply, CallTypes
  <2> QED
    BY <1>1, <1>3, <2>2, <2>3 DEF DeliverReply, finishVars, callVars
<1>4. CASE FinishDrains
  <2>1. reason \in Reasons
    BY <1>4, <1>0 DEF FinishDrains, StageInv, FinishInv, LoopTypes
  <2> QED
    BY <1>4, <2>1, <1>a, <1>0, VerdictsAreNotReasons DEF FinishDrains, callVars, CallTypes
<1>5. ASSUME NEW j \in Callers, AddPending(j) PROVE Known'
  BY <1>5, <1>a, <1>0 DEF AddPending, finishVars, CallTypes
<1>6. ASSUME NEW j \in Callers, WriteRequest(j) PROVE Known'
  BY <1>6, <1>a, <1>0 DEF WriteRequest, finishVars, CallTypes
<1>7. ASSUME NEW j \in Callers, WriteFails(j) \/ SelectAnswer(j) \/ SelectDone(j) \/ SelectContext(j)
      PROVE  Known'
  <2>1. fin' = fin
    BY <1>7 DEF WriteFails, SelectAnswer, SelectDone, SelectContext, finishVars
  <2>2. k = j => call'[k] = "returned"
    BY <1>7, <1>0 DEF WriteFails, SelectAnswer, SelectDone, SelectContext, Return, CallTypes
  <2>3. k # j => call'[k] = call[k] /\ answer'[k] = answer[k] /\ (k \in waiting => k \in waiting')
    BY <1>7, <1>0 DEF WriteFails, SelectAnswer, SelectDone, SelectContext, Return, CallTypes
  <2> QED
    BY <1>1, <2>1, <2>2, <2>3
<1>8. CASE NextCall
  <2>1. UNCHANGED <<answer, call, waiting, fin>>
    BY <1>8 DEF finishVars, callVars, NextCall, CallNext, NextEvent, NextFails
  <2> QED
    BY <1>1, <2>1
<1>9. Known'
  BY <1>2, <1>3, <1>4, <1>5, <1>6, <1>7, <1>8 DEF Next, ReadLoop, Finish, Request
<1> QED
  BY <1>9

----------------------------------------------------------------------------
(* Events come out in order.                                                 *)

LEMMA AppendToConcat ==
  ASSUME NEW S, NEW s \in Seq(S), NEW t \in Seq(S), NEW e \in S
  PROVE  /\ Len(s \o t) \in Nat /\ Len(s \o Append(t, e)) = Len(s \o t) + 1
         /\ \A i \in 1 .. Len(s \o t) : (s \o Append(t, e))[i] = (s \o t)[i]
         /\ (s \o Append(t, e))[Len(s \o t) + 1] = e
<1>1. s \o t \in Seq(S) /\ Len(s \o t) = Len(s) + Len(t) /\ Len(s \o t) \in Nat
  OBVIOUS
<1>2. /\ Append(t, e) \in Seq(S) /\ Len(Append(t, e)) = Len(t) + 1 /\ Append(t, e)[Len(t) + 1] = e
      /\ \A i \in 1 .. Len(t) : Append(t, e)[i] = t[i]
  OBVIOUS
<1>3. Len(s \o Append(t, e)) = Len(s \o t) + 1
  BY <1>1, <1>2
<1>4. \A i \in 1 .. Len(s \o t) : (s \o Append(t, e))[i] = (s \o t)[i]
  BY <1>1, <1>2
<1>5. (s \o Append(t, e))[Len(s \o t) + 1] = e
  BY <1>1, <1>2
<1> QED
  BY <1>1, <1>3, <1>4, <1>5

LEMMA MoveHead ==
  ASSUME NEW S, NEW s \in Seq(S), NEW t \in Seq(S), t # <<>>
  PROVE  /\ Len(s \o t) \in Nat /\ Len(Append(s, Head(t)) \o Tail(t)) = Len(s \o t)
         /\ \A i \in 1 .. Len(s \o t) : (Append(s, Head(t)) \o Tail(t))[i] = (s \o t)[i]
<1> DEFINE h == Append(s, Head(t))
           r == Tail(t)
<1>1. h \in Seq(S) /\ Len(h) = Len(s) + 1 /\ h[Len(s) + 1] = t[1] /\ \A i \in 1 .. Len(s) : h[i] = s[i]
  OBVIOUS
<1>2. r \in Seq(S) /\ Len(r) = Len(t) - 1 /\ \A i \in 1 .. Len(t) - 1 : r[i] = t[i + 1]
  OBVIOUS
<1> HIDE DEF h, r
<1>3. /\ Len(s \o t) = Len(s) + Len(t)
      /\ \A i \in 1 .. Len(s) + Len(t) : (s \o t)[i] = IF i <= Len(s) THEN s[i] ELSE t[i - Len(s)]
  BY ConcatProperties
<1>4. /\ Len(h \o r) = Len(h) + Len(r)
      /\ \A i \in 1 .. Len(h) + Len(r) : (h \o r)[i] = IF i <= Len(h) THEN h[i] ELSE r[i - Len(h)]
  BY <1>1, <1>2, ConcatProperties
<1>5. Len(t) \in Nat /\ Len(s) \in Nat
  OBVIOUS
<1> QED
  BY <1>1, <1>2, <1>3, <1>4, <1>5 DEF h, r

(* What the consumer has or can have grows by the event that readLoop        *)
(* delivers and by nothing else; a receive only moves its head.              *)
SameDelivered == Len(Delivered') = Len(Delivered) /\ \A i \in 1 .. Len(Delivered) : Delivered'[i] = Delivered[i]
MoreDelivered ==
  /\ Len(Delivered') = Len(Delivered) + 1 /\ Delivered'[Len(Delivered) + 1] = held.n
  /\ \A i \in 1 .. Len(Delivered) : Delivered'[i] = Delivered[i]

LEMMA StepDelivered ==
  ASSUME TypeOK, StageInv, [Next]_vars
  PROVE  /\ Len(Delivered) \in Nat
         /\ DeliverEvent => MoreDelivered
         /\ ~ DeliverEvent => SameDelivered
<1> DEFINE Numbers == 1 .. MaxEvents
<1>1. got \in Seq(Numbers) /\ events \in Seq(Numbers)
  BY DEF TypeOK, CallTypes, ChannelTypes
<1>2. Len(Delivered) \in Nat
  <2> HIDE DEF Numbers
  <2> QED
    BY <1>1, ConcatProperties, SequenceFacts DEF Delivered
<1>3. CASE DeliverEvent
  <2>1. held.n \in Numbers
    BY <1>3, LineKinds DEF DeliverEvent, TypeOK, LoopTypes, StageInv, HandInv
  <2>2. got' = got /\ events' = Append(events, held.n)
    BY <1>3 DEF DeliverEvent, userVars, consumerVars
  <2> HIDE DEF Numbers
  <2>3. MoreDelivered
    BY <1>1, <2>1, <2>2, AppendToConcat DEF Delivered, MoreDelivered
  <2> QED
    BY <1>2, <1>3, <2>3
<1>4. CASE NextEvent /\ ~ DeliverEvent
  <2>1. got' = Append(got, Head(events)) /\ events' = Tail(events) /\ events # <<>>
    BY <1>4 DEF NextEvent
  <2> HIDE DEF Numbers
  <2> QED
    BY <1>1, <1>2, <1>4, <2>1, MoveHead DEF Delivered, SameDelivered
<1>5. CASE ~ DeliverEvent /\ ~ NextEvent
  <2>1. UNCHANGED <<got, events>>
    <3>1. CASE \/ ReadLine \/ ReadEnds \/ DeliverSeesDone \/ DeliverPanics \/ ReaderFails \/ WaitLoop
               \/ DeliverReply \/ Finish \/ CallNext \/ NextFails
      BY <3>1 DEF ReadLine, ReadEnds, DeliverSeesDone, DeliverPanics, ReaderFails, WaitLoop, WaitReturns,
         WaitSeesClosed, WaiterFinishes, DeliverReply, Finish, FinishDrains, FinishClosesEvents, FinishSendsError,
         FinishClosesDone, CallNext, NextFails, channelVars, userVars, consumerVars
    <3>2. CASE Codex \/ ReadStderr \/ UNCHANGED vars
      BY <3>2, CallFrame, LoopFrame DEF channelVars, userVars, consumerVars
    <3>3. ASSUME NEW k \in Callers, Request(k) PROVE UNCHANGED <<got, events>>
      BY <3>3 DEF Request, AddPending, WriteRequest, WriteFails, SelectAnswer, SelectDone, SelectContext,
         channelVars, consumerVars
    <3> QED
      BY <1>5, <3>1, <3>2, <3>3 DEF Next, ReadLoop, NextCall
  <2> QED
    BY <1>2, <1>5, <2>1 DEF Delivered, SameDelivered
<1> QED
  BY <1>2, <1>3, <1>4, <1>5

LEMMA CarriesMore ==
  ASSUME NEW p \in Seq(Lines), NEW line \in Lines, NEW from \in Nat, NEW to \in Nat, Carries(p, from, to)
  PROVE  /\ line.kind # "event" => Carries(Append(p, line), from, to)
         /\ IsEvent(line, to + 1) /\ from <= to => Carries(Append(p, line), from, to + 1)
<1> DEFINE q == Append(p, line)
<1>1. /\ DOMAIN q = 1 .. Len(p) + 1 /\ DOMAIN p = 1 .. Len(p) /\ Len(p) \in Nat
      /\ \A i \in DOMAIN p : q[i] = p[i]
      /\ q[Len(p) + 1] = line
  OBVIOUS
<1> HIDE DEF q
<1>2. \A i \in DOMAIN q : i \in DOMAIN p \/ i = Len(p) + 1
  BY <1>1
<1>3. \A n \in from + 1 .. to : \E i \in DOMAIN q : IsEvent(q[i], n)
  BY <1>1 DEF Carries
<1>4. ASSUME line.kind # "event" PROVE Carries(q, from, to)
  <2>1. \A i \in DOMAIN q : q[i].kind = "event" => i \in DOMAIN p /\ q[i] = p[i]
    BY <1>1, <1>2, <1>4
  <2> QED
    BY <1>3, <2>1 DEF Carries
<1>5. ASSUME IsEvent(line, to + 1), from <= to PROVE Carries(q, from, to + 1)
  <2>1. ASSUME NEW i \in DOMAIN q, NEW j \in DOMAIN q, i < j, q[i].kind = "event", q[j].kind = "event"
        PROVE  q[i].n < q[j].n
    <3>1. i \in DOMAIN p /\ q[i] = p[i]
      BY <1>1, <2>1
    <3>2. p[i].n \in from + 1 .. to
      BY <2>1, <3>1 DEF Carries
    <3>3. CASE j \in DOMAIN p
      BY <1>1, <2>1, <3>1, <3>3 DEF Carries
    <3>4. CASE j = Len(p) + 1
      BY <1>1, <1>5, <3>1, <3>2, <3>4 DEF IsEvent
    <3> QED
      BY <1>2, <3>3, <3>4
  <2>2. \A i \in DOMAIN q : q[i].kind = "event" => q[i].n \in from + 1 .. to + 1
    BY <1>1, <1>5 DEF Carries, IsEvent
  <2>3. \A n \in from + 1 .. to + 1 : \E i \in DOMAIN q : IsEvent(q[i], n)
    BY <1>1, <1>5 DEF Carries, IsEvent
  <2> QED
    BY <2>1, <2>2, <2>3 DEF Carries
<1> QED
  BY <1>4, <1>5 DEF q

LEMMA CarriesLess ==
  ASSUME NEW p \in Seq(Lines), p # <<>>, NEW from \in Nat, NEW to \in Nat, Carries(p, from, to)
  PROVE  /\ p[1].kind # "event" => Carries(Tail(p), from, to)
         /\ p[1].kind = "event" => p[1].n = from + 1 /\ Carries(Tail(p), from + 1, to)
<1> DEFINE q == Tail(p)
<1>1. /\ DOMAIN q = 1 .. Len(p) - 1 /\ DOMAIN p = 1 .. Len(p) /\ Len(p) \in Nat \ {0}
      /\ \A i \in DOMAIN q : q[i] = p[i + 1]
  OBVIOUS
<1> HIDE DEF q
<1>2. /\ \A i, j \in DOMAIN q : i < j /\ q[i].kind = "event" /\ q[j].kind = "event" => q[i].n < q[j].n
      /\ \A i \in DOMAIN q : q[i].kind = "event" => q[i].n \in from + 1 .. to
  <2>1. \A i \in DOMAIN q : i + 1 \in DOMAIN p /\ q[i] = p[i + 1] /\ i \in Int
    BY <1>1
  <2>2. \A i, j \in DOMAIN q : i < j => i + 1 < j + 1
    BY <2>1
  <2> QED
    BY <2>1, <2>2 DEF Carries
<1>3. ASSUME p[1].kind # "event" PROVE Carries(q, from, to)
  <2>1. ASSUME NEW n \in from + 1 .. to PROVE \E i \in DOMAIN q : IsEvent(q[i], n)
    <3>1. PICK i \in DOMAIN p : IsEvent(p[i], n)
      BY DEF Carries
    <3>2. i - 1 \in DOMAIN q /\ q[i - 1] = p[i]
      BY <1>1, <1>3, <3>1 DEF IsEvent
    <3> QED
      BY <3>1, <3>2
  <2> QED
    BY <1>2, <2>1 DEF Carries
<1>4. ASSUME p[1].kind = "event" PROVE p[1].n = from + 1 /\ Carries(q, from + 1, to)
  <2>1. p[1].n \in from + 1 .. to /\ 1 \in DOMAIN p
    BY <1>1, <1>4 DEF Carries
  <2>2. PICK j \in DOMAIN p : IsEvent(p[j], from + 1)
    BY <2>1 DEF Carries
  <2>3. p[1].n = from + 1
    BY <1>1, <1>4, <2>1, <2>2 DEF Carries, IsEvent
  <2>4. ASSUME NEW i \in DOMAIN q, q[i].kind = "event" PROVE q[i].n \in from + 1 + 1 .. to
    <3>1. i + 1 \in DOMAIN p /\ q[i] = p[i + 1] /\ 1 < i + 1
      BY <1>1
    <3>2. p[i + 1].n \in from + 1 .. to /\ p[1].n < p[i + 1].n
      BY <1>4, <2>1, <2>4, <3>1 DEF Carries
    <3> QED
      BY <2>3, <3>1, <3>2
  <2>5. ASSUME NEW n \in from + 1 + 1 .. to PROVE \E i \in DOMAIN q : IsEvent(q[i], n)
    <3>1. PICK i \in DOMAIN p : IsEvent(p[i], n)
      BY DEF Carries
    <3>2. i - 1 \in DOMAIN q /\ q[i - 1] = p[i]
      BY <1>1, <2>3, <3>1 DEF IsEvent
    <3> QED
      BY <3>1, <3>2
  <2> QED
    BY <1>2, <2>3, <2>4, <2>5 DEF Carries
<1> QED
  BY <1>3, <1>4 DEF q

LEMMA PrecedeMore ==
  ASSUME NEW p \in Seq(Lines), NEW line \in Lines, NEW from \in Nat, NEW to \in Nat, NEW k
  PROVE  /\ ~ RepliesTo(line, k) /\ Precede(p, from, to, k) => Precede(Append(p, line), from, to, k)
         /\ (\A i \in DOMAIN p : ~ RepliesTo(p[i], k)) /\ Carries(p, from, to)
            => Precede(Append(p, line), from, to, k)
<1> DEFINE q == Append(p, line)
<1>1. /\ DOMAIN q = 1 .. Len(p) + 1 /\ DOMAIN p = 1 .. Len(p) /\ Len(p) \in Nat
      /\ \A i \in DOMAIN p : q[i] = p[i]
      /\ q[Len(p) + 1] = line
  OBVIOUS
<1> HIDE DEF q
<1>2. \A i \in DOMAIN q : i \in DOMAIN p \/ i = Len(p) + 1
  BY <1>1
<1>3. ASSUME ~ RepliesTo(line, k), Precede(p, from, to, k) PROVE Precede(q, from, to, k)
  <2>1. ASSUME NEW i \in DOMAIN q, RepliesTo(q[i], k), NEW n \in from + 1 .. to
        PROVE  \E j \in DOMAIN q : j < i /\ IsEvent(q[j], n)
    <3>1. i \in DOMAIN p /\ RepliesTo(p[i], k)
      BY <1>1, <1>2, <1>3, <2>1
    <3>2. PICK j \in DOMAIN p : j < i /\ IsEvent(p[j], n)
      BY <1>3, <3>1 DEF Precede
    <3> QED
      BY <1>1, <3>2
  <2> QED
    BY <2>1 DEF Precede
<1>4. ASSUME \A i \in DOMAIN p : ~ RepliesTo(p[i], k), Carries(p, from, to) PROVE Precede(q, from, to, k)
  <2>1. ASSUME NEW i \in DOMAIN q, RepliesTo(q[i], k), NEW n \in from + 1 .. to
        PROVE  \E j \in DOMAIN q : j < i /\ IsEvent(q[j], n)
    <3>1. i = Len(p) + 1
      BY <1>1, <1>2, <1>4, <2>1
    <3>2. PICK j \in DOMAIN p : IsEvent(p[j], n)
      BY <1>4 DEF Carries
    <3> QED
      BY <1>1, <3>1, <3>2
  <2> QED
    BY <2>1 DEF Precede
<1> QED
  BY <1>3, <1>4 DEF q

LEMMA PrecedeLess ==
  ASSUME NEW p \in Seq(Lines), p # <<>>, NEW from \in Nat, NEW to \in Nat, NEW k, Precede(p, from, to, k)
  PROVE  /\ p[1].kind # "event" => Precede(Tail(p), from, to, k)
         /\ IsEvent(p[1], from + 1) => Precede(Tail(p), from + 1, to, k)
         /\ RepliesTo(p[1], k) => to <= from
<1> DEFINE q == Tail(p)
<1>1. /\ DOMAIN q = 1 .. Len(p) - 1 /\ DOMAIN p = 1 .. Len(p) /\ Len(p) \in Nat \ {0}
      /\ \A i \in DOMAIN q : q[i] = p[i + 1]
  OBVIOUS
<1> HIDE DEF q
<1>2. ASSUME NEW i \in DOMAIN q, RepliesTo(q[i], k), NEW n \in from + 1 .. to, ~ IsEvent(p[1], n)
      PROVE  \E j \in DOMAIN q : j < i /\ IsEvent(q[j], n)
  <2>1. i + 1 \in DOMAIN p /\ RepliesTo(p[i + 1], k)
    BY <1>1, <1>2
  <2>2. PICK j \in DOMAIN p : j < i + 1 /\ IsEvent(p[j], n)
    BY <2>1 DEF Precede
  <2>3. j # 1
    BY <1>2, <2>2
  <2>4. j - 1 \in DOMAIN q /\ q[j - 1] = p[j] /\ j - 1 < i
    BY <1>1, <2>2, <2>3
  <2> QED
    BY <2>2, <2>4
<1>3. ASSUME p[1].kind # "event" PROVE Precede(q, from, to, k)
  BY <1>2, <1>3 DEF Precede, IsEvent
<1>4. ASSUME IsEvent(p[1], from + 1) PROVE Precede(q, from + 1, to, k)
  <2>1. \A n \in from + 1 + 1 .. to : n \in from + 1 .. to /\ ~ IsEvent(p[1], n)
    BY <1>4 DEF IsEvent
  <2> QED
    BY <1>2, <2>1 DEF Precede
<1>5. ASSUME RepliesTo(p[1], k) PROVE to <= from
  <2> SUFFICES ASSUME from + 1 <= to PROVE FALSE
    OBVIOUS
  <2>1. 1 \in DOMAIN p /\ from + 1 \in from + 1 .. to
    BY <1>1
  <2>2. PICK j \in DOMAIN p : j < 1 /\ IsEvent(p[j], from + 1)
    BY <1>5, <2>1 DEF Precede
  <2> QED
    BY <1>1, <2>2
<1> QED
  BY <1>3, <1>4, <1>5 DEF q

(* The steps that readLoop survives, by what they do to the stream.          *)
Quiet == UNCHANGED <<reader, held, pipe, sent, syncPoint>>
LEMMA StepReading ==
  ASSUME TypeOK, StageInv, [Next]_vars, Reading'
  PROVE  \/ ~ DeliverEvent /\ Quiet
         \/ CodexNotifies \/ CodexGarbles \/ ReadLine \/ DeliverEvent \/ DeliverReply
         \/ \E k \in Callers : CodexReplies(k)
<1>1. \/ Codex \/ ReadStderr \/ WaitLoop \/ Finish \/ NextCall \/ UNCHANGED vars
      \/ (\E k \in Callers : Request(k)) \/ ReadLine \/ DeliverEvent \/ DeliverReply
  BY DEF Next, ReadLoop, Reading, ReadEnds, DeliverSeesDone, DeliverPanics, ReaderFails
<1>2. WaitLoop \/ Finish \/ NextCall \/ UNCHANGED vars => Quiet
  BY ProcessFrame, ReaderFrame DEF processVars, readerVars, Quiet
<1>3. CodexExits \/ ReadStderr => Quiet
  BY ReaderFrame DEF Codex, CodexExits, ReadStderr, readerVars, Quiet
<1>4. ASSUME NEW k \in Callers, Request(k) PROVE Quiet
  <2>1. CASE WriteRequest(k)
    BY <2>1 DEF WriteRequest, loopVars, readerVars, Quiet
  <2>2. CASE ~ WriteRequest(k)
    BY <1>4, <2>2, ProcessFrame, ReaderFrame DEF Request, processVars, readerVars, Quiet
  <2> QED
    BY <2>1, <2>2
<1>5. Quiet /\ DeliverEvent => FALSE
  BY DEF Quiet, DeliverEvent
<1> QED
  BY <1>1, <1>2, <1>3, <1>4, <1>5 DEF Codex

LEMMA TakenFacts ==
  ASSUME TypeOK, StageInv, [Next]_vars
  PROVE  /\ Taken \in Nat /\ Len(Delivered) \in Nat
         /\ SameDelivered /\ held.kind # "event" /\ held'.kind # "event" => Taken' = Taken
         /\ SameDelivered /\ held' = held => Taken' = Taken
         /\ SameDelivered /\ held.kind # "event" /\ held'.kind = "event" => Taken' = Taken + 1
         /\ DeliverEvent => Taken' = Taken
<1>1. DeliverEvent => held.kind = "event" /\ held' = NoLine
  BY DEF DeliverEvent, StageInv, HandInv
<1> QED
  BY <1>1, StepDelivered, PrintedKinds DEF Taken, SameDelivered, MoreDelivered

LEMMA StepStream == TypeOK /\ StageInv /\ StreamInv /\ [Next]_vars => StreamInv'
<1> SUFFICES ASSUME TypeOK, StageInv, StreamInv, [Next]_vars PROVE StreamInv'
  OBVIOUS
<1>0. ProcessTypes /\ LoopTypes /\ HandInv
  BY DEF TypeOK, StageInv
<1>1. InOrder'
  <2>1. CASE DeliverEvent
    <3>1. held.n = Len(Delivered) + 1
      BY <2>1 DEF DeliverEvent, StageInv, HandInv, StreamInv, Reading, Taken
    <3> QED
      BY <2>1, <3>1, StepDelivered DEF StreamInv, InOrder, MoreDelivered
  <2>2. CASE ~ DeliverEvent
    BY <2>2, StepDelivered DEF StreamInv, InOrder, SameDelivered
  <2> QED
    BY <2>1, <2>2
<1>2. ASSUME Reading'
      PROVE  (held.kind = "event" => held.n = Taken)' /\ Taken' <= sent' /\ Carries(pipe, Taken, sent)'
  <2> DEFINE Goal == (held'.kind = "event" => held'.n = Taken') /\ Taken' <= sent' /\ Carries(pipe', Taken', sent')
  <2>a. Reading => (held.kind = "event" => held.n = Taken) /\ Taken <= sent /\ Carries(pipe, Taken, sent)
    BY DEF StreamInv
  <2>b. sent \in Nat /\ pipe \in Seq(Lines)
    BY <1>0 DEF ProcessTypes
  <2>1. CASE ~ DeliverEvent /\ Quiet
    <3>1. Reading
      BY <1>2, <2>1 DEF Quiet, Reading
    <3>2. Taken' = Taken
      BY <2>1, StepDelivered, TakenFacts DEF Quiet
    <3>3. held' = held /\ pipe' = pipe /\ sent' = sent
      BY <2>1 DEF Quiet
    <3> QED
      BY <2>a, <3>1, <3>2, <3>3
  <2>2. ASSUME NEW line \in Lines, Prints(line), UNCHANGED readerVars, ~ DeliverEvent,
               \/ sent' = sent /\ line.kind # "event"
               \/ sent' = sent + 1 /\ IsEvent(line, sent + 1)
        PROVE  Goal
    <3>1. Reading /\ held' = held
      BY <1>2, <2>2 DEF readerVars, Reading
    <3>2. Taken' = Taken /\ Taken \in Nat
      BY <2>2, <3>1, StepDelivered, TakenFacts
    <3>3. pipe' = Append(pipe, line)
      BY <2>2 DEF Prints
    <3>4. Carries(pipe', Taken, sent')
      BY <2>a, <2>b, <2>2, <3>1, <3>2, <3>3, CarriesMore
    <3> QED
      BY <2>a, <2>b, <2>2, <3>1, <3>2, <3>4
  <2>3. CASE CodexNotifies
    <3>1. Event(sent + 1) \in Lines /\ IsEvent(Event(sent + 1), sent + 1)
      BY <2>3, <2>b, PrintedKinds DEF CodexNotifies, IsEvent
    <3> QED
      BY <2>2, <2>3, <3>1 DEF CodexNotifies, clientVars, loopVars, channelVars, DeliverEvent, readerVars
  <2>4. CASE CodexGarbles
    BY <2>2, <2>4, PrintedKinds DEF CodexGarbles, clientVars, loopVars, DeliverEvent, readerVars
  <2>5. ASSUME NEW k \in Callers, CodexReplies(k) PROVE Goal
    <3>1. PICK v \in Verdicts : Prints(Reply(k, v))
      BY <2>5 DEF CodexReplies
    <3> QED
      BY <2>2, <2>5, <3>1, PrintedKinds DEF CodexReplies, clientVars, loopVars, DeliverEvent, readerVars
  <2>6. CASE ReadLine
    <3>1. Reading /\ held = NoLine /\ held' = pipe[1] /\ pipe' = Tail(pipe) /\ pipe # <<>> /\ sent' = sent
      BY <2>6, <2>b, <1>0, PipeShrinks DEF ReadLine, Reading, HandInv
    <3>2. ~ DeliverEvent
      BY <2>6 DEF ReadLine, DeliverEvent
    <3>3. Taken \in Nat /\ (pipe[1].kind = "event" => Taken' = Taken + 1) /\ (pipe[1].kind # "event" => Taken' = Taken)
      BY <3>1, <3>2, StepDelivered, TakenFacts, PrintedKinds
    <3>4. /\ pipe[1].kind # "event" => Carries(pipe', Taken, sent)
          /\ pipe[1].kind = "event" => pipe[1].n = Taken + 1 /\ Carries(pipe', Taken + 1, sent)
      BY <2>a, <2>b, <3>1, <3>3, CarriesLess
    <3>5. pipe[1].kind = "event" => Taken + 1 <= sent
      BY <2>a, <2>b, <3>1, <3>3, <3>4, 1 \in DOMAIN pipe DEF Carries
    <3> QED
      BY <2>a, <3>1, <3>3, <3>4, <3>5
  <2>7. CASE DeliverEvent
    <3>1. Reading /\ held' = NoLine /\ pipe' = pipe /\ sent' = sent
      BY <2>7 DEF DeliverEvent, Reading, processVars
    <3> QED
      BY <2>a, <2>7, <3>1, TakenFacts, PrintedKinds
  <2>8. CASE DeliverReply
    <3>1. Reading /\ held' = NoLine /\ held.kind = "reply" /\ pipe' = pipe /\ sent' = sent
      BY <2>8, <1>0 DEF DeliverReply, Reading, processVars, HandInv
    <3>2. ~ DeliverEvent
      BY <2>8 DEF DeliverReply, DeliverEvent
    <3>3. Taken' = Taken
      BY <3>1, <3>2, StepDelivered, TakenFacts, PrintedKinds
    <3> QED
      BY <2>a, <3>1, <3>3, PrintedKinds
  <2>9. Goal
    BY <1>2, <2>1, <2>3, <2>4, <2>5, <2>6, <2>7, <2>8, StepReading
  <2> QED
    BY <2>9
<1> QED
  BY <1>1, <1>2 DEF StreamInv

LEMMA StepSyncPoint ==
  ASSUME TypeOK, [Next]_vars, NEW k \in Callers, ~ CodexReplies(k)
  PROVE  syncPoint'[k] = syncPoint[k]
<1>1. CASE UNCHANGED processVars
  BY <1>1 DEF processVars
<1>2. CASE CodexNotifies \/ CodexGarbles \/ CodexExits \/ ReadStderr \/ ReadLine
  BY <1>2 DEF CodexNotifies, CodexGarbles, CodexExits, ReadStderr, ReadLine
<1>3. ASSUME NEW j \in Callers, WriteRequest(j) \/ CodexReplies(j) PROVE syncPoint'[k] = syncPoint[k]
  BY <1>3 DEF WriteRequest, CodexReplies, TypeOK, ProcessTypes
<1> QED
  BY <1>1, <1>2, <1>3, ProcessFrame DEF Next, Codex, ReadLoop, Request

LEMMA StepSync == TypeOK /\ StageInv /\ PlaceInv /\ StreamInv /\ SyncInv /\ [Next]_vars => SyncInv'
<1> SUFFICES ASSUME TypeOK, StageInv, PlaceInv, StreamInv, SyncInv, [Next]_vars, NEW k \in Callers
             PROVE  /\ Answered(k)' => syncPoint'[k] <= Len(Delivered)'
                    /\ Reading' /\ RepliesTo(held', k) => syncPoint'[k] <= Len(Delivered)'
                    /\ Reading' => Precede(pipe', Taken', syncPoint'[k], k)
  BY DEF SyncInv, ResponseFollowsEvents, Answered, RepliesTo, Precede
<1>0. /\ ProcessTypes /\ HandInv /\ OnePlace(k)
      /\ syncPoint[k] \in Nat /\ syncPoint'[k] \in Nat
      /\ pipe \in Seq(Lines) /\ sent \in Nat /\ Taken \in Nat /\ Len(Delivered) \in Nat
  <2>1. ProcessTypes'
    BY StepProcessTypes
  <2> QED
    BY <2>1, TakenFacts DEF TypeOK, StageInv, PlaceInv, ProcessTypes
<1>a. Len(Delivered)' \in Nat /\ Len(Delivered) <= Len(Delivered)'
  BY StepDelivered DEF SameDelivered, MoreDelivered
<1>b. /\ Answered(k) => syncPoint[k] <= Len(Delivered)
      /\ Reading /\ RepliesTo(held, k) => syncPoint[k] <= Len(Delivered)
      /\ Reading => Precede(pipe, Taken, syncPoint[k], k) /\ Carries(pipe, Taken, sent)
  BY DEF SyncInv, ResponseFollowsEvents, StreamInv
<1>1. ASSUME Answered(k)' PROVE syncPoint'[k] <= Len(Delivered)'
  <2>1. CASE Answered(k)
    <3>1. ~ CodexReplies(k)
      BY <1>0, <2>1 DEF CodexReplies, OnePlace
    <3> QED
      BY <1>0, <1>a, <1>b, <2>1, <3>1, StepSyncPoint
  <2>2. CASE DeliverReply /\ RepliesTo(held, k)
    <3>1. Reading /\ ~ CodexReplies(k)
      BY <2>2, <1>0 DEF DeliverReply, Reading, CodexReplies, processVars, OnePlace
    <3> QED
      BY <1>0, <1>a, <1>b, <2>2, <3>1, StepSyncPoint
  <2> QED
    BY <1>1, <2>1, <2>2, StepAnswered
<1>2. ASSUME Reading'
      PROVE  /\ RepliesTo(held', k) => syncPoint'[k] <= Len(Delivered)'
             /\ Precede(pipe', Taken', syncPoint'[k], k)
  <2> DEFINE Goal == /\ RepliesTo(held', k) => syncPoint'[k] <= Len(Delivered)'
                     /\ Precede(pipe', Taken', syncPoint'[k], k)
  <2>1. CASE ~ DeliverEvent /\ Quiet
    <3>1. Reading /\ Taken' = Taken
      BY <1>2, <2>1, StepDelivered, TakenFacts DEF Quiet, Reading
    <3>2. held' = held /\ pipe' = pipe /\ syncPoint' = syncPoint
      BY <2>1 DEF Quiet
    <3> QED
      BY <1>0, <1>a, <1>b, <3>1, <3>2
  <2>2. ASSUME NEW line \in Lines, Prints(line), UNCHANGED readerVars, ~ DeliverEvent,
               \/ ~ CodexReplies(k) /\ ~ RepliesTo(line, k)
               \/ CodexReplies(k) /\ RepliesTo(line, k)
        PROVE  Goal
    <3>1. Reading /\ held' = held
      BY <1>2, <2>2 DEF readerVars, Reading
    <3>2. Taken' = Taken
      BY <2>2, <3>1, StepDelivered, TakenFacts
    <3>3. pipe' = Append(pipe, line)
      BY <2>2 DEF Prints
    <3>4. CASE ~ CodexReplies(k) /\ ~ RepliesTo(line, k)
      <4>1. syncPoint'[k] = syncPoint[k]
        BY <3>4, StepSyncPoint
      <4>2. Precede(pipe', Taken, syncPoint[k], k)
        BY <1>0, <1>b, <3>1, <3>3, <3>4, PrecedeMore
      <4> QED
        BY <1>0, <1>a, <1>b, <3>1, <3>2, <4>1, <4>2
    <3>5. CASE CodexReplies(k) /\ RepliesTo(line, k)
      <4>1. k \in todo /\ syncPoint'[k] = sent
        BY <3>5, <1>0 DEF CodexReplies, ProcessTypes
      <4>2. ~ RepliesTo(held, k) /\ \A i \in DOMAIN pipe : ~ RepliesTo(pipe[i], k)
        BY <1>0, <4>1 DEF OnePlace, InPipe
      <4>3. Precede(pipe', Taken, sent, k)
        BY <1>0, <1>b, <3>1, <3>3, <4>2, PrecedeMore
      <4> QED
        BY <3>1, <3>2, <4>1, <4>2, <4>3
    <3> QED
      BY <2>2, <3>4, <3>5
  <2>3. CASE CodexNotifies
    <3>1. Event(sent + 1) \in Lines /\ ~ RepliesTo(Event(sent + 1), k)
      BY <2>3, <1>0, PrintedKinds DEF CodexNotifies, RepliesTo
    <3>2. ~ CodexReplies(k)
      <4>1. sent' = sent + 1
        BY <2>3 DEF CodexNotifies
      <4>2. CodexReplies(k) => sent' = sent
        BY DEF CodexReplies
      <4> QED
        BY <4>1, <4>2, <1>0
    <3> QED
      BY <2>2, <2>3, <3>1, <3>2 DEF CodexNotifies, clientVars, loopVars, DeliverEvent, readerVars
  <2>4. CASE CodexGarbles
    <3>1. Garbage \in Lines /\ ~ RepliesTo(Garbage, k)
      BY PrintedKinds DEF RepliesTo
    <3>2. ~ CodexReplies(k)
      BY <2>4 DEF CodexGarbles, CodexReplies
    <3> QED
      BY <2>2, <2>4, <3>1, <3>2 DEF CodexGarbles, clientVars, loopVars, DeliverEvent, readerVars
  <2>5. ASSUME NEW j \in Callers, CodexReplies(j) PROVE Goal
    <3>1. PICK v \in Verdicts : Prints(Reply(j, v))
      BY <2>5 DEF CodexReplies
    <3>2. Reply(j, v) \in Lines /\ (RepliesTo(Reply(j, v), k) <=> j = k)
      BY PrintedKinds DEF RepliesTo
    <3>3. CodexReplies(k) => j = k
      <4>1. todo' = todo \ {j} /\ j \in todo
        BY <2>5 DEF CodexReplies
      <4>2. CodexReplies(k) => todo' = todo \ {k} /\ k \in todo
        BY DEF CodexReplies
      <4> QED
        BY <4>1, <4>2
    <3> QED
      BY <2>2, <2>5, <3>1, <3>2, <3>3 DEF CodexReplies, clientVars, loopVars, DeliverEvent, readerVars
  <2>6. CASE ReadLine
    <3>1. Reading /\ held = NoLine /\ held' = pipe[1] /\ pipe' = Tail(pipe) /\ pipe # <<>> /\ syncPoint' = syncPoint
      BY <2>6, <1>0, PipeShrinks DEF ReadLine, Reading, HandInv
    <3>2. ~ DeliverEvent
      BY <2>6 DEF ReadLine, DeliverEvent
    <3>3. Taken = Len(Delivered) /\ (pipe[1].kind = "event" => Taken' = Taken + 1)
          /\ (pipe[1].kind # "event" => Taken' = Taken)
      BY <3>1, <3>2, StepDelivered, TakenFacts, PrintedKinds DEF Taken
    <3>4. pipe[1].kind = "event" => IsEvent(pipe[1], Taken + 1)
      BY <1>0, <1>b, <3>1, CarriesLess DEF IsEvent
    <3>5. /\ pipe[1].kind # "event" => Precede(pipe', Taken, syncPoint[k], k)
          /\ IsEvent(pipe[1], Taken + 1) => Precede(pipe', Taken + 1, syncPoint[k], k)
          /\ RepliesTo(pipe[1], k) => syncPoint[k] <= Taken
      BY <1>0, <1>b, <3>1, PrecedeLess
    <3> QED
      BY <1>0, <1>a, <3>1, <3>3, <3>4, <3>5
  <2>7. CASE DeliverEvent
    <3>1. Reading /\ held' = NoLine /\ pipe' = pipe /\ syncPoint' = syncPoint
      BY <2>7 DEF DeliverEvent, Reading, processVars
    <3> QED
      BY <1>b, <2>7, <3>1, TakenFacts, PrintedKinds DEF RepliesTo
  <2>8. CASE DeliverReply
    <3>1. Reading /\ held' = NoLine /\ held.kind = "reply" /\ pipe' = pipe /\ syncPoint' = syncPoint
      BY <2>8, <1>0 DEF DeliverReply, Reading, processVars, HandInv
    <3>2. ~ DeliverEvent
      BY <2>8 DEF DeliverReply, DeliverEvent
    <3>3. Taken' = Taken
      BY <3>1, <3>2, StepDelivered, TakenFacts, PrintedKinds
    <3> QED
      BY <1>b, <3>1, <3>3, PrintedKinds DEF RepliesTo
  <2>9. Goal
    BY <1>2, <2>1, <2>3, <2>4, <2>5, <2>6, <2>7, <2>8, StepReading
  <2> QED
    BY <2>9
<1> QED
  BY <1>1, <1>2

----------------------------------------------------------------------------
(* The invariant.                                                            *)

LEMMA InitialClient == Init => ClientInv
<1> SUFFICES ASSUME Init PROVE ClientInv
  OBVIOUS
<1>1. TypeOK /\ PlaceInv
  BY InitialTypes, InitialPlaces
<1>2. StageInv
  BY VerdictsAreNotReasons DEF Init, StageInv, HandInv, FinishInv, ExitInv
<1>3. KnownInv
  BY DEF Init, KnownInv, NoCallerForgotten
<1>4. DOMAIN pipe = {} /\ Len(Delivered) = 0 /\ Taken = 0 /\ sent = 0 /\ held = NoLine
  BY PrintedKinds DEF Init, Taken, Delivered
<1>5. StreamInv
  BY <1>4, PrintedKinds DEF StreamInv, InOrder, Carries
<1>6. \A k \in Callers : syncPoint[k] = 0
  BY DEF Init
<1>7. SyncInv
  BY <1>4, <1>6, PrintedKinds DEF SyncInv, ResponseFollowsEvents, Precede, RepliesTo
<1> QED
  BY <1>1, <1>2, <1>3, <1>5, <1>7 DEF ClientInv

LEMMA ClientInvariant == Spec => []ClientInv
<1>1. ClientInv /\ [Next]_vars => ClientInv'
  BY StepTypes, StepStage, StepPlaces, StepKnown, StepStream, StepSync DEF ClientInv
<1> QED
  BY <1>1, InitialClient, PTL DEF Spec

(* Every goroutine is at one of its steps and the channels keep within their *)
(* capacities (codex_client.go:29-50, 108-117).                              *)
THEOREM ClientTypeCorrect == Spec => []TypeOK
BY ClientInvariant, PTL DEF ClientInv

(* Whatever the capacity of c.events and however readLoop, finish and next   *)
(* interleave, next hands out the notifications in order, each once, without *)
(* a gap (codex_client.go:147-176, 350-373).                                 *)
THEOREM EventsAreInOrder == Spec => []InOrder
<1>1. ClientInv => InOrder
  BY DEF ClientInv, StreamInv
<1> QED
  BY <1>1, ClientInvariant, PTL

(* When request returns a response, every notification Codex sent before it  *)
(* can be had from next (codex_client.go:164-195).                           *)
THEOREM ResponsesComeAfterEvents == Spec => []ResponseFollowsEvents
<1>1. ClientInv => ResponseFollowsEvents
  BY DEF ClientInv, SyncInv
<1> QED
  BY <1>1, ClientInvariant, PTL

(* Once finish has drained c.pending, no caller in its select is without an  *)
(* answer (codex_client.go:216-233, 294-317).                                *)
THEOREM NobodyIsForgotten == Spec => []NoCallerForgotten
<1>1. ClientInv => NoCallerForgotten
  BY DEF ClientInv, KnownInv
<1> QED
  BY <1>1, ClientInvariant, PTL

(* No caller gets the answer to a request of another (codex_client.go:       *)
(* 183-195).                                                                 *)
THEOREM AnswersAreToOwnRequests == Spec => []AnswersAreOwn
<1>1. ClientInv => AnswersAreOwn
  BY DEF ClientInv, PlaceInv, OnePlace, InPipe, AnswersAreOwn
<1> QED
  BY <1>1, ClientInvariant, PTL

----------------------------------------------------------------------------
(* What request promises its callers.                                        *)

(* A response is on its way from the moment Codex prints it until readLoop   *)
(* takes it to its caller.                                                   *)
LEMMA PrintedStep ==
  ASSUME TypeOK, StageInv, [Next]_vars, NEW k \in Callers
  PROVE  /\ ReplyPrinted(k)' => ReplyPrinted(k) \/ CodexReplies(k)
         /\ ReplyPrinted(k) => ReplyPrinted(k)' \/ (DeliverReply /\ RepliesTo(held, k))
         /\ CodexReplies(k) => ReplyPrinted(k)'
<1>0. pipe \in Seq(Lines) /\ held \in Lines \cup {NoLine} /\ HandInv /\ sent \in Nat
  <2>1. ProcessTypes /\ LoopTypes /\ HandInv
    BY DEF TypeOK, StageInv
  <2>2. pipe \in Seq(Lines) /\ sent \in Nat
    BY <2>1 DEF ProcessTypes
  <2> QED
    BY <2>1, <2>2 DEF LoopTypes
<1> DEFINE Goal == /\ ReplyPrinted(k)' => ReplyPrinted(k) \/ CodexReplies(k)
                   /\ ReplyPrinted(k) => ReplyPrinted(k)' \/ (DeliverReply /\ RepliesTo(held, k))
                   /\ CodexReplies(k) => ReplyPrinted(k)'
<1>1. ASSUME UNCHANGED pipe, ~ CodexReplies(k),
             \/ UNCHANGED held
             \/ held' = NoLine /\ (DeliverReply \/ ~ RepliesTo(held, k))
      PROVE  Goal
  BY <1>1, PrintedKinds DEF ReplyPrinted, RepliesTo
<1>2. ASSUME NEW line \in Lines, Prints(line), UNCHANGED held, RepliesTo(line, k) <=> CodexReplies(k)
      PROVE  Goal
  <2>1. \A i \in DOMAIN pipe : i \in DOMAIN pipe' /\ pipe'[i] = pipe[i]
    BY <1>0, <1>2, PipeGrows
  <2>2. /\ Len(pipe) + 1 \in DOMAIN pipe' /\ pipe'[Len(pipe) + 1] = line
        /\ \A i \in DOMAIN pipe' : i \in DOMAIN pipe \/ i = Len(pipe) + 1
    BY <1>0, <1>2, PipeGrows
  <2> QED
    BY <1>2, <2>1, <2>2 DEF ReplyPrinted, RepliesTo
<1>3. CASE CodexNotifies
  <2>1. Event(sent + 1) \in Lines /\ ~ RepliesTo(Event(sent + 1), k)
    BY <1>0, <1>3, PrintedKinds DEF CodexNotifies, RepliesTo
  <2>2. ~ CodexReplies(k)
    BY <1>0, <1>3 DEF CodexNotifies, CodexReplies
  <2> QED
    BY <1>2, <1>3, <2>1, <2>2 DEF CodexNotifies, clientVars, loopVars, readerVars
<1>4. CASE CodexGarbles
  <2>1. Garbage \in Lines /\ ~ RepliesTo(Garbage, k)
    BY PrintedKinds DEF RepliesTo
  <2>2. ~ CodexReplies(k)
    BY <1>4 DEF CodexGarbles, CodexReplies
  <2> QED
    BY <1>2, <1>4, <2>1, <2>2 DEF CodexGarbles, clientVars, loopVars, readerVars
<1>5. ASSUME NEW j \in Callers, CodexReplies(j) PROVE Goal
  <2>1. PICK v \in Verdicts : Prints(Reply(j, v))
    BY <1>5 DEF CodexReplies
  <2>2. Reply(j, v) \in Lines /\ (RepliesTo(Reply(j, v), k) <=> j = k)
    BY PrintedKinds DEF RepliesTo
  <2>3. CodexReplies(k) => j = k
    <3>1. todo' = todo \ {j} /\ j \in todo
      BY <1>5 DEF CodexReplies
    <3>2. CodexReplies(k) => todo' = todo \ {k} /\ k \in todo
      BY DEF CodexReplies
    <3> QED
      BY <3>1, <3>2
  <2> QED
    BY <1>2, <1>5, <2>1, <2>2, <2>3 DEF CodexReplies, clientVars, loopVars, readerVars
<1>6. CASE ReadLine
  <2>1. /\ Len(pipe) \in Nat \ {0} /\ DOMAIN pipe' = 1 .. Len(pipe) - 1 /\ DOMAIN pipe = 1 .. Len(pipe)
        /\ \A i \in DOMAIN pipe' : pipe'[i] = pipe[i + 1]
        /\ held' = pipe[1] /\ held = NoLine
    BY <1>0, <1>6, PipeShrinks DEF ReadLine, HandInv
  <2>2. ~ CodexReplies(k)
    BY <1>6 DEF ReadLine, CodexReplies
  <2>3. ReplyPrinted(k)' => ReplyPrinted(k)
    BY <2>1 DEF ReplyPrinted, RepliesTo
  <2>4. ASSUME ReplyPrinted(k) PROVE ReplyPrinted(k)'
    <3>1. PICK i \in DOMAIN pipe : RepliesTo(pipe[i], k)
      BY <2>1, <2>4, PrintedKinds DEF ReplyPrinted, RepliesTo
    <3>2. CASE i = 1
      BY <2>1, <3>1, <3>2 DEF ReplyPrinted, RepliesTo
    <3>3. CASE i # 1
      <4>1. i - 1 \in DOMAIN pipe' /\ pipe'[i - 1] = pipe[i]
        BY <2>1, <3>3
      <4> QED
        BY <3>1, <4>1 DEF ReplyPrinted, RepliesTo
    <3> QED
      BY <3>2, <3>3
  <2> QED
    BY <2>2, <2>3, <2>4
<1>7. CASE ReadEnds \/ DeliverEvent \/ DeliverSeesDone \/ DeliverPanics \/ DeliverReply \/ ReaderFails
  <2>1. UNCHANGED pipe /\ held' \in {held, NoLine}
    BY <1>7 DEF ReadEnds, DeliverEvent, DeliverSeesDone, DeliverPanics, DeliverReply, ReaderFails, processVars
  <2>2. DeliverReply \/ ~ RepliesTo(held, k) \/ held' = held
    BY <1>0, <1>7, PrintedKinds DEF ReadEnds, DeliverEvent, DeliverSeesDone, DeliverPanics, ReaderFails, HandInv,
       RepliesTo
  <2>3. ~ CodexReplies(k)
    BY <2>1, <1>0 DEF CodexReplies, Prints
  <2> QED
    BY <1>1, <2>1, <2>2, <2>3
<1>8. CASE CodexExits \/ ReadStderr \/ WaitLoop \/ Finish \/ NextCall \/ UNCHANGED vars \/ \E j \in Callers : Request(j)
  <2>1. UNCHANGED held
    BY <1>8, ReaderFrame DEF Codex, readerVars
  <2>2. UNCHANGED pipe
    <3>1. CodexExits \/ ReadStderr \/ (\E j \in Callers : WriteRequest(j)) => UNCHANGED pipe
      BY DEF CodexExits, ReadStderr, WriteRequest
    <3> QED
      BY <1>8, <3>1, ProcessFrame DEF Request, processVars
  <2>3. ~ CodexReplies(k)
    BY <2>2, <1>0 DEF CodexReplies, Prints
  <2> QED
    BY <1>1, <2>1, <2>2, <2>3
<1> QED
  BY <1>3, <1>4, <1>5, <1>6, <1>7, <1>8 DEF Next, Codex, ReadLoop

LEMMA TodoStep ==
  ASSUME [Next]_vars, NEW k \in Callers
  PROVE  /\ k \in todo' => k \in todo \/ WriteRequest(k)
         /\ k \in todo => k \in todo' \/ CodexReplies(k)
         /\ alive' => alive
<1>1. CASE UNCHANGED processVars
  BY <1>1 DEF processVars
<1>2. CASE CodexNotifies \/ CodexGarbles \/ CodexExits \/ ReadStderr \/ ReadLine
  BY <1>2 DEF CodexNotifies, CodexGarbles, CodexExits, ReadStderr, ReadLine
<1>3. ASSUME NEW j \in Callers, WriteRequest(j) \/ CodexReplies(j)
      PROVE  /\ k \in todo' => k \in todo \/ WriteRequest(k)
             /\ k \in todo => k \in todo' \/ CodexReplies(k)
             /\ alive' => alive
  BY <1>3 DEF WriteRequest, CodexReplies
<1> QED
  BY <1>1, <1>2, <1>3, ProcessFrame DEF Next, Codex, ReadLoop, Request

LEMMA UpStep ==
  ASSUME [Next]_vars
  PROVE  /\ Up' => Up
         /\ FinishDrains => ~ Up /\ ~ Up'
         /\ \A j \in Callers : Request(j) => (Up' <=> Up)
<1>1. alive' => alive
  <2>1. UNCHANGED processVars => (alive' => alive)
    BY DEF processVars
  <2>2. CodexNotifies \/ CodexGarbles \/ CodexExits \/ ReadStderr \/ ReadLine
        \/ (\E j \in Callers : WriteRequest(j) \/ CodexReplies(j)) => (alive' => alive)
    BY DEF CodexNotifies, CodexGarbles, CodexExits, ReadStderr, ReadLine, WriteRequest, CodexReplies
  <2> QED
    BY <2>1, <2>2, ProcessFrame DEF Next, Codex, ReadLoop, Request
<1>2. fin' = "open" => fin = "open"
  <2>1. ReadLine \/ ReadEnds \/ DeliverEvent \/ DeliverSeesDone \/ DeliverPanics \/ DeliverReply \/ ReaderFails
        => (fin' = "open" => fin = "open")
    BY DEF ReadLine, ReadEnds, DeliverEvent, DeliverSeesDone, DeliverPanics, DeliverReply, ReaderFails, finishVars
  <2>2. WaitLoop \/ Finish \/ NextEvent \/ NextFails \/ (\E j \in Callers : SelectDone(j)) => (fin' = "open" => fin = "open")
    BY DEF WaitLoop, WaitReturns, WaitSeesClosed, WaiterFinishes, Finish, FinishDrains, FinishClosesEvents,
       FinishSendsError, FinishClosesDone, NextEvent, NextFails, SelectDone, finishVars
  <2> QED
    BY <2>1, <2>2, LoopFrame DEF Next, ReadLoop, NextCall, Request, finishVars
<1>3. ASSUME NEW j \in Callers, Request(j) PROVE Up' <=> Up
  <2>1. UNCHANGED <<alive, fin>>
    BY <1>3 DEF Request, AddPending, WriteRequest, WriteFails, SelectAnswer, SelectDone, SelectContext, processVars,
       finishVars
  <2> QED
    BY <2>1 DEF Up
<1>4. FinishDrains => ~ Up /\ ~ Up'
  BY DEF FinishDrains, Up
<1> QED
  BY <1>1, <1>2, <1>3, <1>4 DEF Up

(* What the steps that are not a caller's do to the answers of the callers.  *)
LEMMA AnswerStep ==
  ASSUME TypeOK, StageInv, [Next]_vars, \A j \in Callers : ~ Request(j), NEW k \in Callers
  PROVE  /\ call'[k] = call[k] /\ result'[k] = result[k]
         /\ k \in waiting' => k \in waiting
         /\ k \in waiting => k \in waiting' \/ FinishDrains \/ (DeliverReply /\ RepliesTo(held, k))
         /\ answer'[k] \in Verdicts => answer[k] \in Verdicts \/ (k \in waiting /\ RepliesTo(held, k))
         /\ answer[k] \in Verdicts => answer'[k] \in Verdicts \/ FinishDrains
         /\ DeliverReply /\ RepliesTo(held, k) /\ k \in waiting => answer'[k] \in Verdicts
<1>0. LoopTypes /\ CallTypes
  BY DEF TypeOK
<1>1. CASE \/ Codex \/ ReadStderr \/ ReadLine \/ ReadEnds \/ DeliverEvent \/ DeliverSeesDone \/ DeliverPanics
           \/ ReaderFails \/ WaitLoop \/ FinishClosesEvents \/ FinishSendsError \/ FinishClosesDone
           \/ UNCHANGED vars
  <2>1. UNCHANGED <<call, result, waiting, answer>>
    BY <1>1, CallFrame DEF userVars, callVars
  <2>2. ~ DeliverReply \/ UNCHANGED <<call, result>>
    BY <2>1
  <2>3. ~ (DeliverReply /\ RepliesTo(held, k) /\ k \in waiting)
    <3>1. DeliverReply /\ RepliesTo(held, k) => k \notin waiting'
      BY DEF DeliverReply, RepliesTo
    <3> QED
      BY <2>1, <3>1
  <2> QED
    BY <2>1, <2>3
<1>2. CASE DeliverReply
  <2>1. held.to \in Callers /\ held.verdict \in Verdicts /\ (RepliesTo(held, k) <=> held.to = k)
    BY <1>2, <1>0, LineKinds DEF DeliverReply, StageInv, HandInv, LoopTypes, RepliesTo
  <2>2. UNCHANGED <<call, result>>
    BY <1>2 DEF DeliverReply, callVars
  <2> QED
    BY <1>2, <1>0, <2>1, <2>2 DEF DeliverReply, CallTypes
<1>3. CASE FinishDrains
  <2>1. reason \in Reasons
    BY <1>3, <1>0 DEF FinishDrains, StageInv, FinishInv, LoopTypes
  <2>2. UNCHANGED <<call, result, held>> /\ ~ DeliverReply
    BY <1>3, <1>0 DEF FinishDrains, callVars, loopVars, readerVars, DeliverReply, finishVars
  <2> QED
    BY <1>3, <1>0, <2>1, <2>2, VerdictsAreNotReasons DEF FinishDrains, CallTypes
<1>4. CASE NextCall
  <2>1. UNCHANGED <<answer, call, result, waiting, held>>
    BY <1>4 DEF callVars, loopVars, readerVars, NextCall, CallNext, NextEvent, NextFails
  <2>2. DeliverReply /\ RepliesTo(held, k) => k \notin waiting'
    BY DEF DeliverReply, RepliesTo
  <2> QED
    BY <2>1, <2>2
<1> QED
  BY <1>1, <1>2, <1>3, <1>4 DEF Next, ReadLoop, Finish

(* While the client is up nothing is lost; while it is not nothing is gained.*)
LEMMA AnswerableStep ==
  ASSUME TypeOK, StageInv, [Next]_vars, \A j \in Callers : ~ Request(j), NEW k \in Callers
  PROVE  /\ CanBeAnswered(k)' => CanBeAnswered(k)
         /\ Up /\ Up' => (CanBeAnswered(k) => CanBeAnswered(k)')
<1>1. ~ WriteRequest(k)
  BY DEF Request
<1>2. CodexReplies(k) => k \in todo /\ alive
  BY DEF CodexReplies, Prints
<1>3. ASSUME CanBeAnswered(k)' PROVE CanBeAnswered(k)
  <2>1. CASE call'[k] = "write" /\ Up'
    BY <2>1, AnswerStep, UpStep DEF CanBeAnswered
  <2>2. CASE answer'[k] \in Verdicts
    BY <2>2, AnswerStep DEF CanBeAnswered, ReplyPrinted
  <2>3. CASE k \in waiting' /\ (ReplyPrinted(k)' \/ (k \in todo' /\ alive'))
    BY <1>1, <1>2, <2>3, AnswerStep, PrintedStep, TodoStep DEF CanBeAnswered
  <2> QED
    BY <1>3, <2>1, <2>2, <2>3 DEF CanBeAnswered
<1>4. ASSUME Up, Up', CanBeAnswered(k) PROVE CanBeAnswered(k)'
  <2>0. ~ FinishDrains /\ alive'
    BY <1>4, UpStep DEF Up
  <2>1. \/ call'[k] = "write" /\ Up'
        \/ answer'[k] \in Verdicts
        \/ k \in waiting' /\ (ReplyPrinted(k)' \/ (k \in todo' /\ alive'))
    <3>1. CASE call[k] = "write"
      BY <1>4, <3>1, AnswerStep
    <3>2. CASE answer[k] \in Verdicts
      BY <2>0, <3>2, AnswerStep
    <3>3. CASE k \in waiting /\ (ReplyPrinted(k) \/ k \in todo)
      BY <2>0, <3>3, AnswerStep, PrintedStep, TodoStep
    <3> QED
      BY <1>4, <3>1, <3>2, <3>3 DEF CanBeAnswered
  <2> QED
    BY <2>1 DEF CanBeAnswered
<1> QED
  BY <1>3, <1>4

LEMMA LoseCalls ==
  ASSUME \A k \in Callers : CallOf(k)' = CallOf(k) \/ (CallOf(k) = "asked" /\ CallOf(k)' = "hopeless"),
         Up' => Up,
         Up /\ Up' => \A k \in Callers : CallOf(k)' = CallOf(k)
  PROVE  [Contract!Next]_(Contract!vars)
<1> DEFINE lost == {k \in Callers : CallOf(k)' # CallOf(k)}
<1>1. Contract!Lose(lost)
  BY DEF Contract!Lose
<1>2. CASE Up /\ ~ Up'
  <2>1. Contract!GoDown(lost)
    BY <1>1, <1>2 DEF Contract!GoDown
  <2> QED
    BY <2>1 DEF Contract!Next
<1>3. CASE ~ Up /\ ~ Up'
  <2>1. Contract!LoseMore(lost)
    BY <1>1, <1>3 DEF Contract!LoseMore, Up
  <2> QED
    BY <2>1 DEF Contract!Next
<1>4. CASE Up /\ Up'
  BY <1>4 DEF Contract!vars
<1> QED
  BY <1>2, <1>3, <1>4

LEMMA OneCall ==
  ASSUME NEW k \in Callers, \A j \in Callers \ {k} : CallOf(j)' = CallOf(j), Up' <=> Up,
         \/ CallOf(k)' = CallOf(k)
         \/ CallOf(k) = "idle" /\ CallOf(k)' = IF Up THEN "asked" ELSE "hopeless"
         \/ CallOf(k) = "asked" /\ CallOf(k)' \in Verdicts
         \/ CallOf(k) \in {"asked", "hopeless"} /\ ~ Up /\ CallOf(k)' \in {"failed", "empty"}
         \/ CallOf(k) \in {"asked", "hopeless"} /\ CallOf(k)' = "context"
  PROVE  [Contract!Next]_(Contract!vars)
<1> DEFINE Calls == [j \in Callers |-> CallOf(j)]
           Calls1 == [j \in Callers |-> CallOf(j)']
<1>1. Calls1 = [Calls EXCEPT ![k] = CallOf(k)'] /\ Calls[k] = CallOf(k)
  OBVIOUS
<1>2. CASE CallOf(k)' = CallOf(k)
  BY <1>2 DEF Contract!vars
<1>3. CASE CallOf(k) = "idle" /\ CallOf(k)' = IF Up THEN "asked" ELSE "hopeless"
  <2>1. Contract!Ask(k)
    BY <1>1, <1>3 DEF Contract!Ask
  <2> QED
    BY <2>1 DEF Contract!Next
<1>4. CASE CallOf(k) = "asked" /\ CallOf(k)' \in Verdicts
  <2>1. Contract!Answer(k, CallOf(k)') /\ CallOf(k)' \in Contract!Verdicts
    BY <1>1, <1>4 DEF Contract!Answer, Contract!Verdicts, Verdicts
  <2> QED
    BY <2>1 DEF Contract!Next
<1>5. CASE CallOf(k) \in {"asked", "hopeless"} /\ ~ Up /\ CallOf(k)' \in {"failed", "empty"}
  <2>1. Contract!Fail(k) \/ Contract!ReturnEmpty(k)
    BY <1>1, <1>5 DEF Contract!Fail, Contract!ReturnEmpty
  <2> QED
    BY <2>1 DEF Contract!Next
<1>6. CASE CallOf(k) \in {"asked", "hopeless"} /\ CallOf(k)' = "context"
  <2>1. Contract!GiveUp(k)
    BY <1>1, <1>6 DEF Contract!GiveUp
  <2> QED
    BY <2>1 DEF Contract!Next
<1> QED
  BY <1>2, <1>3, <1>4, <1>5, <1>6

LEMMA CallOfFacts ==
  ASSUME TypeOK, NEW k \in Callers
  PROVE  /\ call[k] = "idle" => CallOf(k) = "idle"
         /\ call[k] \in {"write", "select"} => CallOf(k) = IF CanBeAnswered(k) THEN "asked" ELSE "hopeless"
         /\ call[k] = "returned" =>
              CallOf(k) = IF result[k] \in {"ok", "refused", "context"} THEN result[k]
                          ELSE IF result[k] = "nil, nil" THEN "empty" ELSE "failed"
         /\ call[k] \in {"idle", "write", "select", "returned"}
BY DEF CallOf, TypeOK, CallTypes

LEMMA OthersOnContract ==
  ClientInv /\ [Next]_vars /\ (\A j \in Callers : ~ Request(j)) => [Contract!Next]_(Contract!vars)
<1> SUFFICES ASSUME TypeOK, StageInv, [Next]_vars, \A j \in Callers : ~ Request(j)
             PROVE  [Contract!Next]_(Contract!vars)
  BY DEF ClientInv
<1>1. Up' => Up
  BY UpStep
<1>2. TypeOK'
  BY StepTypes
<1>3. ASSUME NEW k \in Callers
      PROVE  /\ CallOf(k)' = CallOf(k) \/ (CallOf(k) = "asked" /\ CallOf(k)' = "hopeless")
             /\ Up /\ Up' => CallOf(k)' = CallOf(k)
  <2>1. call'[k] = call[k] /\ result'[k] = result[k]
    BY AnswerStep
  <2>2. CASE call[k] \in {"write", "select"}
    <3>1. CallOf(k) = IF CanBeAnswered(k) THEN "asked" ELSE "hopeless"
      BY <2>2, CallOfFacts
    <3>2. CallOf(k)' = IF CanBeAnswered(k)' THEN "asked" ELSE "hopeless"
      BY <1>2, <2>1, <2>2 DEF CallOf
    <3> QED
      BY <3>1, <3>2, AnswerableStep
  <2>3. CASE call[k] \notin {"write", "select"}
    BY <2>1, <2>3 DEF CallOf
  <2> QED
    BY <2>2, <2>3
<1> QED
  BY <1>1, <1>3, LoseCalls

(* A caller's step leaves the other callers alone.                           *)
LEMMA RequestFrame ==
  ASSUME TypeOK, NEW k \in Callers, Request(k)
  PROVE  /\ UNCHANGED <<pipe, held, alive, fin>>
         /\ \A j \in Callers \ {k} :
              /\ call'[j] = call[j] /\ result'[j] = result[j] /\ answer'[j] = answer[j]
              /\ (j \in waiting' <=> j \in waiting) /\ (j \in todo' <=> j \in todo)
<1>0. CallTypes
  BY DEF TypeOK
<1>1. UNCHANGED <<pipe, held, alive, fin>>
  BY DEF Request, AddPending, WriteRequest, WriteFails, SelectAnswer, SelectDone, SelectContext,
     processVars, loopVars, readerVars, finishVars
<1>2. ASSUME NEW j \in Callers \ {k}
      PROVE  /\ call'[j] = call[j] /\ result'[j] = result[j] /\ answer'[j] = answer[j]
             /\ (j \in waiting' <=> j \in waiting) /\ (j \in todo' <=> j \in todo)
  <2>1. CASE AddPending(k) \/ WriteRequest(k)
    BY <2>1, <1>0 DEF AddPending, WriteRequest, processVars, CallTypes
  <2>2. CASE WriteFails(k) \/ SelectAnswer(k) \/ SelectDone(k) \/ SelectContext(k)
    BY <2>2, <1>0 DEF WriteFails, SelectAnswer, SelectDone, SelectContext, Return, processVars, CallTypes
  <2> QED
    BY <2>1, <2>2 DEF Request
<1> QED
  BY <1>1, <1>2

LEMMA RequestOnContract ==
  ASSUME ClientInv, [Next]_vars, NEW k \in Callers, Request(k)
  PROVE  [Contract!Next]_(Contract!vars)
<1>0. TypeOK /\ CallTypes /\ TypeOK' /\ CallTypes' /\ OnePlace(k)
  BY StepTypes DEF ClientInv, TypeOK, PlaceInv
<1>1. UNCHANGED <<pipe, held, alive, fin>>
  BY <1>0, RequestFrame
<1>2. (Up' <=> Up) /\ (ReplyPrinted(k)' <=> ReplyPrinted(k))
  BY <1>1 DEF Up, ReplyPrinted, RepliesTo
<1>3. ASSUME NEW j \in Callers \ {k} PROVE CallOf(j)' = CallOf(j)
  <2>1. /\ call'[j] = call[j] /\ result'[j] = result[j] /\ answer'[j] = answer[j]
        /\ (j \in waiting' <=> j \in waiting) /\ (j \in todo' <=> j \in todo)
    BY <1>0, RequestFrame
  <2>2. ReplyPrinted(j)' <=> ReplyPrinted(j)
    BY <1>1 DEF ReplyPrinted, RepliesTo
  <2>3. CanBeAnswered(j)' <=> CanBeAnswered(j)
    BY <1>1, <1>2, <2>1, <2>2 DEF CanBeAnswered
  <2> QED
    BY <2>1, <2>3 DEF CallOf
<1>4. call[k] \in {"idle", "write"} => k \notin todo /\ ~ ReplyPrinted(k) /\ answer[k] \notin Verdicts
  BY <1>0 DEF OnePlace, InPipe, Written, Answered, ReplyPrinted
<1>5. /\ call'[k] = "idle" => CallOf(k)' = "idle"
      /\ call'[k] \in {"write", "select"} => CallOf(k)' = IF CanBeAnswered(k)' THEN "asked" ELSE "hopeless"
      /\ call'[k] = "returned" =>
           CallOf(k)' = IF result'[k] \in {"ok", "refused", "context"} THEN result'[k]
                        ELSE IF result'[k] = "nil, nil" THEN "empty" ELSE "failed"
  BY <1>0 DEF CallOf, CallTypes
<1>6. CASE AddPending(k)
  <2>1. call[k] = "idle" /\ call'[k] = "write" /\ answer'[k] = answer[k] /\ k \notin todo'
    BY <1>0, <1>4, <1>6 DEF AddPending, CallTypes, processVars
  <2>2. CanBeAnswered(k)' <=> Up
    BY <1>2, <1>4, <2>1 DEF CanBeAnswered
  <2> QED
    BY <1>0, <1>2, <1>3, <1>5, <2>1, <2>2, CallOfFacts, OneCall
<1>7. CASE WriteRequest(k)
  <2>1. call[k] = "write" /\ call'[k] = "select" /\ answer'[k] = answer[k] /\ waiting' = waiting /\ fin = "open"
        /\ (k \in todo' <=> alive)
    BY <1>0, <1>4, <1>7 DEF WriteRequest, CallTypes
  <2>2. k \in waiting
    BY <1>0, <1>4, <2>1 DEF ClientInv, KnownInv, StageInv, FinishInv, CallTypes
  <2>3. CanBeAnswered(k)' <=> CanBeAnswered(k)
    BY <1>1, <1>2, <1>4, <2>1, <2>2 DEF CanBeAnswered, Up
  <2>4. CallOf(k)' = CallOf(k)
    BY <1>0, <1>5, <2>1, <2>3, CallOfFacts
  <2> QED
    BY <1>2, <1>3, <2>4, OneCall
<1>8. CASE WriteFails(k)
  <2>1. call[k] = "write" /\ call'[k] = "returned" /\ result'[k] \in {"not running", "write error"} /\ ~ Up
    BY <1>0, <1>8 DEF WriteFails, Return, CallTypes, Up
  <2> QED
    BY <1>0, <1>2, <1>3, <1>5, <2>1, CallOfFacts, OneCall
<1>9. CASE SelectAnswer(k)
  <2>1. call[k] = "select" /\ call'[k] = "returned" /\ result'[k] = answer[k] /\ answer[k] \in Verdicts \cup Reasons
    BY <1>0, <1>9 DEF SelectAnswer, Return, CallTypes
  <2>2. CASE answer[k] \in Verdicts
    <3>1. CallOf(k) = "asked" /\ CallOf(k)' = answer[k]
      BY <1>0, <1>5, <2>1, <2>2, CallOfFacts DEF CanBeAnswered, Verdicts
    <3> QED
      BY <1>2, <1>3, <2>2, <3>1, OneCall
  <2>3. CASE answer[k] \in Reasons
    <3>1. ~ Up
      BY <2>3 DEF ClientInv, StageInv, FinishInv, Up
    <3>2. CallOf(k)' = "failed"
      BY <1>5, <2>1, <2>3 DEF Reasons
    <3> QED
      BY <1>0, <1>2, <1>3, <2>1, <3>1, <3>2, CallOfFacts, OneCall
  <2> QED
    BY <2>1, <2>2, <2>3
<1>10. CASE SelectDone(k)
  <2>1. done # <<>> => done[1] \in Reasons
    BY <1>0, SequenceFacts DEF TypeOK, ChannelTypes
  <2>2. call[k] = "select" /\ call'[k] = "returned" /\ result'[k] \in Reasons \cup {"nil, nil"}
    BY <1>0, <1>10, <2>1 DEF SelectDone, Return, CallTypes
  <2>3. ~ Up
    BY <1>10 DEF SelectDone, ClientInv, StageInv, FinishInv, ExitInv, Up
  <2>4. CallOf(k)' \in {"failed", "empty"}
    BY <1>5, <2>2 DEF Reasons
  <2> QED
    BY <1>0, <1>2, <1>3, <2>2, <2>3, <2>4, CallOfFacts, OneCall
<1>11. CASE SelectContext(k)
  <2>1. call[k] = "select" /\ call'[k] = "returned" /\ result'[k] = "context"
    BY <1>0, <1>11 DEF SelectContext, Return, CallTypes
  <2> QED
    BY <1>0, <1>2, <1>3, <1>5, <2>1, CallOfFacts, OneCall
<1> QED
  BY <1>6, <1>7, <1>8, <1>9, <1>10, <1>11 DEF Request

(* A call begun after the client has gone never succeeds, an error or an     *)
(* empty result means it has gone, and nothing brings it back, with any      *)
(* number of callers and channels of any capacity (codex_client.go:282-318,  *)
(* 216-233).                                                                 *)
THEOREM ClientKeepsContract == Spec => ImplementsContract
<1>1. Init => Contract!Init
  BY DEF Init, Contract!Init, Up, CallOf
<1>2. ClientInv /\ [Next]_vars => [Contract!Next]_(Contract!vars)
  BY OthersOnContract, RequestOnContract
<1> QED
  BY <1>1, <1>2, ClientInvariant, PTL DEF Spec, ImplementsContract, Contract!Spec
----------------------------------------------------------------------------
(* A dead process leaves nobody waiting.                                     *)

(* The goroutines that have a step to take, by their guards.                 *)
ReaderMoves ==
  \/ reader = "read" /\ (reaped \/ pipe # <<>> \/ ~ alive)
  \/ reader = "deliver" /\ (eventsClosed \/ Len(events) < EventsCap \/ done # <<>> \/ doneClosed)
  \/ reader \in {"reply", "fail"}
WaiterMoves == (waiter = "wait" /\ ~ alive) \/ waiter = "exited"
FinishMoves == fin \in {"drain", "close events", "close done"} \/ (fin = "send" /\ done = <<>>)
CallerMoves(k) ==
  \/ call[k] = "write"
  \/ call[k] = "select" /\ (answer[k] # "empty" \/ done # <<>> \/ doneClosed)
ConsumerMoves ==
  consumer = "select" /\ (events # <<>> \/ done # <<>> \/ doneClosed \/ eventsClosed)
SomebodyMoves ==
  ReaderMoves \/ WaiterMoves \/ FinishMoves \/ ConsumerMoves \/ \E k \in Callers : CallerMoves(k)

AllReleased ==
  /\ reader \in {"returned", "panic"} /\ waiter = "returned" /\ fin = "closed"
  /\ consumer # "select"
  /\ \A k \in Callers : call[k] \in {"idle", "returned"}

(* Once the process is gone, somebody in the client can go on until each of  *)
(* its goroutines and all its callers have returned.                         *)
DeadProcessHoldsNobody == ~ alive => SomebodyMoves \/ AllReleased

(* waitLoop does not return before somebody has finished the client, and     *)
(* whoever does goes on to close c.done.                                     *)
ReleaseInv == (waiter = "returned" => fin # "open") /\ (fin = "closed" => doneClosed)

LEMMA StepRelease == ReleaseInv /\ [Next]_vars => ReleaseInv'
<1> SUFFICES ASSUME ReleaseInv, [Next]_vars PROVE ReleaseInv'
  OBVIOUS
<1>1. CASE UNCHANGED <<waiter, fin, doneClosed>>
  BY <1>1 DEF ReleaseInv
<1>2. CASE Codex \/ ReadStderr \/ NextCall \/ (\E k \in Callers : Request(k)) \/ UNCHANGED vars
  <2>1. UNCHANGED <<waiter, fin, doneClosed>>
    BY <1>2 DEF Codex, CodexNotifies, CodexReplies, CodexGarbles, CodexExits, ReadStderr, NextCall, CallNext,
       NextEvent, NextFails, Request, AddPending, WriteRequest, WriteFails, SelectAnswer, SelectDone,
       SelectContext, vars, clientVars, loopVars, finishVars, channelVars
  <2> QED
    BY <1>1, <2>1
<1>3. CASE ReadLoop \/ WaitLoop \/ Finish
  BY <1>3 DEF ReleaseInv, ReadLoop, ReadLine, ReadEnds, DeliverEvent, DeliverSeesDone, DeliverPanics,
     DeliverReply, ReaderFails, WaitLoop, WaitReturns, WaitSeesClosed, WaiterFinishes, Finish, FinishDrains,
     FinishClosesEvents, FinishSendsError, FinishClosesDone, loopVars, finishVars, channelVars
<1> QED
  BY <1>2, <1>3 DEF Next

(* The client of a dead process cannot come to rest with anybody in it: not  *)
(* a caller of request, not the caller of next, not readLoop with an event   *)
(* for which there is no room; finish always gets to close c.done, which     *)
(* lets all of them go (codex_client.go:164-176, 216-233, 282-318, 350-373). *)
THEOREM DeadProcessesHoldNobody == Spec => []DeadProcessHoldsNobody
<1>1. Init => ReleaseInv
  BY DEF Init, ReleaseInv
<1>2. ClientInv /\ ReleaseInv => DeadProcessHoldsNobody
  <2> SUFFICES ASSUME ClientInv, ReleaseInv, ~ alive, ~ SomebodyMoves
               PROVE  AllReleased
    BY DEF DeadProcessHoldsNobody
  <2>1. /\ fin \in {"open", "drain", "close events", "send", "close done", "closed"}
        /\ waiter \in {"wait", "exited", "returned"}
        /\ reader \in {"read", "deliver", "reply", "fail", "returned", "panic"}
        /\ call \in [Callers -> {"idle", "write", "select", "returned"}]
    BY DEF ClientInv, TypeOK, LoopTypes, CallTypes
  <2>2. waiter = "returned"
    BY <2>1 DEF SomebodyMoves, WaiterMoves
  <2>3. fin = "send" => done = <<>>
    BY DEF ClientInv, StageInv, FinishInv
  <2>4. fin = "closed" /\ doneClosed
    BY <2>1, <2>2, <2>3 DEF SomebodyMoves, FinishMoves, ReleaseInv
  <2>5. reader \in {"returned", "panic"}
    BY <2>1, <2>4 DEF SomebodyMoves, ReaderMoves
  <2>6. consumer # "select"
    BY <2>4 DEF SomebodyMoves, ConsumerMoves
  <2>7. \A k \in Callers : call[k] \in {"idle", "returned"}
    BY <2>1, <2>4 DEF SomebodyMoves, CallerMoves
  <2> QED
    BY <2>2, <2>4, <2>5, <2>6, <2>7 DEF AllReleased
<1> QED
  BY <1>1, <1>2, StepRelease, ClientInvariant, PTL DEF Spec
=============================================================================
