---------------------------- MODULE TurnContent ----------------------------
(***************************************************************************)
(* What the user of one task sees of its turns, and what Codex gets to     *)
(* hear (src/internal/service/executor.go, the runtime of broker.go):      *)
(* items that stream their output into artifacts side by side, questions   *)
(* that pause the turn, the replies to them, and the input of turns.       *)
(*                                                                         *)
(* Who may stop, crash or cancel when is the matter of Executor.tla; here  *)
(* executions run undisturbed, one message of Codex per step.  A text is   *)
(* the sequence of the pieces it is made of.                               *)
(***************************************************************************)
EXTENDS Settings, MessageMapping

CONSTANTS
  Items,       \* what Codex works on, each with an id of its own
  Questions,   \* the ids of the server requests Codex may make
  Messages,    \* what the user may send
  FlagChoices, \* the command lines
  MaxPieces,   \* bound on the pieces an item streams
  MaxTurns,
  InboxCap,    \* messages of Codex that are not read yet
  Nothing

ASSUME ContentAssumption ==
  /\ Questions \subseteq Nat /\ Nothing \notin Questions
  /\ \A f \in FlagChoices : f.bypass \in BOOLEAN
  /\ \A m \in Messages : Len(m) \in Nat /\ DOMAIN m = 1 .. Len(m)
  /\ MaxPieces \in Nat \ {0} /\ MaxTurns \in Nat \ {0} /\ InboxCap \in Nat \ {0}

VARIABLES
  flags, serving,  \* the command line, and whether NewExecutor accepted it
  item,            \* Codex: the kind and stage of each item, what it has streamed
                   \* and what it reported as the whole in the end
  turn,            \* Codex: a turn runs, and how many have been started
  question,        \* Codex: what it asks, and which questions wait for an answer
  inbox,           \* notifications and requests on their way
  buffer,          \* taskRuntime: the text accumulated for each item
  pending,         \* taskRuntime: the question it holds
  artifact,        \* a2a-go: the data and the text of each item's artifact
  userInput,       \* a2a-go: the artifact "pending:user-input"
  status,          \* a2a-go: the state of the task
  exchange         \* what the last step took from the user, and told Codex

codexVars == <<item, turn, question>>
runtimeVars == <<buffer, pending>>
taskVars == <<artifact, userInput, status>>
vars == <<flags, serving, codexVars, inbox, runtimeVars, taskVars, exchange>>

Kinds == {"commandExecution", "fileChange", "agentMessage", "mcpToolCall"}
Item(kind, stage, pieces, whole) ==
  [kind |-> kind, stage |-> stage, pieces |-> pieces, whole |-> whole]
Streamed(i) == [n \in 1 .. item[i].pieces |-> n]
Open == {q \in Questions : question[q].stage = "open"}
Empty == [stage |-> "none", text |-> <<>>]

Init ==
  /\ flags \in FlagChoices /\ serving = FALSE
  /\ item = [i \in Items |-> Item("none", "new", 0, <<>>)]
  /\ turn = [running |-> FALSE, number |-> 0]
  /\ question = [q \in Questions |-> [kind |-> "none", stage |-> "new"]]
  /\ inbox = <<>>
  /\ buffer = [i \in Items |-> <<>>] /\ pending = Nothing
  /\ artifact = [i \in Items |-> Empty] /\ userInput = Nothing
  /\ status = "none" /\ exchange = Nothing

(* NewExecutor; a configuration that is not valid ends the program.        *)
Serve ==
  /\ ~ serving /\ Valid(ConfigOf(flags))
  /\ serving' = TRUE
  /\ UNCHANGED <<flags, codexVars, inbox, runtimeVars, taskVars, exchange>>

----------------------------------------------------------------------------
(* Codex.                                                                  *)

Sends(message) ==
  /\ turn.running /\ Len(inbox) < InboxCap
  /\ inbox' = Append(inbox, message)
  /\ exchange' = Nothing
  /\ UNCHANGED <<flags, serving, runtimeVars, taskVars>>

CodexStarts(i, kind) ==
  /\ item[i].stage = "new"
  /\ item' = [item EXCEPT ![i] = Item(kind, "running", 0, <<>>)]
  /\ Sends([type |-> "started", item |-> i])
  /\ UNCHANGED <<turn, question>>

CodexStreams(i) ==
  /\ item[i].stage = "running" /\ item[i].kind # "mcpToolCall" /\ item[i].pieces < MaxPieces
  /\ item' = [item EXCEPT ![i].pieces = @ + 1]
  /\ Sends([type |-> "delta", item |-> i, piece |-> item'[i].pieces])
  /\ UNCHANGED <<turn, question>>

(* Commands and messages may be repeated as a whole, here with a piece     *)
(* that was never streamed.                                                *)
CodexCompletes(i) ==
  /\ item[i].stage = "running"
  /\ \E whole \in {<<>>, Append(Streamed(i), item[i].pieces + 1)} :
       /\ item[i].kind \in {"commandExecution", "agentMessage"} \/ whole = <<>>
       /\ item' = [item EXCEPT ![i] = Item(@.kind, "done", @.pieces, whole)]
       /\ Sends([type |-> "completed", item |-> i, whole |-> whole])
  /\ UNCHANGED <<turn, question>>

(* It may go on with other items, and ask again, before it is answered.    *)
CodexAsks(q, kind) ==
  /\ question[q].stage = "new" /\ \A p \in Questions : p < q => question[p].stage # "new"
  /\ question' = [question EXCEPT ![q] = [kind |-> kind, stage |-> "open"]]
  /\ Sends([type |-> "question", id |-> q])
  /\ UNCHANGED <<item, turn>>

CodexEndsTurn(how) ==
  /\ Open = {}
  /\ turn' = [turn EXCEPT !.running = FALSE]
  /\ Sends([type |-> "ended", how |-> how])
  /\ UNCHANGED <<item, question>>

----------------------------------------------------------------------------
(* consumeTurn: the handlers of notifications and server requests, with    *)
(* the artifact updates they publish.                                      *)

Handles(type) ==
  /\ status = "working" /\ inbox # <<>> /\ Head(inbox).type = type
  /\ inbox' = Tail(inbox)
  /\ exchange' = Nothing
  /\ UNCHANGED <<flags, serving, codexVars>>

ReplaceArtifact(i, stage, text) ==
  artifact' = [artifact EXCEPT ![i] = [stage |-> stage, text |-> text]]
AppendArtifact(i, text) ==
  artifact' = [artifact EXCEPT ![i].text = @ \o text]

(* The others show up with their first piece, or when they are done.       *)
StartsArtifact(i) == item[i].kind \in {"commandExecution", "fileChange"}

HandleStarted ==
  /\ Handles("started")
  /\ LET i == Head(inbox).item IN
       IF StartsArtifact(i)
         THEN ReplaceArtifact(i, "running", <<>>) ELSE UNCHANGED artifact
  /\ UNCHANGED <<runtimeVars, userInput, status>>

Accumulate(i, text) == buffer' = [buffer EXCEPT ![i] = @ \o text]

HandleDelta ==
  /\ Handles("delta")
  /\ LET i == Head(inbox).item
         piece == <<Head(inbox).piece>> IN
       /\ Accumulate(i, piece)
       /\ IF item[i].kind = "agentMessage"
            THEN ReplaceArtifact(i, "none", buffer'[i])
            ELSE AppendArtifact(i, piece)
  /\ UNCHANGED <<pending, userInput, status>>

FirstNonEmpty(text, fallback) == IF text # <<>> THEN text ELSE fallback

(* Mutant: only what Codex repeats is kept when the artifact is replaced.  *)
CompletedTextAsReported(i, whole) == whole

CompletedText(i, whole) ==
  CASE item[i].kind = "commandExecution" -> FirstNonEmpty(whole, buffer[i])
    [] item[i].kind = "fileChange"       -> buffer[i]
    [] item[i].kind = "mcpToolCall"      -> <<>>
    [] item[i].kind = "agentMessage"     -> whole

HandleCompleted ==
  /\ Handles("completed")
  /\ LET i == Head(inbox).item
         whole == Head(inbox).whole IN
       IF item[i].kind = "agentMessage"
         THEN IF whole = <<>> THEN UNCHANGED artifact
              ELSE ReplaceArtifact(i, "none", CompletedText(i, whole))
         ELSE ReplaceArtifact(i, "done", CompletedText(i, whole))
  /\ UNCHANGED <<runtimeVars, userInput, status>>

(* pendingArtifact and inputRequiredStatus, with or without a note.        *)
Asks(q, note) ==
  /\ userInput' = [id |-> q, kind |-> question[q].kind, note |-> note]
  /\ status' = "input-required"
  /\ UNCHANGED artifact

HandleQuestion ==
  /\ Handles("question")
  /\ LET q == Head(inbox).id IN
       \/ /\ question[q].kind \in QuestionKinds
          /\ Asks(q, FALSE) /\ pending' = q
       \/ /\ question[q].kind \notin QuestionKinds
          /\ status' = "failed"
          /\ UNCHANGED <<pending, artifact, userInput>>
  /\ UNCHANGED buffer

HandleEnd ==
  /\ Handles("ended")
  /\ LET how == Head(inbox).how IN
       /\ status' = CASE how = "completed" -> "input-required"
                      [] how = "interrupted" -> "canceled"
                      [] OTHER -> "failed"
       /\ pending' = IF how = "completed" THEN Nothing ELSE pending
  /\ UNCHANGED <<buffer, artifact, userInput>>

----------------------------------------------------------------------------
(* The user's messages: Execute up to consumeTurn.                         *)

TakesInput == serving /\ status \in {"none", "input-required"} /\ pending = Nothing

StartTurn(m) ==
  /\ TakesInput /\ HasOptions(ConfigOf(flags))
  /\ Understood(m)
  /\ turn.number < MaxTurns
  /\ turn' = [running |-> TRUE, number |-> turn.number + 1]
  /\ status' = "working"
  /\ LET options == RequestOptions(ConfigOf(flags)) IN
       exchange' = [type |-> "turn", said |-> m, input |-> CodexInputs(m),
                    thread |-> ThreadSettings(options), turn |-> TurnSettings(options)]
  /\ UNCHANGED <<flags, serving, item, question, inbox, runtimeVars, artifact, userInput>>

RejectMessage(m) ==
  /\ TakesInput /\ HasOptions(ConfigOf(flags))
  /\ ~ Understood(m)
  /\ status' = "failed" /\ exchange' = Nothing
  /\ UNCHANGED <<flags, serving, codexVars, inbox, runtimeVars, artifact, userInput>>

Exchange(m, answers) ==
  exchange' = [type |-> "reply", said |-> m, kind |-> question[pending].kind, answers |-> answers]
Replies(m) == IF status = "input-required" /\ pending # Nothing
                THEN ResponseForPending(m, question[pending].kind) ELSE {}

(* Mutant: the question is answered and stays pending.                     *)
ResumeKeepingPending(m) ==
  /\ Replies(m) # {}
  /\ question' = [question EXCEPT ![pending].stage = "answered"]
  /\ status' = "working"
  /\ Exchange(m, Replies(m))
  /\ UNCHANGED <<flags, serving, item, turn, inbox, runtimeVars, artifact, userInput>>

Resume(m) ==
  /\ Replies(m) # {}
  /\ question' = [question EXCEPT ![pending].stage = "answered"]
  /\ pending' = Nothing
  /\ status' = "working"
  /\ Exchange(m, Replies(m))
  /\ UNCHANGED <<flags, serving, item, turn, inbox, buffer, artifact, userInput>>

AskAgain(m) ==
  /\ status = "input-required" /\ pending # Nothing /\ Replies(m) = {}
  /\ Asks(pending, TRUE)
  /\ Exchange(m, {})
  /\ UNCHANGED <<flags, serving, codexVars, inbox, runtimeVars>>

----------------------------------------------------------------------------
Codex ==
  \/ \E i \in Items : CodexStreams(i) \/ CodexCompletes(i) \/ \E k \in Kinds : CodexStarts(i, k)
  \/ \E q \in Questions, k \in QuestionKinds \cup {"other"} : CodexAsks(q, k)
  \/ \E how \in {"completed", "interrupted", "failed"} : CodexEndsTurn(how)
Handle == HandleStarted \/ HandleDelta \/ HandleCompleted \/ HandleQuestion \/ HandleEnd
User == \E m \in Messages : StartTurn(m) \/ RejectMessage(m) \/ Resume(m) \/ AskAgain(m)

Next == Serve \/ Codex \/ Handle \/ User

Spec == Init /\ [][Next]_vars

----------------------------------------------------------------------------
(* Properties.                                                             *)

(* The runtime holds a question exactly while the task is paused on it     *)
(* (executor.go:209-211, 179; broker.go:76-81).                            *)
ContentTypeOK ==
  /\ flags \in FlagChoices /\ serving \in BOOLEAN
  /\ \A i \in Items :
       /\ item[i].kind \in Kinds \cup {"none"} /\ item[i].stage \in {"new", "running", "done"}
       /\ item[i].pieces \in 0 .. MaxPieces /\ Len(item[i].whole) <= MaxPieces + 1
       /\ Len(buffer[i]) <= item[i].pieces
       /\ artifact[i].stage \in {"none", "running", "done"}
  /\ turn.running \in BOOLEAN /\ turn.number \in 0 .. MaxTurns
  /\ question \in [Questions -> [kind : QuestionKinds \cup {"none", "other"},
                                 stage : {"new", "open", "answered"}]]
  /\ Len(inbox) <= InboxCap
  /\ pending = Nothing \/ (pending \in Questions /\ status = "input-required")
  /\ status \in {"none", "working", "input-required", "failed", "canceled"}

(* What an artifact shows, with what is still on its way, is what its item *)
(* has streamed: in order, each piece once, through pauses, other items    *)
(* and turns; and when the end of the item has been read, the whole Codex  *)
(* reported, or else all that was streamed (executor.go:322-357, 641-687). *)
Deltas(i) == {n \in DOMAIN inbox : inbox[n].type = "delta" /\ inbox[n].item = i}
OnItsWay(i) == [k \in 1 .. Cardinality(Deltas(i)) |-> Selected(inbox, Deltas(i))[k].piece]
EndUnread(i) == \E n \in DOMAIN inbox : inbox[n].type = "completed" /\ inbox[n].item = i
ArtifactsShowOutput ==
  \A i \in Items :
    artifact[i].text \o OnItsWay(i) =
      IF item[i].stage = "done" /\ ~ EndUnread(i)
        THEN FirstNonEmpty(item[i].whole, Streamed(i)) ELSE Streamed(i)

(* No question of Codex is forgotten, also when it asks again before it    *)
(* has been answered; a paused task shows the question its user is to      *)
(* answer, with a note after a reply that was refused; and a reply the     *)
(* documentation tells users to send is taken, as what it says             *)
(* (executor.go:199-212, 161-184, 425-473).                                *)
Unread == {q \in Questions : \E n \in DOMAIN inbox : inbox[n].type = "question" /\ inbox[n].id = q}
QuestionsFindAnswers ==
  /\ status \in {"working", "input-required"} =>
       Open = Unread \cup (IF pending = Nothing THEN {} ELSE {pending})
  /\ pending # Nothing => userInput.id = pending /\ userInput.kind = question[pending].kind
  /\ exchange # Nothing /\ exchange.type = "reply" =>
       /\ Documented(exchange.said, exchange.kind) \subseteq exchange.answers
       /\ exchange.answers = {} => pending # Nothing /\ userInput.note

(* A turn starts with all the user said, in a thread and under settings    *)
(* that are those of the command line, and a server that has started can   *)
(* always make them (executor.go:122-137, 366-423; broker.go:192-207;      *)
(* config.go:69-145).                                                      *)
TurnGetsWhatWasSaid ==
  /\ serving => HasOptions(ConfigOf(flags))
  /\ exchange # Nothing /\ exchange.type = "turn" =>
       /\ Carries(exchange.input, exchange.said)
       /\ Obeys(exchange.thread, flags) /\ Obeys(exchange.turn, flags)
=============================================================================
