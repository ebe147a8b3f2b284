# A verification project for codex-a2a

codex-a2a is a Go server that speaks A2A to its clients and drives one
`codex app-server` process per task over JSON-RPC. These TLA+ modules model the
part of it where things happen at the same time or in an order somebody else
chooses: the session broker, the executor, what the turns of a task show and
hear, the Codex client, the task store and the auth proxy. TLC checks them on
small instances; TLAPS proves every invariant and every refinement the passing
runs check, for any values of the constants. What stays with TLC alone is what
must eventually happen. References such as `executor.go:288` are to
`internal/service/` of the repository.

## The system

| Component | State | Operations | Talks to | What is hard | Modelled in |
|---|---|---|---|---|---|
| session broker, `broker.go` | contexts and their sessions with child counters; runtimes by task | `startTask`, `task`, `cancel`, `finishTask`, `discardTask`, `Close`, the runtime's own methods | Codex client (launch, `thread/start`, `thread/fork`, kill) | `startTask` is two critical sections with a process launch between; clients are taken away under one lock and used without it | `SessionForest`, `Broker`, `BrokerProofs` |
| executor, `executor.go` | turn id, pending request, cancel flag (in the runtime) | `Execute`, `Cancel`, `Cleanup`, `Close` | a2a-go (yield, stored status), broker, Codex client | a cancel, Close, a crash or a vanished consumer at any step of an execution | `Executor`, `ExecutorProofs`, `ExecutorTaskProofs` |
| Codex client, `codex_client.go` | pending requests, events buffer, done channel, stderr tail | `request`, `next`, `respond`, `Close`; `readLoop`, `waitLoop`, `stderrLoop`, `finish` | the process's pipes; executor, broker, auth proxy | closing two channels in order, a full buffer, the end of the process seen by three goroutines | `ClientContract`, `CodexClient`, `CodexClientProofs` |
| message mapping, `executor.go:366-522` | none | `codexInputsFromMessage`, `responseForPending` | executor | messages with several parts, replies of several forms | `MessageMapping`, `TurnContentProofs` |
| turn content, `executor.go:243-364, 528-694`, runtime of `broker.go` | text buffers and pending request of a runtime; artifacts at a2a-go | the handlers of Codex's notifications and server requests | Codex client, a2a-go | interleaved output, pauses in the middle, questions that overlap | `TurnContent`, `TurnContentProofs` |
| task store, `taskstore.go` | tasks with version, user, time | `Create`, `Update`, `Get`, `List` | a2a-go | concurrent writers, copies made outside the lock, pages of a moving list | `TaskRegister`, `TaskStore`, `TaskStoreProofs` |
| auth proxy, `auth_proxy.go` | helper process, drain goroutine | `ServeHTTP`, `CurrentAuth`, `Close` | Codex client, upstream HTTP | one retry after 401, death of the helper, order of `Close` | `AuthProxy`, `AuthProxyProofs` |
| entry point, `cmd/codex-a2a/main.go` | none | start, signal, shutdown; flags | all of the above | what shutdown waits for and what it skips | `AuthProxy`, `Settings` |
| configuration, `config.go` | constants | validation, request options | entry point, executor, broker | two vocabularies for one sandbox | `Settings`, `SettingsProofs` |
| wire types, card, handler, mock API, container files | constants | | | nothing concurrent | no |

How they interact: a2a-go calls `Execute` for each message, one at a time per
task, and `Cancel` beside it; the executor publishes events by calling `yield`.
The first message of a task makes the broker choose a session to fork, launch a
process and register a runtime; later ones reuse the runtime. The runtime's
client reads the process's stdout in `readLoop`, hands responses to the callers
of `request` and everything else to `next`. `Session.Client` is the shared
pointer: executor and `Cancel` use it, broker operations clear it. a2a-go keeps
the tasks in the task store, reading a task, applying an event to its copy and
writing it back under its version. The auth proxy is a process of its own with
a Codex client for its helper; `main.go` owns the lifetime of either server.

What makes each correct:

- *broker*: a context's threads form one family; a task forks the session it
  names, or the only tip; nothing that is still working is forked; counters,
  runtimes and clients agree at all times.
- *executor*: no process without an owner; a task in `input-required` can be
  continued; a task that is over holds nothing; a wait always has something to
  wait for; every cancel and every Close comes to an end.
- *client*: notifications in order and without gaps; each response to its own
  caller and after the notifications before it; nobody waits for a dead process.
- *turn content*: artifacts show all of the output, once and in order; every
  question gets an answer that was meant for it; a turn gets all the user said.
- *task store*: a versioned register per task; a walk through the pages meets
  each task at most once and misses only what was written meanwhile.
- *auth proxy*: a 401 is passed on only after a second token was refused; every
  request gets a response; a shutdown ends, and a clean one leaves nothing.

`PROJECT.json` lists the hazards line by line with the properties aimed at them.

## Modules

**`SessionForest`** says what the broker promises, without counters, locks,
processes or runtimes: a task *chooses* an origin, *joins* its context, may
*leave* it, and members become busy and idle. An origin is either "none, and the
context was empty" or an idle member that was named or is the only tip.

**`Broker`** is `broker.go`, one action per critical section: `Resolve` and
`ResolveRejected` (first section of `startTask`), `StartFails`, `RegisterTask`
(the second), `FinishTask`, `DiscardTask`, `CloseBroker`, and the runtime's
`StartTurn`, `FinishTurnForNextMessage`, `SetPending`, `ClearPending`. `sessions`
is `b.contexts[..].tasks`, `active` the keys of `b.tasks`, `childCount`,
`parent`, `client` the fields of `taskSession`, `turnActive` and `pending` those
of `taskRuntime`. `startedAt` is a rank instead of a time. Its callers are
arbitrary: any task may do at any time what its registration allows. `Forest` is
the refinement mapping to `SessionForest`.

**`Executor`** extends `Broker` and gives it its real callers. `pc[t]` is where
the goroutine of `Execute` is, `cpc[t]` that of `Cancel` and `Cleanup`; each
broker step happens together with the step of the goroutine that takes it. A
step ends where another goroutine can get in: a yield, a lock, a use of
`Session.Client`, a wait for Codex. The table `Writes` says for each yield which
status it stores and where the goroutine goes when yield is true; when it is
false, `WriteStops` follows the path of `errStopStreaming`. `CallNext` is apart
from what `next` returns, because a goroutine that waits in `next` does not see
the session lose its client. `proc`, `codexTurn`,
`asked` and `inbox` are the process of the session: at most one turn, messages
read in order. `stored` and `open` are a2a-go's side: the status in the task
store and whether yield still returns true. The client is reduced to what
`CodexClient` shows of it: messages in order, an error once the process is dead,
and the empty answer (`TurnStartAnsweredEmpty`) that only a finished client
gives, which `ClientContract` allows and `CodexClient` is checked to keep to.
`stopped` is history: the tasks whose consumer has gone away at some time.

**`CodexClient`** is `codex_client.go` channel by channel. `pipe` is stdout,
`events`, `done` and `answer` the Go channels with their capacities, `waiting`
is `c.pending`, `fin` the progress of `finish` from `open` (closed is false)
through its four effects. Each `select` is one action per ready case. An event
is its number, so that loss and order show.

**`ClientContract`** says what a caller of `request` may count on: while the
client is up a call can be answered; when it goes down, answers on their way may
still arrive or be lost; no call begun later succeeds; an error or an empty
result means that the client is down. `Contract` in `CodexClient` is the
refinement mapping, and `AuthProxy` is built on the contract instead of the
channels.

**`TaskRegister`** says what the task store promises: an owned register per
task, whose version counts its writes, and reads that keep seeing the version
they read. **`TaskStore`** is `taskstore.go` with its pointers: `heap` is the
content of every task object there is, `stored` points to the store's copies,
`draft` to the callers'. `Create`, `Update`, and the halves of `Get` and `List`
before and after the unlock are the actions; `walk` is a client that follows
page tokens, with the status each task was selected by and the tasks not written
since as history. `Blind` callers update without naming a version
(`TaskVersionMissing`), as a2a-go may.

**`AuthProxy`** is `auth_proxy.go` in the process `main.go` makes of it: a
handler per request (`pc`), the helper with its credentials (`login`, `given`),
`drainer`, `Close` in its three steps (`closing`) and `main`. `up` and `call` are
the variables of `ClientContract`, instantiated with two calls per request. A
token is a number that grows with every login and refresh; `revoked` are those
the upstreams refuse. A login or a revocation may happen at any time, which is
also how the refresh of another request looks to this one.

**`Settings`** holds the flags, the validation and the two sandbox vocabularies
as operators; **`MessageMapping`** the input of turns and the answers to
questions, over messages of typed parts. Each ends with what its operators are
for, said without them: `Obeys`, `Carries`, and `Documented` for the replies
that README.md:174-176 tells users to send.

**`TurnContent`** puts both to work for one task. Codex starts items, streams
their pieces, completes them, asks and ends turns, ahead of the executor by an
`inbox`; `HandleStarted` to `HandleEnd` are the handlers with the artifact and
status updates they write; `StartTurn`, `RejectMessage`, `Resume` and `AskAgain`
are what `Execute` does with a message. A text is the sequence of pieces it
consists of, and an artifact the stage its data part shows and the text of its
text parts. That executions can be stopped, crash or be canceled is the matter
of `Executor`, which in turn abstracts from all of this content.

**`MCBroker`, `MCExecutor`, `MCCodexClient`, `MCTaskStore`, `MCAuthProxy`,
`MCTurnContent`** add symmetry sets, views, messages and command lines.
Operators marked *Mutant* in a module are plausible wrong versions of the
definition below them; no specification uses them.

The proofs about a module are in the module of its name with `Proofs` behind it;
the executor's are in two, what it makes of the broker and what one task goes
through, and those of `MessageMapping` are with `TurnContent`'s.

## Runs that pass

| Run | Bounds | What it shows |
|---|---|---|
| `BrokerForest` | 3 tasks, 2 contexts | Any interleaving: exact counters, a tip in every nonempty context, clients with runtimes, and the refinement of `SessionForest` |
| `ExecutorStop` | 1 task, 3 turns, inbox 2, cancels, crashes, vanishing consumers and Close, fair | Processes have owners, waits have an end, turns start on a quiet thread, pauses can be resumed, terminal tasks hold nothing, only Close takes a client from an execution; with a consumer that stays no task is in limbo and a cancel is recorded; a canceled task is released and an execution that was reading when Close came ends |
| `ExecutorPair` | 2 tasks of a context, 2 turns, inbox 1, crashes | Busy turns block branching with a second task around; the executor takes only steps that `Broker` allows |
| `ClientSafe` | 2 callers, buffer 1, pipe 2, 2 events, garbage, contexts that end | Order, responses behind their events, every caller answered by `finish`, own answers |
| `ClientLive` | 1 caller, the same otherwise, fair | Nobody waits for a dead process for ever; a printed response arrives if somebody keeps reading events; `request` keeps `ClientContract` |
| `StoreWalk` | 2 callers (1 blind), 2 users, 2 tasks, 4 writes, 2 instants, pages of 1 | The store is a register per task; `List` shows what it selected; a walk lists a task once and misses only what moved |
| `Proxy` | 1 request, 3 tokens, backlog 2, fair | A 401 is a second opinion; shutdown in order; requests get responses; a signal ends the process |
| `Content` | 2 items of 2 pieces, 2 questions, 2 turns, inbox 1, 15 messages, 6 command lines | Artifacts show all of the output; no question is lost and documented replies are taken; turns get the whole message under the settings of the command line |

Why the bounds are enough for the questions asked. Three tasks give a parent
with two children, a chain of three and a discarded middle; two contexts give
references across them. Two turns give a follow-up on a thread with a history
and a message left over from an older turn; an inbox of two gives an update
with the turn's end behind it. The events buffer of 256 only matters by being
empty or full, and with capacity 1 two events fill it and leave
`readLoop` blocked with a response behind them; two callers are enough for one
to take the error the other needed. Two instants let both tasks share one or
be apart, and four writes let a task be written twice between two pages of a
walk that shows it. Two calls of one request are all a handler ever makes, and
three tokens allow a login by another method, a refresh and a revocation around
them; two requests without the liveness properties, a run of minutes, showed no
difference. Two items of two pieces show a piece that is lost, doubled or out of
place; two questions can be open at once; with two turns an item starts in one
and ends in the other. Every bound is a constant of a module: `MaxTurns`, `InboxCap`, `EventsCap`, `PipeCap`,
`MaxEvents`; `MayCancel`, `MayStop`, `MayClose`, `MayCrash`, `MayGarble` and
`MayGiveUp` switch parts of the environment; `MaxVersion`, `MaxWrites`,
`MaxClock`, `PageSize`, `MaxGen`, `Backlog`, `MaxPieces` bound the newer modules.
Two runs have a VIEW: `StoreView` leaves out objects nobody points to and
`ContentView` the command line once no turn will read it again. Deadlock is not checked because the
bounded systems do stop: every task has had its turns, every process is dead.

`NoLimbo`, `CancelRecorded` and `PausedTaskIsResumable` are not asked of a task
in `stopped`: an execution whose consumer goes away ends without a last status
by design of a2a-go's iterator.

## Fairness

`FairSpec` of `Executor`: each goroutine's next step is weakly fair, as Go runs every
goroutine that can run. `ReceiveFails` is strongly fair: it is one case of the
select in `codexClient.next`, which a busy Codex could otherwise outrun for
ever; Go's select chooses at random among the ready cases. Nothing is
assumed of Codex, of clients, of cancels or of Close. In particular nobody
promises that a turn ends, so "every turn ends" is not a property.

`FairSpec` of `CodexClient`: `readLoop`, `waitLoop`, `finish`, a caller inside
`request` and a caller inside `next` are weakly fair. `PrintedReplyArrives` has as its premise that
`next` is called again and again, which `consumeTurn` does during a turn and the
auth proxy's `drainNotifications` always; nobody does while a task is paused.
`FairSpec` of `AuthProxy`: handlers, the drainer, `Shutdown` and `Close` are
weakly fair. The answers of the helper are strongly fair, because its output is
one queue: an answer written waits for room behind the notifications before it,
which come and go, and is not overtaken for ever. An upstream is assumed to
answer in some way what it is sent, as the code has no timeout of its own there;
no client has to send its body or read its response.

Context expiry (`SelectContext`) and the process's exit are never assumed.

## Where code and documents disagree

Each of these runs has one property that a document, a test or a check in the
code states, and TLC finds it violated. The quotes are in `PROJECT.json`.

| Run | Property | In short |
|---|---|---|
| `BrokerRoots` | `OneRootPerContext` | two first messages of a context open two unrelated threads |
| `YieldAfterStop` | `NoYieldAfterStop` | a stopped stream is given one more event |
| `HistoryLoss` | `ContextKeepsHistory` | a refused follow-up discards the session and its history |
| `ClientPanic` | `ReaderSurvives` | `readLoop` sends on the closed `c.events` |

Known limits the models show besides, each the other side of a property that
holds:

- `KnownTurnBlocksBranching` makes an exception for the steps between
  `turn/start` and `startTurn`: in them, and between resolution and
  `thread/fork`, a thread with a running turn can be forked.
- `ClientLostOnlyToClose`: Close does take it, and the execution then calls a
  method of a nil client (`ExecuteDereferencesNil`). Whether a2a-go recovers the
  panic is not visible in this repository; the goroutine is modelled as stopped
  there and no passing property depends on more.
- `CancelRecorded` excludes a cancel that lost its client: Codex ends the turn as
  interrupted on its own while the cancel is on its way, the execution ends in
  silence and releases the client, and `SendInterrupt` finds none. The task stays
  `working`, with no runtime left to cancel.
- `NoOrphanProcess` counts a start in progress as an owner: a task that registers
  after Close keeps its process until it is canceled or ends.
- `ClientContract` has `ReturnEmpty`: a request that races the end of its process
  can return nil, nil; `TurnStartAnsweredEmpty` is what the executor makes of it,
  and in the auth proxy it becomes an error of `CurrentAuth`.
- Without its premise `PrintedReplyArrives` fails: nobody reads the events of a
  paused task, and a full buffer then keeps the response to `turn/interrupt`
  back.
- `waitLoop` reads the stderr tail without waiting for `stderrLoop`, so an exit
  error can lack what the process said (`WaiterFinishes` with `stderr` still
  "written").

- `ShutdownIsOrderly` speaks of clean exits. `log.Fatalf` after a failed listen or
  serve, or after a shutdown of more than five seconds, skips the deferred
  `Close`: the model reaches `main = "fatal"` with the helper up.
- `UnauthorizedIsSecondOpinion` does not say that a valid login is enough: a
  refresh by one request and a revocation between the attempts of another still
  end in a 401 after two different tokens.
- Nothing starts a dead helper again: after `HelperDies` every request gets a 502
  (`RequestsGetResponses` counts it as a response).
- A blind update replaces whatever is there (`Write` of `TaskRegister` says so).
- The artifact `pending:user-input` is never removed: after a reply it goes on
  showing the question that was answered, until the next one.
- A reply with structured data decides by the data alone: a text `decline` beside
  an object without `action` is refused, and the user is asked again.

## Proofs

`BrokerProofs` proves, for any sets of tasks and contexts (infinite ones too):

- `BrokerInvariant`: `BrokerSpec => []BrokerInv`;
- `BrokerTypeCorrect`, `ChildCountsAreExact`, `ClientsFollowRuntimes`,
  `ContextsHaveLeaves`: the properties of `BrokerForest`; `ForkPointsAreOlder`:
  a thread is forked from an older one only, the strengthening they rest on;
- `BrokerImplementsForest`: the refinement.

The only assumption is `SentinelAssumption` (`NoTask` is no task, `NoContext` no
context).

The argument. `ChildCountExact` alone is not inductive: `RegisterTask` adds the
task to its parent's children, so one must know that the task was not a session
before and has no children of its own (`SessionsMatchPhase`,
`RuntimesRegistered`), and that it is not its own parent. The last comes from
age: a parent is registered before its children, in the same context
(`ParentsOlder`), also when it has been discarded since, which is why the
order of registration is in the state. `DiscardTask` then lowers exactly the
counter of the session that loses a child, and the guard `childCount > 0` of the
code never hides an error. Existence of a leaf is an argument about the last:
the session registered last in a context can have no child there
(`YoungestExists`, by induction over the ranks), so its counter is zero.
The refinement uses both: leaves are the tips of the family, and a fresh thread
means an empty context.

Two more say what a thread carries. `History(t, n, f)` says that `f` lists the `n`
sessions from `t` back to one that was opened afresh, each forked from the next. By
`EveryThreadHasAHistory` every session that has a thread has such a history, of finite length, so
forks never form a cycle of any length. The age of a fork point makes this an
argument by the least counterexample: the oldest thread without a history is a fork
of an older one, which has one, and one more step extends it (`HistoryExtends`).
`HistoriesNeverChange` is an action property: whatever is registered, discarded or
cleared later, a history stays one.

`ExecutorProofs` proves, also for any bounds (`BoundsAssumption`: at least one
turn, a buffer of at least one message):

- `ExecutorUsesBroker`: every step of `Executor` is a step of `Broker` or leaves
  its variables alone, one case per action. So everything above, proved for
  arbitrary callers, holds with the real ones; `ExecutorImplementsForest` says it
  of the refinement.
- `ExecutorTypeCorrect`: the types of the executor's variables, split by
  goroutine (`ExecuteTypes`, `CancelTypes`, `CodexTypes`, `A2aTypes`).
- `ProcessesHaveOwners`: `NoOrphanProcess`. It is not inductive: that a resolution
  which fails leaves no process behind needs that an unresolved task never had
  one, and that `Register` gives the process of *this* start to the runtime needs
  that goroutine and broker agree on how far the start got (`StartStages`). That
  `finishTask` on a task whose client Close has already taken kills nothing that
  lives is `ClientIffActive` of the broker. `OwnerInv` is the conjunction.

`SettingsProofs` proves of `Settings`, by cases on the six spellings:

- `ValidConfigHasOptions`: an accepted configuration always yields options;
- `SettingsObeyCommandLine`: threads and turns work in the directory, under the
  policy and within the sandbox of the command line. The flags are arbitrary
  except that `bypass` is Boolean. `TurnGetsWhatWasSaid` checks the same on the
  actions that use them.

`ExecutorTaskProofs` proves the executor's other eight invariants under the same
assumptions (`TerminalTasksAreReleased`, `ClientsAreLostOnlyToClose`,
`CancelsAreRecorded`, `TasksAreNotInLimbo`, `TurnsStartOnQuietThreads`,
`ConsumersHaveTurns`, `KnownTurnsBlockBranching`, `PausedTasksAreResumable`).
None of them is inductive. `ExecutorInv` is `OwnerInv` and, for each task,
`TaskInv` in five parts:

- `HoldInv`: an execution that relies on its runtime has it, unless Close took
  it. Only Close and the task's own goroutines take a client away, and `Cleanup`
  runs once the execution has come to rest;
- `RecordInv`: a terminal status closes the stream, and a cancel that was
  accepted is still to be announced or is recorded;
- `PauseInv`: a task in `input-required` keeps its runtime, a task that is over
  has lost it or `Cleanup` is about to take it;
- `ThreadInv`: a turn that runs has sent no end, and there is never more than one
  end to read, nor none while an execution of a live process is inside a turn. That
  is why `turn/start` meets a quiet thread and why a wait has something to wait for;
- `FlagInv`: `turnActive` and `pending` mean to `resumeInputRequired` and
  `blocksBranching` what the thread is really doing.

`TaskInv` of one task reads nothing of another, and `OthersKeepTask` says so of
every action once; each part is then proved for the steps of the task itself, of
its Codex and its consumer, and for Close.

On `ExecutorInv` rest four theorems about turns and endings that no run states:

- `ReadersSeeTheirTurn`: `consumeTurn` compares no turn ids, and need not: every
  message it has still to read is of the turn whose id the session holds.
  `RunningTurnsAreNamed`: a turn that runs is the one the session names, except
  between the answer to `turn/start` and `startTurn`. Both come from `TurnInv`
  (`MessageInv` and `NameInv`): the unread messages are those of the last turn, its
  end is the last of them, and none is left when the next turn starts.
- `OutcomesAreFinal` and `EndedTasksStayOver`, action properties: a task that is
  canceled or failed keeps that status, and once its goroutines are gone no runtime
  and no Codex process comes back for it.

`CodexClientProofs` proves the invariants of `ClientSafe` (`ClientTypeCorrect`,
`EventsAreInOrder`, `ResponsesComeAfterEvents`, `NobodyIsForgotten`,
`AnswersAreToOwnRequests`) and, in `ClientKeepsContract`, that `request` with its
channels implements `ClientContract`. `ClientAssumption` asks for capacities of at
least one. The invariant `ClientInv`:

- `StageInv` ties the loops to one another: what `readLoop` has in its hand,
  how far `finish` is, that it only runs once the process is gone or the output
  is not JSON;
- `PlaceInv`: a request is in one place at a time, unread by Codex, one line of
  the pipe, in `readLoop`'s hand or answered. Without it a second answer could
  find the caller's slot full, or a response its caller gone;
- `KnownInv`: until `finish` has drained `c.pending`, a caller that has joined it
  is in it or has its answer; so the one that joins late finds `c.done` closed;
- `StreamInv`: the events in the pipe are exactly those after the one taken last;
- `SyncInv`: in front of a response in the pipe are all events sent before it.

`DeadProcessesHoldNobody` is what `DeadProcessReleasesWaiters` and `CloseEndsReaders`
need besides fairness: when the process is gone, some goroutine of the client or
some caller has a step to take until all of them have returned. The guards of the
steps are written out (`ReaderMoves` and the others) because the prover
has no ENABLED; `ReleaseInv` adds that `waitLoop` does not return before
somebody has begun `finish`.

The refinement follows a response from Codex to its caller (`PrintedStep`,
`AnswerStep`): a call can be answered for as long as its request is in one of the
places of `PlaceInv`, the contract's client goes down when the process exits or
`finish` begins, and an error or the closed `c.done` is seen only after that.

`TaskStoreProofs` proves the invariants of `StoreWalk` (`StoreTypeCorrect`,
`ListsAreSnapshots`, `WalksListOnce`, `WalksMissOnlyMoved`) and that the store
implements `TaskRegister` (`StoreImplementsRegister`). `StoreAssumption` bounds
the counters and makes ids numbers, as the token compares them;
`SentinelAssumption` only says that `Nothing` is nothing else. That `Get` and
`List` copy after the unlock is harmless because a stored object is a copy for
one version that nobody writes again: `StoreTypeOK` says where the pointers point,
`FoundAreCopies` that those captured for a page point to such copies.
A walk lists once and misses only what moved because a write moves a task to the
front: what was shown is past the token or has moved (`ShownIsPast`), what was not
written since is still ahead of it (`SteadyIsAhead`). Both rest on the order of the
list being strict, and on a page being the beginning of what remains: `PageEnds`
and `LastPageIsRest`, from the lemmas about the first and last of a finite set.
`StoredVersionsNeverChange` is the action property behind all of it, proved of
every operation: no step alters the copy of any version made so far, the owner of a
task, or lowers its version or time. By `WalksAdvance` each page but the
last shows a task the walk has not shown, and its token is further down the
list, so a client that follows tokens does not go round however often tasks are
written.

`AuthProxyProofs` proves the invariants of `Proxy` (`ProxyTypeCorrect`,
`RejectionsAreSecondOpinions`, `ShutdownsAreOrderly`) for any number of requests
and tokens, and that its client takes only the steps of `ClientContract`
(`ProxyUsesContract`); `ProxyAssumption` asks for a backlog of at least one. `HandlerInv` says for each
handler which of its two calls is idle, waited for or answered, and what it has
tried with the answer; the second answer is newer than the first or an API key
(`AnswersAreFresh`), because a refresh lies between them. `MainInv` follows `main`
and `Close`: no handler before it listens or after it has shut down, the drainer
before the client, the client before the exit.
`WaitingHandlersAreServed` is what `RequestsGetResponses` needs besides fairness: a
handler inside `CurrentAuth` has its answer, or its helper is gone, which its call
reports, or the helper is up, its notifications are being drained and Close has not
begun. `ServedInv` strengthens it: the drainer ends only with the helper or for
Close, and a call without hope belongs to a helper that is gone
(`CallsStayMade`, proved of the contract's steps, and `ProxyUsesContract`'s lemma).

`TurnContentProofs` proves the invariants of `Content` (`ContentTypesHold`,
`ArtifactsAreFaithful`, `QuestionsAreAnswered`, `TurnsGetWhatWasSaid`) for any
items, questions, messages of any length, command lines, and numbers of pieces,
turns and unread messages. `ContentAssumption` says that bounds are positive,
messages are sequences, questions have numbers and the bypass flag is Boolean. `ContentInv`:

- `QuestionInv`: a question that was asked is in one place, unread, held by the
  runtime or answered;
- `ExchangeInv`: the last thing sent to Codex is what the message says;
- `OutputInv`, for each item by itself: its unread notices come in the order of
  its life, its unread pieces are those after the ones in the buffer, each once,
  and the artifact shows the buffer, or after the end the whole. An artifact that
  agrees with the buffer would not be inductive: the handlers append what they
  are given, so it must be known what is on its way.

`ShownOutputIsNeverTakenBack` is an action property: the text a client has been
shown of an item is always the beginning of what it is shown next, through the empty
artifact of `item/started`, appended pieces, replacements and the final
text. It rests on `OutputInv` and on what the model assumes of Codex
(`WholeInv`, from `CodexCompletes`): the whole reported at the end is
empty or begins with all that was streamed. The code replaces the text by the whole
without comparing them, so with another Codex the theorem would not hold.

The induction such a proof would do over the queue is in the invariant instead:
each operation adds one message behind or takes one from the front, and one lemma
for each kind (`StartJoins`, `DeltaJoins`, `EndJoins`, `OtherJoins`, and the same
with `Taken`) says what that does to the messages of one item. For a message of
any length, `Selected` picks the parts at a set of places in their order;
`SelectedAtRank` shows that each is in the result exactly once and where it
belongs, which is what `Carries` asks, and `DocumentedRepliesAreUnderstood` covers
each kind of reply.

Left to TLC are the liveness properties `CanceledTaskIsReleased`,
`CloseEndsReaders`, `DeadProcessReleasesWaiters`, `PrintedReplyArrives`,
`RequestsGetResponses` and `ShutdownEnds`: they need fairness and ENABLED, which
the prover does not handle. They are checked at the bounds above only; of two of
them the part without fairness, that nobody is stuck, is proved
(`DeadProcessesHoldNobody`, `WaitingHandlersAreServed`). The four
properties that documents state and the code violates have nothing to prove.

The theorems whose property no run states (the histories, the four about turns
and endings, the artifact that only grows, the stored versions, the pages, the two
about waiting, the uses of `Broker` and `ClientContract`, the settings) say what
the runs' properties rest on or what follows from them; the runs keep the
properties that a change of the code is most likely to break.

## Not modelled

- Text: artifact names, metadata (ids, times such as `itemStartedAt`), log lines,
  error wording, JSON formatting.
- The artifacts `turn:diff` and `turn:plan`: each notification replaces the whole.
- a2a-go drops a piece for an artifact it does not have. Codex announces commands
  and file changes with `item/started` before their output, so `TurnContent` never
  gets there.
- `Session.Client` reads that race with its clearing are taken as seeing the
  value before or after; a torn `TurnID` string is not modelled, any id it ever
  held is.
- `request` with an id counter, blank lines and JSON details in `CodexClient`;
  `respond` and `notify` only write, and are the answer step of `Executor`.
- `TaskStore` has one clock. Page tokens carry the wall clock and the sort compares
  times that also carry the monotonic one; a wall clock that is set back between
  two pages is outside the model. Filters by context and time, and the trimming
  of history and artifacts, only narrow what a page shows. Task ids are numbers;
  those of a2a-go are UUIDs, which have no "_" to confuse the token with.
- In `AuthProxy` the copying of headers and bodies and the joining of URLs.
- `mergedCodexConfig`, `splitEnv` and the defaults build maps and lists once.
- Card, handler, wire types, mock API, container files: no state that changes.

## Plan

Done: the modules, runs and theorems above. What is left, in the order of what it
would say:

1. The composition of `Executor` with `ClientContract`. The two meet in the same
   actions (an answer, the death of the process), but `Executor` has one call at a time
   for each step of a start, so a mapping needs a history variable that
   numbers the calls of a session; without it the theorem would say little.
2. A clock that can be set back between two pages, for the one hazard no property
   covers: page tokens carry wall time.
3. A measure that falls with every step of a dead client, which together with
   `DeadProcessesHoldNobody` gives its termination without ENABLED.
