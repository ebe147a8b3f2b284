------------------------------- MODULE Broker -------------------------------
(***************************************************************************)
(* The session broker (src/internal/service/broker.go): which Codex thread *)
(* a new A2A task is started or forked from, the child counters that find  *)
(* the tip of a context, and the ownership of each task's Codex client.    *)
(*                                                                         *)
(* Every action is one critical section of broker.mu (or of a runtime's    *)
(* own mutex), so the interleavings are those of the code's lock regions.  *)
(* The callers are left unconstrained here: any task may do anything its   *)
(* registration allows at any time.  Executor.tla supplies the real ones.  *)
(***************************************************************************)
EXTENDS Integers, Sequences, FiniteSets

CONSTANTS
  Tasks,      \* A2A task ids; each starts at most once
  Contexts,   \* A2A context ids
  NoTask,     \* the empty ParentTaskID, and "no reference"
  NoContext

ASSUME SentinelAssumption == NoTask \notin Tasks /\ NoContext \notin Contexts

VARIABLES
  sessions,        \* b.contexts[c].tasks; the empty set is an absent context
  active,          \* the keys of b.tasks
  phase,           \* how far startTask got
  context,         \* taskSession.ContextID
  reference,       \* the one entry of the message's ReferenceTasks, or NoTask
  parent,          \* taskSession.ParentTaskID
  childCount,      \* taskSession.childCount
  client,          \* taskSession.Client is non-nil
  startedAt,       \* taskRuntime.StartedAt, as a registration rank
  clock,           \* the next rank
  turnActive,      \* taskRuntime.turnActive
  pending          \* taskRuntime.pending is non-nil

brokerVars == <<sessions, active, phase, context, reference, parent, childCount,
                client, startedAt, clock, turnActive, pending>>

requestVars == <<context, reference, parent>>
treeVars == <<sessions, childCount, startedAt, clock>>
runtimeVars == <<turnActive, pending>>

Phases == {"new", "resolved", "registered", "discarded", "failed"}

BrokerInit ==
  /\ sessions = [c \in Contexts |-> {}]
  /\ active = {}
  /\ phase = [t \in Tasks |-> "new"]
  /\ context = [t \in Tasks |-> NoContext]
  /\ reference = [t \in Tasks |-> NoTask]
  /\ parent = [t \in Tasks |-> NoTask]
  /\ childCount = [t \in Tasks |-> 0]
  /\ client = [t \in Tasks |-> FALSE]
  /\ startedAt = [t \in Tasks |-> 0]
  /\ clock = 0
  /\ turnActive = [t \in Tasks |-> FALSE]
  /\ pending = [t \in Tasks |-> FALSE]

----------------------------------------------------------------------------
(* resolveBaseSession, under broker.mu.                                    *)

(* A task whose runtime is gone never blocks, whatever it was doing.       *)
BlocksBranching(t) == t \in active /\ (turnActive[t] \/ pending[t])

(* The sessions the loop over state.tasks does not skip.                   *)
Leaves(c) == {t \in sessions[c] : childCount[t] = 0}

(* (nil, nil): the caller will open a thread of its own.  The second case  *)
(* is the loop that runs to its end without having met a leaf.             *)
ResolvesFresh(c, refs) ==
  /\ refs = <<>>
  /\ sessions[c] = {} \/ Leaves(c) = {}

(* Mutant: a reference is honoured without asking whether it still works.  *)
ResolvesToBusy(c, refs, p) ==
  /\ p \in sessions[c]
  /\ refs = <<p>> \/ (refs = <<>> /\ Leaves(c) = {p} /\ ~ BlocksBranching(p))

(* The session the caller will fork, if p is it.                           *)
ResolvesTo(c, refs, p) ==
  /\ p \in sessions[c]
  /\ ~ BlocksBranching(p)
  /\ \/ refs = <<p>>
     \/ refs = <<>> /\ Leaves(c) = {p}

Rejects(c, refs) ==
  ~ ResolvesFresh(c, refs) /\ \A p \in Tasks : ~ ResolvesTo(c, refs, p)

Resolve(t, c, refs) ==
  /\ phase[t] = "new"
  /\ \E p \in Tasks \cup {NoTask} :
       /\ \/ p = NoTask /\ ResolvesFresh(c, refs)
          \/ p # NoTask /\ ResolvesTo(c, refs, p)
       /\ parent' = [parent EXCEPT ![t] = p]
  /\ phase' = [phase EXCEPT ![t] = "resolved"]
  /\ context' = [context EXCEPT ![t] = c]
  /\ reference' = [reference EXCEPT ![t] = IF refs = <<>> THEN NoTask ELSE refs[1]]
  /\ UNCHANGED <<treeVars, active, client, runtimeVars>>

ResolveRejected(t, c, refs) ==
  /\ phase[t] = "new"
  /\ Rejects(c, refs)
  /\ phase' = [phase EXCEPT ![t] = "failed"]
  /\ UNCHANGED <<treeVars, active, client, runtimeVars, requestVars>>

(* startSession or forkSession fails and closes the client it launched.    *)
StartFails(t) ==
  /\ phase[t] = "resolved"
  /\ phase' = [phase EXCEPT ![t] = "failed"]
  /\ UNCHANGED <<treeVars, active, client, runtimeVars, requestVars>>

----------------------------------------------------------------------------
(* The second critical section of startTask.  The parent is looked up      *)
(* again: it may have been discarded while the thread was being forked.    *)

ParentOf(t) == {parent[t]} \cap sessions[context[t]]

(* Mutant: a "has children" flag where the code has a counter.             *)
FlagChild(t) ==
  [u \in Tasks |-> IF u \in ParentOf(t) THEN 1 ELSE childCount[u]]

CountChild(t) ==
  [u \in Tasks |-> IF u \in ParentOf(t) THEN childCount[u] + 1 ELSE childCount[u]]

(* Mutants: the parent is not told, or the leaving session is charged.     *)
ForgetUncount(t) == [u \in Tasks |-> childCount[u]]
UncountItself(t) == [childCount EXCEPT ![t] = @ - 1]

UncountChild(t) ==
  [u \in Tasks |-> IF u \in ParentOf(t) /\ childCount[u] > 0
                     THEN childCount[u] - 1 ELSE childCount[u]]

RegisterTask(t) ==
  /\ phase[t] = "resolved"
  /\ phase' = [phase EXCEPT ![t] = "registered"]
  /\ childCount' = CountChild(t)
  /\ sessions' = [sessions EXCEPT ![context[t]] = @ \cup {t}]
  /\ active' = active \cup {t}
  /\ client' = [client EXCEPT ![t] = TRUE]
  /\ startedAt' = [startedAt EXCEPT ![t] = clock]
  /\ clock' = clock + 1
  /\ UNCHANGED <<requestVars, runtimeVars>>

(* finishTaskWithPolicy(t, true): the runtime and the client go, the       *)
(* session stays as a fork point.  A second call finds no runtime.         *)
FinishTask(t) ==
  /\ active' = active \ {t}
  /\ client' = [client EXCEPT ![t] = @ /\ t \notin active]
  /\ UNCHANGED <<treeVars, phase, requestVars, runtimeVars>>

(* finishTaskWithPolicy(t, false): the session leaves its context too.     *)
DiscardTask(t) ==
  \/ /\ t \in active
     /\ active' = active \ {t}
     /\ client' = [client EXCEPT ![t] = FALSE]
     /\ childCount' = UncountChild(t)
     /\ sessions' = [sessions EXCEPT ![context[t]] = @ \ {t}]
     /\ phase' = [phase EXCEPT ![t] = "discarded"]
     /\ UNCHANGED <<startedAt, clock, requestVars, runtimeVars>>
  \/ t \notin active /\ UNCHANGED brokerVars

(* Mutant: Close empties the map and leaves the clients where they are.    *)
CloseKeepsClients ==
  /\ active' = {}
  /\ UNCHANGED <<client, treeVars, phase, requestVars, runtimeVars>>

(* broker.Close: every registered client is taken and closed, and the map  *)
(* of runtimes starts afresh.  The sessions of the contexts stay.          *)
CloseBroker ==
  /\ active' = {}
  /\ client' = [t \in Tasks |-> client[t] /\ t \notin active]
  /\ UNCHANGED <<treeVars, phase, requestVars, runtimeVars>>

----------------------------------------------------------------------------
(* The runtime's own critical sections.  The caller holds a pointer, so    *)
(* they also run on a runtime the broker has already let go.               *)

RuntimeStep(t) ==
  /\ phase[t] = "registered"
  /\ UNCHANGED <<treeVars, active, phase, client, requestVars>>

StartTurn(t) ==
  /\ RuntimeStep(t)
  /\ turnActive' = [turnActive EXCEPT ![t] = TRUE]
  /\ UNCHANGED pending

FinishTurnForNextMessage(t) ==
  /\ RuntimeStep(t)
  /\ turnActive' = [turnActive EXCEPT ![t] = FALSE]
  /\ pending' = [pending EXCEPT ![t] = FALSE]

SetPending(t) ==
  /\ RuntimeStep(t)
  /\ pending' = [pending EXCEPT ![t] = TRUE]
  /\ UNCHANGED turnActive

ClearPending(t) ==
  /\ RuntimeStep(t)
  /\ pending' = [pending EXCEPT ![t] = FALSE]
  /\ UNCHANGED turnActive

----------------------------------------------------------------------------
(* A message names at most one useful reference; two of them stand for any *)
(* longer list, which resolveBaseSession treats alike.                     *)
References == {<<>>} \cup {<<r>> : r \in Tasks} \cup {<<r, r>> : r \in Tasks}

BrokerNext ==
  \/ \E t \in Tasks, c \in Contexts, refs \in References :
       Resolve(t, c, refs) \/ ResolveRejected(t, c, refs)
  \/ \E t \in Tasks :
       \/ StartFails(t) \/ RegisterTask(t) \/ FinishTask(t) \/ DiscardTask(t)
       \/ StartTurn(t) \/ FinishTurnForNextMessage(t)
       \/ SetPending(t) \/ ClearPending(t)
  \/ CloseBroker

BrokerSpec == BrokerInit /\ [][BrokerNext]_brokerVars

----------------------------------------------------------------------------
(* Properties.                                                             *)

(* The maps of the broker have their types; childCount never goes below    *)
(* zero (broker.go:153-178, 386).                                          *)
TypeOK ==
  /\ sessions \in [Contexts -> SUBSET Tasks]
  /\ \A c \in Contexts : IsFiniteSet(sessions[c])
  /\ active \in SUBSET Tasks
  /\ phase \in [Tasks -> Phases]
  /\ context \in [Tasks -> Contexts \cup {NoContext}]
  /\ reference \in [Tasks -> Tasks \cup {NoTask}]
  /\ parent \in [Tasks -> Tasks \cup {NoTask}]
  /\ childCount \in [Tasks -> Nat]
  /\ client \in [Tasks -> BOOLEAN]
  /\ startedAt \in [Tasks -> Nat]
  /\ clock \in Nat
  /\ turnActive \in [Tasks -> BOOLEAN]
  /\ pending \in [Tasks -> BOOLEAN]

Children(t) == {u \in sessions[context[t]] : parent[u] = t}

(* taskSession.childCount is a cache of the tree: whatever order forks,    *)
(* registrations and discards come in, and although startTask looks the    *)
(* parent up a second time, a session that can still be forked counts      *)
(* exactly the registered sessions forked from it (broker.go:340-345 and   *)
(* 385-390).  A counter too high would hide the tip of the context.        *)
ChildCountExact ==
  \A c \in Contexts : \A t \in sessions[c] :
     childCount[t] = Cardinality(Children(t))

(* The loop of resolveBaseSession returns (nil, nil) when it meets no leaf *)
(* (broker.go:290-303), which the caller takes for "open a new thread".    *)
(* That never happens in a context that still has sessions, so an existing *)
(* conversation is never restarted by that path.                           *)
NonEmptyContextHasLeaf ==
  \A c \in Contexts : sessions[c] # {} => Leaves(c) # {}

(* broker.tasks and Session.Client change together: a runtime another      *)
(* goroutine can still look up has a client to talk to, and a session that *)
(* was finished, discarded or closed keeps none alive                      *)
(* (broker.go:378-400, 416-426).                                           *)
ClientIffActive ==
  \A t \in Tasks : client[t] <=> t \in active

(* The strengthening the proofs need.  The map of sessions and the phases  *)
(* agree (broker.go:329-347, 379-396).                                     *)
SessionsMatchPhase ==
  \A t \in Tasks :
    /\ phase[t] \in {"resolved", "registered"} => context[t] \in Contexts
    /\ \A c \in Contexts :
         t \in sessions[c] <=> phase[t] = "registered" /\ context[t] = c

(* Runtimes belong to registered tasks, and a task has done nothing before *)
(* it is registered (broker.go:329-347).                                   *)
RuntimesRegistered ==
  \A t \in Tasks :
    /\ t \in active => phase[t] = "registered"
    /\ phase[t] \in {"new", "resolved", "failed"} =>
         ~ turnActive[t] /\ ~ pending[t] /\ childCount[t] = 0

(* A fork point was registered earlier, in the same context, so            *)
(* ParentTaskID is acyclic even where the parent has been discarded since  *)
(* (broker.go:314-347).                                                    *)
ParentsOlder ==
  \A t \in Tasks :
    /\ phase[t] \in {"registered", "discarded"} => startedAt[t] < clock
    /\ parent[t] # NoTask /\ phase[t] \in {"resolved", "registered"} =>
         /\ phase[parent[t]] \in {"registered", "discarded"}
         /\ context[parent[t]] = context[t]
         /\ phase[t] = "registered" => startedAt[parent[t]] < startedAt[t]

(* The inductive invariant of the broker (broker.go:263-435).              *)
BrokerInv ==
  /\ TypeOK
  /\ SessionsMatchPhase
  /\ RuntimesRegistered
  /\ ParentsOlder
  /\ ClientIffActive
  /\ ChildCountExact

(* All the threads of a context descend from one: "A2A contextId -> one    *)
(* related family of Codex thread snapshots" (README.md:7).  The code does *)
(* not ensure it: resolveBaseSession and the registration are two critical *)
(* sections, so two first messages of a context both open a new thread.    *)
OneRootPerContext ==
  \A c \in Contexts : \A t, u \in sessions[c] :
     parent[t] = NoTask /\ parent[u] = NoTask => t = u

(* The abstract family, read off the broker's state.                       *)
Stage(t) ==
  CASE phase[t] = "resolved"   -> "chosen"
    [] phase[t] = "registered" -> "member"
    [] phase[t] = "new"        -> "new"
    [] OTHER                   -> "gone"

BusyTasks == {t \in Tasks : BlocksBranching(t)}

Forest == INSTANCE SessionForest WITH
  family <- sessions,
  stage  <- [t \in Tasks |-> Stage(t)],
  home   <- context,
  asked  <- reference,
  origin <- parent,
  busy   <- BusyTasks

(* The counters, the two critical sections of startTask and the runtimes   *)
(* dropped by finishTask, discardTask and Close implement the family: a    *)
(* thread is opened only for an empty context, and otherwise forked from   *)
(* the referenced idle session or from the only tip (broker.go:263-349).   *)
ImplementsForest == Forest!Spec
============================================================================
