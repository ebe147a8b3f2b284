------------------------------ MODULE TaskStore ------------------------------
(***************************************************************************)
(* The in-memory task store (src/internal/service/taskstore.go): Create,   *)
(* Update, Get and List, called by any number of requests at once.         *)
(*                                                                         *)
(* A *a2a.Task is a cell of `heap`: the store keeps pointers, callers hold *)
(* pointers, and only cloneTask keeps the two apart.  Create and Update do *)
(* all they do to shared state under s.mu; Get and List capture pointers   *)
(* under the lock and read through them after it, so each is two steps.    *)
(* A refused call changes nothing, hence takes no step.                    *)
(***************************************************************************)
EXTENDS Integers, FiniteSets

CONSTANTS
  Callers,     \* requests in flight that create, get and update tasks
  Blind,       \* those whose updates name no version: TaskVersionMissing
  Users,
  TaskIDs,     \* numbers, so that strings.Compare is their order
  Statuses,
  Nothing,
  PageSize,
  MaxVersion,  \* bound on the writes of one task
  MaxWrites,   \* bound on the writes of all
  MaxClock     \* bound on time; calls between two ticks share an instant

ASSUME StoreAssumption ==
  /\ Blind \subseteq Callers
  /\ TaskIDs \subseteq Nat
  /\ PageSize \in Nat \ {0} /\ MaxVersion \in Nat \ {0} /\ MaxWrites \in Nat \ {0} /\ MaxClock \in Nat \ {0}

VARIABLES
  heap,     \* the status each task object shows
  stored,   \* s.tasks
  clock,    \* time.Now()
  draft,    \* the task object a caller holds, and the version it came with
  getting,  \* the record a call of Get captured before it released s.mu
  walk      \* one client that lists page after page

vars == <<heap, stored, clock, draft, getting, walk>>

Own(c) == <<"caller", c>>             \* the object a caller made or was given
Copy(id, v) == <<"store", id, v>>     \* the copy made for version v of a task
Cells == {Own(c) : c \in Callers} \cup {Copy(id, v) : id \in TaskIDs, v \in 1 .. MaxVersion}

Versions == 1 .. MaxVersion
Instants == 1 .. MaxClock
Shows == Statuses \cup {Nothing}      \* what a cell may show, and what a list may be asked for
StoredTasks == [cell : Cells, user : Users, version : Versions, at : Instants]
HeldTasks == [id : TaskIDs, version : Versions, cell : Cells]
FoundTasks == [id : TaskIDs, at : Instants, cell : Cells, was : Shows]
Tokens == [at : Instants, id : TaskIDs]
Walks ==
  [at : {"between", "loaded"}, user : Users, want : Shows, token : Tokens \cup {Nothing},
   found : SUBSET FoundTasks, shown : SUBSET TaskIDs, steady : SUBSET TaskIDs]

(* Nothing is none of what it is told apart from, here and in the register.*)
ASSUME SentinelAssumption ==
  Nothing \notin Statuses \cup StoredTasks \cup HeldTasks \cup Tokens
    \cup [owner : Users, version : Versions, status : Shows]
    \cup [id : TaskIDs, version : Versions, status : Shows]

Existing == {id \in TaskIDs : stored[id] # Nothing}

Written == {w \in TaskIDs \X Versions : w[1] \in Existing /\ w[2] <= stored[w[1]].version}
MayWrite == Cardinality(Written) < MaxWrites

NoWalk == [at |-> "away"]

Init ==
  /\ heap = [x \in Cells |-> Nothing]
  /\ stored = [id \in TaskIDs |-> Nothing]
  /\ clock = 1
  /\ draft = [c \in Callers |-> Nothing]
  /\ getting = [c \in Callers |-> Nothing]
  /\ walk = NoWalk

Tick == clock < MaxClock /\ clock' = clock + 1 /\ UNCHANGED <<heap, stored, draft, getting, walk>>

----------------------------------------------------------------------------
(* Writes.  cloneTask runs before the lock is taken, on an object only the *)
(* caller knows, so its result is the same as under the lock.              *)

(* Mutant: an update unmarshals into the object the store already has.     *)
StoredTaskUncopied(id, u, v) ==
  [cell |-> IF v = 1 THEN Copy(id, v) ELSE stored[id].cell, user |-> u, version |-> v, at |-> clock]

StoredTask(id, u, v) == [cell |-> Copy(id, v), user |-> u, version |-> v, at |-> clock]

(* ErrTaskAlreadyExists, or ErrTaskNotFound for another user's task, when  *)
(* the id is taken.                                                        *)
Create(c, id, u, s) ==
  /\ getting[c] = Nothing
  /\ stored[id] = Nothing /\ MayWrite
  /\ stored' = [stored EXCEPT ![id] = StoredTask(id, u, 1)]
  /\ heap' = [heap EXCEPT ![Own(c)] = s, ![stored'[id].cell] = s]
  /\ draft' = [draft EXCEPT ![c] = [id |-> id, version |-> 1, cell |-> Own(c)]]
  /\ UNCHANGED <<clock, getting, walk>>

(* Mutant: only a version from the future is refused.                      *)
VersionNotTooNew(c) == c \in Blind \/ stored[draft[c].id].version >= draft[c].version

(* ErrConcurrentModification, unless PrevVersion is TaskVersionMissing.    *)
VersionMatches(c) == c \in Blind \/ stored[draft[c].id].version = draft[c].version

Forget(id) == IF walk.at = "away" THEN walk ELSE [walk EXCEPT !.steady = @ \ {id}]

Update(c, u) ==
  /\ getting[c] = Nothing /\ draft[c] # Nothing
  /\ LET id == draft[c].id
         v == stored[id].version + 1 IN
       /\ id \in Existing /\ stored[id].user = u
       /\ VersionMatches(c)
       /\ v <= MaxVersion /\ MayWrite
       /\ stored' = [stored EXCEPT ![id] = StoredTask(id, u, v)]
       /\ heap' = [heap EXCEPT ![stored'[id].cell] = heap[draft[c].cell]]
       /\ draft' = [draft EXCEPT ![c].version = v]
       /\ walk' = Forget(id)
  /\ UNCHANGED <<clock, getting>>

(* A caller changes the task it holds, as a2a-go does with every event.    *)
EditMine(c, s) ==
  /\ getting[c] = Nothing /\ draft[c] # Nothing
  /\ heap' = [heap EXCEPT ![draft[c].cell] = s]
  /\ UNCHANGED <<stored, clock, draft, getting, walk>>

----------------------------------------------------------------------------
(* Get.  It compares users after the lock, on a field that never changes;  *)
(* a Get of another user's task returns nothing, hence takes no step.  The *)
(* task the caller held before is dropped.                                 *)
GetLoad(c, id, u) ==
  /\ getting[c] = Nothing
  /\ id \in Existing /\ stored[id].user = u
  /\ getting' = [getting EXCEPT ![c] = [id |-> id, version |-> stored[id].version,
                                       cell |-> stored[id].cell]]
  /\ draft' = [draft EXCEPT ![c] = Nothing]
  /\ UNCHANGED <<heap, stored, clock, walk>>

(* Mutant: the caller is handed the store's own object.                    *)
GetReturnUncloned(c) ==
  /\ getting[c] # Nothing
  /\ draft' = [draft EXCEPT ![c] = getting[c]]
  /\ getting' = [getting EXCEPT ![c] = Nothing]
  /\ UNCHANGED <<heap, stored, clock, walk>>

(* The clone goes to an object of the caller's own.                        *)
GetReturn(c) ==
  /\ getting[c] # Nothing
  /\ heap' = [heap EXCEPT ![Own(c)] = heap[getting[c].cell]]
  /\ draft' = [draft EXCEPT ![c] = [getting[c] EXCEPT !.cell = Own(c)]]
  /\ getting' = [getting EXCEPT ![c] = Nothing]
  /\ UNCHANGED <<stored, clock, walk>>

----------------------------------------------------------------------------
(* List.  `was` and `steady` are history: the status a task was selected   *)
(* by, and the tasks of the first page's selection not written since.      *)

Selected(u, want) ==
  {[id |-> id, at |-> stored[id].at, cell |-> stored[id].cell, was |-> heap[stored[id].cell]] :
     id \in {i \in Existing : stored[i].user = u
                              /\ want \in {Nothing, heap[stored[i].cell]}}}
Ids(found) == {r.id : r \in found}

(* The sort: newest first, and the larger id first among equals.           *)
Precedes(r, s) == r.at > s.at \/ (r.at = s.at /\ r.id > s.id)

(* Mutant: the search stops at the token's own task, not after it.         *)
RemainingFromCursor(found, token) ==
  {r \in found : token = Nothing \/ Precedes(token, r) \/ r.id = token.id}

(* What the search for the token leaves.  The list is sorted as the token  *)
(* compares, so the predicate it searches with is monotone.                *)
Remaining(found, token) ==
  {r \in found : token = Nothing \/ Precedes(token, r)}

Page(found, token) ==
  LET rest == Remaining(found, token) IN
    {r \in rest : Cardinality({s \in rest : Precedes(s, r)}) < PageSize}
IsLastPage(found, token) == Cardinality(Remaining(found, token)) <= PageSize
EndOf(page) == CHOOSE r \in page : \A s \in page \ {r} : Precedes(s, r)

(* Mutant: the token names the first task of the next page.                *)
NextTokenAtHeadOfRest(found, token) ==
  LET next == EndOf({r \in Remaining(found, token) :
                       Cardinality({s \in Remaining(found, token) : Precedes(s, r)}) <= PageSize})
  IN [at |-> next.at, id |-> next.id]

NextToken(found, token) ==
  LET last == EndOf(Page(found, token)) IN [at |-> last.at, id |-> last.id]

(* A client asks for the first page.                                       *)
StartWalk(u, want) ==
  /\ walk.at = "away"
  /\ LET found == Selected(u, want) IN
       walk' = [at |-> "loaded", user |-> u, want |-> want, token |-> Nothing,
                found |-> found, shown |-> {}, steady |-> Ids(found)]
  /\ UNCHANGED <<heap, stored, clock, draft, getting>>

ListLoad ==
  /\ walk.at = "between"
  /\ walk' = [walk EXCEPT !.at = "loaded", !.found = Selected(walk.user, walk.want)]
  /\ UNCHANGED <<heap, stored, clock, draft, getting>>

ListReturn ==
  /\ walk.at = "loaded"
  /\ walk' = IF IsLastPage(walk.found, walk.token) THEN NoWalk
             ELSE [walk EXCEPT !.at = "between", !.found = {},
                               !.shown = @ \cup Ids(Page(walk.found, walk.token)),
                               !.token = NextToken(walk.found, walk.token)]
  /\ UNCHANGED <<heap, stored, clock, draft, getting>>

----------------------------------------------------------------------------
Next ==
  \/ Tick
  \/ \E c \in Callers :
       \/ \E id \in TaskIDs, u \in Users, s \in Statuses : Create(c, id, u, s)
       \/ \E u \in Users : Update(c, u)
       \/ \E s \in Statuses : EditMine(c, s)
       \/ \E id \in TaskIDs, u \in Users : GetLoad(c, id, u)
       \/ GetReturn(c)
  \/ \E u \in Users, want \in Statuses \cup {Nothing} : StartWalk(u, want)
  \/ ListLoad
  \/ ListReturn

Spec == Init /\ [][Next]_vars

----------------------------------------------------------------------------
(* Type invariant: a stored task is the copy made for its version, by the  *)
(* store alone (Create and Update, taskstore.go:55-60 and 84-89), and a    *)
(* caller's task is its own (Get, taskstore.go:102-106).                   *)
StoreTypeOK ==
  /\ heap \in [Cells -> Shows]
  /\ stored \in [TaskIDs -> StoredTasks \cup {Nothing}]
  /\ IsFiniteSet(Existing)
  /\ \A id \in Existing :
       stored[id].cell = Copy(id, stored[id].version) /\ stored[id].at <= clock
  /\ clock \in Instants
  /\ {draft, getting} \subseteq [Callers -> HeldTasks \cup {Nothing}]
  /\ \A c \in Callers : draft[c] # Nothing => draft[c].id \in Existing /\ draft[c].cell = Own(c)
  /\ \A c \in Callers : getting[c] # Nothing =>
       /\ getting[c].id \in Existing /\ getting[c].version <= stored[getting[c].id].version
       /\ getting[c].cell = Copy(getting[c].id, getting[c].version)
  /\ walk \in {NoWalk} \cup Walks

(* List copies tasks after it has released the lock; what it copies is     *)
(* still what it selected, whatever is written in between                  *)
(* (taskstore.go:140 and 155-156).                                         *)
ListShowsWhatItSelected ==
  walk.at = "loaded" => \A r \in walk.found : heap[r.cell] = r.was

(* A client that follows the page tokens never meets a task twice, though  *)
(* tasks move to the front of the order as they are written, and may share *)
(* an instant (paginateTasks, taskstore.go:196-223).                       *)
WalkListsOnce ==
  walk.at = "loaded" => Ids(Page(walk.found, walk.token)) \cap walk.shown = {}

(* And when it has the last page, it has met every task that matched at    *)
(* the start and was not written since.                                    *)
WalkMissesOnlyMoved ==
  (walk.at = "loaded" /\ IsLastPage(walk.found, walk.token)) =>
    walk.steady \subseteq walk.shown \cup Ids(Page(walk.found, walk.token))

(* The strengthening the proofs need.  What a walk has selected are copies *)
(* that were made by then, one for a task (taskstore.go:109-137).          *)
FoundAreCopies ==
  walk # NoWalk =>
    /\ \A r \in walk.found :
         /\ r.id \in Existing /\ r.at <= stored[r.id].at
         /\ \E v \in 1 .. stored[r.id].version : r.cell = Copy(r.id, v)
    /\ \A r, s \in walk.found : r.id = s.id => r = s
    /\ walk.at = "between" => walk.found = {}

(* What has been shown is not behind the token, where tasks only move to   *)
(* the front (taskstore.go:84-90, 196-223).                                *)
Place(id) == [at |-> stored[id].at, id |-> id]
ShownIsPast ==
  walk # NoWalk =>
    /\ \A id \in walk.shown :
         id \in Existing /\ walk.token # Nothing /\ ~ Precedes(walk.token, Place(id))
    /\ \A r \in walk.found : r.id \in walk.shown => ~ Precedes(walk.token, r)

(* A task not written since the walk began has been shown, or is where the *)
(* rest of the walk will come across it (taskstore.go:109-137, 196-223).   *)
SteadyIsAhead ==
  walk # NoWalk =>
    \A id \in walk.steady :
      /\ id \in Existing /\ stored[id].user = walk.user
      /\ walk.want \in {Nothing, heap[stored[id].cell]}
      /\ id \notin walk.shown =>
           /\ walk.token = Nothing \/ Precedes(walk.token, Place(id))
           /\ walk.at = "loaded" => \E r \in walk.found : r.id = id /\ r.at = stored[id].at

(* The inductive invariant of the store (taskstore.go:37-223).             *)
StoreInv ==
  /\ StoreTypeOK
  /\ ListShowsWhatItSelected
  /\ FoundAreCopies
  /\ ShownIsPast
  /\ SteadyIsAhead

(* Refinement: the store is a versioned register per task.                 *)
RegisterOf(id) ==
  IF stored[id] = Nothing THEN Nothing
  ELSE [owner |-> stored[id].user, version |-> stored[id].version,
        status |-> heap[stored[id].cell]]
TaskOf(held) ==
  IF held = Nothing THEN Nothing
  ELSE [id |-> held.id, version |-> held.version, status |-> heap[held.cell]]

Abstract == INSTANCE TaskRegister WITH
  register <- [id \in TaskIDs |-> RegisterOf(id)],
  draft    <- [c \in Callers |-> TaskOf(draft[c])],
  reading  <- [c \in Callers |-> TaskOf(getting[c])]

(* Lost updates, torn reads, and a task object shared between a caller and *)
(* the store (taskstore.go:37-107) would all be steps that no register     *)
(* takes.                                                                  *)
ImplementsRegister == Abstract!Spec
=============================================================================
