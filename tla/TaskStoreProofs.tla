-------------------------- MODULE TaskStoreProofs --------------------------
(* Theorems about the task store, for any callers, users, tasks and bounds.  *)
(* StoreInv is inductive: a copy the store has made is never written again,  *)
(* so whoever captured it under the lock can read it after; and as tasks     *)
(* only move to the front of the list, a walk is past what it has shown.     *)
EXTENDS TaskStore, FiniteSetTheorems, WellFoundedInduction, TLAPS

USE StoreAssumption

----------------------------------------------------------------------------
(* Cells, and the order of the list.                                         *)

LEMMA CellsApart ==
  /\ \A c, id, v : Own(c) # Copy(id, v)
  /\ \A c, d : Own(c) = Own(d) => c = d
  /\ \A i, j, v, w : Copy(i, v) = Copy(j, w) => i = j /\ v = w
BY DEF Own, Copy

LEMMA CellNames ==
  /\ \A c \in Callers : Own(c) \in Cells
  /\ \A id \in TaskIDs, v \in Versions : Copy(id, v) \in Cells
BY DEF Cells, Versions

(* Places in the list: what the sort and the token compare.                  *)
IsPlace(r) == r.at \in Nat /\ r.id \in Nat
Distinct(S) == \A r, s \in S : r.id = s.id => r = s

LEMMA OrderIsStrict ==
  ASSUME NEW r, NEW s, NEW t, IsPlace(r), IsPlace(s), IsPlace(t)
  PROVE  /\ ~ Precedes(r, r)
         /\ Precedes(r, s) /\ Precedes(s, t) => Precedes(r, t)
         /\ r.id # s.id => Precedes(r, s) \/ Precedes(s, r)
         /\ Precedes(r, s) => ~ Precedes(s, r)
BY DEF IsPlace, Precedes

(* A finite set has a member with the least number.                          *)
LEMMA LeastExists ==
  ASSUME NEW S, S # {}, NEW rank, \A r \in S : rank[r] \in Nat
  PROVE  \E r \in S : \A s \in S : rank[r] <= rank[s]
<1> DEFINE ranks == {rank[r] : r \in S}
           R == {ss \in Nat \X Nat : ss[1] < ss[2]}
<1>1. ranks \subseteq Nat /\ ranks # {}
  OBVIOUS
<1>2. IsWellFoundedOn(R, Nat)
  BY NatLessThanWellFounded DEF OpToRel
<1>3. PICK m \in ranks : \A a \in ranks : <<a, m>> \notin R
  <2> HIDE DEF ranks, R
  <2> QED BY <1>1, <1>2, WFMin
<1>4. PICK r \in S : m = rank[r]
  OBVIOUS
<1>5. ASSUME NEW s \in S PROVE rank[r] <= rank[s]
  <2>1. ~ (rank[s] < rank[r])
    BY <1>3, <1>4
  <2>2. QED
    BY <2>1
<1>6. QED
  BY <1>5

Before(S, r) == {s \in S : Precedes(s, r)}
After(S, r) == {s \in S : Precedes(r, s)}

LEMMA FirstExists ==
  ASSUME NEW S, IsFiniteSet(S), S # {}, Distinct(S), \A r \in S : IsPlace(r)
  PROVE  \E r \in S : Before(S, r) = {}
<1> DEFINE rank == [r \in S |-> Cardinality(Before(S, r))]
<1>1. \A r \in S : IsFiniteSet(Before(S, r)) /\ rank[r] \in Nat
  BY FS_Subset, FS_CardinalityType DEF Before
<1>2. PICK r \in S : \A s \in S : rank[r] <= rank[s]
  <2> HIDE DEF rank
  <2> QED BY <1>1, LeastExists
<1>3. ASSUME NEW s \in Before(S, r) PROVE FALSE
  <2>1. s \in S /\ Precedes(s, r)
    BY DEF Before
  <2>2. Before(S, s) \in SUBSET Before(S, r)
    BY <2>1, OrderIsStrict DEF Before
  <2>3. s \notin Before(S, s)
    BY <2>1, OrderIsStrict DEF Before
  <2>4. Cardinality(Before(S, s)) # Cardinality(Before(S, r))
    BY <1>1, <2>2, <2>3, FS_Subset
  <2>5. Cardinality(Before(S, s)) <= Cardinality(Before(S, r))
    BY <1>1, <2>2, FS_Subset
  <2>6. rank[s] < rank[r]
    BY <1>1, <2>1, <2>4, <2>5
  <2>7. QED
    BY <1>1, <1>2, <2>1, <2>6
<1>4. QED
  BY <1>3

LEMMA LastExists ==
  ASSUME NEW S, IsFiniteSet(S), S # {}, Distinct(S), \A r \in S : IsPlace(r)
  PROVE  EndOf(S) \in S /\ \A s \in S : s = EndOf(S) \/ Precedes(s, EndOf(S))
<1> DEFINE rank == [r \in S |-> Cardinality(After(S, r))]
<1>1. \A r \in S : IsFiniteSet(After(S, r)) /\ rank[r] \in Nat
  BY FS_Subset, FS_CardinalityType DEF After
<1>2. PICK r \in S : \A s \in S : rank[r] <= rank[s]
  <2> HIDE DEF rank
  <2> QED BY <1>1, LeastExists
<1>3. ASSUME NEW s \in After(S, r) PROVE FALSE
  <2>1. s \in S /\ Precedes(r, s)
    BY DEF After
  <2>2. After(S, s) \in SUBSET After(S, r)
    BY <2>1, OrderIsStrict DEF After
  <2>3. s \notin After(S, s)
    BY <2>1, OrderIsStrict DEF After
  <2>4. Cardinality(After(S, s)) # Cardinality(After(S, r))
    BY <1>1, <2>2, <2>3, FS_Subset
  <2>5. Cardinality(After(S, s)) <= Cardinality(After(S, r))
    BY <1>1, <2>2, FS_Subset
  <2>6. rank[s] < rank[r]
    BY <1>1, <2>1, <2>4, <2>5
  <2>7. QED
    BY <1>1, <1>2, <2>1, <2>6
<1>4. \A s \in S \ {r} : Precedes(s, r)
  <2>1. \A s \in S \ {r} : s.id # r.id
    BY DEF Distinct
  <2>2. QED
    BY <1>3, <2>1, OrderIsStrict DEF After
<1>5. EndOf(S) \in S /\ \A s \in S \ {EndOf(S)} : Precedes(s, EndOf(S))
  BY <1>4 DEF EndOf
<1>6. QED
  BY <1>5

(* A list that goes on after its page: the page has a last task, it is not   *)
(* behind any task of the page, and before all the others that remain.       *)
LEMMA PageEnds ==
  ASSUME NEW found, IsFiniteSet(found), Distinct(found), \A r \in found : IsPlace(r),
         NEW token, ~ IsLastPage(found, token)
  PROVE  LET page == Page(found, token)
             last == EndOf(page) IN
           /\ last \in page
           /\ \A r \in page : ~ Precedes(last, r)
           /\ \A r \in Remaining(found, token) \ page : Precedes(last, r)
<1> DEFINE rest == Remaining(found, token)
           page == Page(found, token)
           last == EndOf(page)
<1>1. /\ rest \in SUBSET found /\ IsFiniteSet(rest) /\ Distinct(rest)
      /\ \A r \in rest : IsPlace(r)
  BY FS_Subset DEF Remaining, Distinct
<1>2. rest # {}
  BY FS_EmptySet DEF IsLastPage
<1>3. \A r : r \in page <=> r \in rest /\ Cardinality(Before(rest, r)) < PageSize
  BY DEF Page, Before
<1> HIDE DEF page, rest
<1>4. page # {}
  <2>1. PICK r \in rest : Before(rest, r) = {}
    BY <1>1, <1>2, FirstExists
  <2>2. QED
    BY <1>3, <2>1, FS_EmptySet
<1>5. page \in SUBSET rest /\ IsFiniteSet(page) /\ Distinct(page)
  BY <1>1, <1>3, FS_Subset DEF Distinct
<1>6. last \in page /\ \A s \in page : s = last \/ Precedes(s, last)
  BY <1>1, <1>4, <1>5, LastExists
<1>7. \A r \in page : ~ Precedes(last, r)
  BY <1>1, <1>5, <1>6, OrderIsStrict
<1>8. ASSUME NEW r \in rest, r \notin page PROVE Precedes(last, r)
  <2>1. last \in rest /\ r # last
    BY <1>5, <1>6, <1>8
  <2>2. r.id # last.id
    BY <1>1, <2>1 DEF Distinct
  <2>3. SUFFICES ASSUME Precedes(r, last) PROVE FALSE
    BY <1>1, <2>1, <2>2, OrderIsStrict
  <2>4. Before(rest, r) \in SUBSET Before(rest, last)
    BY <1>1, <2>1, <2>3, OrderIsStrict DEF Before
  <2>5. IsFiniteSet(Before(rest, last)) /\ IsFiniteSet(Before(rest, r))
    BY <1>1, FS_Subset DEF Before
  <2>6. Cardinality(Before(rest, r)) <= Cardinality(Before(rest, last))
    BY <2>4, <2>5, FS_Subset
  <2>7. Cardinality(Before(rest, last)) < PageSize
    BY <1>3, <1>6
  <2>8. Cardinality(Before(rest, r)) < PageSize
    BY <2>5, <2>6, <2>7, FS_CardinalityType
  <2>9. QED
    BY <1>3, <1>8, <2>8
<1>9. QED
  BY <1>6, <1>7, <1>8 DEF page, rest

(* The last page is all that remains.                                        *)
LEMMA LastPageIsRest ==
  ASSUME NEW found, IsFiniteSet(found), \A r \in found : IsPlace(r),
         NEW token, IsLastPage(found, token)
  PROVE  Remaining(found, token) \subseteq Page(found, token)
<1> DEFINE rest == Remaining(found, token)
<1>1. IsFiniteSet(rest) /\ \A r \in rest : IsPlace(r)
  BY FS_Subset DEF Remaining
<1>2. Cardinality(rest) <= PageSize
  BY DEF IsLastPage
<1>3. ASSUME NEW r \in rest PROVE r \in Page(found, token)
  <2> HIDE DEF rest
  <2>1. Before(rest, r) \in SUBSET rest /\ r \notin Before(rest, r)
    BY <1>1, OrderIsStrict DEF Before
  <2>2. Cardinality(Before(rest, r)) <= Cardinality(rest)
        /\ Cardinality(Before(rest, r)) # Cardinality(rest)
    BY <1>1, <2>1, FS_Subset
  <2>3. IsFiniteSet(Before(rest, r))
    BY <1>1, <2>1, FS_Subset
  <2>4. Cardinality(Before(rest, r)) < PageSize
    BY <1>1, <1>2, <2>2, <2>3, FS_CardinalityType
  <2>5. QED
    BY <1>3, <2>4 DEF Page, rest, Before
<1>4. QED
  BY <1>3

----------------------------------------------------------------------------
(* What a walk knows survives whatever others do.                            *)

USE DEF Versions, Instants

LEMMA PlacesInList ==
  /\ \A r \in FoundTasks : IsPlace(r)
  /\ \A r \in Tokens : IsPlace(r)
<1>1. \A n \in Instants : n \in Nat
  OBVIOUS
<1>2. ASSUME NEW r \in FoundTasks PROVE IsPlace(r)
  <2>1. r.at \in Instants /\ r.id \in TaskIDs
    BY DEF FoundTasks
  <2>2. QED
    BY <1>1, <2>1 DEF IsPlace
<1>3. ASSUME NEW r \in Tokens PROVE IsPlace(r)
  <2>1. r.at \in Instants /\ r.id \in TaskIDs
    BY DEF Tokens
  <2>2. QED
    BY <1>1, <2>1 DEF IsPlace
<1>4. QED
  BY <1>2, <1>3

LEMMA WalkFields ==
  ASSUME StoreTypeOK
  PROVE  /\ NoWalk.at = "away" /\ NoWalk \notin Walks
         /\ walk = NoWalk <=> walk.at = "away"
         /\ walk # NoWalk => walk \in Walks
BY DEF StoreTypeOK, NoWalk, Walks

(* The tasks a walk is about: they keep their owner, only gain versions, and *)
(* only move to the front; the copies of their versions keep what they show; *)
(* and a walk forgets the tasks that are written.                            *)
TasksMoveOn ==
  \A id \in Existing :
    /\ id \in Existing' /\ stored'[id].user = stored[id].user
    /\ stored[id].version <= stored'[id].version /\ stored[id].at <= stored'[id].at
CopiesStand ==
  \A id \in Existing : \A v \in 1 .. stored[id].version : heap'[Copy(id, v)] = heap[Copy(id, v)]
WalkForgets ==
  IF walk = NoWalk THEN walk' = NoWalk
  ELSE \E S \in SUBSET walk.steady :
         /\ walk' = [walk EXCEPT !.steady = S]
         /\ \A id \in S \cap Existing : stored'[id] = stored[id]

LEMMA WalkKept ==
  ASSUME StoreInv, StoreTypeOK', TasksMoveOn, CopiesStand, WalkForgets
  PROVE  ListShowsWhatItSelected' /\ FoundAreCopies' /\ ShownIsPast' /\ SteadyIsAhead'
<1> USE DEF StoreInv
<1>1. CASE walk = NoWalk
  <2>1. walk' = NoWalk
    BY <1>1 DEF WalkForgets
  <2>2. QED
    BY <2>1 DEF NoWalk, ListShowsWhatItSelected, FoundAreCopies, ShownIsPast, SteadyIsAhead
<1>2. CASE walk # NoWalk
  <2>1. PICK S \in SUBSET walk.steady :
          walk' = [walk EXCEPT !.steady = S] /\ \A id \in S \cap Existing : stored'[id] = stored[id]
    BY <1>2 DEF WalkForgets
  <2>2. walk \in Walks
    BY <1>2, WalkFields
  <2>3. /\ walk' # NoWalk /\ walk'.at = walk.at /\ walk'.found = walk.found
        /\ walk'.shown = walk.shown /\ walk'.steady = S /\ walk'.token = walk.token
        /\ walk'.user = walk.user /\ walk'.want = walk.want
    BY <2>1, <2>2 DEF Walks, NoWalk
  <2>4. /\ \A r \in walk.found : IsPlace(r)
        /\ walk.shown \subseteq TaskIDs /\ walk.steady \subseteq TaskIDs
        /\ walk.token = Nothing \/ IsPlace(walk.token)
    <3>1. /\ walk.found \subseteq FoundTasks /\ walk.token \in Tokens \cup {Nothing}
          /\ walk.shown \subseteq TaskIDs /\ walk.steady \subseteq TaskIDs
      BY <2>2 DEF Walks
    <3>2. QED
      BY <3>1, PlacesInList
  <2>5. \A id \in Existing :
          stored[id].version \in Nat /\ stored[id].at \in Nat /\ stored'[id].version \in Nat /\ stored'[id].at \in Nat
    BY DEF StoreTypeOK, Existing, StoredTasks, TasksMoveOn
  <2>6. ListShowsWhatItSelected'
    BY <1>2, <2>3 DEF ListShowsWhatItSelected, FoundAreCopies, CopiesStand
  <2>7. FoundAreCopies'
    <3>1. \A r \in walk.found : r.id \in Existing' /\ r.at <= stored'[r.id].at
      BY <1>2, <2>4, <2>5 DEF FoundAreCopies, TasksMoveOn, IsPlace
    <3>2. \A r \in walk.found : \E v \in 1 .. stored'[r.id].version : r.cell = Copy(r.id, v)
      <4> SUFFICES ASSUME NEW r \in walk.found
                   PROVE  \E v \in 1 .. stored'[r.id].version : r.cell = Copy(r.id, v)
        OBVIOUS
      <4>1. PICK v \in 1 .. stored[r.id].version : r.cell = Copy(r.id, v)
        BY <1>2 DEF FoundAreCopies
      <4>2. r.id \in Existing /\ stored[r.id].version <= stored'[r.id].version
        BY <1>2 DEF FoundAreCopies, TasksMoveOn
      <4>3. v \in 1 .. stored'[r.id].version
        BY <2>5, <4>2
      <4>4. QED
        BY <4>1, <4>3
    <3>3. QED
      BY <1>2, <2>3, <3>1, <3>2 DEF FoundAreCopies
  <2>8. ShownIsPast'
    BY <1>2, <2>3, <2>4, <2>5 DEF ShownIsPast, Place, Precedes, TasksMoveOn, IsPlace
  <2>9. SteadyIsAhead'
    <3>1. \A id \in S : id \in Existing /\ stored'[id] = stored[id]
      BY <1>2, <2>1 DEF SteadyIsAhead
    <3>2. \A id \in S : heap'[stored'[id].cell] = heap[stored[id].cell]
      BY <2>5, <3>1 DEF CopiesStand, StoreTypeOK, Existing, StoredTasks
    <3>3. QED
      BY <1>2, <2>3, <3>1, <3>2 DEF SteadyIsAhead, Place, TasksMoveOn
  <2>10. QED
    BY <2>6, <2>7, <2>8, <2>9
<1>3. QED
  BY <1>1, <1>2

(* Steps that write nothing but the callers' own objects.                    *)
LEMMA OwnObjectsOnly ==
  ASSUME StoreInv, StoreTypeOK', UNCHANGED <<stored, walk>>,
         \A id, v : heap'[Copy(id, v)] = heap[Copy(id, v)]
  PROVE  StoreInv' /\ TasksMoveOn /\ CopiesStand
<1>1. TasksMoveOn /\ CopiesStand
  <2>1. \A id \in Existing : stored[id].version \in Nat /\ stored[id].at \in Nat
    BY DEF StoreInv, StoreTypeOK, Existing, StoredTasks
  <2>2. QED
    BY <2>1 DEF TasksMoveOn, CopiesStand, Existing
<1>2. WalkForgets
  <2>1. walk # NoWalk => walk = [walk EXCEPT !.steady = walk.steady]
    BY WalkFields DEF StoreInv, Walks
  <2>2. QED
    BY <2>1 DEF WalkForgets
<1>3. QED
  BY <1>1, <1>2, WalkKept DEF StoreInv

----------------------------------------------------------------------------
(* One lemma per operation.                                                  *)

LEMMA TickInv == ASSUME StoreInv, Tick PROVE StoreInv' /\ TasksMoveOn /\ CopiesStand
<1>1. UNCHANGED <<heap, stored, walk>>
  BY DEF Tick
<1>2. StoreTypeOK'
  <2>1. clock \in Instants /\ clock' \in Instants /\ clock <= clock'
    BY DEF StoreInv, StoreTypeOK, Tick
  <2>2. \A id \in Existing : stored[id].at \in Nat
    BY DEF StoreInv, StoreTypeOK, Existing, StoredTasks
  <2>3. QED
    BY <1>1, <2>1, <2>2 DEF StoreInv, StoreTypeOK, Tick, Existing
<1>3. QED
  BY <1>1, <1>2, OwnObjectsOnly

LEMMA EditInv ==
  ASSUME StoreInv, NEW c \in Callers, NEW s \in Statuses, EditMine(c, s)
  PROVE  StoreInv' /\ TasksMoveOn /\ CopiesStand
<1>1. heap' = [heap EXCEPT ![Own(c)] = s] /\ UNCHANGED <<stored, clock, draft, getting, walk>>
  BY DEF EditMine, StoreInv, StoreTypeOK
<1>2. StoreTypeOK'
  BY <1>1, CellNames DEF StoreInv, StoreTypeOK, Existing, Shows
<1>3. QED
  BY <1>1, <1>2, OwnObjectsOnly, CellsApart DEF StoreInv, StoreTypeOK

LEMMA GetLoadInv ==
  ASSUME StoreInv, NEW c \in Callers, NEW id \in TaskIDs, NEW u \in Users, GetLoad(c, id, u)
  PROVE  StoreInv' /\ TasksMoveOn /\ CopiesStand
<1> DEFINE g == [id |-> id, version |-> stored[id].version, cell |-> stored[id].cell]
<1>1. /\ id \in Existing /\ getting' = [getting EXCEPT ![c] = g] /\ draft' = [draft EXCEPT ![c] = Nothing]
      /\ UNCHANGED <<heap, stored, clock, walk>>
  BY DEF GetLoad
<1>2. /\ stored[id] \in StoredTasks /\ stored[id].cell = Copy(id, stored[id].version)
  BY <1>1 DEF StoreInv, StoreTypeOK, Existing
<1>3. g \in HeldTasks /\ stored[id].version \in Nat
  BY <1>2 DEF StoredTasks, HeldTasks
<1>4. StoreTypeOK'
  BY <1>1, <1>2, <1>3 DEF StoreInv, StoreTypeOK, Existing
<1>5. QED
  BY <1>1, <1>4, OwnObjectsOnly

LEMMA GetReturnInv ==
  ASSUME StoreInv, NEW c \in Callers, GetReturn(c)
  PROVE  StoreInv' /\ TasksMoveOn /\ CopiesStand
<1> DEFINE g == [getting[c] EXCEPT !.cell = Own(c)]
<1>1. /\ getting[c] # Nothing
      /\ heap' = [heap EXCEPT ![Own(c)] = heap[getting[c].cell]]
      /\ draft' = [draft EXCEPT ![c] = g] /\ getting' = [getting EXCEPT ![c] = Nothing]
      /\ UNCHANGED <<stored, clock, walk>>
  BY DEF GetReturn
<1>2. getting[c] \in HeldTasks /\ getting[c].id \in Existing
  BY <1>1 DEF StoreInv, StoreTypeOK
<1>3. g \in HeldTasks /\ g.id \in Existing /\ g.cell = Own(c) /\ heap[getting[c].cell] \in Shows
  <2>1. g \in HeldTasks /\ g.id = getting[c].id /\ g.cell = Own(c) /\ getting[c].cell \in Cells
    BY <1>2, CellNames DEF HeldTasks
  <2>2. heap \in [Cells -> Shows]
    BY DEF StoreInv, StoreTypeOK
  <2>3. QED
    BY <1>2, <2>1, <2>2
<1> HIDE DEF g
<1>4. StoreTypeOK'
  <2>1. heap' \in [Cells -> Shows] /\ draft' \in [Callers -> HeldTasks \cup {Nothing}]
        /\ getting' \in [Callers -> HeldTasks \cup {Nothing}]
    BY <1>1, <1>3, CellNames DEF StoreInv, StoreTypeOK
  <2>2. Existing' = Existing
    BY <1>1 DEF Existing
  <2>3. /\ draft'[c] = g /\ getting'[c] = Nothing
        /\ \A d \in Callers : d # c => draft'[d] = draft[d] /\ getting'[d] = getting[d]
    BY <1>1 DEF StoreInv, StoreTypeOK
  <2>4. \A d \in Callers : draft'[d] # Nothing => draft'[d].id \in Existing' /\ draft'[d].cell = Own(d)
    BY <1>3, <2>2, <2>3 DEF StoreInv, StoreTypeOK
  <2>5. QED
    BY <1>1, <2>1, <2>2, <2>3, <2>4 DEF StoreInv, StoreTypeOK
<1>5. QED
  BY <1>1, <1>4, OwnObjectsOnly, CellsApart DEF StoreInv, StoreTypeOK

(* The copy of a new version is none that the store has made.                *)
LEMMA NewCopyIsNew ==
  ASSUME StoreInv, NEW id \in TaskIDs, NEW v \in Versions, NEW x, NEW y, NEW c \in Callers,
         id \in Existing => v = stored[id].version + 1,
         heap' = [heap EXCEPT ![Own(c)] = y, ![Copy(id, v)] = x]
  PROVE  CopiesStand
<1>1. \A i \in Existing : stored[i].version \in Nat /\ stored[i].version \in Versions /\ i \in TaskIDs
  BY DEF StoreInv, StoreTypeOK, Existing, StoredTasks
<1>2. ASSUME NEW i \in Existing, NEW w \in 1 .. stored[i].version
      PROVE  Copy(i, w) # Copy(id, v) /\ Copy(i, w) # Own(c) /\ Copy(i, w) \in Cells
  <2>1. w \in Versions
    BY <1>1 DEF Versions
  <2>2. i = id => w # v
    BY <1>1
  <2>3. Copy(i, w) # Copy(id, v)
    BY <2>2, CellsApart
  <2>4. QED
    BY <1>1, <2>1, <2>3, CellsApart, CellNames
<1>3. QED
  BY <1>2 DEF CopiesStand, StoreInv, StoreTypeOK

(* Create and Update put a new version of a task, in a copy of its own, in   *)
(* front of the list.                                                        *)
LEMMA StoreVersion ==
  ASSUME StoreInv, NEW id \in TaskIDs, NEW u \in Users, NEW v \in Versions,
         NEW x \in Shows, NEW y \in Shows, NEW c \in Callers,
         \/ id \notin Existing /\ v = 1
         \/ id \in Existing /\ stored[id].user = u /\ v = stored[id].version + 1,
         stored' = [stored EXCEPT ![id] = StoredTask(id, u, v)],
         heap' = [heap EXCEPT ![Own(c)] = y, ![Copy(id, v)] = x],
         draft' = [draft EXCEPT ![c] = [id |-> id, version |-> v, cell |-> Own(c)]],
         walk' = Forget(id), UNCHANGED <<clock, getting>>
  PROVE  StoreInv' /\ TasksMoveOn /\ CopiesStand
<1>1. StoredTask(id, u, v) \in StoredTasks
  BY CellNames DEF StoredTask, StoredTasks, StoreInv, StoreTypeOK
<1>2. Existing' = Existing \cup {id}
  BY <1>1, SentinelAssumption DEF Existing, StoreInv, StoreTypeOK
<1>3. \A i \in Existing : stored[i].version \in Nat /\ stored[i].at \in Nat /\ stored[i].at <= clock /\ clock \in Nat
  BY DEF StoreInv, StoreTypeOK, Existing, StoredTasks
<1>4. TasksMoveOn
  <2>1. \A i \in Existing : i # id => stored'[i] = stored[i]
    BY DEF StoreInv, StoreTypeOK, Existing
  <2>2. stored'[id] = [cell |-> Copy(id, v), user |-> u, version |-> v, at |-> clock]
    BY DEF StoreInv, StoreTypeOK, StoredTask
  <2>3. QED
    BY <1>2, <1>3, <2>1, <2>2 DEF TasksMoveOn
<1>5. CopiesStand
  BY NewCopyIsNew
<1>6. WalkForgets
  <2>1. CASE walk = NoWalk
    BY <2>1 DEF Forget, NoWalk, WalkForgets
  <2>2. CASE walk # NoWalk
    <3> DEFINE S == walk.steady \ {id}
    <3>1. walk' = [walk EXCEPT !.steady = S]
      BY <2>2, WalkFields DEF Forget, StoreInv
    <3>2. S \in SUBSET walk.steady /\ \A i \in S \cap Existing : stored'[i] = stored[i]
      BY DEF StoreInv, StoreTypeOK, Existing
    <3> HIDE DEF S
    <3>3. QED
      BY <2>2, <3>1, <3>2 DEF WalkForgets
  <2>3. QED
    BY <2>1, <2>2
<1>7. StoreTypeOK'
  <2>1. heap' \in [Cells -> Shows] /\ stored' \in [TaskIDs -> StoredTasks \cup {Nothing}]
    BY <1>1 DEF StoreInv, StoreTypeOK
  <2>2. IsFiniteSet(Existing')
    BY <1>2, FS_AddElement DEF StoreInv, StoreTypeOK
  <2>3. \A i \in Existing' : stored'[i].cell = Copy(i, stored'[i].version) /\ stored'[i].at <= clock'
    BY <1>1, <1>2, <1>3 DEF StoredTask, StoreInv, StoreTypeOK, Existing
  <2>4. [id |-> id, version |-> v, cell |-> Own(c)] \in HeldTasks
    BY CellNames DEF HeldTasks
  <2>5. {draft', getting'} \subseteq [Callers -> HeldTasks \cup {Nothing}]
    BY <2>4 DEF StoreInv, StoreTypeOK
  <2>6. \A d \in Callers : draft'[d] # Nothing => draft'[d].id \in Existing' /\ draft'[d].cell = Own(d)
    BY <1>2 DEF StoreInv, StoreTypeOK
  <2>7. \A d \in Callers : getting'[d] # Nothing =>
          /\ getting'[d].id \in Existing' /\ getting'[d].version <= stored'[getting'[d].id].version
          /\ getting'[d].cell = Copy(getting'[d].id, getting'[d].version)
    <3> SUFFICES ASSUME NEW d \in Callers, getting[d] # Nothing
                 PROVE  /\ getting[d].id \in Existing'
                        /\ getting[d].version <= stored'[getting[d].id].version
                        /\ getting[d].cell = Copy(getting[d].id, getting[d].version)
      OBVIOUS
    <3>1. /\ getting[d].id \in Existing /\ getting[d].version <= stored[getting[d].id].version
          /\ getting[d].cell = Copy(getting[d].id, getting[d].version)
          /\ getting[d] \in HeldTasks
      BY DEF StoreInv, StoreTypeOK
    <3>2. getting[d].version \in Nat /\ stored[getting[d].id].version \in Nat
      BY <1>3, <3>1 DEF HeldTasks
    <3>3. stored'[getting[d].id].version \in Nat
      BY <1>1, <3>1, <3>2 DEF StoreInv, StoreTypeOK, StoredTask, Existing
    <3>4. QED
      BY <1>4, <3>1, <3>2, <3>3 DEF TasksMoveOn
  <2>8. walk' \in {NoWalk} \cup Walks
    BY WalkFields DEF Forget, StoreInv, StoreTypeOK, Walks, NoWalk
  <2>9. clock' \in Instants
    BY DEF StoreInv, StoreTypeOK
  <2>10. QED
    BY <2>1, <2>2, <2>3, <2>5, <2>6, <2>7, <2>8, <2>9 DEF StoreTypeOK
<1>8. QED
  BY <1>4, <1>5, <1>6, <1>7, WalkKept DEF StoreInv

LEMMA CreateInv ==
  ASSUME StoreInv, NEW c \in Callers, NEW id \in TaskIDs, NEW u \in Users, NEW s \in Statuses,
         Create(c, id, u, s)
  PROVE  StoreInv' /\ TasksMoveOn /\ CopiesStand
<1>1. id \notin Existing /\ 1 \in Versions /\ s \in Shows
  BY DEF Create, Existing, Shows
<1>2. stored' = [stored EXCEPT ![id] = StoredTask(id, u, 1)] /\ stored'[id].cell = Copy(id, 1)
  BY DEF Create, StoredTask, StoreInv, StoreTypeOK
<1>3. heap' = [heap EXCEPT ![Own(c)] = s, ![Copy(id, 1)] = s]
  BY <1>2 DEF Create
<1>4. walk' = Forget(id)
  <2>1. CASE walk = NoWalk
    BY <2>1 DEF Create, Forget, NoWalk
  <2>2. CASE walk # NoWalk
    <3>1. walk \in Walks /\ walk.at # "away" /\ walk.steady \ {id} = walk.steady
      BY <1>1, <2>2, WalkFields DEF StoreInv, SteadyIsAhead
    <3>2. walk = [walk EXCEPT !.steady = walk.steady]
      BY <3>1 DEF Walks
    <3>3. QED
      BY <3>1, <3>2 DEF Create, Forget
  <2>3. QED
    BY <2>1, <2>2
<1>5. QED
  BY <1>1, <1>2, <1>3, <1>4, StoreVersion DEF Create

LEMMA UpdateInv ==
  ASSUME StoreInv, NEW c \in Callers, NEW u \in Users, Update(c, u)
  PROVE  StoreInv' /\ TasksMoveOn /\ CopiesStand
<1> DEFINE id == draft[c].id
           v == stored[id].version + 1
<1>1. /\ draft[c] \in HeldTasks /\ draft[c].cell = Own(c) /\ id \in Existing
      /\ stored[id] \in StoredTasks
  BY DEF Update, StoreInv, StoreTypeOK, Existing
<1>2. id \in TaskIDs /\ v \in Versions /\ stored[id].user = u
  BY <1>1 DEF Update, HeldTasks, StoredTasks
<1>3. stored' = [stored EXCEPT ![id] = StoredTask(id, u, v)] /\ stored'[id].cell = Copy(id, v)
  BY <1>2 DEF Update, StoredTask, StoreInv, StoreTypeOK
<1> DEFINE y == heap[Own(c)]
<1>4. y \in Shows
  BY CellNames DEF StoreInv, StoreTypeOK
<1>5. heap' = [heap EXCEPT ![Own(c)] = y, ![Copy(id, v)] = y]
  <2>1. heap' = [heap EXCEPT ![Copy(id, v)] = y]
    BY <1>1, <1>3 DEF Update
  <2>2. heap = [heap EXCEPT ![Own(c)] = y]
    BY DEF StoreInv, StoreTypeOK
  <2>3. QED
    BY <2>1, <2>2
<1>6. draft' = [draft EXCEPT ![c] = [id |-> id, version |-> v, cell |-> Own(c)]]
  <2>1. draft' = [draft EXCEPT ![c].version = v]
    BY DEF Update
  <2>2. [draft[c] EXCEPT !.version = v] = [id |-> id, version |-> v, cell |-> Own(c)]
    BY <1>1 DEF HeldTasks
  <2>3. QED
    BY <2>1, <2>2
<1>7. walk' = Forget(id) /\ UNCHANGED <<clock, getting>>
  BY DEF Update
<1> HIDE DEF id, v, y
<1>8. QED
  BY <1>1, <1>2, <1>3, <1>4, <1>5, <1>6, <1>7, StoreVersion DEF v

(* What List selects: the tasks that match, as they are, one entry each.     *)
LEMMA SelectedFacts ==
  ASSUME StoreInv, NEW u, NEW want
  PROVE  LET found == Selected(u, want) IN
    /\ found \subseteq FoundTasks
    /\ \A r \in found : /\ r.id \in Existing /\ r.at = stored[r.id].at
                        /\ r.cell = Copy(r.id, stored[r.id].version)
                        /\ heap[r.cell] = r.was
    /\ \A r, s \in found : r.id = s.id => r = s
    /\ \A id \in Existing :
         stored[id].user = u /\ want \in {Nothing, heap[stored[id].cell]} =>
           \E r \in found : r.id = id /\ r.at = stored[id].at
    /\ \A id \in Ids(found) :
         /\ id \in Existing /\ stored[id].user = u /\ want \in {Nothing, heap[stored[id].cell]}
         /\ \E r \in found : r.id = id /\ r.at = stored[id].at
<1> DEFINE Entry(id) == [id |-> id, at |-> stored[id].at, cell |-> stored[id].cell, was |-> heap[stored[id].cell]]
           Match(id) == stored[id].user = u /\ want \in {Nothing, heap[stored[id].cell]}
<1>1. \A r : r \in Selected(u, want) <=> \E id \in Existing : Match(id) /\ r = Entry(id)
  BY DEF Selected
<1>2. \A id \in Existing :
        /\ Entry(id) \in FoundTasks /\ Entry(id).id = id /\ Entry(id).at = stored[id].at
        /\ Entry(id).cell = Copy(id, stored[id].version) /\ heap[Entry(id).cell] = Entry(id).was
  <2> SUFFICES ASSUME NEW id \in Existing
               PROVE  /\ Entry(id) \in FoundTasks /\ Entry(id).cell = Copy(id, stored[id].version)
    OBVIOUS
  <2>1. /\ id \in TaskIDs /\ stored[id] \in StoredTasks
        /\ stored[id].cell = Copy(id, stored[id].version)
    BY DEF StoreInv, StoreTypeOK, Existing
  <2>2. heap[stored[id].cell] \in Shows
    BY <2>1 DEF StoredTasks, StoreInv, StoreTypeOK
  <2>3. QED
    BY <2>1, <2>2 DEF StoredTasks, FoundTasks
<1> HIDE DEF Entry
<1>3. \A r \in Selected(u, want) : /\ r \in FoundTasks /\ r.id \in Existing /\ r = Entry(r.id) /\ Match(r.id)
  BY <1>1, <1>2
<1>4. \A id \in Existing : Match(id) => Entry(id) \in Selected(u, want)
  BY <1>1
<1> HIDE DEF Match
<1>5. \A id \in Ids(Selected(u, want)) : id \in Existing /\ Match(id)
  BY <1>3 DEF Ids
<1>6. QED
  BY <1>2, <1>3, <1>4, <1>5 DEF Match

(* A step of the walk leaves the tasks alone.                                *)
LEMMA WalkTypes ==
  ASSUME StoreInv, UNCHANGED <<heap, stored, clock, draft, getting>>,
         walk' \in {NoWalk} \cup Walks
  PROVE  StoreTypeOK'
BY DEF StoreInv, StoreTypeOK, Existing

LEMMA StartWalkInv ==
  ASSUME StoreInv, NEW u \in Users, NEW want \in Shows, StartWalk(u, want)
  PROVE  StoreInv'
<1> DEFINE found == Selected(u, want)
           w == [at |-> "loaded", user |-> u, want |-> want, token |-> Nothing,
                 found |-> found, shown |-> {}, steady |-> Ids(found)]
<1>1. walk' = w /\ UNCHANGED <<heap, stored, clock, draft, getting>>
  BY DEF StartWalk
<1>2. found \subseteq FoundTasks /\ Ids(found) \subseteq TaskIDs
  BY SelectedFacts DEF Ids, FoundTasks
<1>3. w \in Walks
  BY <1>2 DEF Walks
<1>4. StoreTypeOK' /\ walk' # NoWalk
  BY <1>1, <1>3, WalkTypes, WalkFields DEF StoreInv
<1>5. ListShowsWhatItSelected'
  BY <1>1, SelectedFacts DEF ListShowsWhatItSelected
<1>6. FoundAreCopies'
  <2>1. \A r \in found : stored[r.id].version \in 1 .. stored[r.id].version /\ stored[r.id].at <= stored[r.id].at
    BY SelectedFacts DEF StoreInv, StoreTypeOK, Existing, StoredTasks
  <2>2. \A r \in found : /\ r.id \in Existing /\ r.at <= stored[r.id].at
                        /\ \E v \in 1 .. stored[r.id].version : r.cell = Copy(r.id, v)
    BY <2>1, SelectedFacts
  <2>3. \A r, s \in found : r.id = s.id => r = s
    BY SelectedFacts
  <2> HIDE DEF found
  <2>4. QED
    BY <1>1, <2>2, <2>3 DEF FoundAreCopies, Existing
<1>7. ShownIsPast'
  BY <1>1 DEF ShownIsPast
<1>8. SteadyIsAhead'
  <2>1. \A id \in Ids(found) :
          /\ id \in Existing /\ stored[id].user = u /\ want \in {Nothing, heap[stored[id].cell]}
          /\ \E r \in found : r.id = id /\ r.at = stored[id].at
    BY SelectedFacts
  <2> HIDE DEF found
  <2>2. QED
    BY <1>1, <2>1 DEF SteadyIsAhead, Existing
<1>9. QED
  BY <1>4, <1>5, <1>6, <1>7, <1>8 DEF StoreInv

LEMMA ListLoadInv ==
  ASSUME StoreInv, ListLoad
  PROVE  StoreInv'
<1> DEFINE found == Selected(walk.user, walk.want)
<1>1. walk # NoWalk /\ walk \in Walks /\ walk.at = "between"
  BY WalkFields DEF ListLoad, StoreInv
<1>2. /\ walk' = [walk EXCEPT !.at = "loaded", !.found = found]
      /\ UNCHANGED <<heap, stored, clock, draft, getting>>
  BY DEF ListLoad
<1>3. found \subseteq FoundTasks
  BY SelectedFacts
<1>4. /\ walk'.at = "loaded" /\ walk'.found = found /\ walk'.shown = walk.shown
      /\ walk'.token = walk.token /\ walk'.steady = walk.steady /\ walk'.user = walk.user
      /\ walk'.want = walk.want /\ walk' \in Walks
  BY <1>1, <1>2, <1>3 DEF Walks
<1>5. StoreTypeOK' /\ walk' # NoWalk
  BY <1>2, <1>4, WalkTypes, WalkFields DEF StoreInv
<1>6. ListShowsWhatItSelected'
  BY <1>2, <1>4, SelectedFacts DEF ListShowsWhatItSelected
<1>7. FoundAreCopies'
  <2>1. \A r \in found : stored[r.id].version \in 1 .. stored[r.id].version /\ stored[r.id].at <= stored[r.id].at
    BY SelectedFacts DEF StoreInv, StoreTypeOK, Existing, StoredTasks
  <2>2. \A r \in found : /\ r.id \in Existing /\ r.at <= stored[r.id].at
                        /\ \E v \in 1 .. stored[r.id].version : r.cell = Copy(r.id, v)
    BY <2>1, SelectedFacts
  <2>3. \A r, s \in found : r.id = s.id => r = s
    BY SelectedFacts
  <2> HIDE DEF found
  <2>4. QED
    BY <1>2, <1>4, <2>2, <2>3 DEF FoundAreCopies, Existing
<1>8. ShownIsPast'
  <2>1. \A id \in walk.shown : id \in Existing /\ walk.token # Nothing /\ ~ Precedes(walk.token, Place(id))
    BY <1>1 DEF StoreInv, ShownIsPast
  <2>2. \A r \in found : r.id \in walk.shown => ~ Precedes(walk.token, r)
    <3>1. \A r \in found : Place(r.id).at = r.at /\ Place(r.id).id = r.id
      BY SelectedFacts DEF Place
    <3> HIDE DEF found
    <3>2. QED
      BY <2>1, <3>1 DEF Precedes
  <2> HIDE DEF found
  <2>3. QED
    BY <1>2, <1>4, <2>1, <2>2 DEF ShownIsPast, Place, Existing
<1>9. SteadyIsAhead'
  <2>1. \A id \in Existing :
         stored[id].user = walk.user /\ walk.want \in {Nothing, heap[stored[id].cell]} =>
           \E r \in found : r.id = id /\ r.at = stored[id].at
    BY SelectedFacts
  <2> HIDE DEF found
  <2>2. QED
    BY <1>1, <1>2, <1>4, <2>1 DEF StoreInv, SteadyIsAhead, Place, Existing
<1>10. QED
  BY <1>5, <1>6, <1>7, <1>8, <1>9 DEF StoreInv

LEMMA FoundIsFinite ==
  ASSUME StoreInv, walk # NoWalk
  PROVE  /\ IsFiniteSet(walk.found) /\ Distinct(walk.found)
         /\ walk.found \subseteq FoundTasks /\ \A r \in walk.found : IsPlace(r)
<1>1. /\ Distinct(walk.found) /\ \A r \in walk.found : r.id \in Existing
  BY DEF StoreInv, FoundAreCopies, Distinct
<1>2. walk.found \subseteq FoundTasks /\ \A r \in walk.found : IsPlace(r)
  BY WalkFields, PlacesInList DEF StoreInv, Walks
<1> DEFINE f == [r \in walk.found |-> r.id]
<1>3. f \in Injection(walk.found, Existing)
  BY <1>1 DEF Distinct, Injection, IsInjective
<1>4. IsFiniteSet(Existing)
  BY DEF StoreInv, StoreTypeOK
<1>5. IsFiniteSet(walk.found)
  BY <1>3, <1>4, FS_Injection
<1>6. QED
  BY <1>1, <1>2, <1>5

LEMMA ListReturnInv ==
  ASSUME StoreInv, ListReturn
  PROVE  StoreInv'
<1>1. walk # NoWalk /\ walk \in Walks /\ walk.at = "loaded"
  BY WalkFields DEF ListReturn, StoreInv
<1>2. UNCHANGED <<heap, stored, clock, draft, getting>>
  BY DEF ListReturn
<1>3. CASE IsLastPage(walk.found, walk.token)
  <2>1. walk' = NoWalk
    BY <1>3 DEF ListReturn
  <2>2. QED
    BY <1>2, <2>1, WalkTypes DEF StoreInv, NoWalk, ListShowsWhatItSelected, FoundAreCopies, ShownIsPast, SteadyIsAhead
<1>4. CASE ~ IsLastPage(walk.found, walk.token)
  <2> DEFINE page == Page(walk.found, walk.token)
             last == EndOf(page)
             token == NextToken(walk.found, walk.token)
  <2>1. walk' = [walk EXCEPT !.at = "between", !.found = {}, !.shown = walk.shown \cup Ids(page),
                             !.token = token]
    BY <1>4 DEF ListReturn
  <2>2. /\ last \in page
        /\ \A r \in page : ~ Precedes(last, r)
        /\ \A r \in Remaining(walk.found, walk.token) \ page : Precedes(last, r)
    BY <1>1, <1>4, FoundIsFinite, PageEnds
  <2>3. page \subseteq Remaining(walk.found, walk.token) /\ page \subseteq walk.found
    BY DEF Page, Remaining
  <2>4. token = [at |-> last.at, id |-> last.id]
    BY DEF NextToken
  <2> HIDE DEF page, last, token
  <2>5. /\ \A r \in walk.found : r \in FoundTasks /\ IsPlace(r) /\ r.id \in Existing /\ r.at <= stored[r.id].at
        /\ walk.shown \subseteq TaskIDs /\ walk.steady \subseteq TaskIDs
    BY <1>1, FoundIsFinite DEF StoreInv, FoundAreCopies, Walks
  <2>6. token \in Tokens /\ token # Nothing /\ IsPlace(token) /\ Ids(page) \subseteq TaskIDs
    <3>1. token \in Tokens
      BY <2>2, <2>3, <2>4, <2>5 DEF Tokens, FoundTasks
    <3>2. Ids(page) \subseteq TaskIDs
      BY <2>3, <2>5 DEF Ids, FoundTasks
    <3>3. QED
      BY <3>1, <3>2, PlacesInList, SentinelAssumption
  <2>7. /\ walk'.at = "between" /\ walk'.found = {} /\ walk'.shown = walk.shown \cup Ids(page)
        /\ walk'.token = token /\ walk'.steady = walk.steady /\ walk'.user = walk.user
        /\ walk'.want = walk.want /\ walk' \in Walks
    BY <1>1, <2>1, <2>5, <2>6 DEF Walks
  <2>8. StoreTypeOK' /\ walk' # NoWalk
    BY <1>2, <2>7, WalkTypes, WalkFields DEF StoreInv
  <2>9. ListShowsWhatItSelected' /\ FoundAreCopies'
    BY <2>7 DEF ListShowsWhatItSelected, FoundAreCopies
  <2>10. \A r : Precedes(token, r) <=> Precedes(last, r)
    BY <2>4 DEF Precedes
  <2>11. \A id \in Existing : stored[id].at \in Nat /\ id \in Nat /\ IsPlace(Place(id))
    BY DEF StoreInv, StoreTypeOK, Existing, StoredTasks, Place, IsPlace
  <2>12. ShownIsPast'
    <3>1. ASSUME NEW r \in page PROVE r.id \in Existing /\ ~ Precedes(token, Place(r.id))
      <4>1. ~ Precedes(token, r) /\ r.id \in Existing /\ r.at <= stored[r.id].at /\ IsPlace(r)
        BY <2>2, <2>3, <2>5, <2>10
      <4>2. QED
        BY <2>6, <2>11, <4>1 DEF Precedes, Place, IsPlace
    <3>2. ASSUME NEW id \in walk.shown PROVE id \in Existing /\ ~ Precedes(token, Place(id))
      <4>1. id \in Existing /\ walk.token # Nothing /\ ~ Precedes(walk.token, Place(id))
        BY <1>1 DEF StoreInv, ShownIsPast
      <4>2. walk.token \in Tokens /\ IsPlace(walk.token)
        BY <1>1, <4>1, PlacesInList DEF Walks
      <4>3. Precedes(walk.token, last)
        BY <2>2, <2>3, <4>1 DEF Remaining
      <4>4. IsPlace(last) /\ IsPlace(Place(id))
        BY <2>2, <2>3, <2>5, <2>11, <4>1
      <4>5. QED
        BY <2>10, <4>1, <4>2, <4>3, <4>4, OrderIsStrict
    <3>3. \A id \in walk.shown \cup Ids(page) : id \in Existing /\ ~ Precedes(token, Place(id))
      BY <3>1, <3>2 DEF Ids
    <3>4. QED
      BY <1>2, <2>6, <2>7, <3>3 DEF ShownIsPast, Place, Existing
  <2>13. SteadyIsAhead'
    <3>1. ASSUME NEW id \in walk.steady, id \notin walk.shown, id \notin Ids(page)
          PROVE  Precedes(token, Place(id))
      <4>1. PICK r \in walk.found : r.id = id /\ r.at = stored[id].at
        BY <1>1, <3>1 DEF StoreInv, SteadyIsAhead
      <4>2. walk.token = Nothing \/ Precedes(walk.token, r)
        BY <1>1, <3>1, <4>1 DEF StoreInv, SteadyIsAhead, Place, Precedes
      <4>3. r \in Remaining(walk.found, walk.token) /\ r \notin page
        BY <3>1, <4>1, <4>2 DEF Remaining, Ids
      <4>4. Precedes(token, r)
        BY <2>2, <2>10, <4>3
      <4>5. QED
        BY <4>1, <4>4 DEF Precedes, Place
    <3>2. \A id \in walk.steady :
            id \in Existing /\ stored[id].user = walk.user /\ walk.want \in {Nothing, heap[stored[id].cell]}
      BY <1>1 DEF StoreInv, SteadyIsAhead
    <3>3. QED
      BY <1>2, <2>7, <3>1, <3>2 DEF SteadyIsAhead, Place, Existing
  <2>14. QED
    BY <2>8, <2>9, <2>12, <2>13 DEF StoreInv
<1>5. QED
  BY <1>3, <1>4

----------------------------------------------------------------------------
(* The invariant, and what it says of lists and walks.                       *)

LEMMA ListLeavesStore ==
  ASSUME StoreInv, UNCHANGED <<heap, stored>>
  PROVE  TasksMoveOn /\ CopiesStand
<1>1. \A id \in Existing : stored[id].version \in Nat /\ stored[id].at \in Nat
  BY DEF StoreInv, StoreTypeOK, Existing, StoredTasks
<1>2. QED
  BY <1>1 DEF TasksMoveOn, CopiesStand, Existing

LEMMA StoreStep ==
  ASSUME StoreInv, [Next]_vars
  PROVE  StoreInv' /\ TasksMoveOn /\ CopiesStand
<1>1. ASSUME NEW c \in Callers, NEW id \in TaskIDs, NEW u \in Users,
             (\E s \in Statuses : Create(c, id, u, s)) \/ GetLoad(c, id, u)
      PROVE  StoreInv' /\ TasksMoveOn /\ CopiesStand
  BY <1>1, CreateInv, GetLoadInv
<1>2. ASSUME NEW c \in Callers,
             \/ \E u \in Users : Update(c, u)
             \/ \E s \in Statuses : EditMine(c, s)
             \/ GetReturn(c)
      PROVE  StoreInv' /\ TasksMoveOn /\ CopiesStand
  BY <1>2, UpdateInv, EditInv, GetReturnInv
<1>3. ASSUME NEW u \in Users, NEW want \in Statuses \cup {Nothing}, StartWalk(u, want)
      PROVE  StoreInv' /\ TasksMoveOn /\ CopiesStand
  <2>1. UNCHANGED <<heap, stored>> /\ want \in Shows
    BY <1>3 DEF StartWalk, Shows
  <2>2. QED
    BY <1>3, <2>1, StartWalkInv, ListLeavesStore
<1>4. CASE ListLoad \/ ListReturn
  <2>1. UNCHANGED <<heap, stored>>
    BY <1>4 DEF ListLoad, ListReturn
  <2>2. QED
    BY <1>4, <2>1, ListLoadInv, ListReturnInv, ListLeavesStore
<1>5. CASE UNCHANGED vars
  <2>1. UNCHANGED <<heap, stored, clock, draft, getting, walk>>
    BY <1>5 DEF vars
  <2>2. StoreTypeOK'
    BY <2>1 DEF StoreInv, StoreTypeOK, Existing
  <2>3. QED
    BY <2>1, <2>2, OwnObjectsOnly
<1>6. CASE Tick
  BY <1>6, TickInv
<1>7. QED
  BY <1>1, <1>2, <1>3, <1>4, <1>5, <1>6 DEF Next

LEMMA StoreNextInv == StoreInv /\ [Next]_vars => StoreInv'
  BY StoreStep

LEMMA StoreInitInv == Init => StoreInv
<1> SUFFICES ASSUME Init PROVE StoreInv
  OBVIOUS
<1>1. Existing = {} /\ IsFiniteSet(Existing)
  BY FS_EmptySet DEF Init, Existing
<1>2. StoreTypeOK
  BY <1>1 DEF Init, StoreTypeOK, Shows
<1>3. walk = NoWalk /\ walk.at = "away"
  BY DEF Init, NoWalk
<1>4. QED
  BY <1>2, <1>3 DEF StoreInv, ListShowsWhatItSelected, FoundAreCopies, ShownIsPast, SteadyIsAhead

LEMMA StoreInvariant == Spec => []StoreInv
  BY StoreInitInv, StoreNextInv, PTL DEF Spec

(* A stored task is the copy made for its version, by the store alone, and a *)
(* caller's task is its own (taskstore.go:55-60, 84-89, 102-106).            *)
THEOREM StoreTypeCorrect == Spec => []StoreTypeOK
<1>1. StoreInv => StoreTypeOK
  BY DEF StoreInv
<1>2. QED
  BY <1>1, StoreInvariant, PTL

(* What List copies after it has released the lock is what it selected under *)
(* it, whatever is written in between (taskstore.go:140, 155-156).           *)
THEOREM ListsAreSnapshots == Spec => []ListShowsWhatItSelected
<1>1. StoreInv => ListShowsWhatItSelected
  BY DEF StoreInv
<1>2. QED
  BY <1>1, StoreInvariant, PTL

(* No walk through the pages meets a task twice, for any number of tasks,    *)
(* pages and writes between two pages (taskstore.go:196-223).                *)
THEOREM WalksListOnce == Spec => []WalkListsOnce
<1>1. StoreInv => WalkListsOnce
  <2> SUFFICES ASSUME StoreInv, walk.at = "loaded",
                      NEW r \in Page(walk.found, walk.token), r.id \in walk.shown
               PROVE  FALSE
    BY DEF WalkListsOnce, Ids
  <2>1. walk # NoWalk
    BY DEF NoWalk
  <2>2. r \in walk.found /\ (walk.token = Nothing \/ Precedes(walk.token, r))
    BY DEF Page, Remaining
  <2>3. QED
    BY <2>1, <2>2 DEF StoreInv, ShownIsPast
<1>2. QED
  BY <1>1, StoreInvariant, PTL

(* And at its last page it has met every task that matched when it began and *)
(* was not written since (taskstore.go:109-137, 196-223).                    *)
THEOREM WalksMissOnlyMoved == Spec => []WalkMissesOnlyMoved
<1>1. StoreInv => WalkMissesOnlyMoved
  <2> SUFFICES ASSUME StoreInv, walk.at = "loaded", IsLastPage(walk.found, walk.token),
                      NEW id \in walk.steady, id \notin walk.shown
               PROVE  id \in Ids(Page(walk.found, walk.token))
    BY DEF WalkMissesOnlyMoved
  <2>1. walk # NoWalk
    BY DEF NoWalk
  <2>2. PICK r \in walk.found : r.id = id /\ r.at = stored[id].at
    BY <2>1 DEF StoreInv, SteadyIsAhead
  <2>3. walk.token = Nothing \/ Precedes(walk.token, r)
    BY <2>1, <2>2 DEF StoreInv, SteadyIsAhead, Place, Precedes
  <2>4. r \in Page(walk.found, walk.token)
    BY <2>1, <2>3, FoundIsFinite, LastPageIsRest DEF Remaining
  <2>5. QED
    BY <2>2, <2>4 DEF Ids
<1>2. QED
  BY <1>1, StoreInvariant, PTL

(* What the store has written stays written: a task keeps its owner, its     *)
(* version and its time only grow, and no operation, and no change a caller  *)
(* makes to a task in its own hands, alters the copy of any version made so  *)
(* far, superseded ones included, which a Get or a List may still be reading *)
(* without the lock (taskstore.go:55-60, 84-90, 98-106, 140-156).            *)
StoredTasksStand == TasksMoveOn /\ CopiesStand

THEOREM StoredVersionsNeverChange == Spec => [][StoredTasksStand]_vars
<1>1. StoreInv /\ [Next]_vars => StoredTasksStand
  BY StoreStep DEF StoredTasksStand
<1>2. QED
  BY <1>1, StoreInvariant, PTL DEF Spec

(* A page that is not the last shows a task the walk has not shown, and its  *)
(* token is further down the list than the one it was asked with: a client   *)
(* that follows the tokens is given at most one page for each task, and the  *)
(* last, however often tasks are written meanwhile (taskstore.go:196-223).   *)
PagesAdvance ==
  walk.at = "loaded" /\ walk'.at = "between" =>
    /\ walk.shown \subseteq walk'.shown /\ walk'.shown # walk.shown /\ walk'.shown \subseteq Existing'
    /\ walk.token = Nothing \/ Precedes(walk.token, walk'.token)

LEMMA PageAdvances ==
  ASSUME StoreInv, StoreInv', ListReturn
  PROVE  PagesAdvance
<1>1. SUFFICES ASSUME walk.at = "loaded", walk'.at = "between" PROVE PagesAdvance
  BY DEF PagesAdvance
<1> DEFINE page == Page(walk.found, walk.token)
           last == EndOf(page)
<1>2. walk # NoWalk /\ walk \in Walks /\ walk' # NoWalk
  BY <1>1, WalkFields DEF StoreInv, NoWalk
<1>3. /\ ~ IsLastPage(walk.found, walk.token)
      /\ walk' = [walk EXCEPT !.at = "between", !.found = {}, !.shown = walk.shown \cup Ids(page),
                              !.token = NextToken(walk.found, walk.token)]
  BY <1>2 DEF ListReturn
<1>4. last \in page /\ last \in Remaining(walk.found, walk.token)
  BY <1>2, <1>3, FoundIsFinite, PageEnds DEF Page
<1>5. NextToken(walk.found, walk.token) = [at |-> last.at, id |-> last.id]
  BY DEF NextToken
<1> HIDE DEF page, last
<1>6. /\ walk'.shown = walk.shown \cup Ids(page)
      /\ walk'.token.at = last.at /\ walk'.token.id = last.id
  BY <1>2, <1>3, <1>5 DEF Walks
<1>7. last \in walk.found /\ (walk.token = Nothing \/ Precedes(walk.token, last))
  BY <1>4 DEF Remaining
<1>8. last.id \in Ids(page) /\ last.id \notin walk.shown
  <2>1. last.id \in Ids(page)
    BY <1>4 DEF Ids
  <2>2. last.id \in walk.shown => walk.token # Nothing /\ ~ Precedes(walk.token, last)
    BY <1>2, <1>7 DEF StoreInv, ShownIsPast
  <2>3. QED
    BY <1>7, <2>1, <2>2
<1>9. walk'.shown \subseteq Existing'
  BY <1>2 DEF StoreInv, ShownIsPast
<1>10. walk.token = Nothing \/ Precedes(walk.token, walk'.token)
  BY <1>6, <1>7 DEF Precedes
<1>11. QED
  BY <1>6, <1>8, <1>9, <1>10 DEF PagesAdvance

(* Hence a walk through the pages never goes round (taskstore.go:196-223).   *)
THEOREM WalksAdvance == Spec => [][PagesAdvance]_vars
<1>1. StoreInv /\ StoreInv' /\ [Next]_vars => PagesAdvance
  <2> SUFFICES ASSUME StoreInv, StoreInv', [Next]_vars, walk.at = "loaded", walk'.at = "between",
                      ~ ListReturn
               PROVE  FALSE
    BY PageAdvances DEF PagesAdvance
  <2>1. walk' = walk \/ (\E id : walk' = Forget(id))
    BY DEF Next, Tick, Create, Update, EditMine, GetLoad, GetReturn, StartWalk, ListLoad, vars
  <2>2. walk \in Walks
    BY WalkFields DEF StoreInv
  <2>3. \A id : Forget(id).at = walk.at
    BY <2>2 DEF Forget, Walks
  <2>4. QED
    BY <2>1, <2>3
<1>2. QED
  BY <1>1, StoreInvariant, PTL DEF Spec

----------------------------------------------------------------------------
(* The store is a register per task.                                         *)

(* What a register, a draft and a read in progress are in the abstract.      *)
LEMMA AbstractViews ==
  ASSUME StoreInv
  PROVE  /\ \A id \in TaskIDs : stored[id] # Nothing =>
              RegisterOf(id) = [owner |-> stored[id].user, version |-> stored[id].version,
                                status |-> heap[Copy(id, stored[id].version)]]
         /\ \A id \in TaskIDs : RegisterOf(id) = Nothing <=> stored[id] = Nothing
         /\ \A c \in Callers : TaskOf(draft[c]) = Nothing <=> draft[c] = Nothing
         /\ \A c \in Callers : TaskOf(getting[c]) = Nothing <=> getting[c] = Nothing
<1>1. \A id \in TaskIDs : stored[id] # Nothing =>
         /\ stored[id] \in StoredTasks /\ stored[id].cell = Copy(id, stored[id].version)
         /\ heap[stored[id].cell] \in Shows
  BY DEF StoreInv, StoreTypeOK, Existing, StoredTasks
<1>2. \A h \in HeldTasks : h # Nothing => TaskOf(h) \in [id : TaskIDs, version : Versions, status : Shows]
  BY DEF TaskOf, HeldTasks, StoreInv, StoreTypeOK
<1>3. \A id \in TaskIDs : stored[id] # Nothing => RegisterOf(id) \in [owner : Users, version : Versions, status : Shows]
  BY <1>1 DEF RegisterOf, StoredTasks
<1>4. QED
  BY <1>1, <1>2, <1>3, SentinelAssumption DEF RegisterOf, TaskOf, StoreInv, StoreTypeOK

(* A step that leaves a task where it is, or what a caller holds, and the    *)
(* cell that shows it, leaves the view of it.                                *)
LEMMA ViewsStand ==
  ASSUME StoreInv, CopiesStand
  PROVE  /\ \A id \in TaskIDs : stored'[id] = stored[id] => RegisterOf(id)' = RegisterOf(id)
         /\ \A c \in Callers : getting'[c] = getting[c] => TaskOf(getting[c])' = TaskOf(getting[c])
         /\ \A c \in Callers : draft'[c] = draft[c] /\ heap'[Own(c)] = heap[Own(c)] =>
              TaskOf(draft[c])' = TaskOf(draft[c])
<1>1. ASSUME NEW id \in TaskIDs, stored'[id] = stored[id]
      PROVE  RegisterOf(id)' = RegisterOf(id)
  <2>1. id \in Existing => heap'[stored[id].cell] = heap[stored[id].cell]
    BY DEF CopiesStand, StoreInv, StoreTypeOK, Existing, StoredTasks
  <2>2. QED
    BY <1>1, <2>1 DEF RegisterOf, Existing
<1>2. ASSUME NEW c \in Callers, getting'[c] = getting[c]
      PROVE  TaskOf(getting[c])' = TaskOf(getting[c])
  <2>1. getting[c] # Nothing => heap'[getting[c].cell] = heap[getting[c].cell]
    BY DEF CopiesStand, StoreInv, StoreTypeOK, HeldTasks
  <2>2. QED
    BY <1>2, <2>1 DEF TaskOf
<1>3. ASSUME NEW c \in Callers, draft'[c] = draft[c], heap'[Own(c)] = heap[Own(c)]
      PROVE  TaskOf(draft[c])' = TaskOf(draft[c])
  BY <1>3 DEF TaskOf, StoreInv, StoreTypeOK
<1>4. QED
  BY <1>1, <1>2, <1>3

(* Steps that change neither tasks nor what callers hold are stutters.       *)
LEMMA UnseenStep ==
  ASSUME UNCHANGED <<heap, stored, draft, getting>>
  PROVE  UNCHANGED Abstract!vars
BY DEF Abstract!vars, RegisterOf, TaskOf

(* The view of a version just stored.                                        *)
LEMMA NewVersionView ==
  ASSUME StoreInv, NEW id \in TaskIDs, NEW u \in Users, NEW v \in Versions,
         stored' = [stored EXCEPT ![id] = StoredTask(id, u, v)]
  PROVE  RegisterOf(id)' = [owner |-> u, version |-> v, status |-> heap'[Copy(id, v)]]
<1>1. stored'[id] = [cell |-> Copy(id, v), user |-> u, version |-> v, at |-> clock]
  BY DEF StoredTask, StoreInv, StoreTypeOK
<1>2. stored'[id] \in StoredTasks
  BY <1>1, CellNames DEF StoredTasks, StoreInv, StoreTypeOK
<1>3. stored'[id] # Nothing
  BY <1>2, SentinelAssumption
<1>4. QED
  BY <1>1, <1>3 DEF RegisterOf

LEMMA CreateIsCreate ==
  ASSUME StoreInv, StoreInv', NEW c \in Callers, NEW id \in TaskIDs, NEW u \in Users, NEW s \in Statuses,
         Create(c, id, u, s)
  PROVE  Abstract!Create(c, id, u, s)
<1> DEFINE task == [id |-> id, version |-> 1, status |-> s]
           new == [owner |-> u, version |-> 1, status |-> s]
<1>1. id \notin Existing /\ 1 \in Versions /\ stored[id] = Nothing /\ getting[c] = Nothing
  BY DEF Create, Existing
<1>2. stored' = [stored EXCEPT ![id] = StoredTask(id, u, 1)] /\ stored'[id].cell = Copy(id, 1)
  BY DEF Create, StoredTask, StoreInv, StoreTypeOK
<1>3. heap' = [heap EXCEPT ![Own(c)] = s, ![Copy(id, 1)] = s]
  BY <1>2 DEF Create
<1>4. heap'[Own(c)] = s /\ heap'[Copy(id, 1)] = s /\ \A d \in Callers : d # c => heap'[Own(d)] = heap[Own(d)]
  BY <1>1, <1>3, CellsApart, CellNames DEF StoreInv, StoreTypeOK
<1>5. CopiesStand
  BY <1>1, <1>3, NewCopyIsNew
<1>6. /\ \A i \in TaskIDs : RegisterOf(i)' = IF i = id THEN new ELSE RegisterOf(i)
      /\ RegisterOf(id) = Nothing
  <2>1. RegisterOf(id)' = new
    BY <1>1, <1>2, <1>4, NewVersionView
  <2>2. \A i \in TaskIDs : i # id => RegisterOf(i)' = RegisterOf(i)
    BY <1>2, <1>5, ViewsStand DEF StoreInv, StoreTypeOK
  <2>3. QED
    BY <1>1, <2>1, <2>2 DEF RegisterOf
<1>7. \A d \in Callers : TaskOf(draft[d])' = IF d = c THEN task ELSE TaskOf(draft[d])
  <2>1. draft' = [draft EXCEPT ![c] = [id |-> id, version |-> 1, cell |-> Own(c)]]
    BY DEF Create
  <2>2. [id |-> id, version |-> 1, cell |-> Own(c)] \in HeldTasks
    BY <1>1, CellNames DEF HeldTasks
  <2>3. TaskOf(draft[c])' = task
    BY <1>4, <2>1, <2>2, SentinelAssumption DEF TaskOf, StoreInv, StoreTypeOK
  <2>4. \A d \in Callers : d # c => TaskOf(draft[d])' = TaskOf(draft[d])
    BY <1>4, <1>5, <2>1, ViewsStand DEF StoreInv, StoreTypeOK
  <2>5. QED
    BY <2>3, <2>4
<1>8. TaskOf(getting[c]) = Nothing /\ \A d \in Callers : TaskOf(getting[d])' = TaskOf(getting[d])
  BY <1>1, <1>5, ViewsStand DEF TaskOf, Create
<1> HIDE DEF task, new
<1>9. QED
  BY <1>6, <1>7, <1>8 DEF Abstract!Create, task, new

LEMMA UpdateIsWrite ==
  ASSUME StoreInv, StoreInv', NEW c \in Callers, NEW u \in Users, Update(c, u)
  PROVE  Abstract!Write(c, u)
<1>0. PICK id, v, y : id = draft[c].id /\ v = stored[id].version + 1 /\ y = heap[Own(c)]
  OBVIOUS
<1> DEFINE task == [id |-> id, version |-> v, status |-> y]
           new == [owner |-> u, version |-> v, status |-> y]
<1>1. /\ draft[c] \in HeldTasks /\ draft[c].cell = Own(c) /\ id \in Existing
      /\ stored[id] \in StoredTasks /\ draft[c] # Nothing
  <2>1. draft[c] # Nothing /\ id \in Existing
    BY <1>0 DEF Update
  <2>2. draft[c] \in HeldTasks /\ draft[c].cell = Own(c)
    BY <2>1 DEF StoreInv, StoreTypeOK
  <2>3. stored[id] \in StoredTasks
    BY <2>1 DEF StoreInv, StoreTypeOK, Existing
  <2>4. QED
    BY <2>1, <2>2, <2>3
<1>2. id \in TaskIDs /\ v \in Versions /\ stored[id].user = u /\ y \in Shows /\ getting[c] = Nothing
  <2>1. stored[id].user = u /\ v <= MaxVersion /\ getting[c] = Nothing
    BY <1>0 DEF Update
  <2>2. id \in TaskIDs
    BY <1>1 DEF Existing
  <2>3. v \in Versions
    <3>1. stored[id].version \in Versions
      BY <1>1 DEF StoredTasks
    <3>2. QED
      BY <1>0, <2>1, <3>1 DEF Versions
  <2>4. y \in Shows
    <3>1. heap \in [Cells -> Shows] /\ Own(c) \in Cells
      BY CellNames DEF StoreInv, StoreTypeOK
    <3>2. QED
      BY <1>0, <3>1
  <2>5. QED
    BY <2>1, <2>2, <2>3, <2>4
<1>3. stored' = [stored EXCEPT ![id] = StoredTask(id, u, v)] /\ stored'[id].cell = Copy(id, v)
  BY <1>0, <1>2 DEF Update, StoredTask, StoreInv, StoreTypeOK
<1>4. heap' = [heap EXCEPT ![Copy(id, v)] = y]
  BY <1>0, <1>1, <1>3 DEF Update
<1>5. heap' = [heap EXCEPT ![Own(c)] = y, ![Copy(id, v)] = y]
  BY <1>0, <1>4 DEF StoreInv, StoreTypeOK
<1>6. CopiesStand
  BY <1>0, <1>2, <1>5, NewCopyIsNew
<1>7. heap'[Copy(id, v)] = y /\ \A d \in Callers : heap'[Own(d)] = heap[Own(d)]
  BY <1>2, <1>4, CellsApart, CellNames DEF StoreInv, StoreTypeOK
<1>8. /\ RegisterOf(id) # Nothing
      /\ RegisterOf(id).owner = u /\ RegisterOf(id).version = stored[id].version
  BY <1>1, <1>2, AbstractViews DEF RegisterOf, Existing
<1>9. \A i \in TaskIDs : RegisterOf(i)' = IF i = id THEN new ELSE RegisterOf(i)
  <2>1. RegisterOf(id)' = new
    BY <1>2, <1>3, <1>7, NewVersionView
  <2>2. \A i \in TaskIDs : i # id => RegisterOf(i)' = RegisterOf(i)
    BY <1>3, <1>6, ViewsStand DEF StoreInv, StoreTypeOK
  <2>3. QED
    BY <2>1, <2>2
<1>10. /\ TaskOf(draft[c]) # Nothing /\ TaskOf(draft[c]).id = id
       /\ TaskOf(draft[c]).version = draft[c].version /\ TaskOf(draft[c]).status = y
       /\ task = [TaskOf(draft[c]) EXCEPT !.version = v]
  BY <1>0, <1>1, AbstractViews DEF TaskOf
<1>11. \A d \in Callers : TaskOf(draft[d])' = IF d = c THEN task ELSE TaskOf(draft[d])
  <2>1. draft' = [draft EXCEPT ![c] = [id |-> id, version |-> v, cell |-> Own(c)]]
    <3>1. draft' = [draft EXCEPT ![c].version = v]
      BY <1>0 DEF Update
    <3>2. [draft[c] EXCEPT !.version = v] = [id |-> id, version |-> v, cell |-> Own(c)]
      BY <1>0, <1>1 DEF HeldTasks
    <3>3. draft' = [draft EXCEPT ![c] = [draft[c] EXCEPT !.version = v]]
      BY <3>1
    <3>4. QED
      BY <3>2, <3>3
  <2>2. [id |-> id, version |-> v, cell |-> Own(c)] \in HeldTasks
    BY <1>2, CellNames DEF HeldTasks
  <2>3. TaskOf(draft[c])' = task
    BY <1>0, <1>7, <2>1, <2>2, SentinelAssumption DEF TaskOf, StoreInv, StoreTypeOK
  <2>4. \A d \in Callers : d # c => TaskOf(draft[d])' = TaskOf(draft[d])
    BY <1>6, <1>7, <2>1, ViewsStand DEF StoreInv, StoreTypeOK
  <2>5. QED
    BY <2>3, <2>4
<1>12. TaskOf(getting[c]) = Nothing /\ \A d \in Callers : TaskOf(getting[d])' = TaskOf(getting[d])
  BY <1>2, <1>6, ViewsStand DEF TaskOf, Update
<1>13. c \in Blind \/ stored[id].version = draft[c].version
  BY <1>0 DEF Update, VersionMatches
<1> HIDE DEF task, new
<1> DEFINE R == [i \in TaskIDs |-> RegisterOf(i)]
           D == [d \in Callers |-> TaskOf(draft[d])]
           G == [d \in Callers |-> TaskOf(getting[d])]
<1>14. R' = [R EXCEPT ![id] = [owner |-> u, version |-> R[id].version + 1, status |-> D[c].status]]
  <2>1. R' = [R EXCEPT ![id] = new]
    BY <1>9
  <2>2. R[id].version + 1 = v /\ D[c].status = y
    BY <1>0, <1>2, <1>8, <1>10
  <2>3. new = [owner |-> u, version |-> R[id].version + 1, status |-> D[c].status]
    BY <2>2 DEF new
  <2> HIDE DEF R, D
  <2>4. QED
    BY <2>1, <2>3
<1>15. D' = [D EXCEPT ![c].version = R[id].version + 1]
  <2>1. D' = [D EXCEPT ![c] = task]
    BY <1>11
  <2>2. D[c] = TaskOf(draft[c]) /\ R[id].version = stored[id].version
    BY <1>2, <1>8
  <2>3. D' = [D EXCEPT ![c] = [D[c] EXCEPT !.version = R[id].version + 1]]
    BY <1>0, <1>10, <2>1, <2>2
  <2>4. QED
    BY <2>3
<1>16. D[c] # Nothing /\ D[c].id = id /\ D[c].version = draft[c].version /\ G[c] = Nothing /\ G' = G
  BY <1>10, <1>12
<1>17. R[id] # Nothing /\ R[id].owner = u /\ R[id].version = stored[id].version
  BY <1>2, <1>8
<1> HIDE DEF R, D, G
<1>18. QED
  BY <1>13, <1>14, <1>15, <1>16, <1>17 DEF Abstract!Write, R, D, G

LEMMA EditIsEdit ==
  ASSUME StoreInv, StoreInv', NEW c \in Callers, NEW s \in Statuses, EditMine(c, s)
  PROVE  Abstract!Edit(c, s)
<1>1. /\ getting[c] = Nothing /\ draft[c] # Nothing /\ draft[c] \in HeldTasks /\ draft[c].cell = Own(c)
      /\ heap' = [heap EXCEPT ![Own(c)] = s] /\ UNCHANGED <<stored, draft, getting>>
  BY DEF EditMine, StoreInv, StoreTypeOK
<1>2. CopiesStand /\ heap'[Own(c)] = s /\ \A d \in Callers : d # c => heap'[Own(d)] = heap[Own(d)]
  BY <1>1, CellsApart, CellNames DEF CopiesStand, StoreInv, StoreTypeOK
<1> DEFINE R == [i \in TaskIDs |-> RegisterOf(i)]
           D == [d \in Callers |-> TaskOf(draft[d])]
           G == [d \in Callers |-> TaskOf(getting[d])]
<1>3. R' = R /\ G' = G
  BY <1>1, <1>2, ViewsStand
<1>4. D[c] # Nothing
  BY <1>1, AbstractViews
<1>5. D' = [D EXCEPT ![c].status = s]
  <2>1. D[c] = [id |-> draft[c].id, version |-> draft[c].version, status |-> heap[Own(c)]]
    BY <1>1 DEF TaskOf
  <2>2. D'[c] = [id |-> draft[c].id, version |-> draft[c].version, status |-> s]
    BY <1>1, <1>2 DEF TaskOf
  <2>3. \A d \in Callers : d # c => TaskOf(draft[d])' = TaskOf(draft[d])
    BY <1>1, <1>2, ViewsStand
  <2>4. D'[c] = [D[c] EXCEPT !.status = s]
    <3> HIDE DEF D
    <3>1. QED
      BY <2>1, <2>2
  <2>5. D' = [D EXCEPT ![c] = D'[c]]
    BY <2>3
  <2>6. QED
    BY <2>4, <2>5
<1> HIDE DEF R, D, G
<1>6. QED
  BY <1>3, <1>4, <1>5 DEF Abstract!Edit, R, D, G

LEMMA GetLoadIsRead ==
  ASSUME StoreInv, StoreInv', NEW c \in Callers, NEW id \in TaskIDs, NEW u \in Users, GetLoad(c, id, u)
  PROVE  Abstract!Read(c, id, u)
<1> DEFINE R == [i \in TaskIDs |-> RegisterOf(i)]
           D == [d \in Callers |-> TaskOf(draft[d])]
           G == [d \in Callers |-> TaskOf(getting[d])]
<1>1. /\ id \in Existing /\ stored[id].user = u /\ getting[c] = Nothing
      /\ getting' = [getting EXCEPT ![c] = [id |-> id, version |-> stored[id].version, cell |-> stored[id].cell]]
      /\ draft' = [draft EXCEPT ![c] = Nothing] /\ UNCHANGED <<heap, stored>>
  BY DEF GetLoad
<1>2. R[id] = [owner |-> u, version |-> stored[id].version, status |-> heap[stored[id].cell]] /\ R[id] # Nothing
  BY <1>1, AbstractViews DEF RegisterOf, Existing
<1>3. R' = R /\ D' = [D EXCEPT ![c] = Nothing] /\ G[c] = Nothing
  BY <1>1 DEF RegisterOf, TaskOf, StoreInv, StoreTypeOK
<1>4. G' = [G EXCEPT ![c] = [id |-> id, version |-> stored[id].version, status |-> heap[stored[id].cell]]]
  <2>1. [id |-> id, version |-> stored[id].version, cell |-> stored[id].cell] \in HeldTasks
    <3>1. id \in TaskIDs /\ stored[id] \in StoredTasks
      BY <1>1 DEF StoreInv, StoreTypeOK, Existing
    <3>2. QED
      BY ONLY <3>1 DEF StoredTasks, HeldTasks
  <2>2. TaskOf(getting[c])' = [id |-> id, version |-> stored[id].version, status |-> heap[stored[id].cell]]
    BY <1>1, <2>1, SentinelAssumption DEF TaskOf, StoreInv, StoreTypeOK
  <2>3. \A d \in Callers : d # c => TaskOf(getting[d])' = TaskOf(getting[d])
    BY <1>1 DEF TaskOf, StoreInv, StoreTypeOK
  <2>4. QED
    BY <2>2, <2>3
<1> HIDE DEF R, D, G
<1>5. G' = [G EXCEPT ![c] = [id |-> id, version |-> R[id].version, status |-> R[id].status]]
  BY <1>2, <1>4
<1>6. R[id].owner = u
  BY <1>2
<1>7. QED
  BY <1>2, <1>3, <1>5, <1>6 DEF Abstract!Read, R, D, G

LEMMA GetReturnIsReturn ==
  ASSUME StoreInv, StoreInv', NEW c \in Callers, GetReturn(c)
  PROVE  Abstract!Return(c)
<1> DEFINE R == [i \in TaskIDs |-> RegisterOf(i)]
           D == [d \in Callers |-> TaskOf(draft[d])]
           G == [d \in Callers |-> TaskOf(getting[d])]
           g == getting[c]
           y == heap[getting[c].cell]
<1>1. /\ g # Nothing /\ g \in HeldTasks
      /\ heap' = [heap EXCEPT ![Own(c)] = y]
      /\ draft' = [draft EXCEPT ![c] = [g EXCEPT !.cell = Own(c)]]
      /\ getting' = [getting EXCEPT ![c] = Nothing] /\ UNCHANGED stored
  BY DEF GetReturn, StoreInv, StoreTypeOK
<1>2. CopiesStand /\ heap'[Own(c)] = y /\ \A d \in Callers : d # c => heap'[Own(d)] = heap[Own(d)]
  BY <1>1, CellsApart, CellNames DEF CopiesStand, StoreInv, StoreTypeOK
<1>3. R' = R
  BY <1>1, <1>2, ViewsStand
<1>4. G' = [G EXCEPT ![c] = Nothing] /\ G[c] # Nothing
  <2>1. TaskOf(getting[c])' = Nothing
    BY <1>1 DEF TaskOf, StoreInv, StoreTypeOK
  <2>2. \A d \in Callers : d # c => TaskOf(getting[d])' = TaskOf(getting[d])
    BY <1>1, <1>2, ViewsStand DEF StoreInv, StoreTypeOK
  <2>3. QED
    BY <1>1, <2>1, <2>2, AbstractViews
<1>5. D' = [D EXCEPT ![c] = G[c]]
  <2>1. [g EXCEPT !.cell = Own(c)] = [id |-> g.id, version |-> g.version, cell |-> Own(c)]
    BY <1>1 DEF HeldTasks
  <2>2. [id |-> g.id, version |-> g.version, cell |-> Own(c)] \in HeldTasks
    BY <1>1, CellNames DEF HeldTasks
  <2>3. draft'[c] = [id |-> g.id, version |-> g.version, cell |-> Own(c)] /\ draft'[c] # Nothing
    BY <1>1, <2>1, <2>2, SentinelAssumption DEF StoreInv, StoreTypeOK
  <2>4. D'[c] = [id |-> g.id, version |-> g.version, status |-> y]
    BY <1>2, <2>3 DEF TaskOf
  <2>5. G[c] = [id |-> g.id, version |-> g.version, status |-> y]
    BY <1>1 DEF TaskOf
  <2>6. \A d \in Callers : d # c => TaskOf(draft[d])' = TaskOf(draft[d])
    BY <1>1, <1>2, ViewsStand DEF StoreInv, StoreTypeOK
  <2>7. D' = [D EXCEPT ![c] = D'[c]]
    BY <2>6
  <2>8. QED
    BY <2>4, <2>5, <2>7
<1> HIDE DEF R, D, G
<1>6. QED
  BY <1>3, <1>4, <1>5 DEF Abstract!Return, R, D, G

LEMMA StoreStepIsRegisterStep ==
  StoreInv /\ StoreInv' /\ [Next]_vars => [Abstract!Next]_(Abstract!vars)
<1> SUFFICES ASSUME StoreInv, StoreInv', [Next]_vars PROVE [Abstract!Next]_(Abstract!vars)
  OBVIOUS
<1>1. ASSUME NEW c \in Callers, NEW id \in TaskIDs, NEW u \in Users,
             (\E s \in Statuses : Create(c, id, u, s)) \/ GetLoad(c, id, u)
      PROVE  Abstract!Next
  BY <1>1, CreateIsCreate, GetLoadIsRead DEF Abstract!Next
<1>2. ASSUME NEW c \in Callers,
             \/ \E u \in Users : Update(c, u)
             \/ \E s \in Statuses : EditMine(c, s)
             \/ GetReturn(c)
      PROVE  Abstract!Next
  BY <1>2, UpdateIsWrite, EditIsEdit, GetReturnIsReturn DEF Abstract!Next
<1>3. CASE Tick \/ ListLoad \/ ListReturn \/ UNCHANGED vars
           \/ \E u \in Users, want \in Statuses \cup {Nothing} : StartWalk(u, want)
  <2>1. UNCHANGED <<heap, stored, draft, getting>>
    BY <1>3 DEF Tick, ListLoad, ListReturn, StartWalk, vars
  <2>2. QED
    BY <2>1, UnseenStep
<1>4. QED
  BY <1>1, <1>2, <1>3 DEF Next

(* The task store is a versioned register per task: no update is lost, no    *)
(* read is torn, and no caller shares an object with the store, whatever     *)
(* calls meet (taskstore.go:37-107).                                         *)
THEOREM StoreImplementsRegister == Spec => ImplementsRegister
<1>1. Init => Abstract!Init
  BY DEF Init, Abstract!Init, RegisterOf, TaskOf
<1>2. StoreInv /\ StoreInv' /\ [Next]_vars => [Abstract!Next]_(Abstract!vars)
  BY StoreStepIsRegisterStep
<1>3. QED
  BY <1>1, <1>2, StoreInvariant, PTL DEF Spec, ImplementsRegister, Abstract!Spec
=============================================================================
