---------------------------- MODULE BrokerProofs ----------------------------
(* Theorems about the session broker, for any tasks and contexts.  BrokerInv *)
(* is inductive; the exactness of the child counters and the existence of a  *)
(* leaf follow from it, and with them every broker step is a step of the     *)
(* abstract session family or a stutter.                                     *)
EXTENDS Broker, FiniteSetTheorems, WellFoundedInduction, TLAPS

USE SentinelAssumption

LEMMA BrokerInitInv == BrokerInit => BrokerInv
<1> SUFFICES ASSUME BrokerInit PROVE BrokerInv
  OBVIOUS
<1>1. TypeOK
  BY FS_EmptySet DEF BrokerInit, TypeOK, Phases
<1>2. SessionsMatchPhase /\ RuntimesRegistered /\ ParentsOlder
  BY DEF BrokerInit, SessionsMatchPhase, RuntimesRegistered, ParentsOlder
<1>3. ClientIffActive /\ ChildCountExact
  BY DEF BrokerInit, ClientIffActive, ChildCountExact
<1>4. QED
  BY <1>1, <1>2, <1>3 DEF BrokerInv

(* A step that leaves the tree, the phases and the requests alone can only   *)
(* disturb what is said of runtimes and clients.                             *)
LEMMA TreeUnchanged ==
  ASSUME BrokerInv, UNCHANGED <<treeVars, phase, requestVars>>
  PROVE  SessionsMatchPhase' /\ ParentsOlder' /\ ChildCountExact'
<1> USE DEF treeVars, requestVars
<1>1. SessionsMatchPhase'
  BY DEF BrokerInv, SessionsMatchPhase
<1>2. ParentsOlder'
  BY DEF BrokerInv, ParentsOlder
<1>3. ChildCountExact'
  BY DEF BrokerInv, ChildCountExact, Children
<1>4. QED
  BY <1>1, <1>2, <1>3

LEMMA ResolveInv ==
  ASSUME BrokerInv, NEW t \in Tasks, NEW c \in Contexts, NEW refs \in References,
         Resolve(t, c, refs)
  PROVE  BrokerInv'
<1> USE DEF treeVars, runtimeVars
<1>1. PICK p \in Tasks \cup {NoTask} :
        /\ p # NoTask => p \in sessions[c]
        /\ parent' = [parent EXCEPT ![t] = p]
  BY DEF Resolve, ResolvesTo
<1>2. TypeOK'
  <2>1. refs # <<>> => refs[1] \in Tasks
    BY DEF References
  <2>2. QED
    BY <1>1, <2>1 DEF Resolve, BrokerInv, TypeOK, Phases
<1>3. SessionsMatchPhase'
  BY DEF Resolve, BrokerInv, SessionsMatchPhase, TypeOK
<1>4. RuntimesRegistered'
  BY DEF Resolve, BrokerInv, RuntimesRegistered, TypeOK
<1>5. ParentsOlder'
  BY <1>1 DEF Resolve, BrokerInv, ParentsOlder, SessionsMatchPhase, TypeOK
<1>6. ClientIffActive'
  BY DEF Resolve, BrokerInv, ClientIffActive
<1>7. ChildCountExact'
  <2>1. \A d \in Contexts : \A u \in sessions[d] :
          u # t /\ context[u] = d /\ t \notin sessions[d]
    BY DEF Resolve, BrokerInv, SessionsMatchPhase, TypeOK
  <2>2. \A d \in Contexts : \A u \in sessions[d] : Children(u)' = Children(u)
    BY <1>1, <2>1 DEF Resolve, Children, BrokerInv, TypeOK
  <2>3. QED
    BY <2>2 DEF Resolve, BrokerInv, ChildCountExact
<1>8. QED
  BY <1>2, <1>3, <1>4, <1>5, <1>6, <1>7 DEF BrokerInv

LEMMA FailureInv ==
  ASSUME BrokerInv, NEW t \in Tasks,
         phase[t] \in {"new", "resolved"},
         phase' = [phase EXCEPT ![t] = "failed"],
         UNCHANGED <<treeVars, active, client, runtimeVars, requestVars>>
  PROVE  BrokerInv'
<1> USE DEF treeVars, runtimeVars, requestVars
<1>1. TypeOK'
  BY DEF BrokerInv, TypeOK, Phases
<1>2. SessionsMatchPhase'
  BY DEF BrokerInv, SessionsMatchPhase, TypeOK
<1>3. RuntimesRegistered'
  BY DEF BrokerInv, RuntimesRegistered, TypeOK
<1>4. ParentsOlder'
  BY DEF BrokerInv, ParentsOlder, TypeOK
<1>5. ClientIffActive' /\ ChildCountExact'
  BY DEF BrokerInv, ClientIffActive, ChildCountExact, Children
<1>6. QED
  BY <1>1, <1>2, <1>3, <1>4, <1>5 DEF BrokerInv

(* The new session has no children, its parent gains one and nobody else's   *)
(* children change.                                                          *)
LEMMA RegisterInv ==
  ASSUME BrokerInv, NEW t \in Tasks, RegisterTask(t)
  PROVE  BrokerInv'
<1> USE DEF requestVars, runtimeVars
<1>a. /\ TypeOK /\ context[t] \in Contexts
      /\ \A d \in Contexts : t \notin sessions[d]
  BY DEF RegisterTask, BrokerInv, SessionsMatchPhase
<1>1. TypeOK'
  <2>1. childCount' \in [Tasks -> Nat]
    BY <1>a DEF RegisterTask, CountChild, TypeOK
  <2>2. sessions' \in [Contexts -> SUBSET Tasks]
    BY <1>a DEF RegisterTask, TypeOK
  <2>3. \A d \in Contexts : IsFiniteSet(sessions'[d])
    BY <1>a, FS_AddElement DEF RegisterTask, TypeOK
  <2>4. phase' \in [Tasks -> Phases] /\ active' \in SUBSET Tasks
    BY <1>a DEF RegisterTask, TypeOK, Phases
  <2>5. /\ client' \in [Tasks -> BOOLEAN]
        /\ startedAt' \in [Tasks -> Nat] /\ clock' \in Nat
    BY <1>a DEF RegisterTask, TypeOK
  <2>6. UNCHANGED <<context, reference, parent, turnActive, pending>>
    BY DEF RegisterTask
  <2>7. QED
    BY <1>a, <2>1, <2>2, <2>3, <2>4, <2>5, <2>6 DEF TypeOK
<1>2. SessionsMatchPhase'
  BY <1>a DEF RegisterTask, BrokerInv, SessionsMatchPhase, TypeOK
<1>3. RuntimesRegistered'
  <2>1. \A u \in Tasks : phase[u] \in {"new", "resolved", "failed"}
                         => u \notin ParentOf(t)
    BY <1>a DEF ParentOf, BrokerInv, SessionsMatchPhase
  <2>2. QED
    BY <1>a, <2>1 DEF RegisterTask, CountChild, BrokerInv, RuntimesRegistered, TypeOK
<1>4. ParentsOlder'
  BY <1>a DEF RegisterTask, BrokerInv, ParentsOlder, TypeOK
<1>5. ClientIffActive'
  BY <1>a DEF RegisterTask, BrokerInv, ClientIffActive, TypeOK
<1>6. ChildCountExact'
  <2> SUFFICES ASSUME NEW d \in Contexts, NEW u \in sessions'[d]
               PROVE  childCount'[u] = Cardinality(Children(u)')
    BY DEF ChildCountExact
  <2>1. CASE u = t
    <3>1. \A v \in Tasks : phase[v] = "registered" => parent[v] # t
      BY <1>a DEF RegisterTask, BrokerInv, ParentsOlder
    <3>2. parent[t] # t
      BY <1>a DEF RegisterTask, BrokerInv, ParentsOlder
    <3>3. Children(t)' = {}
      BY <1>a, <3>1, <3>2
         DEF RegisterTask, Children, BrokerInv, SessionsMatchPhase, TypeOK
    <3>4. childCount'[t] = 0
      BY <1>a DEF RegisterTask, CountChild, ParentOf, BrokerInv, RuntimesRegistered
    <3>5. QED
      BY <2>1, <3>3, <3>4, FS_EmptySet
  <2>2. CASE u # t
    <3>1. u \in Tasks /\ u \in sessions[d] /\ context[u] = d /\ d \in Contexts
      BY <1>a, <2>2 DEF RegisterTask, BrokerInv, SessionsMatchPhase, TypeOK
    <3>2. childCount[u] = Cardinality(Children(u)) /\ IsFiniteSet(Children(u))
          /\ t \notin Children(u)
      <4>1. IsFiniteSet(sessions[d]) /\ Children(u) \in SUBSET sessions[d]
        BY <1>a, <3>1 DEF TypeOK, Children
      <4>2. IsFiniteSet(Children(u))
        BY <4>1, FS_Subset
      <4>3. QED
        BY <1>a, <3>1, <4>1, <4>2 DEF BrokerInv, ChildCountExact
    <3>3. CASE u \in ParentOf(t)
      <4>0. parent[t] = u /\ context[t] = d
        BY <1>a, <3>1, <3>3 DEF ParentOf, BrokerInv, SessionsMatchPhase
      <4>1. Children(u)' = Children(u) \cup {t}
        BY <1>a, <3>1, <4>0 DEF RegisterTask, Children, TypeOK
      <4>2. childCount'[u] = childCount[u] + 1
        BY <3>1, <3>3 DEF RegisterTask, CountChild
      <4>3. QED
        BY <3>2, <4>1, <4>2, FS_AddElement
    <3>4. CASE u \notin ParentOf(t)
      <4>1. parent[t] # u \/ context[t] # d
        BY <3>1, <3>4 DEF ParentOf
      <4>2. Children(u)' = Children(u)
        BY <1>a, <3>1, <4>1 DEF RegisterTask, Children, TypeOK
      <4>3. childCount'[u] = childCount[u]
        BY <3>1, <3>4 DEF RegisterTask, CountChild
      <4>4. QED
        BY <3>2, <4>2, <4>3
    <3>5. QED
      BY <3>3, <3>4
  <2>3. QED
    BY <2>1, <2>2
<1>7. QED
  BY <1>1, <1>2, <1>3, <1>4, <1>5, <1>6 DEF BrokerInv

(* Finishing a task, or closing the broker, lets runtimes and clients go     *)
(* and keeps every session.                                                  *)
LEMMA ReleaseInv ==
  ASSUME BrokerInv, NEW gone \in SUBSET Tasks,
         active' = active \ gone,
         client' = [t \in Tasks |-> client[t] /\ t \notin gone],
         UNCHANGED <<treeVars, phase, requestVars, runtimeVars>>
  PROVE  BrokerInv'
<1> USE DEF treeVars, requestVars, runtimeVars
<1>1. SessionsMatchPhase' /\ ParentsOlder' /\ ChildCountExact'
  BY TreeUnchanged
<1>2. TypeOK'
  BY DEF BrokerInv, TypeOK
<1>3. RuntimesRegistered'
  BY DEF BrokerInv, RuntimesRegistered
<1>4. ClientIffActive'
  BY DEF BrokerInv, ClientIffActive
<1>5. QED
  BY <1>1, <1>2, <1>3, <1>4 DEF BrokerInv

LEMMA FinishInv ==
  ASSUME BrokerInv, NEW t \in Tasks, FinishTask(t)
  PROVE  BrokerInv'
<1>1. client' = [u \in Tasks |-> client[u] /\ u \notin ({t} \cap active)]
  BY DEF FinishTask, BrokerInv, TypeOK
<1>2. active' = active \ ({t} \cap active)
  BY DEF FinishTask
<1>3. {t} \cap active \in SUBSET Tasks
  OBVIOUS
<1>4. QED
  BY <1>1, <1>2, <1>3, ReleaseInv DEF FinishTask

LEMMA CloseInv ==
  ASSUME BrokerInv, CloseBroker
  PROVE  BrokerInv'
<1>1. active \in SUBSET Tasks /\ active' = active \ active
  BY DEF CloseBroker, BrokerInv, TypeOK
<1>2. QED
  BY <1>1, ReleaseInv DEF CloseBroker

(* The runtime's own methods.                                                *)
LEMMA RuntimeInv ==
  ASSUME BrokerInv, NEW t \in Tasks, RuntimeStep(t),
         NEW turn \in BOOLEAN, turnActive' = [turnActive EXCEPT ![t] = turn],
         NEW open \in BOOLEAN, pending' = [pending EXCEPT ![t] = open]
  PROVE  BrokerInv'
<1> USE DEF RuntimeStep, requestVars, treeVars
<1>1. SessionsMatchPhase' /\ ParentsOlder' /\ ChildCountExact'
  BY TreeUnchanged
<1>2. TypeOK'
  BY DEF BrokerInv, TypeOK
<1>3. RuntimesRegistered' /\ ClientIffActive'
  BY DEF BrokerInv, TypeOK, RuntimesRegistered, ClientIffActive
<1>4. QED
  BY <1>1, <1>2, <1>3 DEF BrokerInv

(* The session leaves the tree: its parent, if it is still there, loses one  *)
(* child, and its own children keep a parent that is no longer registered.   *)
LEMMA DiscardInv ==
  ASSUME BrokerInv, NEW t \in Tasks, DiscardTask(t)
  PROVE  BrokerInv'
<1> USE DEF requestVars, runtimeVars
<1>0. CASE t \notin active /\ UNCHANGED brokerVars
  BY <1>0 DEF brokerVars, BrokerInv, TypeOK, SessionsMatchPhase, RuntimesRegistered,
              ParentsOlder, ClientIffActive, ChildCountExact, Children
<1>1. CASE t \in active /\ ~ (t \notin active)
  <2>a. /\ TypeOK /\ phase[t] = "registered" /\ context[t] \in Contexts
        /\ t \in sessions[context[t]]
    BY <1>1 DEF BrokerInv, RuntimesRegistered, SessionsMatchPhase
  <2>1. TypeOK'
    <3>1. childCount' \in [Tasks -> Nat]
      BY <1>1, <2>a DEF DiscardTask, UncountChild, TypeOK
    <3>2. sessions' \in [Contexts -> SUBSET Tasks]
      BY <1>1, <2>a DEF DiscardTask, TypeOK
    <3>3. \A d \in Contexts : IsFiniteSet(sessions'[d])
      BY <1>1, <2>a, FS_RemoveElement DEF DiscardTask, TypeOK
    <3>4. phase' \in [Tasks -> Phases] /\ active' \in SUBSET Tasks
      BY <1>1, <2>a DEF DiscardTask, TypeOK, Phases
    <3>5. client' \in [Tasks -> BOOLEAN]
      BY <1>1, <2>a DEF DiscardTask, TypeOK
    <3>6. UNCHANGED <<startedAt, clock, context, reference, parent, turnActive, pending>>
      BY <1>1 DEF DiscardTask
    <3>7. QED
      BY <2>a, <3>1, <3>2, <3>3, <3>4, <3>5, <3>6 DEF TypeOK
  <2>2. SessionsMatchPhase'
    BY <1>1, <2>a DEF DiscardTask, BrokerInv, SessionsMatchPhase, TypeOK
  <2>3. RuntimesRegistered'
    BY <1>1, <2>a DEF DiscardTask, UncountChild, BrokerInv, RuntimesRegistered, TypeOK
  <2>4. ParentsOlder'
    BY <1>1, <2>a DEF DiscardTask, BrokerInv, ParentsOlder, TypeOK
  <2>5. ClientIffActive'
    BY <1>1, <2>a DEF DiscardTask, BrokerInv, ClientIffActive, TypeOK
  <2>6. ChildCountExact'
    <3> SUFFICES ASSUME NEW d \in Contexts, NEW u \in sessions'[d]
                 PROVE  childCount'[u] = Cardinality(Children(u)')
      BY DEF ChildCountExact
    <3>1. u \in Tasks /\ u \in sessions[d] /\ context[u] = d /\ u # t
      BY <1>1, <2>a DEF DiscardTask, BrokerInv, SessionsMatchPhase, TypeOK
    <3>2. childCount[u] = Cardinality(Children(u)) /\ IsFiniteSet(Children(u))
      <4>1. IsFiniteSet(sessions[d]) /\ Children(u) \in SUBSET sessions[d]
        BY <2>a, <3>1 DEF TypeOK, Children
      <4>2. IsFiniteSet(Children(u))
        BY <4>1, FS_Subset
      <4>3. QED
        BY <3>1, <4>2 DEF BrokerInv, ChildCountExact
    <3>3. CASE u \in ParentOf(t)
      <4>1. parent[t] = u /\ context[t] = d
        BY <2>a, <3>1, <3>3 DEF ParentOf, BrokerInv, SessionsMatchPhase
      <4>2. Children(u)' = Children(u) \ {t} /\ t \in Children(u)
        BY <1>1, <2>a, <3>1, <4>1 DEF DiscardTask, Children, TypeOK
      <4>3. Cardinality(Children(u)') = childCount[u] - 1
        BY <3>2, <4>2, FS_RemoveElement
      <4>4. Cardinality(Children(u)') \in Nat
        BY <3>2, <4>2, FS_RemoveElement, FS_CardinalityType
      <4>5. childCount[u] \in Nat
        BY <2>a, <3>1 DEF TypeOK
      <4>6. childCount'[u] = childCount[u] - 1
        BY <1>1, <3>1, <3>3, <4>3, <4>4, <4>5 DEF DiscardTask, UncountChild
      <4>7. QED
        BY <4>3, <4>6
    <3>4. CASE u \notin ParentOf(t)
      <4>1. parent[t] # u \/ context[t] # d
        BY <3>1, <3>4 DEF ParentOf
      <4>2. Children(u)' = Children(u)
        BY <1>1, <2>a, <3>1, <4>1 DEF DiscardTask, Children, TypeOK
      <4>3. childCount'[u] = childCount[u]
        BY <1>1, <3>1, <3>4 DEF DiscardTask, UncountChild
      <4>4. QED
        BY <3>2, <4>2, <4>3
    <3>5. QED
      BY <3>3, <3>4
  <2>7. QED
    BY <2>1, <2>2, <2>3, <2>4, <2>5, <2>6 DEF BrokerInv
<1>2. QED
  BY <1>0, <1>1 DEF DiscardTask

LEMMA BrokerNextInv == BrokerInv /\ [BrokerNext]_brokerVars => BrokerInv'
<1> SUFFICES ASSUME BrokerInv, [BrokerNext]_brokerVars PROVE BrokerInv'
  OBVIOUS
<1>1. ASSUME NEW t \in Tasks, NEW c \in Contexts, NEW refs \in References,
             Resolve(t, c, refs)
      PROVE  BrokerInv'
  BY <1>1, ResolveInv
<1>2. ASSUME NEW t \in Tasks, NEW c \in Contexts, NEW refs \in References,
             ResolveRejected(t, c, refs)
      PROVE  BrokerInv'
  BY <1>2, FailureInv DEF ResolveRejected
<1>3. ASSUME NEW t \in Tasks, StartFails(t) PROVE BrokerInv'
  BY <1>3, FailureInv DEF StartFails
<1>4. ASSUME NEW t \in Tasks, RegisterTask(t) PROVE BrokerInv'
  BY <1>4, RegisterInv
<1>5. ASSUME NEW t \in Tasks, FinishTask(t) PROVE BrokerInv'
  BY <1>5, FinishInv
<1>6. ASSUME NEW t \in Tasks, DiscardTask(t) PROVE BrokerInv'
  BY <1>6, DiscardInv
<1>7. ASSUME NEW t \in Tasks,
             \/ StartTurn(t) \/ FinishTurnForNextMessage(t)
             \/ SetPending(t) \/ ClearPending(t)
      PROVE  BrokerInv'
  <2>1. RuntimeStep(t)
    BY <1>7 DEF StartTurn, FinishTurnForNextMessage, SetPending, ClearPending
  <2>2. \E turn, open \in BOOLEAN :
           /\ turnActive' = [turnActive EXCEPT ![t] = turn]
           /\ pending' = [pending EXCEPT ![t] = open]
    <3>1. /\ turnActive = [turnActive EXCEPT ![t] = turnActive[t]]
          /\ pending = [pending EXCEPT ![t] = pending[t]]
          /\ turnActive[t] \in BOOLEAN /\ pending[t] \in BOOLEAN
      BY DEF BrokerInv, TypeOK
    <3>2. QED
      BY <1>7, <3>1 DEF StartTurn, FinishTurnForNextMessage, SetPending, ClearPending
  <2>3. QED
    BY <2>1, <2>2, RuntimeInv
<1>8. CASE CloseBroker
  BY <1>8, CloseInv
<1>9. CASE UNCHANGED brokerVars
  BY <1>9 DEF brokerVars, BrokerInv, TypeOK, SessionsMatchPhase, RuntimesRegistered,
              ParentsOlder, ClientIffActive, ChildCountExact, Children
<1>10. QED
  BY <1>1, <1>2, <1>3, <1>4, <1>5, <1>6, <1>7, <1>8, <1>9 DEF BrokerNext

(* TypeOK and the exactness of taskSession.childCount hold in every state of *)
(* the broker, whatever its callers do (broker.go:306-405).                  *)
THEOREM BrokerInvariant == BrokerSpec => []BrokerInv
<1>1. BrokerInit => BrokerInv
  BY BrokerInitInv
<1>2. BrokerInv /\ [BrokerNext]_brokerVars => BrokerInv'
  BY BrokerNextInv
<1>3. QED
  BY <1>1, <1>2, PTL DEF BrokerSpec

(* The broker's maps keep their types, childCount among the naturals         *)
(* (broker.go:153-178, 386).                                                 *)
THEOREM BrokerTypeCorrect == BrokerSpec => []TypeOK
<1>1. BrokerInv => TypeOK
  BY DEF BrokerInv
<1>2. QED
  BY <1>1, BrokerInvariant, PTL

(* Every registered session's childCount is the number of registered         *)
(* sessions forked from it (broker.go:340-345, 385-390).                     *)
THEOREM ChildCountsAreExact == BrokerSpec => []ChildCountExact
<1>1. BrokerInv => ChildCountExact
  BY DEF BrokerInv
<1>2. QED
  BY <1>1, BrokerInvariant, PTL

(* A registered runtime has its client and a dropped one has none            *)
(* (broker.go:378-400, 416-426).                                             *)
THEOREM ClientsFollowRuntimes == BrokerSpec => []ClientIffActive
<1>1. BrokerInv => ClientIffActive
  BY DEF BrokerInv
<1>2. QED
  BY <1>1, BrokerInvariant, PTL

(* A fork point was registered before its forks and in their context, so     *)
(* ParentTaskID has no cycle (broker.go:314-347).                            *)
THEOREM ForkPointsAreOlder == BrokerSpec => []ParentsOlder
<1>1. BrokerInv => ParentsOlder
  BY DEF BrokerInv
<1>2. QED
  BY <1>1, BrokerInvariant, PTL

(* Every nonempty set of sessions has one that was registered last.          *)
LEMMA YoungestExists ==
  ASSUME TypeOK, ParentsOlder, NEW S, S \subseteq Tasks, S # {},
         \A t \in S : phase[t] = "registered"
  PROVE  \E t \in S : \A u \in S : startedAt[u] <= startedAt[t]
<1> DEFINE age(t) == clock - startedAt[t]
           ages == {age(t) : t \in S}
           R == {ss \in Nat \X Nat : ss[1] < ss[2]}
<1>1. \A t \in S : age(t) \in Nat
  BY DEF TypeOK, ParentsOlder
<1>2. ages \subseteq Nat /\ ages # {}
  BY <1>1
<1>3. IsWellFoundedOn(R, Nat)
  BY NatLessThanWellFounded DEF OpToRel
<1>4. PICK m \in ages : \A a \in ages : <<a, m>> \notin R
  <2> HIDE DEF ages, R
  <2> QED BY <1>2, <1>3, WFMin
<1>5. PICK t \in S : m = age(t)
  OBVIOUS
<1>6. ASSUME NEW u \in S PROVE startedAt[u] <= startedAt[t]
  <2>1. ~ (age(u) < age(t))
    BY <1>1, <1>4, <1>5
  <2>2. startedAt[u] \in Nat /\ startedAt[t] \in Nat /\ clock \in Nat
    BY DEF TypeOK
  <2>3. QED
    BY <2>1, <2>2
<1>7. QED
  BY <1>6

(* The session registered last in a context has no child there, so its       *)
(* counter is zero.                                                          *)
LEMMA LeafExists == BrokerInv => NonEmptyContextHasLeaf
<1> SUFFICES ASSUME BrokerInv, NEW c \in Contexts, sessions[c] # {}
             PROVE  Leaves(c) # {}
  BY DEF NonEmptyContextHasLeaf
<1>1. /\ sessions[c] \subseteq Tasks
      /\ \A t \in sessions[c] : phase[t] = "registered" /\ context[t] = c
  BY DEF BrokerInv, TypeOK, SessionsMatchPhase
<1>2. PICK t \in sessions[c] : \A u \in sessions[c] : startedAt[u] <= startedAt[t]
  BY <1>1, YoungestExists DEF BrokerInv
<1>3. ASSUME NEW u \in sessions[c] PROVE parent[u] # t
  <2>1. startedAt[u] \in Nat /\ startedAt[t] \in Nat /\ t # NoTask
    BY <1>1 DEF BrokerInv, TypeOK
  <2>2. parent[u] = t => startedAt[t] < startedAt[u]
    BY <1>1, <2>1 DEF BrokerInv, ParentsOlder
  <2>3. QED
    BY <1>2, <2>1, <2>2
<1>4. Children(t) = {}
  BY <1>1, <1>3 DEF Children
<1>5. childCount[t] = 0
  BY <1>4, FS_EmptySet DEF BrokerInv, ChildCountExact
<1>6. QED
  BY <1>5 DEF Leaves

(* No context with sessions is ever without a leaf, so the (nil, nil) at the *)
(* end of resolveBaseSession's loop never opens a second thread in a context *)
(* that already has one (broker.go:290-303).                                 *)
THEOREM ContextsHaveLeaves == BrokerSpec => []NonEmptyContextHasLeaf
  BY LeafExists, BrokerInvariant, PTL

(* The counters find exactly the tips of the family.                         *)
LEMMA LeavesAreTips ==
  ASSUME BrokerInv, NEW c \in Contexts
  PROVE  Leaves(c) = Forest!Tips(c)
<1> SUFFICES ASSUME NEW t \in sessions[c]
             PROVE  childCount[t] = 0 <=> \A u \in sessions[c] : parent[u] # t
  BY DEF Leaves, Forest!Tips
<1>1. /\ context[t] = c /\ IsFiniteSet(sessions[c])
      /\ childCount[t] = Cardinality(Children(t))
  BY DEF BrokerInv, TypeOK, SessionsMatchPhase, ChildCountExact
<1>2. Children(t) \in SUBSET sessions[c]
  BY <1>1 DEF Children
<1>3. IsFiniteSet(Children(t))
  BY <1>1, <1>2, FS_Subset
<1>4. Cardinality(Children(t)) = 0 <=> Children(t) = {}
  BY <1>3, FS_EmptySet
<1>5. QED
  BY <1>1, <1>4 DEF Children

(* What a member is and whom it blocks, in the abstract state.               *)
LEMMA ForestStep ==
  ASSUME BrokerInv, BrokerInv', [BrokerNext]_brokerVars
  PROVE  [Forest!Next]_(Forest!vars)
<1> DEFINE stage == [t \in Tasks |-> Stage(t)]
<1>0. TypeOK /\ TypeOK'
  BY DEF BrokerInv
<1>1. ASSUME NEW t \in Tasks, NEW c \in Contexts, NEW refs \in References,
             Resolve(t, c, refs)
      PROVE  Forest!Next
  <2>1. PICK p \in Tasks \cup {NoTask} :
          /\ \/ p = NoTask /\ ResolvesFresh(c, refs)
             \/ p # NoTask /\ ResolvesTo(c, refs, p)
          /\ parent' = [parent EXCEPT ![t] = p]
    BY <1>1 DEF Resolve
  <2> DEFINE r == IF refs = <<>> THEN NoTask ELSE refs[1]
  <2>2. r \in Tasks \cup {NoTask}
    BY DEF References
  <2>3. stage[t] = "new" /\ stage' = [stage EXCEPT ![t] = "chosen"]
    BY <1>0, <1>1 DEF Resolve, Stage, TypeOK
  <2>4. BusyTasks' = BusyTasks
    BY <1>1 DEF Resolve, BusyTasks, BlocksBranching, runtimeVars
  <2>5. \/ sessions[c] = {} /\ r = NoTask /\ p = NoTask
        \/ p \in Forest!ForkPoints(c, r)
    <3>1. CASE p = NoTask /\ ResolvesFresh(c, refs)
      BY <3>1, LeafExists DEF ResolvesFresh, NonEmptyContextHasLeaf
    <3>2. CASE p # NoTask /\ ResolvesTo(c, refs, p)
      <4>1. p \in sessions[c] \ BusyTasks
        BY <3>2 DEF ResolvesTo, BusyTasks
      <4>2. CASE refs = <<p>>
        BY <3>2, <4>1, <4>2 DEF Forest!ForkPoints
      <4>3. CASE refs = <<>> /\ Leaves(c) = {p}
        BY <4>1, <4>3, LeavesAreTips DEF Forest!ForkPoints
      <4>4. QED
        BY <3>2, <4>2, <4>3 DEF ResolvesTo
    <3>3. QED
      BY <2>1, <3>1, <3>2
  <2>6. /\ context' = [context EXCEPT ![t] = c]
        /\ reference' = [reference EXCEPT ![t] = r]
        /\ sessions' = sessions
    BY <1>1 DEF Resolve, treeVars
  <2>7. Forest!Choose(t, c, r, p)
    BY <2>1, <2>3, <2>4, <2>5, <2>6 DEF Forest!Choose
  <2>8. QED
    BY <2>2, <2>7 DEF Forest!Next
<1>2. ASSUME NEW t \in Tasks, phase[t] \in {"new", "resolved"},
             phase' = [phase EXCEPT ![t] = "failed"],
             UNCHANGED <<treeVars, active, client, runtimeVars, requestVars>>
      PROVE  Forest!Next
  <2> USE DEF treeVars, runtimeVars, requestVars
  <2>1. stage' = [stage EXCEPT ![t] = "gone"]
    BY <1>0, <1>2 DEF Stage, TypeOK
  <2>2. \A c \in Contexts : t \notin sessions[c]
    BY <1>2 DEF BrokerInv, SessionsMatchPhase
  <2>3. sessions' = [c \in Contexts |-> sessions[c] \ {t}]
    BY <1>0, <1>2, <2>2 DEF TypeOK
  <2>4. BusyTasks' = BusyTasks \ {t}
    BY <1>2 DEF BusyTasks, BlocksBranching, BrokerInv, RuntimesRegistered
  <2>5. Forest!Leave(t)
    BY <1>2, <2>1, <2>3, <2>4 DEF Forest!Leave
  <2>6. QED
    BY <2>5 DEF Forest!Next
<1>3. ASSUME NEW t \in Tasks, RegisterTask(t) PROVE Forest!Next
  <2>1. stage[t] = "chosen" /\ stage' = [stage EXCEPT ![t] = "member"]
    BY <1>0, <1>3 DEF RegisterTask, Stage, TypeOK
  <2>2. BusyTasks' = BusyTasks
    BY <1>3 DEF RegisterTask, BusyTasks, BlocksBranching, runtimeVars,
                BrokerInv, RuntimesRegistered
  <2>3. Forest!Join(t)
    BY <1>3, <2>1, <2>2 DEF RegisterTask, Forest!Join, requestVars
  <2>4. QED
    BY <2>3 DEF Forest!Next
<1>4. ASSUME UNCHANGED <<sessions, phase, context, reference, parent>>
      PROVE  Forest!Next
  <2>1. stage' = stage
    BY <1>4 DEF Stage
  <2>2. BusyTasks' \in SUBSET {t \in Tasks : stage[t] = "member"}
    <3>1. \A t \in BusyTasks' : t \in Tasks /\ phase'[t] = "registered"
      BY DEF BusyTasks, BlocksBranching, BrokerInv, RuntimesRegistered
    <3>2. QED
      BY <1>4, <3>1 DEF Stage
  <2>3. Forest!Work
    BY <1>4, <2>1, <2>2 DEF Forest!Work
  <2>4. QED
    BY <2>3 DEF Forest!Next
<1>5. ASSUME NEW t \in Tasks, DiscardTask(t), t \in active
      PROVE  Forest!Next
  <2>1. stage' = [stage EXCEPT ![t] = "gone"]
    BY <1>0, <1>5 DEF DiscardTask, Stage, TypeOK
  <2>2. \A c \in Contexts : c # context[t] => t \notin sessions[c]
    BY <1>5 DEF BrokerInv, SessionsMatchPhase
  <2>3. sessions' = [c \in Contexts |-> sessions[c] \ {t}]
    BY <1>0, <1>5, <2>2 DEF DiscardTask, TypeOK
  <2>4. BusyTasks' = BusyTasks \ {t}
    BY <1>5 DEF DiscardTask, BusyTasks, BlocksBranching, runtimeVars
  <2>5. Forest!Leave(t)
    BY <1>5, <2>1, <2>3, <2>4 DEF DiscardTask, Forest!Leave, requestVars
  <2>6. QED
    BY <2>5 DEF Forest!Next
<1>6. QED
  <2>1. ASSUME NEW t \in Tasks, NEW c \in Contexts, NEW refs \in References,
               Resolve(t, c, refs) \/ ResolveRejected(t, c, refs)
        PROVE  Forest!Next
    BY <1>1, <1>2, <2>1 DEF ResolveRejected
  <2>2. ASSUME NEW t \in Tasks, StartFails(t) \/ RegisterTask(t)
        PROVE  Forest!Next
    BY <1>2, <1>3, <2>2 DEF StartFails
  <2>3. ASSUME NEW t \in Tasks,
               \/ FinishTask(t) \/ StartTurn(t) \/ FinishTurnForNextMessage(t)
               \/ SetPending(t) \/ ClearPending(t)
        PROVE  Forest!Next
    BY <1>4, <2>3 DEF FinishTask, StartTurn, FinishTurnForNextMessage, SetPending,
                      ClearPending, RuntimeStep, treeVars, requestVars
  <2>4. ASSUME NEW t \in Tasks, DiscardTask(t) PROVE Forest!Next
    BY <1>4, <1>5, <2>4 DEF DiscardTask, brokerVars
  <2>5. CASE CloseBroker
    BY <1>4, <2>5 DEF CloseBroker, treeVars, requestVars
  <2>6. CASE UNCHANGED brokerVars
    BY <1>4, <2>6 DEF brokerVars
  <2>7. QED
    BY <2>1, <2>2, <2>3, <2>4, <2>5, <2>6 DEF BrokerNext

(* The broker implements the abstract session family: whatever interleaving  *)
(* of forks, registrations, discards and Close, a thread is opened only in   *)
(* an empty context and forked only from the referenced idle session or the  *)
(* only tip (broker.go:263-405).                                             *)
THEOREM BrokerImplementsForest == BrokerSpec => ImplementsForest
<1>1. BrokerInit => Forest!Init
  BY DEF BrokerInit, Forest!Init, Stage, BusyTasks, BlocksBranching
<1>2. BrokerInv /\ BrokerInv' /\ [BrokerNext]_brokerVars => [Forest!Next]_(Forest!vars)
  BY ForestStep
<1>3. QED
  BY <1>1, <1>2, BrokerInvariant, PTL DEF BrokerSpec, ImplementsForest, Forest!Spec

----------------------------------------------------------------------------
(* A thread is what startTask registered, finished or discarded since.       *)
IsThread(t) == phase[t] \in {"registered", "discarded"}

(* What ParentsOlder says of the sessions still registered also holds of the *)
(* discarded ones: their ParentTaskID still names an older thread.           *)
ForksOfThreads ==
  \A t \in Tasks : IsThread(t) /\ parent[t] # NoTask =>
    /\ IsThread(parent[t])
    /\ context[parent[t]] = context[t]
    /\ startedAt[parent[t]] < startedAt[t]

LEMMA ForksOfThreadsStep ==
  ASSUME BrokerInv, BrokerInv', ForksOfThreads, [BrokerNext]_brokerVars
  PROVE  ForksOfThreads'
<1> USE DEF treeVars, runtimeVars, requestVars
<1>0. TypeOK /\ ParentsOlder /\ ParentsOlder'
  BY DEF BrokerInv
<1>1. ASSUME NEW t \in Tasks, NEW c \in Contexts, NEW refs \in References,
             Resolve(t, c, refs)
      PROVE  ForksOfThreads'
  <2>1. \A u \in Tasks : u # t =>
          parent'[u] = parent[u] /\ context'[u] = context[u] /\ phase'[u] = phase[u]
    BY <1>0, <1>1 DEF Resolve, TypeOK
  <2>2. phase[t] = "new" /\ phase'[t] = "resolved" /\ startedAt' = startedAt
    BY <1>0, <1>1 DEF Resolve, TypeOK
  <2>3. QED
    BY <1>0, <2>1, <2>2 DEF ForksOfThreads, IsThread, TypeOK
<1>2. ASSUME NEW t \in Tasks, phase[t] \in {"new", "resolved"},
             phase' = [phase EXCEPT ![t] = "failed"],
             UNCHANGED <<parent, context, startedAt>>
      PROVE  ForksOfThreads'
  BY <1>0, <1>2 DEF ForksOfThreads, IsThread, TypeOK
<1>3. ASSUME NEW t \in Tasks, RegisterTask(t) PROVE ForksOfThreads'
  <2>1. \A u \in Tasks : u # t => phase'[u] = phase[u] /\ startedAt'[u] = startedAt[u]
    BY <1>0, <1>3 DEF RegisterTask, TypeOK
  <2>2. /\ phase[t] = "resolved" /\ phase'[t] = "registered"
        /\ UNCHANGED <<parent, context>>
    BY <1>0, <1>3 DEF RegisterTask, TypeOK
  <2>3. parent[t] # NoTask =>
          IsThread(parent[t])' /\ context'[parent[t]] = context'[t]
          /\ startedAt'[parent[t]] < startedAt'[t]
    BY <1>0, <2>2 DEF ParentsOlder, IsThread
  <2>4. \A u \in Tasks : IsThread(u) => u # t /\ IsThread(u)'
    BY <2>1, <2>2 DEF IsThread
  <2>5. QED
    BY <1>0, <2>1, <2>2, <2>3, <2>4 DEF ForksOfThreads, IsThread, TypeOK
<1>4. ASSUME UNCHANGED <<phase, parent, context, startedAt>>
      PROVE  ForksOfThreads'
  BY <1>4 DEF ForksOfThreads, IsThread
<1>5. ASSUME NEW t \in Tasks, DiscardTask(t) PROVE ForksOfThreads'
  <2>1. CASE t \in active
    <3>1. UNCHANGED <<parent, context, startedAt>>
      BY <2>1, <1>5 DEF DiscardTask
    <3>2. \A u \in Tasks : IsThread(u)' = IsThread(u)
      BY <1>0, <2>1, <1>5 DEF DiscardTask, IsThread, TypeOK, BrokerInv, RuntimesRegistered
    <3>3. QED
      BY <1>0, <3>1, <3>2 DEF ForksOfThreads, TypeOK
  <2>2. QED
    BY <1>4, <1>5, <2>1 DEF DiscardTask, brokerVars
<1>6. QED
  <2>1. ASSUME NEW t \in Tasks, NEW c \in Contexts, NEW refs \in References,
               Resolve(t, c, refs) \/ ResolveRejected(t, c, refs)
        PROVE  ForksOfThreads'
    BY <1>1, <1>2, <2>1 DEF ResolveRejected
  <2>2. ASSUME NEW t \in Tasks, StartFails(t) \/ RegisterTask(t)
        PROVE  ForksOfThreads'
    BY <1>2, <1>3, <2>2 DEF StartFails
  <2>3. ASSUME NEW t \in Tasks,
               \/ FinishTask(t) \/ StartTurn(t) \/ FinishTurnForNextMessage(t)
               \/ SetPending(t) \/ ClearPending(t)
        PROVE  ForksOfThreads'
    BY <1>4, <2>3 DEF FinishTask, StartTurn, FinishTurnForNextMessage, SetPending,
                      ClearPending, RuntimeStep
  <2>4. ASSUME CloseBroker \/ UNCHANGED brokerVars PROVE ForksOfThreads'
    BY <1>4, <2>4 DEF CloseBroker, brokerVars
  <2>5. QED
    BY <1>5, <2>1, <2>2, <2>3, <2>4 DEF BrokerNext

LEMMA ForksInvariant == BrokerSpec => []ForksOfThreads
<1>1. BrokerInit => ForksOfThreads
  BY DEF BrokerInit, ForksOfThreads, IsThread
<1>2. BrokerInv /\ BrokerInv' /\ ForksOfThreads /\ [BrokerNext]_brokerVars
        => ForksOfThreads'
  BY ForksOfThreadsStep
<1>3. QED
  BY <1>1, <1>2, BrokerInvariant, PTL DEF BrokerSpec

(* f lists thread t, the thread it was forked from, and so on to one that    *)
(* was opened afresh: all of one context, each older than the one before.    *)
History(t, n, f) ==
  /\ f[1] = t
  /\ parent[f[n]] = NoTask
  /\ \A i \in 1..n : IsThread(f[i]) /\ context[f[i]] = context[t]
  /\ \A i \in 1..n - 1 :
       parent[f[i]] = f[i + 1] /\ startedAt[f[i + 1]] < startedAt[f[i]]

Lengths == Nat \ {0}

HasHistory(t) == \E n \in Lengths : \E f \in [1..n -> Tasks] : History(t, n, f)

ThreadsHaveHistories == \A t \in Tasks : IsThread(t) => HasHistory(t)

(* The history of a fork is the fork followed by its parent's.               *)
LEMMA HistoryExtends ==
  ASSUME TypeOK, ForksOfThreads, NEW t \in Tasks, IsThread(t),
         parent[t] # NoTask, HasHistory(parent[t])
  PROVE  HasHistory(t)
<1>1. /\ parent[t] \in Tasks /\ context[parent[t]] = context[t]
      /\ startedAt[parent[t]] < startedAt[t]
  BY DEF TypeOK, ForksOfThreads
<1>a. PICK n \in Lengths : \E f \in [1..n -> Tasks] : History(parent[t], n, f)
  BY DEF HasHistory
<1>2. PICK f \in [1..n -> Tasks] : History(parent[t], n, f)
  BY <1>a
<1> DEFINE g == [i \in 1..n + 1 |-> IF i = 1 THEN t ELSE f[i - 1]]
<1>3. n \in Nat /\ n >= 1 /\ n + 1 \in Lengths
  BY DEF Lengths
<1>4. g \in [1..n + 1 -> Tasks]
  BY <1>3
<1>5. /\ g[1] = t
      /\ \A i \in 1..n : i + 1 \in 1..n + 1 /\ g[i + 1] = f[i]
      /\ \A i \in 1..n + 1 : i # 1 => i - 1 \in 1..n /\ g[i] = f[i - 1]
  BY <1>3
<1> HIDE DEF g
<1>6. parent[g[n + 1]] = NoTask
  BY <1>2, <1>3, <1>5 DEF History
<1>7. ASSUME NEW i \in 1..n + 1
      PROVE  IsThread(g[i]) /\ context[g[i]] = context[t]
  BY <1>1, <1>2, <1>5 DEF History
<1>8. ASSUME NEW i \in 1..(n + 1) - 1
      PROVE  parent[g[i]] = g[i + 1] /\ startedAt[g[i + 1]] < startedAt[g[i]]
  <2>1. i \in 1..n /\ g[i + 1] = f[i]
    BY <1>3, <1>5
  <2>2. CASE i = 1
    BY <1>1, <1>2, <1>5, <2>1, <2>2 DEF History
  <2>3. CASE i # 1
    <3>1. i - 1 \in 1..n - 1 /\ g[i] = f[i - 1] /\ (i - 1) + 1 = i
      BY <1>3, <1>5, <2>1, <2>3
    <3>2. parent[f[i - 1]] = f[i] /\ startedAt[f[i]] < startedAt[f[i - 1]]
      BY <1>2, <3>1 DEF History
    <3>3. QED
      BY <2>1, <3>1, <3>2
  <2>4. QED
    BY <2>2, <2>3
<1>9. History(t, n + 1, g)
  BY <1>5, <1>6, <1>7, <1>8 DEF History
<1>10. QED
  BY <1>3, <1>4, <1>9 DEF HasHistory

(* No oldest thread can be without a history.                                *)
LEMMA HistoriesExist ==
  ASSUME TypeOK, ForksOfThreads
  PROVE  ThreadsHaveHistories
<1> SUFFICES ASSUME ~ ThreadsHaveHistories PROVE FALSE
  OBVIOUS
<1> DEFINE lost == {t \in Tasks : IsThread(t) /\ ~ HasHistory(t)}
           ages == {startedAt[t] : t \in lost}
           R == {ss \in Nat \X Nat : ss[1] < ss[2]}
<1>1. ages \subseteq Nat /\ ages # {}
  BY DEF TypeOK, ThreadsHaveHistories
<1>2. IsWellFoundedOn(R, Nat)
  BY NatLessThanWellFounded DEF OpToRel
<1>3. PICK m \in ages : \A a \in ages : <<a, m>> \notin R
  <2> HIDE DEF ages, R
  <2> QED BY <1>1, <1>2, WFMin
<1>4. PICK t \in lost : m = startedAt[t]
  OBVIOUS
<1>5. t \in Tasks /\ IsThread(t) /\ ~ HasHistory(t)
  OBVIOUS
<1>6. CASE parent[t] = NoTask
  <2> DEFINE f == [i \in 1..1 |-> t]
  <2>1. f \in [1..1 -> Tasks] /\ 1 \in Lengths
    BY <1>5 DEF Lengths
  <2>2. \A i \in 1..1 : f[i] = t
    OBVIOUS
  <2> HIDE DEF f
  <2>3. History(t, 1, f)
    BY <1>5, <1>6, <2>2 DEF History
  <2>4. QED
    BY <1>5, <2>1, <2>3 DEF HasHistory
<1>7. CASE parent[t] # NoTask
  <2>1. /\ parent[t] \in Tasks /\ IsThread(parent[t])
        /\ startedAt[parent[t]] < startedAt[t]
    BY <1>5, <1>7 DEF TypeOK, ForksOfThreads
  <2>2. parent[t] \notin lost
    <3>1. startedAt[parent[t]] \in Nat /\ startedAt[t] \in Nat
      BY <1>5, <2>1 DEF TypeOK
    <3>2. <<startedAt[parent[t]], m>> \in R
      BY <1>4, <2>1, <3>1
    <3>3. startedAt[parent[t]] \notin ages
      BY <1>3, <3>2
    <3>4. QED
      BY <3>3
  <2>3. HasHistory(parent[t])
    BY <2>1, <2>2
  <2>4. QED
    BY <1>5, <1>7, <2>3, HistoryExtends
<1>8. QED
  BY <1>6, <1>7

(* Every thread, discarded ones included, comes by finitely many forks from  *)
(* one that was opened afresh, through older threads of its own context:     *)
(* following ParentTaskID always ends, and never leaves the A2A context      *)
(* (broker.go:263-349).                                                      *)
THEOREM EveryThreadHasAHistory == BrokerSpec => []ThreadsHaveHistories
<1>1. BrokerInv /\ ForksOfThreads => ThreadsHaveHistories
  BY HistoriesExist DEF BrokerInv
<1>2. QED
  BY <1>1, BrokerInvariant, ForksInvariant, PTL

(* The fork records of a thread, which nothing changes any more.             *)
SameThread(t) ==
  /\ IsThread(t)' /\ parent'[t] = parent[t]
  /\ context'[t] = context[t] /\ startedAt'[t] = startedAt[t]

LEMMA ThreadStands ==
  ASSUME BrokerInv, [BrokerNext]_brokerVars, NEW t \in Tasks, IsThread(t)
  PROVE  SameThread(t)
<1> USE DEF treeVars, runtimeVars, requestVars, IsThread, SameThread
<1>0. TypeOK /\ RuntimesRegistered
  BY DEF BrokerInv
<1>1. ASSUME NEW u \in Tasks, NEW c \in Contexts, NEW refs \in References,
             Resolve(u, c, refs) \/ ResolveRejected(u, c, refs)
      PROVE  SameThread(t)
  BY <1>0, <1>1 DEF Resolve, ResolveRejected, TypeOK
<1>2. ASSUME NEW u \in Tasks, StartFails(u) \/ RegisterTask(u)
      PROVE  SameThread(t)
  BY <1>0, <1>2 DEF StartFails, RegisterTask, TypeOK
<1>3. ASSUME NEW u \in Tasks,
             \/ FinishTask(u) \/ StartTurn(u) \/ FinishTurnForNextMessage(u)
             \/ SetPending(u) \/ ClearPending(u)
      PROVE  SameThread(t)
  BY <1>3 DEF FinishTask, StartTurn, FinishTurnForNextMessage, SetPending,
              ClearPending, RuntimeStep
<1>4. ASSUME NEW u \in Tasks, DiscardTask(u) PROVE SameThread(t)
  BY <1>0, <1>4 DEF DiscardTask, brokerVars, TypeOK
<1>5. ASSUME CloseBroker \/ UNCHANGED brokerVars PROVE SameThread(t)
  BY <1>5 DEF CloseBroker, brokerVars
<1>6. QED
  BY <1>1, <1>2, <1>3, <1>4, <1>5 DEF BrokerNext

HistoriesStand ==
  \A t \in Tasks, n \in Lengths : \A f \in [1..n -> Tasks] :
     History(t, n, f) => History(t, n, f)'

(* No step rewrites the past: what a thread was forked from, and everything  *)
(* behind that, stays as it was when the thread was registered, although the *)
(* sessions it names may be finished, discarded or closed meanwhile          *)
(* (broker.go:306-426).                                                      *)
THEOREM HistoriesNeverChange == BrokerSpec => [][HistoriesStand]_brokerVars
<1>1. ASSUME BrokerInv, [BrokerNext]_brokerVars,
             NEW t \in Tasks, NEW n \in Lengths, NEW f \in [1..n -> Tasks],
             History(t, n, f)
      PROVE  History(t, n, f)'
  <2>0. n \in Nat /\ n >= 1
    BY DEF Lengths
  <2>1. \A i \in 1..n : f[i] \in Tasks /\ SameThread(f[i])
    BY <1>1, ThreadStands DEF History
  <2>2. SameThread(t)
    BY <1>1, <2>0, <2>1 DEF History
  <2>3. \A i \in 1..n - 1 : i \in 1..n /\ i + 1 \in 1..n
    BY <2>0
  <2>4. n \in 1..n
    BY <2>0
  <2>5. f'[1] = t' /\ parent'[f[n]] = NoTask
    BY <1>1, <2>1, <2>4 DEF History, SameThread
  <2>6. \A i \in 1..n : IsThread(f[i])' /\ context'[f[i]] = context'[t]
    BY <1>1, <2>1, <2>2 DEF History, SameThread
  <2>7. \A i \in 1..n - 1 :
          parent'[f[i]] = f[i + 1] /\ startedAt'[f[i + 1]] < startedAt'[f[i]]
    BY <1>1, <2>1, <2>3 DEF History, SameThread
  <2>8. QED
    BY <2>5, <2>6, <2>7 DEF History
<1>2. BrokerInv /\ [BrokerNext]_brokerVars => HistoriesStand
  BY <1>1 DEF HistoriesStand
<1>3. QED
  BY <1>2, BrokerInvariant, PTL DEF BrokerSpec
=============================================================================
