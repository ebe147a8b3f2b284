---------------------------- MODULE TaskRegister ----------------------------
(***************************************************************************)
(* What the task store promises the requests that use it, without copies,  *)
(* locks or times: a register per task, owned by the user who created it,  *)
(* whose version counts its writes.  A caller writes what it has drafted   *)
(* on top of the version it has, or on top of whatever is there; a read    *)
(* sees one version, and keeps seeing it whatever is written meanwhile.    *)
(***************************************************************************)
EXTENDS Naturals

CONSTANTS
  Callers,   \* the requests in flight
  Blind,     \* those that do not say which version they replace
  Users,
  TaskIDs,
  Statuses,  \* what a task may contain
  Nothing    \* no task, no draft, no read in progress

VARIABLES
  register,  \* the owner, version and content of each task
  draft,     \* the task a caller holds, with the version it came with
  reading    \* the version a caller is being given

vars == <<register, draft, reading>>

Init ==
  /\ register = [id \in TaskIDs |-> Nothing]
  /\ draft = [c \in Callers |-> Nothing]
  /\ reading = [c \in Callers |-> Nothing]

Create(c, id, u, s) ==
  /\ register[id] = Nothing /\ reading[c] = Nothing
  /\ register' = [register EXCEPT ![id] = [owner |-> u, version |-> 1, status |-> s]]
  /\ draft' = [draft EXCEPT ![c] = [id |-> id, version |-> 1, status |-> s]]
  /\ UNCHANGED reading

(* The caller works on its copy, which is nobody else's.                   *)
Edit(c, s) ==
  /\ draft[c] # Nothing
  /\ draft' = [draft EXCEPT ![c].status = s]
  /\ UNCHANGED <<register, reading>>

Write(c, u) ==
  /\ draft[c] # Nothing /\ reading[c] = Nothing
  /\ LET id == draft[c].id
         old == register[id] IN
       /\ old # Nothing /\ old.owner = u
       /\ c \in Blind \/ old.version = draft[c].version
       /\ register' = [register EXCEPT ![id] = [owner |-> u, version |-> old.version + 1,
                                                status |-> draft[c].status]]
       /\ draft' = [draft EXCEPT ![c].version = old.version + 1]
  /\ UNCHANGED reading

Read(c, id, u) ==
  /\ reading[c] = Nothing
  /\ register[id] # Nothing /\ register[id].owner = u
  /\ reading' = [reading EXCEPT ![c] = [id |-> id, version |-> register[id].version,
                                       status |-> register[id].status]]
  /\ draft' = [draft EXCEPT ![c] = Nothing]
  /\ UNCHANGED register

Return(c) ==
  /\ reading[c] # Nothing
  /\ draft' = [draft EXCEPT ![c] = reading[c]]
  /\ reading' = [reading EXCEPT ![c] = Nothing]
  /\ UNCHANGED register

Next ==
  \E c \in Callers :
    \/ \E id \in TaskIDs, u \in Users, s \in Statuses : Create(c, id, u, s)
    \/ \E s \in Statuses : Edit(c, s)
    \/ \E u \in Users : Write(c, u)
    \/ \E id \in TaskIDs, u \in Users : Read(c, id, u)
    \/ Return(c)

Spec == Init /\ [][Next]_vars
=============================================================================
