--------------------------- MODULE SessionForest ---------------------------
(***************************************************************************)
(* What the session broker promises, with none of its bookkeeping: every   *)
(* A2A context holds a family of Codex sessions.  A newcomer either founds *)
(* the family or extends one idle session of it, and a session that nobody *)
(* asked to discard stays available as a fork point for ever.              *)
(*                                                                         *)
(* There is no child counter here: a tip of the family is a member that no *)
(* other member descends from.  Broker.tla keeps a counter instead, and    *)
(* its refinement says the counter never makes it pick anything else.      *)
(***************************************************************************)
CONSTANTS Tasks, Contexts, NoTask, NoContext

VARIABLES
  family,   \* [Contexts -> SUBSET Tasks]: the sessions of each context
  stage,    \* [Tasks -> {"new", "chosen", "member", "gone"}]
  home,     \* the context a task asked to join
  asked,    \* the task its message references, or NoTask
  origin,   \* the session its thread was forked from, or NoTask
  busy      \* members whose turn or open request forbids branching

vars == <<family, stage, home, asked, origin, busy>>

Tips(c) == {t \in family[c] : \A u \in family[c] : origin[u] # t}

(* The session a newcomer to context c must extend when it references r;   *)
(* the set is empty when the request has to be refused.                    *)
ForkPoints(c, r) ==
  IF r # NoTask THEN {p \in family[c] \ busy : p = r}
                ELSE {p \in Tips(c) \ busy : Tips(c) = {p}}

Init ==
  /\ family = [c \in Contexts |-> {}]
  /\ stage = [t \in Tasks |-> "new"]
  /\ home = [t \in Tasks |-> NoContext]
  /\ asked = [t \in Tasks |-> NoTask]
  /\ origin = [t \in Tasks |-> NoTask]
  /\ busy = {}

(* The request is admitted: its origin is fixed from now on.               *)
Choose(t, c, r, p) ==
  /\ stage[t] = "new"
  /\ \/ family[c] = {} /\ r = NoTask /\ p = NoTask
     \/ p \in ForkPoints(c, r)
  /\ stage' = [stage EXCEPT ![t] = "chosen"]
  /\ home' = [home EXCEPT ![t] = c]
  /\ asked' = [asked EXCEPT ![t] = r]
  /\ origin' = [origin EXCEPT ![t] = p]
  /\ UNCHANGED <<family, busy>>

(* Refused, failed before it joined, or removed from its family.           *)
Leave(t) ==
  /\ stage' = [stage EXCEPT ![t] = "gone"]
  /\ family' = [c \in Contexts |-> family[c] \ {t}]
  /\ busy' = busy \ {t}
  /\ UNCHANGED <<home, asked, origin>>

Join(t) ==
  /\ stage[t] = "chosen"
  /\ stage' = [stage EXCEPT ![t] = "member"]
  /\ family' = [family EXCEPT ![home[t]] = @ \cup {t}]
  /\ UNCHANGED <<home, asked, origin, busy>>

(* Turns start and end, and processes stop, for any members at any time.   *)
Work ==
  /\ busy' \in SUBSET {t \in Tasks : stage[t] = "member"}
  /\ UNCHANGED <<family, stage, home, asked, origin>>

Next ==
  \/ \E t \in Tasks, c \in Contexts, r, p \in Tasks \cup {NoTask} :
       Choose(t, c, r, p)
  \/ \E t \in Tasks : Leave(t) \/ Join(t)
  \/ Work

Spec == Init /\ [][Next]_vars
============================================================================
