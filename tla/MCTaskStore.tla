---------------------------- MODULE MCTaskStore ----------------------------
(* Two requests and a lister; users are interchangeable.                   *)
EXTENDS TaskStore, TLC

StoreSymmetry == Permutations(Users)

(* Objects nobody points to any more do not tell states apart.             *)
Live ==
  {stored[id].cell : id \in Existing}
  \cup {draft[c].cell : c \in {d \in Callers : draft[d] # Nothing}}
  \cup {getting[c].cell : c \in {d \in Callers : getting[d] # Nothing}}
  \cup (IF walk.at = "loaded" THEN {r.cell : r \in walk.found} ELSE {})
StoreView == <<[x \in Live |-> heap[x]], stored, clock, draft, getting, walk>>
============================================================================
