--------------------------- MODULE MCTurnContent ---------------------------
(* Command lines, and messages of every shape the two mappings tell apart. *)
EXTENDS TurnContent, TLC

DefaultFlags ==
  [cwd |-> "dir", model |-> NotGiven, defaultModel |-> NotGiven, policy |-> "on-request",
   sandbox |-> "read-only", bypass |-> FALSE, client |-> TRUE]
CommandLines ==
  {   [DefaultFlags EXCEPT !.sandbox = "workspaceWrite", !.policy = "untrusted"],
   [DefaultFlags EXCEPT !.sandbox = "readOnly", !.bypass = TRUE],
   [DefaultFlags EXCEPT !.sandbox = "full"],
   [DefaultFlags EXCEPT !.cwd = Unset],
   [DefaultFlags EXCEPT !.policy = "always"],
   [DefaultFlags EXCEPT !.client = FALSE]}

Small ==
  {<<Text("hello"), File("u", "image"), OtherData("null")>>,
   <<File("u", ""), NilPart, File("v", "image")>>,
   <<Text(" "), Text("accept")>>, <<Text("decline")>>, <<Text("cancel")>>, <<Text("yes")>>,
   <<Data([decision |-> "accept"])>>, <<Text("yes"), Data([decision |-> "decline"])>>,
   <<Data([action |-> "accept", content |-> "form"])>>, <<Data([action |-> "decline"])>>,
   <<OtherData("list"), Text("decline")>>,
   <<Text("accept"), Text("please")>>, <<Text(" ")>>, <<File("u", "other")>>, <<Raw, Text("hello")>>}

ItemSymmetry == Permutations(Items)

(* After the last turn has started nothing reads the command line.         *)
ContentView ==
  <<IF turn.number = MaxTurns /\ exchange = Nothing THEN DefaultFlags ELSE flags,
    serving, codexVars, inbox, runtimeVars, taskVars, exchange>>
============================================================================
