------------------------------ MODULE Settings ------------------------------
(***************************************************************************)
(* What the operator's flags make of every thread and turn: main.go's      *)
(* flags, config.go's validation and defaults, and the two vocabularies    *)
(* Codex has for sandboxes, one in thread/start and one in turn/start.     *)
(***************************************************************************)

Unset == ""           \* an empty string: Codex decides
NotGiven == "-"       \* a flag that is not on the command line

ApprovalPolicies == {"untrusted", "on-failure", "on-request", "never"}

(* The modes a thread knows, each with the spellings the flag may have,    *)
(* and the policies a turn knows.                                          *)
ReadOnly == {"read-only", "readOnly"}
WorkspaceWrite == {"workspace-write", "workspaceWrite"}
DangerFullAccess == {"danger-full-access", "dangerFullAccess"}
Sandboxes == ReadOnly \cup WorkspaceWrite \cup DangerFullAccess

(* -model wins over -default-model, also when it is given an empty value;  *)
(* the bypass flag wins over policy and sandbox.  `client` says whether    *)
(* the client's name, its version and a Codex binary are set.              *)
ConfigOf(flags) ==
  [cwd     |-> flags.cwd,
   model   |-> IF flags.model # NotGiven THEN flags.model
               ELSE IF flags.defaultModel # NotGiven THEN flags.defaultModel ELSE Unset,
   policy  |-> IF flags.bypass THEN "never" ELSE flags.policy,
   sandbox |-> IF flags.bypass THEN "danger-full-access" ELSE flags.sandbox,
   client  |-> flags.client]

ValidPolicy(policy) == policy \in ApprovalPolicies \cup {Unset}
ValidSandbox(mode) == mode \in Sandboxes \cup {Unset}

Valid(cfg) == cfg.cwd # Unset /\ ValidPolicy(cfg.policy) /\ ValidSandbox(cfg.sandbox) /\ cfg.client

NormalizeSandbox(mode) ==
  CASE mode \in ReadOnly         -> "read-only"
    [] mode \in WorkspaceWrite   -> "workspace-write"
    [] mode \in DangerFullAccess -> "danger-full-access"
    [] OTHER                     -> Unset

(* requestOptionsFromConfig, asked again by every execution.               *)
HasOptions(cfg) == cfg.cwd # Unset /\ ValidPolicy(cfg.policy) /\ ValidSandbox(cfg.sandbox)
RequestOptions(cfg) ==
  [cwd |-> cfg.cwd, model |-> cfg.model, policy |-> cfg.policy,
   sandbox |-> NormalizeSandbox(cfg.sandbox)]

SandboxPolicy(mode) ==
  CASE mode \in ReadOnly         -> "readOnly"
    [] mode \in WorkspaceWrite   -> "workspaceWrite"
    [] mode \in DangerFullAccess -> "dangerFullAccess"
    [] OTHER                     -> mode

(* The parameters of thread/start and thread/fork, and of turn/start.      *)
ThreadSettings(options) == options
TurnSettings(options) == [options EXCEPT !.sandbox = SandboxPolicy(options.sandbox)]

----------------------------------------------------------------------------
(* What the flags mean, without a normal form or a validation.             *)

Access(word) ==
  CASE word \in ReadOnly -> 1 [] word \in WorkspaceWrite -> 2
    [] word \in DangerFullAccess -> 3 [] OTHER -> 0

(* A thread or turn works in the directory, under the policy and within    *)
(* the sandbox the command line names (main.go:57-68).                     *)
Obeys(settings, flags) ==
  /\ settings.cwd = flags.cwd
  /\ settings.policy = IF flags.bypass THEN "never" ELSE flags.policy
  /\ Access(settings.sandbox) = IF flags.bypass THEN 3 ELSE Access(flags.sandbox)
  /\ settings.sandbox = Unset <=> ~ flags.bypass /\ flags.sandbox = Unset
=============================================================================
