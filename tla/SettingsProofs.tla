--------------------------- MODULE SettingsProofs ---------------------------
(* The settings of threads and turns, for every command line.              *)
EXTENDS Settings, TLAPS

(* requestOptionsFromConfig repeats the checks of Config.validate, so that *)
(* no execution of a server that has started fails for its configuration   *)
(* (config.go:69-112, executor.go:62-66).                                  *)
THEOREM ValidConfigHasOptions ==
  ASSUME NEW cfg, Valid(cfg)
  PROVE  HasOptions(cfg)
BY DEF Valid, HasOptions

(* Whichever of the two spellings the operator uses, normalizing it for    *)
(* threads and translating the result for turns keep the access it names   *)
(* (config.go:131-145, executor.go:504-518).                               *)
LEMMA SpellingsAgree ==
  ASSUME NEW mode, ValidSandbox(mode)
  PROVE  /\ Access(NormalizeSandbox(mode)) = Access(mode)
         /\ Access(SandboxPolicy(NormalizeSandbox(mode))) = Access(mode)
         /\ NormalizeSandbox(mode) = Unset <=> mode = Unset
         /\ SandboxPolicy(NormalizeSandbox(mode)) = Unset <=> mode = Unset
<1>1. CASE mode \in ReadOnly
  BY <1>1 DEF NormalizeSandbox, SandboxPolicy, Access, ReadOnly, WorkspaceWrite, DangerFullAccess, Unset
<1>2. CASE mode \in WorkspaceWrite
  BY <1>2 DEF NormalizeSandbox, SandboxPolicy, Access, ReadOnly, WorkspaceWrite, DangerFullAccess, Unset
<1>3. CASE mode \in DangerFullAccess
  BY <1>3 DEF NormalizeSandbox, SandboxPolicy, Access, ReadOnly, WorkspaceWrite, DangerFullAccess, Unset
<1>4. CASE mode = Unset
  BY <1>4 DEF NormalizeSandbox, SandboxPolicy, Access, ReadOnly, WorkspaceWrite, DangerFullAccess, Unset
<1> QED
  BY <1>1, <1>2, <1>3, <1>4 DEF ValidSandbox, Sandboxes

(* Every thread and every turn of a server that has started works where,   *)
(* under the policy and within the sandbox its command line names          *)
(* (main.go:55-73, broker.go:197-205, executor.go:130-137).                *)
THEOREM SettingsObeyCommandLine ==
  ASSUME NEW flags, flags.bypass \in BOOLEAN, Valid(ConfigOf(flags))
  PROVE  LET options == RequestOptions(ConfigOf(flags)) IN
           Obeys(ThreadSettings(options), flags) /\ Obeys(TurnSettings(options), flags)
<1> DEFINE cfg == ConfigOf(flags)
           options == RequestOptions(cfg)
<1>1. cfg.sandbox = IF flags.bypass THEN "danger-full-access" ELSE flags.sandbox
  BY DEF ConfigOf
<1>2. cfg.cwd = flags.cwd /\ cfg.policy = IF flags.bypass THEN "never" ELSE flags.policy
  BY DEF ConfigOf
<1>3. Access(cfg.sandbox) = IF flags.bypass THEN 3 ELSE Access(flags.sandbox)
  BY <1>1 DEF Access, ReadOnly, WorkspaceWrite, DangerFullAccess
<1>4. cfg.sandbox = Unset <=> ~ flags.bypass /\ flags.sandbox = Unset
  BY <1>1 DEF Unset
<1>5. ValidSandbox(cfg.sandbox)
  BY DEF Valid
<1>6. /\ options.cwd = cfg.cwd /\ options.policy = cfg.policy
      /\ options.sandbox = NormalizeSandbox(cfg.sandbox)
  BY DEF RequestOptions
<1>7. LET settings == TurnSettings(options) IN
        /\ settings.cwd = cfg.cwd /\ settings.policy = cfg.policy
        /\ settings.sandbox = SandboxPolicy(NormalizeSandbox(cfg.sandbox))
  BY DEF RequestOptions, TurnSettings
<1> HIDE DEF cfg, options
<1>8. Obeys(ThreadSettings(options), flags)
  BY <1>2, <1>3, <1>4, <1>5, <1>6, SpellingsAgree DEF Obeys, ThreadSettings
<1>9. Obeys(TurnSettings(options), flags)
  BY <1>2, <1>3, <1>4, <1>5, <1>7, SpellingsAgree DEF Obeys
<1> QED
  BY <1>8, <1>9 DEF options, cfg
=============================================================================
