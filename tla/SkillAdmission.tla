--------------------------- MODULE SkillAdmission ---------------------------
(***************************************************************************)
(* The harness between the model and the skills (harness/skill_policy.rs,  *)
(* harness/runtime.rs): which skills a turn of the model is offered, which *)
(* calls are refused, what access a call is checked for before the skill   *)
(* starts, and what access the skill checks for once more itself.  The     *)
(* state is the access configuration of AccessProfile.                     *)
(***************************************************************************)
EXTENDS AccessProfile, ShellCommands

CONSTANTS
    Calls,       \* the calls the properties speak about
    Secret,      \* targets that is_secret_target recognises
    Trimmed      \* Trimmed[t]: t without the white space around it

MemorySkills == {"save_note", "manage_operator_preference"}
MutationSkills == {"write", "edit", "git_commit", "git_add"}
GitReaders == {"git_status", "git_diff", "git_branch"}
Skills == {"read", "bash", "web_search", "git_clone", "update_plan",
           "computer_use"} \cup MemorySkills \cup MutationSkills \cup GitReaders
Stages == {"Research", "Edit", "Review"}

\* A call is of a skill that the harness knows.
ASSUME AdmissionAssumption == \A c \in Calls : c.skill \in Skills

\* A call names at most one thing (path, address, UI target or text).
Call(skill, at, action, command) ==
    [skill |-> skill, at |-> at, action |-> action, command |-> command]

-----------------------------------------------------------------------------
(* What a skill declares (default_effects_for_skill, risk_for_skill).      *)

Effects(s) ==
    CASE s = "read" -> {"ReadFilesystem"}
      [] s = "write" -> {"WriteFilesystem"}
      [] s = "edit" -> {"ReadFilesystem", "WriteFilesystem"}
      [] s = "web_search" -> {"WebSearch", "NetworkAccess"}
      [] s \in GitReaders -> {"GitRead"}
      [] s = "git_clone" -> {"GitWrite", "NetworkAccess", "WriteFilesystem"}
      [] s \in {"git_add", "git_commit"} -> {"GitWrite"}
      [] s \in MemorySkills -> {"MemoryWrite"}
      [] s = "computer_use" -> {"ComputerUse"}
      [] s = "bash" -> {"ExecuteCommand", "NetworkAccess", "GitRead", "GitWrite",
                        "PackageInstall", "ExternalSend", "SystemChange"}
      [] s = "update_plan" -> {}

ReadOnly(s) == s \in {"read", "web_search"} \cup GitReaders

\* assess_computer_action: words such as send, delete or password in either.
ActionRisk(c) == IF c.action = "sensitive" THEN "High" ELSE "Moderate"

RiskOf(c) ==
    CASE ReadOnly(c.skill) -> "Safe"
      [] c.skill = "git_commit" -> "High"
      [] c.skill = "manage_operator_preference" ->
            IF c.action = "list" THEN "Safe" ELSE "High"
      [] c.skill = "bash" -> Assess(c.command).risk
      [] c.skill = "computer_use" -> ActionRisk(c)
      [] OTHER -> "Moderate"

-----------------------------------------------------------------------------
(* Phases.                                                                 *)

\* skill_allowed_in_phase.
AllowedInPhase(s, phase) ==
    IF s = "web_search" THEN phase \in {"Investigate", "Plan"}
    ELSE CASE phase = "Patch" -> s \notin MemorySkills
           [] phase = "Finalize" -> ReadOnly(s) \/ s \in MemorySkills
           [] OTHER -> ReadOnly(s) \/ s \in {"bash", "update_plan"}

\* bash_allowed_for_execution.
CommandAllowed(c, phase) ==
    phase \in CASE Class(c.command) = "ResearchSafe" -> {"Investigate", "Plan"}
                [] Class(c.command) = "Verification" -> {"Verify"}
                [] Class(c.command) = "MutationRisk" -> {"Patch"}

\* current_agent_phase: the phase of the next turn.
PhaseOfStage == [Research |-> "Investigate", Edit |-> "Patch", Review |-> "Verify"]

CurrentPhase(at) ==
    CASE at.gate /\ ~at.plan -> "Plan"
      [] at.gate /\ at.plan -> "Patch"
      [] OTHER -> PhaseOfStage[at.stage]

PhaseOfClass == [MutationRisk |-> "Patch", Verification |-> "Verify",
                 ResearchSafe |-> "Investigate"]

\* Mutant of PhaseOfCall: commands run in the phase of the turn.
PhaseOfTurn(at, c) ==
    IF (~at.gate \/ at.plan) /\ c.skill \in MutationSkills THEN "Patch"
                                                           ELSE CurrentPhase(at)

\* agent_phase_for_tool_execution.
PhaseOfCall(at, c) ==
    CASE at.gate /\ ~at.plan -> "Plan"
      [] (~at.gate \/ at.plan) /\ c.skill \in MemorySkills -> "Finalize"
      [] (~at.gate \/ at.plan) /\ c.skill = "bash" -> PhaseOfClass[Class(c.command)]
      [] (~at.gate \/ at.plan) /\ c.skill \in MutationSkills -> "Patch"
      [] OTHER -> CurrentPhase(at)

\* skill_allowed_by_access; `granted`: the kinds some live grant is for.
AllowedByAccess(profile, s, granted) ==
    /\ "ComputerUse" \in Effects(s) =>
           profile \in {"Computer", "Full"} \/ "ComputerUse" \in granted
    /\ "WebSearch" \in Effects(s) =>
           profile \in DeveloperLike \/ "WebSearch" \in granted

\* available_skills: what sync_provider_tools gives the provider for a turn.
Offered(profile, at, granted) ==
    {s \in Skills : /\ AllowedInPhase(s, CurrentPhase(at))
                   /\ AllowedByAccess(profile, s, granted)}

\* planning_block_message comes before the harness.
PlanningBlocks(at, c) ==
    /\ at.gate /\ ~at.plan
    /\ \/ c.skill = "bash" /\ Class(c.command) # "ResearchSafe"
       \/ c.skill \in MutationSkills

\* The refusals of execute_skill (SkillPolicyDenied).
PolicyDenies(profile, at, granted, c) ==
    \/ ~AllowedByAccess(profile, c.skill, granted)
    \/ IF c.skill = "bash"
       THEN ~CommandAllowed(c, PhaseOfCall(at, c))
       ELSE ~AllowedInPhase(c.skill, PhaseOfCall(at, c))

-----------------------------------------------------------------------------
(* What a call is checked for: capability_requests_for_skill, before the   *)
(* skill starts.  The fixed targets ("git status", "USER.md") are the      *)
(* skills' names here.                                                     *)

Req(kind, target, mode, risk) ==
    [kind |-> kind, target |-> target, mode |-> mode, risk |-> risk]

\* capability_request_for_path.
PathRequest(t, mode) ==
    IF t \in Secret THEN Req("SecretRead", t, mode, "Critical")
    ELSE Req("Filesystem", t, mode,
             IF Place[t] = "workspace" THEN "Safe" ELSE "Moderate")

\* Mutant of FilesystemMode: what reads is checked for reading alone.
FilesystemModeOfReader(effects) ==
    IF "ReadFilesystem" \in effects THEN "Read" ELSE "Write"

\* filesystem_mode.
FilesystemMode(effects) ==
    CASE {"ReadFilesystem", "WriteFilesystem"} \subseteq effects -> "ReadWrite"
      [] effects \cap {"ReadFilesystem", "WriteFilesystem"}
            = {"WriteFilesystem"} -> "Write"
      [] OTHER -> "Read"

\* A command is checked for the network it uses and for what it is.
CommandRequests(c, target) ==
    LET judged == Assess(c.command)
    IN  (IF judged.network THEN {Req("Network", target, "Read", "Safe")} ELSE {})
        \cup {Req(judged.kind, target, "Execute", judged.risk)}

\* git_clone names its target by an address and no path: its write to the file
\* system is checked for the address.
FileRequests(c) ==
    LET effects == Effects(c.skill)
    IN IF effects \cap {"ReadFilesystem", "WriteFilesystem"} = {} THEN {}
       ELSE IF c.skill = "git_clone"
       THEN {Req("Filesystem", Trimmed[c.at], FilesystemMode(effects), RiskOf(c))}
       ELSE {PathRequest(Trimmed[c.at], FilesystemMode(effects))}

GitRequests(c) ==
    IF Effects(c.skill) \cap {"GitRead", "GitWrite"} = {} THEN {}
    ELSE {Req("Git", IF c.skill = "git_clone" THEN Trimmed[c.at] ELSE c.skill,
              "Execute",
              IF c.skill = "git_commit" THEN "Moderate" ELSE RiskOf(c))}

\* search, the network of other skills, the desktop, durable memory.
OtherRequests(c) ==
    LET with(effect, r) == IF effect \in Effects(c.skill) THEN {r} ELSE {}
    IN  with("WebSearch", Req("WebSearch", c.skill, "Read", "Safe"))
        \cup (IF c.skill = "web_search" THEN {}
              ELSE with("NetworkAccess", Req("Network", Trimmed[c.at], "Read", "Safe")))
        \cup with("ComputerUse",
                  Req("ComputerUse", Trimmed[c.at], "Execute", ActionRisk(c)))
        \cup (IF RiskOf(c) = "Safe" THEN {}
              ELSE with("MemoryWrite", Req("MemoryWrite", c.skill, "Write", RiskOf(c))))

CheckedBefore(c) ==
    IF c.skill = "bash" THEN CommandRequests(c, Trimmed[c.at])
    ELSE FileRequests(c) \cup GitRequests(c) \cup OtherRequests(c)

-----------------------------------------------------------------------------
(* What the skill checks for itself (ToolContext::authorize_capability),   *)
(* with the argument as it was given.                                      *)

FileToolRequests(c) ==
    {PathRequest(c.at, CASE c.skill = "read" -> "Read"
                         [] c.skill = "write" -> "Write"
                         [] c.skill = "edit" -> "ReadWrite")}

GitCloneRequests(c) ==
    {Req("Network", c.at, "Read", "Safe"), Req("Git", c.at, "Execute", "Moderate")}

GitToolRequests(c) ==
    {Req("Git", c.skill, "Execute",
         IF c.skill \in GitReaders THEN "Safe" ELSE "Moderate")}

MemoryToolRequests(c) ==
    IF c.action = "list" THEN {}
    ELSE {Req("MemoryWrite", c.skill, "Write",
              IF c.skill = "save_note" THEN "Moderate" ELSE "High")}

CheckedWithin(c) ==
    CASE c.skill \in {"read", "write", "edit"} -> FileToolRequests(c)
      [] c.skill = "git_clone" -> GitCloneRequests(c)
      [] c.skill \in GitReaders \cup {"git_add", "git_commit"} -> GitToolRequests(c)
      [] c.skill \in MemorySkills -> MemoryToolRequests(c)
      [] c.skill = "web_search" -> {Req("WebSearch", c.skill, "Read", "Safe")}
      [] c.skill = "computer_use" ->
            {Req("ComputerUse", c.at, "Execute", ActionRisk(c))}
      [] c.skill = "bash" -> CommandRequests(c, c.at)
      [] c.skill = "update_plan" -> {}

RiskRank == [Safe |-> 0, Moderate |-> 1, High |-> 2, Critical |-> 3]

\* capability_request_covers.
Covers(given, r) ==
    /\ given.kind = r.kind /\ given.target = r.target
    /\ ModeAllows(given.mode, r.mode)
    /\ RiskRank[given.risk] >= RiskRank[r.risk]

CheckedAgain(c) ==
    {r \in CheckedWithin(c) : ~\E given \in CheckedBefore(c) : Covers(given, r)}

-----------------------------------------------------------------------------
(* Properties. *)

\* What the operator may be asked about again, of calls whose argument is given
\* without white space around it.
AskedAgain ==
    UNION {CheckedAgain(c) : c \in {d \in Calls : Trimmed[d.at] = d.at}}

\* The harness and the skills work out independently what a call needs; they
\* agree, so that a call the operator has let through is not asked about a second
\* time from within the skill (preauthorized requests).  Of an argument with
\* white space around it this is not so: the harness trims what the skill does
\* not.
NotAskedTwice ==
    \A r \in AskedAgain : DecisionFromConfig(config, r) = "Allow"
=============================================================================
