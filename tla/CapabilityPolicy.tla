-------------------------- MODULE CapabilityPolicy --------------------------
(***************************************************************************)
(* The pure part of access control (topagent-core/src/capability): what a  *)
(* configuration decides about a request, which requests a grant covers,   *)
(* and what using a grant does to it.  No state.                           *)
(***************************************************************************)
EXTENDS Naturals

CONSTANTS
    Targets,    \* paths, addresses and commands that requests are about
    AnyTarget,  \* the grant target "*"
    Place,      \* Place[t]: "workspace", "home" or "elsewhere"
    Within,     \* <<g, r>>: r lies under the path g (or extends address g)
    NoId,       \* no task id, no session id (None)
    NoLimit     \* uses_remaining: None

ASSUME PolicyAssumption ==
    /\ Place \in [Targets -> {"workspace", "home", "elsewhere"}]
    /\ NoLimit \notin Nat

Kinds == {"Filesystem", "Shell", "Network", "WebSearch", "Git",
          "PackageManager", "ComputerUse", "MemoryWrite", "ExternalSend",
          "SystemService", "SecretRead"}
Risks == {"Safe", "Moderate", "High", "Critical"}
Modes == {"Read", "Write", "Execute", "ReadWrite"}
Scopes == {"Once", "ThisTask", "ThisPath", "Session", "Permanent"}
Profiles == {"Workspace", "Developer", "Computer", "Full"}

Request == [kind : Kinds, target : Targets, mode : Modes, risk : Risks]

-----------------------------------------------------------------------------
(* AccessConfig.                                                           *)

\* The require_approval_for_* switches.
Switches == {"sudo", "destructive", "secret_paths", "external_send",
             "global_package_install", "git_push"}

Config == [profile : Profiles,
           network_default : BOOLEAN,
           web_search_default : BOOLEAN,
           computer_use_default : BOOLEAN,
           allow_workspace_write : BOOLEAN,
           allow_home_read : BOOLEAN,
           allow_home_write : BOOLEAN,
           require_approval : SUBSET Switches]

DeveloperLike == {"Developer", "Computer", "Full"}

ForProfile(p) ==
    [profile |-> p,
     network_default |-> p \in DeveloperLike,
     web_search_default |-> p \in DeveloperLike,
     computer_use_default |-> p = "Computer",
     allow_workspace_write |-> TRUE,
     allow_home_read |-> FALSE,
     allow_home_write |-> FALSE,
     require_approval |-> Switches]

\* set_profile_defaults: home access and the approval switches stay as the
\* operator's file has them.
SetProfileDefaults(c, p) ==
    [c EXCEPT !.profile = p,
              !.network_default = ForProfile(p).network_default,
              !.web_search_default = ForProfile(p).web_search_default,
              !.computer_use_default = ForProfile(p).computer_use_default,
              !.allow_workspace_write = ForProfile(p).allow_workspace_write]

\* The defaults of the workspace profile.
LockToDefaults(c) == SetProfileDefaults(c, "Workspace")

\* Mutant of LockConfig: access to the home directory is left as it is.
LockKeepingHome(c) ==
    [LockToDefaults(c) EXCEPT !.allow_workspace_write =
                                    c.allow_workspace_write]

\* AccessConfig::lockdown.
LockConfig(c) ==
    [c EXCEPT !.profile = "Workspace",
              !.network_default = FALSE,
              !.web_search_default = FALSE,
              !.computer_use_default = FALSE,
              !.allow_home_read = FALSE,
              !.allow_home_write = FALSE]

-----------------------------------------------------------------------------
(* decision_from_config.                                                   *)

HighImpact(r) == r.risk \in {"High", "Critical"}

\* The switch that lets a high-impact request of this kind through; the kinds
\* that have none are always asked about.
SwitchOf ==
    [k \in {"ExternalSend", "PackageManager", "Git", "SystemService", "Shell",
            "Filesystem"} |->
        CASE k = "ExternalSend" -> "external_send"
          [] k = "PackageManager" -> "global_package_install"
          [] k = "Git" -> "git_push"
          [] k \in {"SystemService", "Shell"} -> "sudo"
          [] k = "Filesystem" -> "destructive"]

RequiresApproval(c, r) ==
    /\ HighImpact(r)
    /\ r.kind \in DOMAIN SwitchOf => SwitchOf[r.kind] \in c.require_approval

Writes(r) == r.mode \in {"Write", "ReadWrite"}

\* filesystem_decision.
FilesystemAllowed(c, r) ==
    CASE Place[r.target] = "workspace" -> Writes(r) => c.allow_workspace_write
      [] Place[r.target] = "home" ->
            \/ c.profile = "Full"
            \/ r.mode = "Read" /\ c.allow_home_read
            \/ Writes(r) /\ c.allow_home_write
      [] OTHER -> c.profile = "Full"

\* computer_use_default plays no part: the profile alone decides.
ComputerUseAllowed(c) == c.profile \in {"Computer", "Full"}

\* The match on the kind at the end of decision_from_config.
AllowedByDefault(c, r) ==
    \/ r.kind = "Filesystem" /\ FilesystemAllowed(c, r)
    \/ /\ r.kind = "Network"
       /\ c.network_default
       /\ c.profile \in DeveloperLike
    \/ /\ r.kind = "WebSearch"
       /\ c.web_search_default
       /\ c.profile \in DeveloperLike
    \/ r.kind = "ComputerUse" /\ ComputerUseAllowed(c)
    \/ r.kind \in {"Shell", "Git", "PackageManager", "MemoryWrite"}

DecisionFromConfig(c, r) ==
    IF r.kind = "SecretRead"
    THEN IF "secret_paths" \in c.require_approval THEN "NeedsApproval"
                                                  ELSE "Deny"
    ELSE IF ~RequiresApproval(c, r) /\ AllowedByDefault(c, r)
         THEN "Allow"
         ELSE "NeedsApproval"

-----------------------------------------------------------------------------
(* CapabilityGrant.  `id` is the grant's number in the order of creation;  *)
(* the list of grants is the set of them in that order.                    *)

ModeAllows(given, asked) ==
    \/ given = asked
    \/ given = "ReadWrite" /\ asked \in {"Read", "Write"}

Temporary(g) == g.scope # "Permanent"

Expired(g) == g.uses = 0

\* scope_matches: a task or session grant that is not bound yet fits any
\* request that has a task or a session.
ScopeMatches(g, task, session) ==
    CASE g.scope = "ThisTask" ->
            task # NoId /\ g.task \in {NoId, task}
      [] g.scope = "Session" ->
            session # NoId /\ g.session \in {NoId, session}
      [] OTHER -> TRUE

TargetMatches(g, r) ==
    \/ g.target \in {AnyTarget, r.target}
    \/ /\ g.kind \in {"Filesystem", "Network", "WebSearch"}
       /\ <<g.target, r.target>> \in Within

\* matches_request, for a request made by `task` in `session`.
MatchesRequest(g, r, task, session) ==
    /\ g.kind = r.kind
    /\ ModeAllows(g.mode, r.mode)
    /\ ScopeMatches(g, task, session)
    /\ TargetMatches(g, r)
    /\ ~Expired(g)

\* Mutant of BindScope: an unbound grant stays open to every task.
BindNothing(g, task, session) == g

\* bind_scope_if_needed: the first use of an unbound grant ties it down.
BindScope(g, task, session) ==
    [g EXCEPT
        !.task = IF g.scope = "ThisTask" /\ @ = NoId THEN task ELSE @,
        !.session = IF g.scope = "Session" /\ @ = NoId THEN session ELSE @]

\* Mutant of Consume: the use is not counted.
ConsumeNothing(g) == g

Consume(g) ==
    [g EXCEPT !.uses = IF @ \in Nat /\ @ > 0 THEN @ - 1 ELSE @]

\* CapabilityGrant::new.  `what` is a record with a kind, a target and a mode.
NewGrant(n, what, scope, reason) ==
    [id |-> n, kind |-> what.kind, target |-> what.target, mode |-> what.mode,
     scope |-> scope, task |-> NoId, session |-> NoId,
     uses |-> IF scope = "Once" THEN 1 ELSE NoLimit, persisted |-> FALSE,
     reason |-> reason]
=============================================================================
