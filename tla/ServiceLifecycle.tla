-------------------------- MODULE ServiceLifecycle --------------------------
(***************************************************************************)
(* The background service of `topagent install`: a systemd user unit, an   *)
(* env file that both the operator's commands and the running service      *)
(* write, and the process systemd runs from them.                          *)
(*                                                                         *)
(* The operator types one command at a time (install, uninstall, start,    *)
(* stop, restart, model, upgrade).  A command is a sequence of steps, and  *)
(* between any two of them the service may start, fail, be restarted or    *)
(* bind the first matching sender into the env file; the machine may       *)
(* reboot; somebody may put a file of their own in place of one of ours.   *)
(* A systemctl call may fail at every step, and so may each removal of an  *)
(* uninstall.                                                              *)
(*                                                                         *)
(* Writing a file is one step; a death in that step may leave it empty     *)
(* ("torn"), as std::fs::write truncates first.  Keys, tokens, paths and   *)
(* run options always travel together and stand for one flag, `marker`:    *)
(* the file holds what install writes.                                     *)
(***************************************************************************)
EXTENDS Naturals, FiniteSets

CONSTANTS
    Names,          \* allowed Telegram usernames the operator may type
    People,         \* Telegram users, each may hold any username at any time
    Models,         \* model ids
    None,           \* no username, no binding, no model
    MaxCommands,    \* bound: commands the operator types
    MaxOutside      \* bound: reboots, kills, crashes and foreign files

ASSUME ServiceAssumption ==
    /\ None \notin Names \cup People \cup Models
    /\ MaxCommands \in Nat /\ MaxOutside \in Nat

VARIABLES
    env,        \* the service env file
    unit,       \* the systemd unit file
    loaded,     \* what systemd holds for the unit: "none", "ours", "other"
    enabled,    \* the unit is enabled
    proc,       \* the service process: "off", "starting", "on", "failed"
    conf,       \* what the running service took from the env file and the
                \* disk; `missed` is history: an upgrade took it for inactive
    pending,    \* the bind the service is in the middle of
    binary,     \* the installed executable: "old", "new" or "none"
    data,       \* the workspace has its .topagent directory
    cmd,        \* the operator's command
    served,     \* history: whom the current username policy has served
    disturbed,  \* history: a call failed, or two writers or a death met
    commands,   \* commands typed so far
    outside     \* events of the outside so far

files == <<env, unit, binary, data>>
systemd == <<loaded, enabled>>
service == <<proc, conf, pending>>
counts == <<commands, outside>>
vars == <<env, unit, loaded, enabled, proc, conf, pending, binary, data, cmd,
          served, disturbed, commands, outside>>

-----------------------------------------------------------------------------
(* The env file and what is read from it. *)

EnvFile(kind, marker, user, bound, model) ==
    [kind |-> kind, marker |-> marker, user |-> user, bound |-> bound,
     model |-> model]

Empty(kind) == EnvFile(kind, FALSE, None, None, None)

\* A file without the header may be anybody's; an empty one has no header.
IsManaged(kind) == kind = "ours"

\* `topagent install` looks before it asks its questions, and again before it
\* writes.
MayWrite(kind) == kind = "absent" \/ IsManaged(kind)

\* What read_managed_env_metadata returns: the values, never the header.
ValuesOf(e) == [e EXCEPT !.kind = "ours"]

\* Mutant of WithBinding: binding replaces the username, as it once did.
WithBindingOnly(values, p) == [values EXCEPT !.bound = p, !.user = None]

\* Binding keeps every other value, the username too.
WithBinding(values, p) == [values EXCEPT !.bound = p]

\* Install keeps the binding if the operator kept the username it read.
KeptBinding(read, user) == IF user = read.user THEN read.bound ELSE None

-----------------------------------------------------------------------------
(* systemd. *)

LoadedFrom(u) ==
    CASE u = "absent" -> "none" [] u = "ours" -> "ours" [] OTHER -> "other"

Known == IF loaded = "none" THEN LoadedFrom(unit) ELSE loaded

ServiceInstalled == Known # "none"

IsActive == proc \in {"starting", "on"}

NoConf == [user |-> None, bound |-> None, model |-> None, binary |-> "none",
           missed |-> FALSE]
NoBind == [who |-> None, copy |-> Empty("ours")]

Idle == [op |-> "none", pc |-> "done", read |-> Empty("ours"),
         was |-> FALSE, purge |-> FALSE, good |-> TRUE]

Binding == pending.who # None

\* The process ends as p: what it held in memory is gone.  A bind it was
\* writing is lost, and may leave the env file empty.
EndsAs(p) ==
    /\ proc' = p
    /\ conf' = NoConf
    /\ pending' = NoBind
    /\ \/ env' = env /\ UNCHANGED disturbed
       \/ Binding /\ env' = Empty("torn") /\ disturbed' = TRUE

\* systemctl start and restart: Type=simple succeeds once the process exists.
Started == IF Known = "ours" /\ binary # "none" THEN "starting" ELSE "off"

Init ==
    /\ env = Empty("absent") /\ unit = "absent"
    /\ loaded = "none" /\ enabled = FALSE
    /\ proc = "off" /\ conf = NoConf /\ pending = NoBind
    /\ binary = "old" /\ data = FALSE
    /\ cmd = Idle
    /\ served = [name |-> None, people |-> {}]
    /\ disturbed = FALSE
    /\ commands = 0 /\ outside = 0

-----------------------------------------------------------------------------
(* The operator's commands. *)

\* The binary must be there for a command to be typed at all.
Types(c) ==
    /\ cmd = Idle /\ commands < MaxCommands /\ binary # "none"
    /\ commands' = commands + 1
    /\ cmd' = c

At(op, pc) == cmd.op = op /\ cmd.pc = pc

Goes(pc) == cmd' = [cmd EXCEPT !.pc = pc]

\* A systemctl call of the command fails: run_checked ends the command there.
FailsAt(pc) ==
    /\ cmd.pc = pc
    /\ cmd' = Idle
    /\ disturbed' = TRUE

\* Two writers met: one writes the env file while the other still holds the
\* values it read.
Meets == disturbed' = (disturbed \/ Binding)

\* The command reads the current values, then asks its questions.
InstallAsks ==
    /\ MayWrite(env.kind) /\ MayWrite(unit)
    /\ Types([Idle EXCEPT !.op = "install", !.pc = "ask", !.read = ValuesOf(env)])
    /\ data' = TRUE
    /\ UNCHANGED <<env, unit, binary, systemd, service, served, disturbed, outside>>

\* A username typed, kept with an empty line, or none at all.
UserAnswers == Names \cup {None}

\* The default, one of the list, or an id typed by hand.
ModelAnswers == Models

InstallAnswered(user, model) ==
    /\ At("install", "ask")
    /\ MayWrite(env.kind) /\ MayWrite(unit)
    /\ cmd' = [cmd EXCEPT !.pc = "env", !.was = ServiceInstalled,
                !.read = EnvFile("ours", TRUE, user, KeptBinding(cmd.read, user), model)]
    /\ UNCHANGED <<files, systemd, service, served, disturbed, counts>>

InstallRefused ==
    /\ At("install", "ask")
    /\ ~(MayWrite(env.kind) /\ MayWrite(unit))
    /\ cmd' = Idle
    /\ UNCHANGED <<files, systemd, service, served, disturbed, counts>>

\* A username other than the one in force starts a policy of its own.
InstallWritesEnv ==
    /\ At("install", "env")
    /\ env' = cmd.read
    /\ served' = IF cmd.read.user = served.name THEN served
                 ELSE [name |-> cmd.read.user, people |-> {}]
    /\ Meets
    /\ Goes("unit")
    /\ UNCHANGED <<unit, binary, data, systemd, service, counts>>

InstallWritesUnit ==
    /\ At("install", "unit")
    /\ unit' = "ours"
    /\ Goes("reload")
    /\ UNCHANGED <<env, binary, data, systemd, service, served, disturbed, counts>>

InstallReloads ==
    /\ At("install", "reload")
    /\ loaded' = LoadedFrom(unit)
    /\ Goes(IF cmd.was THEN "enable" ELSE "now")
    /\ UNCHANGED <<files, enabled, service, served, disturbed, counts>>

InstallEnables ==
    /\ At("install", "enable")
    /\ enabled' = TRUE
    /\ Goes("restart")
    /\ UNCHANGED <<files, loaded, service, served, disturbed, counts>>

\* `enable --now` starts what is not active and leaves alone what is.
InstallEnablesNow ==
    /\ At("install", "now")
    /\ enabled' = TRUE
    /\ cmd' = Idle
    /\ IF IsActive THEN UNCHANGED <<env, service, disturbed>> ELSE EndsAs(Started)
    /\ UNCHANGED <<unit, binary, data, loaded, served, counts>>

\* `model set` and `model pick`: only the model changes.
ModelReads(model) ==
    /\ IsManaged(env.kind)
    /\ Types([Idle EXCEPT !.op = "model", !.pc = "env",
                !.read = [ValuesOf(env) EXCEPT !.model = model]])
    /\ UNCHANGED <<files, systemd, service, served, disturbed, outside>>

ModelWrites ==
    /\ At("model", "env")
    /\ env' = cmd.read
    /\ Meets
    /\ Goes("probe")
    /\ UNCHANGED <<unit, binary, data, systemd, service, served, counts>>

\* Mutant of AfterModel: writing the model is enough.
AfterModelNothing == "done"

\* The service is restarted if there is one.
AfterModel == IF ServiceInstalled THEN "restart" ELSE "done"

ModelProbes ==
    /\ At("model", "probe")
    /\ IF AfterModel = "done" THEN cmd' = Idle ELSE Goes(AfterModel)
    /\ UNCHANGED <<files, systemd, service, served, disturbed, counts>>

\* The last step of install, model and upgrade.
Restart ==
    /\ cmd.pc = "restart"
    /\ cmd' = Idle
    /\ loaded' = Known
    /\ EndsAs(Started)
    /\ UNCHANGED <<unit, binary, data, enabled, served, counts>>

\* systemctl failed in install, model or upgrade; a failed restart may have
\* stopped the service.
SystemctlFails ==
    /\ cmd.op # "uninstall"
    /\ \E pc \in {"reload", "enable", "now", "restart"} : FailsAt(pc)
    /\ \/ UNCHANGED service
       \/ cmd.pc = "restart" /\ ~Binding
          /\ proc' = "off" /\ conf' = NoConf /\ UNCHANGED pending
    /\ UNCHANGED <<files, systemd, served, counts>>

Present == unit # "absent" \/ env.kind # "absent"

\* service start, stop, restart.
ServiceStarts ==
    /\ Present /\ Known # "none" /\ Types(Idle)
    /\ loaded' = Known
    /\ IF IsActive THEN UNCHANGED <<env, service, disturbed>> ELSE EndsAs(Started)
    /\ UNCHANGED <<unit, binary, data, enabled, served, outside>>

ServiceStops ==
    /\ Present /\ Known # "none" /\ Types(Idle)
    /\ EndsAs("off")
    /\ UNCHANGED <<unit, binary, data, systemd, served, outside>>

ServiceRestarts ==
    /\ Present /\ Known # "none" /\ Types(Idle)
    /\ loaded' = Known
    /\ EndsAs(Started)
    /\ UNCHANGED <<unit, binary, data, enabled, served, outside>>

\* upgrade: the download is verified first, then the service is stopped if it
\* was active, the binary replaced, and the service restarted.  A service
\* waiting to be restarted by systemd is not active; when is-active cannot be
\* asked, none is.
UpgradeBegins ==
    /\ \E was \in {IsActive, FALSE} :
          Types([Idle EXCEPT !.op = "upgrade", !.pc = "stop", !.was = was])
    /\ UNCHANGED <<files, systemd, service, served, disturbed, outside>>

UpgradeStops ==
    /\ At("upgrade", "stop")
    /\ Goes("replace")
    /\ \/ cmd.was /\ EndsAs("off")
       \/ cmd.was /\ disturbed' = TRUE /\ UNCHANGED <<env, service>>
       \/ ~cmd.was /\ UNCHANGED <<env, service, disturbed>>
    /\ UNCHANGED <<unit, binary, data, systemd, served, counts>>

UpgradeReplaces ==
    /\ At("upgrade", "replace")
    /\ binary' = "new"
    /\ IF cmd.was THEN Goes("restart") ELSE cmd' = Idle
    /\ conf' = [conf EXCEPT !.missed = @ \/ (proc = "on" /\ ~cmd.was)]
    /\ UNCHANGED <<env, unit, data, systemd, proc, pending, served, disturbed, counts>>

\* The replacement (or the build) fails: the service stays stopped.
UpgradeFails ==
    /\ At("upgrade", "replace")
    /\ cmd' = Idle
    /\ UNCHANGED <<files, systemd, service, served, disturbed, counts>>

-----------------------------------------------------------------------------
(* uninstall and service uninstall. *)

\* Mutant of ShouldManage: only the unit file counts.
ManagesUnitOnly == IsManaged(unit)

\* A unit or an env file of ours is a service to stop.
ShouldManage == IsManaged(unit) \/ IsManaged(env.kind)

UninstallReads(purge) ==
    /\ Types([Idle EXCEPT !.op = "uninstall", !.read = ValuesOf(env), !.purge = purge,
                !.pc = IF ShouldManage THEN "stop" ELSE "unit", !.was = ShouldManage])
    /\ UNCHANGED <<files, systemd, service, served, disturbed, outside>>

\* stop, then disable; either may fail, and the command goes on.
UninstallStops ==
    /\ At("uninstall", "stop")
    /\ \/ Goes("disable") /\ EndsAs("off")
       \/ /\ cmd' = [cmd EXCEPT !.pc = "disable", !.good = FALSE]
          /\ disturbed' = TRUE
          /\ UNCHANGED <<env, service>>
    /\ UNCHANGED <<unit, binary, data, systemd, served, counts>>

UninstallDisables ==
    /\ At("uninstall", "disable")
    /\ \/ Goes("unit") /\ enabled' = FALSE /\ UNCHANGED disturbed
       \/ /\ cmd' = [cmd EXCEPT !.pc = "unit", !.good = FALSE]
          /\ disturbed' = TRUE /\ UNCHANGED enabled
    /\ UNCHANGED <<files, loaded, service, served, counts>>

\* A file that cannot be read or removed ends the command where it is: the
\* service is stopped by then, and systemd is not told to reload.
UninstallCannotRemove ==
    /\ At("uninstall", "unit") \/ At("uninstall", "env")
    /\ cmd' = Idle
    /\ UNCHANGED <<files, systemd, service, served, disturbed, counts>>

UninstallRemovesUnit ==
    /\ At("uninstall", "unit")
    /\ unit' = IF IsManaged(unit) THEN "absent" ELSE unit
    /\ Goes("env")
    /\ UNCHANGED <<env, binary, data, systemd, service, served, disturbed, counts>>

\* The header is not enough: the env file must say that install wrote it.
UninstallRemovesEnv ==
    /\ At("uninstall", "env")
    /\ IF IsManaged(env.kind) /\ env.marker
       THEN /\ env' = Empty("absent")
            /\ served' = [name |-> None, people |-> {}]
       ELSE UNCHANGED <<env, served>>
    /\ Goes("purge")
    /\ UNCHANGED <<unit, binary, data, systemd, service, disturbed, counts>>

\* --purge removes the .topagent of the workspace the env file named; what it
\* cannot remove it reports, and goes on.
UninstallPurges ==
    /\ At("uninstall", "purge")
    /\ \/ data' = (data /\ ~(cmd.purge /\ cmd.read.marker)) /\ Goes("binary")
       \/ /\ cmd.purge /\ cmd.read.marker /\ data
          /\ cmd' = [cmd EXCEPT !.pc = "binary", !.good = FALSE]
          /\ UNCHANGED data
    /\ UNCHANGED <<env, unit, binary, systemd, service, served, disturbed, counts>>

\* `uninstall` also removes an installed binary, `service uninstall` and a
\* source checkout keep theirs.
UninstallRemovesBinary ==
    /\ At("uninstall", "binary")
    /\ binary' \in {binary, "none"}
    /\ Goes("reload")
    /\ UNCHANGED <<env, unit, data, systemd, service, served, disturbed, counts>>

\* daemon-reload; its failure is only reported.
UninstallEnds ==
    /\ At("uninstall", "reload")
    /\ cmd' = Idle
    /\ \/ cmd.was /\ loaded' = LoadedFrom(unit) /\ UNCHANGED disturbed
       \/ cmd.was /\ UNCHANGED loaded /\ disturbed' = TRUE
       \/ ~cmd.was /\ UNCHANGED <<loaded, disturbed>>
    /\ UNCHANGED <<files, enabled, service, served, counts>>

-----------------------------------------------------------------------------
(* The service. *)

\* systemd passes the values of the env file to the process.
Configuration ==
    [user |-> env.user, bound |-> env.bound, model |-> env.model, binary |-> binary,
     missed |-> FALSE]

\* The process reads its configuration; it needs the token and a key.
Loads ==
    /\ proc = "starting"
    /\ IsManaged(env.kind) /\ env.marker
    /\ proc' = "on"
    /\ conf' = Configuration
    /\ UNCHANGED <<files, systemd, pending, cmd, served, disturbed, counts>>

\* No configuration, no network, a webhook: the process exits with an error.
CannotStart ==
    /\ proc = "starting"
    /\ proc' = "failed"
    /\ UNCHANGED <<files, systemd, conf, pending, cmd, served, disturbed, counts>>

\* Restart=on-failure.
Retries ==
    /\ proc = "failed"
    /\ proc' = Started
    /\ UNCHANGED <<files, systemd, conf, pending, cmd, served, disturbed, counts>>

Serves(p) ==
    /\ served' = IF conf.user # None /\ conf.user = served.name
                 THEN [served EXCEPT !.people = @ \cup {p}] ELSE served
    /\ data' = TRUE

\* A message from somebody the policy admits.
Answers(p) ==
    /\ proc = "on" /\ ~Binding
    /\ \/ conf.bound = p
       \/ conf.bound = None /\ conf.user = None
    /\ Serves(p)
    /\ UNCHANGED <<env, unit, binary, systemd, service, cmd, disturbed, counts>>

\* The first sender whose username matches is bound: in memory, then in the
\* env file, with the values the file held a moment before.
Binds(p) ==
    /\ proc = "on" /\ ~Binding
    /\ conf.bound = None /\ conf.user # None
    /\ conf' = [conf EXCEPT !.bound = p]
    /\ pending' = [who |-> p, copy |-> ValuesOf(env)]
    /\ UNCHANGED <<files, systemd, proc, cmd, served, disturbed, counts>>

\* The command still holds values it read before this write.
CommandHoldsValues == cmd.pc \in {"ask", "env"} /\ cmd.op # "uninstall"

\* The write is not checked for the header, and its failure is ignored.
BindIsSaved ==
    /\ Binding
    /\ \/ /\ env' = WithBinding(pending.copy, pending.who)
          /\ disturbed' = (disturbed \/ CommandHoldsValues)
       \/ env' = env /\ disturbed' = TRUE
    /\ pending' = NoBind
    /\ Serves(pending.who)
    /\ UNCHANGED <<unit, binary, systemd, proc, conf, cmd, counts>>

-----------------------------------------------------------------------------
(* The outside. *)

Happens == outside < MaxOutside /\ outside' = outside + 1

\* The service dies, or the process is killed.
ServiceDies ==
    /\ Happens /\ proc = "on"
    /\ EndsAs("failed")
    /\ UNCHANGED <<unit, binary, data, systemd, cmd, served, commands>>

\* The command is interrupted; a file it was writing may be left empty.
CommandDies ==
    /\ Happens /\ cmd # Idle
    /\ cmd' = Idle
    /\ disturbed' = (disturbed \/ cmd.pc # "ask")
    /\ env' \in {env} \cup
          (IF cmd.pc = "env" /\ cmd.op # "uninstall" THEN {Empty("torn")} ELSE {})
    /\ unit' \in {unit} \cup (IF At("install", "unit") THEN {"torn"} ELSE {})
    /\ UNCHANGED <<binary, data, systemd, service, served, commands>>

\* A reboot ends everything; an enabled unit starts again.
Reboot ==
    /\ Happens /\ cmd = Idle
    /\ loaded' = LoadedFrom(unit)
    /\ EndsAs(IF enabled /\ unit = "ours" /\ binary # "none" THEN "starting" ELSE "off")
    /\ UNCHANGED <<unit, binary, data, enabled, cmd, served, commands>>

\* Somebody moves a file aside or puts one of their own in its place, while no
\* command is past its questions.
FilesChange ==
    /\ Happens /\ cmd.pc \in {"done", "ask"}
    /\ disturbed' = TRUE
    /\ \/ \E k \in {"absent", "foreign"} : env' = Empty(k) /\ UNCHANGED unit
       \/ unit' \in {"absent", "foreign"} /\ UNCHANGED env
    /\ UNCHANGED <<binary, data, systemd, service, cmd, served, commands>>

-----------------------------------------------------------------------------
Install ==
    \/ InstallAsks \/ InstallRefused
    \/ \E user \in UserAnswers, model \in ModelAnswers : InstallAnswered(user, model)
    \/ InstallWritesEnv \/ InstallWritesUnit \/ InstallReloads
    \/ InstallEnables \/ InstallEnablesNow

Model == (\E model \in Models : ModelReads(model)) \/ ModelWrites \/ ModelProbes

Control == ServiceStarts \/ ServiceStops \/ ServiceRestarts

Upgrade == UpgradeBegins \/ UpgradeStops \/ UpgradeReplaces \/ UpgradeFails

Uninstall ==
    \/ \E purge \in BOOLEAN : UninstallReads(purge)
    \/ UninstallStops \/ UninstallDisables
    \/ UninstallRemovesUnit \/ UninstallRemovesEnv \/ UninstallCannotRemove
    \/ UninstallPurges \/ UninstallRemovesBinary \/ UninstallEnds

Service ==
    \/ Loads \/ CannotStart \/ Retries \/ BindIsSaved
    \/ \E p \in People : Answers(p) \/ Binds(p)

Outside == ServiceDies \/ CommandDies \/ Reboot \/ FilesChange

Next ==
    Install \/ Model \/ Restart \/ SystemctlFails \/ Control \/ Upgrade
    \/ Uninstall \/ Service \/ Outside

Spec == Init /\ [][Next]_vars

-----------------------------------------------------------------------------
(* Properties. *)

\* The bot is one person's.  While the operator keeps the same allowed
\* username, whoever it served first is the only one it serves, through
\* restarts, reboots, model changes, upgrades and reinstalls, whoever holds
\* that username meanwhile - provided no call failed, no file was replaced and
\* no two writers of the env file met (bind_dm_user_id, run_install).
OneOwner == ~disturbed => Cardinality(served.people) <= 1

\* Between commands the running service works with the values in the env file
\* and with the executable on disk: every command that changes one of them
\* also reaches the service (restart_service_if_installed, install, upgrade).
\* Two cases are left out: what OneOwner leaves out, and an executable older
\* than the one on disk when an upgrade took the service for inactive - systemd
\* was waiting to restart it and did so before the new file was in place, or
\* is-active could not be asked.
ServiceIsConfigured ==
    ~disturbed /\ cmd = Idle /\ proc = "on" /\ ~Binding
        => /\ conf.user = env.user /\ conf.bound = env.bound
           /\ conf.model = env.model
           /\ binary # "none" /\ ~conf.missed => conf.binary = binary

\* Not checked, as the code does not keep it: an upgrade reaches a service that
\* systemd is about to restart (service_is_active, upgrade_from_release).
UpgradesReachTheService ==
    ~disturbed /\ cmd = Idle /\ proc = "on" /\ binary # "none"
        => conf.binary = binary

\* An uninstall that found an installed env file, went through to its last
\* step and whose systemctl calls and removals worked leaves no service running
\* or enabled, neither of our files, and with --purge none of the workspace's
\* .topagent (uninstall_installation).  A one-shot run of the command line is
\* no part of the service and may write .topagent again.
UninstallIsComplete ==
    [][At("uninstall", "reload") /\ cmd' = Idle /\ outside' = outside
            /\ cmd.good /\ cmd.read.marker
        => /\ proc' = "off" /\ ~enabled' /\ ~IsManaged(unit')
           /\ ~(IsManaged(env'.kind) /\ env'.marker)
           /\ cmd.purge => ~data']_vars

=============================================================================
