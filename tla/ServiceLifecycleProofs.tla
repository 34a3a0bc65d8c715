----------------------- MODULE ServiceLifecycleProofs -----------------------
(***************************************************************************)
(* Proofs about ServiceLifecycle: who is served, with which files, and     *)
(* what an uninstall leaves behind, for every set of people, names and     *)
(* models.                                                                 *)
(*                                                                         *)
(* The invariant has two parts.  Unconditional holds always: a command is  *)
(* at a step of its own, and an uninstall that found its env file has      *)
(* stopped, disabled and removed what its step says, as long as no call    *)
(* and no removal of its own failed.  Undisturbed holds as long as no call *)
(* failed, no file was replaced from outside and no two writers of the env *)
(* file met: what a command or a bind read and will write back is what the *)
(* file still holds, so that no write loses the binding, and the running   *)
(* service has the values of the file unless the command that changed them *)
(* is going to restart it.                                                 *)
(***************************************************************************)
EXTENDS ServiceLifecycle, FiniteSetTheorems, TLAPS

-----------------------------------------------------------------------------
(* The inductive invariant.                                                *)

FileKinds == {"absent", "ours", "foreign", "torn"}

EnvFiles == [kind : FileKinds, marker : BOOLEAN, user : Names \cup {None},
             bound : People \cup {None}, model : Models \cup {None}]

Confs == [user : Names \cup {None}, bound : People \cup {None},
          model : Models \cup {None}, binary : {"old", "new", "none"},
          missed : BOOLEAN]

Steps == {"done", "ask", "env", "unit", "reload", "enable", "now", "probe",
          "restart", "stop", "replace", "disable", "purge", "binary"}

Procs == {"off", "starting", "on", "failed"}

PendingBinds == [who : People \cup {None}, copy : EnvFiles]

Ops == {"none", "install", "model", "upgrade", "uninstall"}

Cmds == [op : Ops,
         pc : Steps, read : EnvFiles, was : BOOLEAN, purge : BOOLEAN, good : BOOLEAN]

TypeOK ==
    /\ env \in EnvFiles /\ unit \in FileKinds
    /\ loaded \in {"none", "ours", "other"} /\ enabled \in BOOLEAN
    /\ proc \in Procs /\ conf \in Confs
    /\ pending \in PendingBinds
    /\ binary \in {"old", "new", "none"} /\ data \in BOOLEAN
    /\ cmd \in Cmds
    /\ served \in [name : Names \cup {None}, people : SUBSET People]
    /\ disturbed \in BOOLEAN
    /\ commands \in Nat /\ outside \in Nat

\* A command is at a step of its own.
StepsOf(op) ==
    CASE op = "none"      -> {"done"}
      [] op = "install"   -> {"ask", "env", "unit", "reload", "enable", "now", "restart"}
      [] op = "model"     -> {"env", "probe", "restart"}
      [] op = "upgrade"   -> {"stop", "replace", "restart"}
      [] op = "uninstall" -> {"stop", "disable", "unit", "env", "purge", "binary", "reload"}

CommandIsAtAStep ==
    /\ cmd.pc \in StepsOf(cmd.op)
    /\ cmd.op = "none" => cmd = Idle
    /\ cmd.op = "install" /\ cmd.pc \in {"enable", "restart"} => cmd.was
    /\ cmd.op = "install" /\ cmd.pc = "now" => ~cmd.was

\* The marker of install is found behind the header only.
MarkedIsOurs ==
    /\ env.marker => env.kind = "ours"
    /\ pending.copy.kind = "ours" /\ cmd.read.kind = "ours"

\* A process that does not run holds nothing.
OnlyTheRunningHold ==
    /\ proc # "on" => conf = NoConf
    /\ Binding => proc = "on" /\ conf.bound = pending.who

\* What an uninstall that found an installed env file has done so far.
Removing(steps) == cmd.op = "uninstall" /\ cmd.pc \in steps

UninstallProceeds ==
    cmd.good /\ cmd.read.marker =>
        /\ Removing({"disable", "unit", "env", "purge", "binary", "reload"})
              => proc = "off"
        /\ Removing({"unit", "env", "purge", "binary", "reload"}) => ~enabled
        /\ Removing({"env", "purge", "binary", "reload"}) => unit # "ours"
        /\ Removing({"purge", "binary", "reload"}) => ~env.marker
        /\ Removing({"binary", "reload"}) /\ cmd.purge => ~data

\* An uninstall of what is not there has nothing to stop.
UninstallMeetsNothing ==
    cmd.op = "uninstall" =>
        /\ cmd.pc = "stop" => cmd.was
        /\ cmd.read.marker => cmd.was

Unconditional ==
    /\ CommandIsAtAStep /\ MarkedIsOurs /\ OnlyTheRunningHold
    /\ UninstallProceeds /\ UninstallMeetsNothing

\* The rest holds while no call failed, no file was replaced and no two writers
\* of the env file met.  The files are ours or are not there.
FilesAreOurs ==
    /\ env.kind = "absent" \/ (env.kind = "ours" /\ env.marker)
    /\ unit \in {"absent", "ours"} /\ loaded \in {"none", "ours"}

\* systemd holds the unit of a process it runs, and a running service has its
\* env file.
TheServiceIsInstalled ==
    /\ IsActive => Known = "ours"
    /\ proc = "on" => env.kind = "ours"

\* A command that goes on to write the env file holds what the file holds now,
\* but for what it changes; so does a bind.
HeldValuesAreCurrent ==
    /\ cmd.pc = "ask" => cmd.read = ValuesOf(env)
    /\ At("install", "env") =>
          /\ cmd.read.marker
          /\ cmd.read.bound = KeptBinding(env, cmd.read.user)
    /\ At("model", "env") =>
          /\ env.kind = "ours"
          /\ cmd.read = [env EXCEPT !.model = cmd.read.model]
    /\ Binding => pending.copy = env

\* The one person served is the one the env file binds.
TheOwnerIsBound ==
    /\ env.user = served.name
    /\ served.people \subseteq {env.bound}

\* The service has the binding of the env file or is about to save its own; or
\* the file has another username, and nobody is bound.
TheBindingIsKnown ==
    proc = "on" =>
        \/ Binding /\ env.bound = None
        \/ ~Binding /\ conf.bound = env.bound
        \/ ~Binding /\ conf.user # env.user /\ env.bound = None

\* The command that changed the env file is going to restart the service.
WillRestart ==
    \/ cmd.op = "install" /\ cmd.was /\ cmd.pc \in {"unit", "reload", "enable", "restart"}
    \/ cmd.op = "model" /\ cmd.pc \in {"probe", "restart"}

TheServiceIsConfigured ==
    proc = "on" =>
        /\ WillRestart \/ (conf.user = env.user /\ conf.model = env.model)
        /\ binary # "none" /\ ~conf.missed => conf.binary = binary

\* Nothing that was seen to run does so while the executable is replaced, and
\* nothing runs while files are removed, or
\* where there was nothing installed.
NothingRunsMeanwhile ==
    /\ cmd.op = "upgrade" /\ cmd.pc \in {"replace", "restart"} /\ cmd.was
          => proc = "off"
    /\ cmd.op = "uninstall" /\ cmd.pc # "stop" =>
          IF cmd.was THEN proc = "off" ELSE env.kind # "ours" /\ unit # "ours"
    /\ cmd.op = "install" /\ cmd.pc \in {"env", "unit"} /\ ~cmd.was =>
          unit = "absent" /\ loaded = "none"
    /\ cmd.op = "install" /\ cmd.pc \in {"reload", "enable", "restart", "now"} =>
          unit = "ours"

Undisturbed ==
    /\ FilesAreOurs /\ TheServiceIsInstalled /\ HeldValuesAreCurrent
    /\ TheOwnerIsBound /\ TheBindingIsKnown
    /\ TheServiceIsConfigured /\ NothingRunsMeanwhile

IInv == TypeOK /\ Unconditional /\ (~disturbed => Undisturbed)

-----------------------------------------------------------------------------
(* The shapes of the records.                                              *)

\* The constant records, and the env file with one value changed.
LEMMA RecordTypes ==
    /\ Idle \in Cmds /\ NoConf \in Confs /\ NoBind \in PendingBinds
    /\ \A k \in FileKinds : Empty(k) \in EnvFiles
    /\ \A e \in EnvFiles : ValuesOf(e) \in EnvFiles
<1>1. \A k \in FileKinds : Empty(k) \in EnvFiles
  BY DEF Empty, EnvFile, EnvFiles, FileKinds
<1>2. Empty("ours") \in EnvFiles
  BY <1>1 DEF FileKinds
<1>3. Idle \in Cmds /\ NoConf \in Confs /\ NoBind \in PendingBinds
  BY <1>2 DEF Idle, Cmds, Ops, NoConf, Confs, NoBind, PendingBinds, Steps
<1>4. \A e \in EnvFiles : ValuesOf(e) \in EnvFiles
  BY DEF ValuesOf, EnvFiles, FileKinds
<1> QED
  BY <1>1, <1>3, <1>4

\* A command with some of its values replaced is a command.
LEMMA TypedCommands ==
    ASSUME NEW c \in Cmds, NEW pc \in Steps
    PROVE  /\ \A op \in Ops, e \in EnvFiles :
                 [c EXCEPT !.op = op, !.pc = pc, !.read = e] \in Cmds
           /\ \A op \in Ops, b \in BOOLEAN :
                 [c EXCEPT !.op = op, !.pc = pc, !.was = b] \in Cmds
           /\ \A b \in BOOLEAN, e \in EnvFiles :
                 [c EXCEPT !.pc = pc, !.was = b, !.read = e] \in Cmds
           /\ \A op \in Ops, e \in EnvFiles, b, d \in BOOLEAN :
                 [c EXCEPT !.op = op, !.read = e, !.purge = d, !.pc = pc, !.was = b]
                    \in Cmds
BY DEF Cmds, Ops

\* A command that goes on is a command.
LEMMA GoesTypes ==
    ASSUME cmd \in Cmds, NEW pc \in Steps
    PROVE  /\ [cmd EXCEPT !.pc = pc] \in Cmds
           /\ [cmd EXCEPT !.pc = pc, !.good = FALSE] \in Cmds
BY DEF Cmds

LEMMA SystemdTypes ==
    ASSUME TypeOK
    PROVE  /\ Started \in Procs
           /\ \A u \in FileKinds : LoadedFrom(u) \in {"none", "ours", "other"}
           /\ Known \in {"none", "ours", "other"}
BY DEF TypeOK, Started, LoadedFrom, Known, Procs

\* The end of the process leaves every value it touches of its kind.
LEMMA EndsTypes ==
    ASSUME TypeOK, NEW p \in Procs, EndsAs(p)
    PROVE  /\ env' \in EnvFiles /\ proc' \in Procs /\ conf' \in Confs
           /\ pending' \in PendingBinds /\ disturbed' \in BOOLEAN
<1>1. Empty("torn") \in EnvFiles
  BY RecordTypes DEF FileKinds
<1> QED
  BY <1>1, RecordTypes DEF TypeOK, EndsAs

-----------------------------------------------------------------------------
(* The steps of an uninstall whose systemctl call may fail, each as one of  *)
(* its two outcomes.                                                        *)

StopWorks ==
    /\ At("uninstall", "stop") /\ Goes("disable") /\ EndsAs("off")
    /\ UNCHANGED <<unit, binary, data, systemd, served, counts>>

StopFails ==
    /\ At("uninstall", "stop")
    /\ cmd' = [cmd EXCEPT !.pc = "disable", !.good = FALSE]
    /\ disturbed' = TRUE
    /\ UNCHANGED <<env, service, unit, binary, data, systemd, served, counts>>

DisableWorks ==
    /\ At("uninstall", "disable") /\ Goes("unit")
    /\ enabled' = FALSE /\ UNCHANGED disturbed
    /\ UNCHANGED <<files, loaded, service, served, counts>>

DisableFails ==
    /\ At("uninstall", "disable")
    /\ cmd' = [cmd EXCEPT !.pc = "unit", !.good = FALSE]
    /\ disturbed' = TRUE /\ UNCHANGED enabled
    /\ UNCHANGED <<files, loaded, service, served, counts>>

(* The steps of topagent install keep the invariant.                         *)
LEMMA InstallKeepsInvariant == ASSUME IInv, Install PROVE IInv'
<1>1. ASSUME InstallAsks PROVE IInv'
  <2>1. TypeOK'
    <3>1. cmd' \in Cmds
      BY <1>1, RecordTypes, TypedCommands DEF InstallAsks, Types, IInv, TypeOK, Ops, Steps
    <3> QED
      BY <1>1, <3>1 DEF InstallAsks, Types, IInv, TypeOK, systemd, service
  <2> USE DEF InstallAsks, MayWrite, IsManaged, Types, Idle, Empty, EnvFile,
              ValuesOf, systemd, service, IInv, TypeOK, Cmds, Ops, Steps,
              Procs, PendingBinds, EnvFiles, FileKinds, Confs
  <2>2. Unconditional'
    BY <1>1, ServiceAssumption
      DEF Unconditional, CommandIsAtAStep, StepsOf, MarkedIsOurs,
          OnlyTheRunningHold, Binding, UninstallProceeds, Removing,
          UninstallMeetsNothing
  <2>3. ASSUME ~disturbed' PROVE Undisturbed'
    BY <1>1, <2>3, ServiceAssumption
      DEF Undisturbed, FilesAreOurs, TheServiceIsInstalled,
          HeldValuesAreCurrent, TheOwnerIsBound, TheBindingIsKnown,
          TheServiceIsConfigured, NothingRunsMeanwhile, Binding, IsActive,
          Known, KeptBinding, At, StepsOf, NoBind, WillRestart,
          UninstallMeetsNothing, ShouldManage, ServiceInstalled
  <2> QED
    BY <2>1, <2>2, <2>3
<1>2. ASSUME InstallRefused PROVE IInv'
  <2>1. TypeOK'
    BY <1>2, RecordTypes, ServiceAssumption
      DEF InstallRefused, At, files, systemd, service, counts, IInv, TypeOK,
          FileKinds, Steps, Procs
  <2> USE DEF InstallRefused, At, MayWrite, IsManaged, Idle, Empty, EnvFile,
              files, systemd, service, counts, IInv, TypeOK, Cmds, Ops, Steps,
              Procs, PendingBinds, EnvFiles, FileKinds, Confs
  <2>2. Unconditional'
    BY <1>2, ServiceAssumption
      DEF Unconditional, CommandIsAtAStep, StepsOf, MarkedIsOurs,
          OnlyTheRunningHold, Binding, UninstallProceeds, UninstallMeetsNothing
  <2>3. ASSUME ~disturbed' PROVE Undisturbed'
    BY <1>2, <2>3, ServiceAssumption DEF Undisturbed, FilesAreOurs
  <2> QED
    BY <2>1, <2>2, <2>3
<1>3. ASSUME NEW user \in UserAnswers, NEW model \in ModelAnswers, InstallAnswered(user, model) PROVE IInv'
  <2>1. TypeOK'
    <3>1. EnvFile("ours", TRUE, user, KeptBinding(cmd.read, user), model) \in EnvFiles
      BY DEF EnvFile, EnvFiles, FileKinds, KeptBinding, UserAnswers, ModelAnswers,
             Cmds, IInv, TypeOK
    <3>2. ServiceInstalled \in BOOLEAN
      BY DEF ServiceInstalled
    <3>3. ASSUME NEW b \in BOOLEAN, NEW e \in EnvFiles
          PROVE  [cmd EXCEPT !.pc = "env", !.was = b, !.read = e] \in Cmds
      BY TypedCommands DEF IInv, TypeOK, Steps
    <3>4. cmd' \in Cmds
      BY <1>3, <3>1, <3>2, <3>3 DEF InstallAnswered
    <3> QED
      BY <1>3, <3>4 DEF InstallAnswered, IInv, TypeOK, files, systemd, service,
                     counts
  <2> USE DEF InstallAnswered, At, MayWrite, IsManaged, ServiceInstalled,
              Known, LoadedFrom, EnvFile, KeptBinding, files, systemd, service,
              counts, IInv, TypeOK, Cmds, Ops, Steps, Procs, PendingBinds,
              EnvFiles, FileKinds, Confs
  <2>2. Unconditional'
    BY <1>3, ServiceAssumption
      DEF Unconditional, CommandIsAtAStep, StepsOf, MarkedIsOurs,
          OnlyTheRunningHold, Binding, UninstallProceeds, Removing,
          UninstallMeetsNothing, ShouldManage
  <2>3. ASSUME ~disturbed' PROVE Undisturbed'
    <3>0. ~disturbed /\ Undisturbed
      BY <1>3, <2>3
    <3>1. FilesAreOurs'
      BY <1>3, <2>3, <3>0, ServiceAssumption DEF Undisturbed, FilesAreOurs
    <3>2. TheServiceIsInstalled'
      BY <1>3, <2>3, <3>0, ServiceAssumption
        DEF Undisturbed, TheServiceIsInstalled, IsActive
    <3>3. HeldValuesAreCurrent'
      BY <1>3, <2>3, <3>0, ServiceAssumption
        DEF Undisturbed, HeldValuesAreCurrent, Binding, ValuesOf
    <3>4. TheOwnerIsBound'
      BY <1>3, <2>3, <3>0, ServiceAssumption DEF Undisturbed, TheOwnerIsBound
    <3>5. TheBindingIsKnown'
      BY <1>3, <2>3, <3>0, ServiceAssumption
        DEF Undisturbed, TheBindingIsKnown, Binding
    <3>6. TheServiceIsConfigured'
      BY <1>3, <2>3, <3>0, ServiceAssumption
        DEF Undisturbed, TheServiceIsConfigured, WillRestart
    <3>7. NothingRunsMeanwhile'
      BY <1>3, <2>3, <3>0, ServiceAssumption
        DEF Undisturbed, NothingRunsMeanwhile
    <3> QED
      BY <3>1, <3>2, <3>3, <3>4, <3>5, <3>6, <3>7 DEF Undisturbed
  <2> QED
    BY <2>1, <2>2, <2>3
<1>4. ASSUME InstallWritesEnv PROVE IInv'
  <2>1. TypeOK'
    <3>1. env' \in EnvFiles
      BY <1>4 DEF InstallWritesEnv, IInv, TypeOK, Cmds
    <3>2. cmd' \in Cmds
      BY <1>4, GoesTypes DEF InstallWritesEnv, Goes, IInv, TypeOK, Steps
    <3>3. served' \in [name : Names \cup {None}, people : SUBSET People]
      BY <1>4 DEF InstallWritesEnv, IInv, TypeOK, Cmds, EnvFiles
    <3> QED
      BY <1>4, <3>1, <3>2, <3>3 DEF InstallWritesEnv, Meets, IInv, TypeOK, systemd,
                                  service, counts
  <2> USE DEF InstallWritesEnv, At, Meets, Binding, Goes, systemd, service,
              counts, IInv, TypeOK, Cmds, Ops, Steps, Procs, PendingBinds,
              EnvFiles, FileKinds, Confs
  <2>2. Unconditional'
    BY <1>4, ServiceAssumption
      DEF Unconditional, CommandIsAtAStep, StepsOf, MarkedIsOurs,
          OnlyTheRunningHold, UninstallProceeds, Removing,
          UninstallMeetsNothing, ShouldManage, IsManaged
  <2>3. ASSUME ~disturbed' PROVE Undisturbed'
    BY <1>4, <2>3, ServiceAssumption
      DEF Undisturbed, FilesAreOurs, TheServiceIsInstalled,
          HeldValuesAreCurrent, TheOwnerIsBound, TheBindingIsKnown,
          TheServiceIsConfigured, NothingRunsMeanwhile, Unconditional,
          MarkedIsOurs, LoadedFrom, CommandIsAtAStep, OnlyTheRunningHold,
          IsManaged, IsActive, Known, ValuesOf, KeptBinding, StepsOf, Idle,
          NoBind, WillRestart, UninstallMeetsNothing, ShouldManage,
          ServiceInstalled
  <2> QED
    BY <2>1, <2>2, <2>3
<1>5. ASSUME InstallWritesUnit PROVE IInv'
  <2>1. TypeOK'
    BY <1>5, RecordTypes, GoesTypes, ServiceAssumption
      DEF InstallWritesUnit, At, Goes, systemd, service, counts, IInv, TypeOK,
          FileKinds, Steps, Procs
  <2> USE DEF InstallWritesUnit, At, Goes, systemd, service, counts, IInv,
              TypeOK, Cmds, Ops, Steps, Procs, PendingBinds, EnvFiles,
              FileKinds, Confs
  <2>2. Unconditional'
    BY <1>5, ServiceAssumption
      DEF Unconditional, CommandIsAtAStep, StepsOf, MarkedIsOurs,
          OnlyTheRunningHold, Binding, UninstallProceeds, Removing,
          UninstallMeetsNothing, ShouldManage, IsManaged
  <2>3. ASSUME ~disturbed' PROVE Undisturbed'
    BY <1>5, <2>3, ServiceAssumption
      DEF Undisturbed, FilesAreOurs, TheServiceIsInstalled,
          HeldValuesAreCurrent, TheOwnerIsBound, TheBindingIsKnown,
          TheServiceIsConfigured, NothingRunsMeanwhile, LoadedFrom,
          CommandIsAtAStep, OnlyTheRunningHold, Binding, IsManaged, IsActive,
          Known, ValuesOf, KeptBinding, StepsOf, Idle, NoBind, WillRestart,
          UninstallMeetsNothing, ShouldManage, ServiceInstalled
  <2> QED
    BY <2>1, <2>2, <2>3
<1>6. ASSUME InstallReloads PROVE IInv'
  <2>1. TypeOK'
    BY <1>6, RecordTypes, GoesTypes, SystemdTypes, ServiceAssumption
      DEF InstallReloads, At, Goes, files, service, counts, IInv, TypeOK,
          FileKinds, Steps, Procs
  <2> USE DEF InstallReloads, At, LoadedFrom, Goes, files, service, counts,
              IInv, TypeOK, Cmds, Ops, Steps, Procs, PendingBinds, EnvFiles,
              FileKinds, Confs
  <2>2. Unconditional'
    BY <1>6, ServiceAssumption
      DEF Unconditional, CommandIsAtAStep, StepsOf, MarkedIsOurs,
          OnlyTheRunningHold, Binding, UninstallProceeds, Removing,
          UninstallMeetsNothing, ShouldManage, IsManaged
  <2>3. ASSUME ~disturbed' PROVE Undisturbed'
    BY <1>6, <2>3, ServiceAssumption
      DEF Undisturbed, FilesAreOurs, TheServiceIsInstalled,
          HeldValuesAreCurrent, TheOwnerIsBound, TheBindingIsKnown,
          TheServiceIsConfigured, NothingRunsMeanwhile, OnlyTheRunningHold,
          Binding, IsManaged, IsActive, Known, ValuesOf, KeptBinding, StepsOf,
          Idle, NoBind, WillRestart, UninstallMeetsNothing, ShouldManage,
          ServiceInstalled
  <2> QED
    BY <2>1, <2>2, <2>3
<1>7. ASSUME InstallEnables PROVE IInv'
  <2>1. TypeOK'
    BY <1>7, RecordTypes, GoesTypes, ServiceAssumption
      DEF InstallEnables, At, Goes, files, service, counts, IInv, TypeOK,
          FileKinds, Steps, Procs
  <2> USE DEF InstallEnables, At, Goes, files, service, counts, IInv, TypeOK,
              Cmds, Ops, Steps, Procs, PendingBinds, EnvFiles, FileKinds, Confs
  <2>2. Unconditional'
    BY <1>7, ServiceAssumption
      DEF Unconditional, CommandIsAtAStep, StepsOf, MarkedIsOurs,
          OnlyTheRunningHold, Binding, UninstallProceeds, Removing,
          UninstallMeetsNothing, ShouldManage, IsManaged
  <2>3. ASSUME ~disturbed' PROVE Undisturbed'
    BY <1>7, <2>3, ServiceAssumption
      DEF Undisturbed, FilesAreOurs, TheServiceIsInstalled,
          HeldValuesAreCurrent, TheOwnerIsBound, TheBindingIsKnown,
          TheServiceIsConfigured, NothingRunsMeanwhile, Binding, IsManaged,
          IsActive, Known, ValuesOf, KeptBinding, StepsOf, Idle, NoBind,
          WillRestart, UninstallMeetsNothing, ShouldManage, ServiceInstalled
  <2> QED
    BY <2>1, <2>2, <2>3
<1>8. ASSUME InstallEnablesNow PROVE IInv'
  <2>1. TypeOK'
    BY <1>8, RecordTypes, SystemdTypes, EndsTypes, ServiceAssumption
      DEF InstallEnablesNow, At, service, Binding, counts, IInv, TypeOK,
          FileKinds, Steps, Procs
  <2> USE DEF InstallEnablesNow, At, Idle, Empty, EnvFile, IsActive, service,
              EndsAs, NoConf, NoBind, Binding, Started, Known, LoadedFrom,
              counts, IInv, TypeOK, Cmds, Ops, Steps, Procs, PendingBinds,
              EnvFiles, FileKinds, Confs
  <2>2. Unconditional'
    BY <1>8, ServiceAssumption
      DEF Unconditional, CommandIsAtAStep, StepsOf, MarkedIsOurs,
          OnlyTheRunningHold, UninstallProceeds, UninstallMeetsNothing
  <2>3. ASSUME ~disturbed' PROVE Undisturbed'
    BY <1>8, <2>3, ServiceAssumption
      DEF Undisturbed, FilesAreOurs, TheServiceIsInstalled,
          HeldValuesAreCurrent, TheOwnerIsBound, TheBindingIsKnown,
          TheServiceIsConfigured, NothingRunsMeanwhile, WillRestart,
          UninstallMeetsNothing, ShouldManage, ServiceInstalled
  <2> QED
    BY <2>1, <2>2, <2>3
<1> QED
  BY <1>1, <1>2, <1>3, <1>4, <1>5, <1>6, <1>7, <1>8 DEF Install

(* The steps of topagent model set and of the reset keep it.                 *)
LEMMA ModelKeepsInvariant == ASSUME IInv, Model PROVE IInv'
<1>1. ASSUME NEW model \in Models, ModelReads(model) PROVE IInv'
  <2>1. TypeOK'
    <3>1. [ValuesOf(env) EXCEPT !.model = model] \in EnvFiles
      BY RecordTypes DEF IInv, TypeOK, EnvFiles
    <3>2. cmd' \in Cmds
      BY <1>1, <3>1, RecordTypes, TypedCommands DEF ModelReads, Types, Ops, Steps
    <3> QED
      BY <1>1, <3>2 DEF ModelReads, Types, IInv, TypeOK, files, systemd, service
  <2> USE DEF ModelReads, IsManaged, Types, Idle, Empty, EnvFile, ValuesOf,
              files, systemd, service, IInv, TypeOK, Cmds, Ops, Steps, Procs,
              PendingBinds, EnvFiles, FileKinds, Confs
  <2>2. Unconditional'
    BY <1>1, ServiceAssumption
      DEF Unconditional, CommandIsAtAStep, StepsOf, MarkedIsOurs,
          OnlyTheRunningHold, Binding, UninstallProceeds, Removing,
          UninstallMeetsNothing
  <2>3. ASSUME ~disturbed' PROVE Undisturbed'
    <3>0. ~disturbed /\ Undisturbed
      BY <1>1, <2>3
    <3>1. FilesAreOurs'
      BY <1>1, <2>3, <3>0, ServiceAssumption DEF Undisturbed, FilesAreOurs
    <3>2. TheServiceIsInstalled'
      BY <1>1, <2>3, <3>0, ServiceAssumption
        DEF Undisturbed, TheServiceIsInstalled, IsActive, Known
    <3>3. HeldValuesAreCurrent'
      <4>1. ValuesOf(env) = env
        BY <1>1
      <4>2. cmd'.read = [env EXCEPT !.model = cmd'.read.model]
        BY <1>1, <4>1
      <4> QED
        BY <1>1, <2>3, <3>0, <4>2
          DEF HeldValuesAreCurrent, Undisturbed, At, Binding
    <3>4. TheOwnerIsBound'
      BY <1>1, <2>3, <3>0, ServiceAssumption DEF Undisturbed, TheOwnerIsBound
    <3>5. TheBindingIsKnown'
      BY <1>1, <2>3, <3>0, ServiceAssumption
        DEF Undisturbed, TheBindingIsKnown, Binding
    <3>6. TheServiceIsConfigured'
      BY <1>1, <2>3, <3>0, ServiceAssumption
        DEF Undisturbed, TheServiceIsConfigured, WillRestart
    <3>7. NothingRunsMeanwhile'
      BY <1>1, <2>3, <3>0, ServiceAssumption
        DEF Undisturbed, NothingRunsMeanwhile
    <3> QED
      BY <3>1, <3>2, <3>3, <3>4, <3>5, <3>6, <3>7 DEF Undisturbed
  <2> QED
    BY <2>1, <2>2, <2>3
<1>2. ASSUME ModelWrites PROVE IInv'
  <2>1. TypeOK'
    <3>1. env' \in EnvFiles
      BY <1>2 DEF ModelWrites, IInv, TypeOK, Cmds
    <3>2. cmd' \in Cmds
      BY <1>2, GoesTypes DEF ModelWrites, Goes, IInv, TypeOK, Steps
    <3> QED
      BY <1>2, <3>1, <3>2 DEF ModelWrites, Meets, IInv, TypeOK, systemd, service,
                             counts
  <2> USE DEF ModelWrites, At, Meets, Binding, Goes, systemd, service, counts,
              IInv, TypeOK, Cmds, Ops, Steps, Procs, PendingBinds, EnvFiles,
              FileKinds, Confs
  <2>2. Unconditional'
    BY <1>2, ServiceAssumption
      DEF Unconditional, CommandIsAtAStep, StepsOf, MarkedIsOurs,
          OnlyTheRunningHold, UninstallProceeds, Removing,
          UninstallMeetsNothing, ShouldManage, IsManaged
  <2>3. ASSUME ~disturbed' PROVE Undisturbed'
    BY <1>2, <2>3, ServiceAssumption
      DEF Undisturbed, FilesAreOurs, TheServiceIsInstalled,
          HeldValuesAreCurrent, TheOwnerIsBound, TheBindingIsKnown,
          TheServiceIsConfigured, NothingRunsMeanwhile, IsManaged, IsActive,
          Known, ValuesOf, KeptBinding, StepsOf, Idle, NoBind, WillRestart,
          UninstallMeetsNothing, ShouldManage, ServiceInstalled
  <2> QED
    BY <2>1, <2>2, <2>3
<1>3. ASSUME ModelProbes PROVE IInv'
  <2>1. TypeOK'
    BY <1>3, RecordTypes, GoesTypes, SystemdTypes, ServiceAssumption
      DEF ModelProbes, At, AfterModel, Goes, files, systemd, service, counts,
          IInv, TypeOK, FileKinds, Steps, Procs
  <2> USE DEF ModelProbes, At, AfterModel, ServiceInstalled, Known, LoadedFrom,
              Idle, Empty, EnvFile, Goes, files, systemd, service, counts,
              IInv, TypeOK, Cmds, Ops, Steps, Procs, PendingBinds, EnvFiles,
              FileKinds, Confs
  <2>2. Unconditional'
    BY <1>3, ServiceAssumption
      DEF Unconditional, CommandIsAtAStep, StepsOf, MarkedIsOurs,
          OnlyTheRunningHold, Binding, UninstallProceeds, Removing,
          UninstallMeetsNothing
  <2>3. ASSUME ~disturbed' PROVE Undisturbed'
    BY <1>3, <2>3, ServiceAssumption
      DEF Undisturbed, FilesAreOurs, TheServiceIsInstalled,
          HeldValuesAreCurrent, TheOwnerIsBound, TheBindingIsKnown,
          TheServiceIsConfigured, NothingRunsMeanwhile, Binding, IsManaged,
          IsActive, ValuesOf, KeptBinding, StepsOf, NoBind, WillRestart,
          UninstallMeetsNothing, ShouldManage
  <2> QED
    BY <2>1, <2>2, <2>3
<1> QED
  BY <1>1, <1>2, <1>3 DEF Model

(* The service commands start, stop and restart keep it.                     *)
LEMMA ControlKeepsInvariant == ASSUME IInv, Control PROVE IInv'
<1>1. ASSUME ServiceStarts PROVE IInv'
  <2>1. TypeOK'
    BY <1>1, RecordTypes, SystemdTypes, EndsTypes, ServiceAssumption
      DEF ServiceStarts, Types, service, Binding, IInv, TypeOK, FileKinds,
          Steps, Procs
  <2> USE DEF ServiceStarts, Present, Known, LoadedFrom, Types, Idle, Empty,
              EnvFile, IsActive, service, EndsAs, NoConf, NoBind, Binding,
              Started, IInv, TypeOK, Cmds, Ops, Steps, Procs, PendingBinds,
              EnvFiles, FileKinds, Confs
  <2>2. Unconditional'
    BY <1>1, ServiceAssumption
      DEF Unconditional, CommandIsAtAStep, MarkedIsOurs, OnlyTheRunningHold,
          UninstallProceeds, UninstallMeetsNothing
  <2>3. ASSUME ~disturbed' PROVE Undisturbed'
    BY <1>1, <2>3, ServiceAssumption
      DEF Undisturbed, FilesAreOurs, TheServiceIsInstalled,
          HeldValuesAreCurrent, TheOwnerIsBound, TheBindingIsKnown,
          TheServiceIsConfigured, NothingRunsMeanwhile, KeptBinding, At,
          StepsOf, WillRestart, UninstallMeetsNothing, ShouldManage,
          ServiceInstalled
  <2> QED
    BY <2>1, <2>2, <2>3
<1>2. ASSUME ServiceStops PROVE IInv'
  <2>1. TypeOK'
    BY <1>2, RecordTypes, SystemdTypes, EndsTypes, ServiceAssumption
      DEF ServiceStops, Types, Binding, systemd, IInv, TypeOK, FileKinds,
          Steps, Procs
  <2> USE DEF ServiceStops, Present, Known, LoadedFrom, Types, Idle, Empty,
              EnvFile, EndsAs, NoConf, NoBind, Binding, systemd, IInv, TypeOK,
              Cmds, Ops, Steps, Procs, PendingBinds, EnvFiles, FileKinds, Confs
  <2>2. Unconditional'
    BY <1>2, ServiceAssumption
      DEF Unconditional, CommandIsAtAStep, MarkedIsOurs, OnlyTheRunningHold,
          UninstallProceeds, UninstallMeetsNothing
  <2>3. ASSUME ~disturbed' PROVE Undisturbed'
    BY <1>2, <2>3, ServiceAssumption
      DEF Undisturbed, FilesAreOurs, TheServiceIsInstalled,
          HeldValuesAreCurrent, TheOwnerIsBound, TheBindingIsKnown,
          TheServiceIsConfigured, NothingRunsMeanwhile, At, StepsOf,
          WillRestart, UninstallMeetsNothing, ShouldManage, ServiceInstalled
  <2> QED
    BY <2>1, <2>2, <2>3
<1>3. ASSUME ServiceRestarts PROVE IInv'
  <2>1. TypeOK'
    BY <1>3, RecordTypes, SystemdTypes, EndsTypes, ServiceAssumption
      DEF ServiceRestarts, Types, Binding, IInv, TypeOK, FileKinds, Steps,
          Procs
  <2> USE DEF ServiceRestarts, Present, Known, LoadedFrom, Types, Idle, Empty,
              EnvFile, EndsAs, NoConf, NoBind, Binding, Started, IInv, TypeOK,
              Cmds, Ops, Steps, Procs, PendingBinds, EnvFiles, FileKinds, Confs
  <2>2. Unconditional'
    BY <1>3, ServiceAssumption
      DEF Unconditional, CommandIsAtAStep, MarkedIsOurs, OnlyTheRunningHold,
          UninstallProceeds, UninstallMeetsNothing
  <2>3. ASSUME ~disturbed' PROVE Undisturbed'
    BY <1>3, <2>3, ServiceAssumption
      DEF Undisturbed, FilesAreOurs, TheServiceIsInstalled,
          HeldValuesAreCurrent, TheOwnerIsBound, TheBindingIsKnown,
          TheServiceIsConfigured, NothingRunsMeanwhile, At, StepsOf,
          WillRestart, UninstallMeetsNothing, ShouldManage, ServiceInstalled
  <2> QED
    BY <2>1, <2>2, <2>3
<1> QED
  BY <1>1, <1>2, <1>3 DEF Control

(* The steps of topagent upgrade keep it.                                    *)
LEMMA UpgradeKeepsInvariant == ASSUME IInv, Upgrade PROVE IInv'
<1>1. ASSUME UpgradeBegins PROVE IInv'
  <2>1. TypeOK'
    <3>1. IsActive \in BOOLEAN
      BY DEF IsActive
    <3>2. \A was \in BOOLEAN :
             [Idle EXCEPT !.op = "upgrade", !.pc = "stop", !.was = was] \in Cmds
      BY RecordTypes, TypedCommands DEF Ops, Steps
    <3>3. PICK was \in {IsActive, FALSE} :
             Types([Idle EXCEPT !.op = "upgrade", !.pc = "stop", !.was = was])
      BY <1>1, Zenon DEF UpgradeBegins
    <3>4. was \in BOOLEAN
      BY <3>1
    <3>5. cmd' \in Cmds
      BY <3>2, <3>3, <3>4 DEF Types
    <3>6. commands' \in Nat
      BY <3>3 DEF Types, IInv, TypeOK
    <3> QED
      BY <1>1, <3>5, <3>6 DEF UpgradeBegins, IInv, TypeOK, files, systemd, service
  <2> USE DEF UpgradeBegins, Types, Idle, Empty, EnvFile, IsActive, files,
              systemd, service, IInv, TypeOK, Cmds, Ops, Steps, Procs,
              PendingBinds, EnvFiles, FileKinds, Confs
  <2>2. Unconditional'
    BY <1>1, ServiceAssumption
      DEF Unconditional, CommandIsAtAStep, StepsOf, MarkedIsOurs,
          OnlyTheRunningHold, Binding, UninstallProceeds, UninstallMeetsNothing
  <2>3. ASSUME ~disturbed' PROVE Undisturbed'
    <3>0. ~disturbed /\ Undisturbed
      BY <1>1, <2>3
    <3>1. FilesAreOurs'
      BY <1>1, <2>3, <3>0, ServiceAssumption DEF Undisturbed, FilesAreOurs
    <3>2. TheServiceIsInstalled'
      BY <1>1, <2>3, <3>0, ServiceAssumption
        DEF Undisturbed, TheServiceIsInstalled, Known
    <3>3. HeldValuesAreCurrent'
      BY <1>1, <2>3, <3>0, ServiceAssumption
        DEF Undisturbed, HeldValuesAreCurrent, Binding, At
    <3>4. TheOwnerIsBound'
      BY <1>1, <2>3, <3>0, ServiceAssumption DEF Undisturbed, TheOwnerIsBound
    <3>5. TheBindingIsKnown'
      BY <1>1, <2>3, <3>0, ServiceAssumption
        DEF Undisturbed, TheBindingIsKnown, Binding
    <3>6. TheServiceIsConfigured'
      BY <1>1, <2>3, <3>0, ServiceAssumption
        DEF Undisturbed, TheServiceIsConfigured, WillRestart
    <3>7. NothingRunsMeanwhile'
      BY <1>1, <2>3, <3>0, ServiceAssumption DEF NothingRunsMeanwhile
    <3> QED
      BY <3>1, <3>2, <3>3, <3>4, <3>5, <3>6, <3>7 DEF Undisturbed
  <2> QED
    BY <2>1, <2>2, <2>3
<1>2. ASSUME UpgradeStops PROVE IInv'
  <2>1. TypeOK'
    <3>1. cmd' \in Cmds
      BY <1>2, GoesTypes DEF UpgradeStops, Goes, IInv, TypeOK, Steps
    <3>2. CASE EndsAs("off")
      BY <1>2, <3>1, <3>2, EndsTypes DEF UpgradeStops, IInv, TypeOK, systemd, counts,
                                      Procs
    <3>3. CASE ~EndsAs("off")
      BY <1>2, <3>1, <3>3 DEF UpgradeStops, IInv, TypeOK, systemd, service, counts
    <3> QED
      BY <1>2, <3>2, <3>3 DEF UpgradeStops
  <2> USE DEF UpgradeStops, At, Goes, EndsAs, NoConf, NoBind, Empty, EnvFile,
              Binding, service, systemd, counts, IInv, TypeOK, Cmds, Ops,
              Steps, Procs, PendingBinds, EnvFiles, FileKinds, Confs
  <2>2. Unconditional'
    BY <1>2, ServiceAssumption
      DEF Unconditional, CommandIsAtAStep, StepsOf, MarkedIsOurs,
          OnlyTheRunningHold, UninstallProceeds, Removing,
          UninstallMeetsNothing
  <2>3. ASSUME ~disturbed' PROVE Undisturbed'
    BY <1>2, <2>3, ServiceAssumption
      DEF Undisturbed, FilesAreOurs, TheServiceIsInstalled,
          HeldValuesAreCurrent, TheOwnerIsBound, TheBindingIsKnown,
          TheServiceIsConfigured, NothingRunsMeanwhile, IsActive, Known,
          ValuesOf, KeptBinding, StepsOf, Idle, WillRestart,
          UninstallMeetsNothing, ShouldManage, ServiceInstalled
  <2> QED
    BY <2>1, <2>2, <2>3
<1>3. ASSUME UpgradeReplaces PROVE IInv'
  <2>1. TypeOK'
    <3>1. cmd' \in Cmds
      BY <1>3, RecordTypes, GoesTypes DEF UpgradeReplaces, Goes, IInv, TypeOK, Steps
    <3>2. conf' \in Confs
      BY <1>3 DEF UpgradeReplaces, Confs, IInv, TypeOK
    <3> QED
      BY <1>3, <3>1, <3>2 DEF UpgradeReplaces, systemd, counts, IInv, TypeOK
  <2> USE DEF UpgradeReplaces, At, Goes, Idle, Empty, EnvFile, systemd,
              service, counts, IInv, TypeOK, Cmds, Ops, Steps, Procs,
              PendingBinds, EnvFiles, FileKinds, Confs
  <2>2. Unconditional'
    BY <1>3, ServiceAssumption
      DEF Unconditional, CommandIsAtAStep, StepsOf, MarkedIsOurs,
          OnlyTheRunningHold, Binding, UninstallProceeds, Removing,
          UninstallMeetsNothing
  <2>3. ASSUME ~disturbed' PROVE Undisturbed'
    BY <1>3, <2>3, ServiceAssumption
      DEF Undisturbed, FilesAreOurs, TheServiceIsInstalled,
          HeldValuesAreCurrent, TheOwnerIsBound, TheBindingIsKnown,
          TheServiceIsConfigured, NothingRunsMeanwhile, Binding, IsManaged,
          IsActive, Known, ValuesOf, KeptBinding, StepsOf, NoBind, WillRestart,
          UninstallMeetsNothing, ShouldManage, ServiceInstalled
  <2> QED
    BY <2>1, <2>2, <2>3
<1>4. ASSUME UpgradeFails PROVE IInv'
  <2>1. TypeOK'
    BY <1>4, RecordTypes, ServiceAssumption
      DEF UpgradeFails, At, files, systemd, service, counts, IInv, TypeOK,
          FileKinds, Steps, Procs
  <2> USE DEF UpgradeFails, At, Idle, Empty, EnvFile, files, systemd, service,
              counts, IInv, TypeOK, Cmds, Ops, Steps, Procs, PendingBinds,
              EnvFiles, FileKinds, Confs
  <2>2. Unconditional'
    BY <1>4, ServiceAssumption
      DEF Unconditional, CommandIsAtAStep, StepsOf, MarkedIsOurs,
          OnlyTheRunningHold, Binding, UninstallProceeds, UninstallMeetsNothing
  <2>3. ASSUME ~disturbed' PROVE Undisturbed'
    BY <1>4, <2>3, ServiceAssumption
      DEF Undisturbed, FilesAreOurs, TheServiceIsInstalled,
          HeldValuesAreCurrent, TheOwnerIsBound, TheBindingIsKnown,
          TheServiceIsConfigured, NothingRunsMeanwhile, Binding, IsManaged,
          IsActive, Known, ValuesOf, KeptBinding, StepsOf, NoBind, WillRestart,
          UninstallMeetsNothing, ShouldManage, ServiceInstalled
  <2> QED
    BY <2>1, <2>2, <2>3
<1> QED
  BY <1>1, <1>2, <1>3, <1>4 DEF Upgrade

(* The steps of topagent uninstall keep it.                                  *)
LEMMA UninstallKeepsInvariant == ASSUME IInv, Uninstall PROVE IInv'
<1>1. ASSUME NEW purge \in BOOLEAN, UninstallReads(purge) PROVE IInv'
  <2>1. TypeOK'
    <3>1. Idle \in Cmds /\ ValuesOf(env) \in EnvFiles
      BY RecordTypes DEF IInv, TypeOK
    <3>2. ASSUME NEW b \in BOOLEAN, NEW pc \in Steps
          PROVE  [Idle EXCEPT !.op = "uninstall", !.read = ValuesOf(env),
                     !.purge = purge, !.pc = pc, !.was = b] \in Cmds
      BY <3>1, TypedCommands DEF Ops
    <3>3. ShouldManage \in BOOLEAN /\ (IF ShouldManage THEN "stop" ELSE "unit") \in Steps
      BY DEF ShouldManage, IsManaged, Steps
    <3>4. cmd' \in Cmds
      BY <1>1, <3>2, <3>3 DEF UninstallReads, Types
    <3> QED
      BY <1>1, <3>4 DEF UninstallReads, Types, IInv, TypeOK, files, systemd, service
  <2> USE DEF UninstallReads, Types, Idle, Empty, EnvFile, ValuesOf,
              ShouldManage, IsManaged, files, systemd, service, IInv, TypeOK,
              Cmds, Ops, Steps, Procs, PendingBinds, EnvFiles, FileKinds, Confs
  <2>2. Unconditional'
    <3>1. CommandIsAtAStep'
      BY <1>1, ServiceAssumption DEF Unconditional, CommandIsAtAStep, StepsOf
    <3>2. MarkedIsOurs'
      BY <1>1, ServiceAssumption DEF Unconditional, MarkedIsOurs
    <3>3. OnlyTheRunningHold'
      BY <1>1, ServiceAssumption DEF Unconditional, OnlyTheRunningHold, Binding
    <3>4. UninstallProceeds'
      BY <1>1, ServiceAssumption
        DEF Unconditional, UninstallProceeds, Removing, MarkedIsOurs
    <3>5. UninstallMeetsNothing'
      BY <1>1, ServiceAssumption
        DEF Unconditional, UninstallMeetsNothing, MarkedIsOurs
    <3> QED
      BY <3>1, <3>2, <3>3, <3>4, <3>5 DEF Unconditional
  <2>3. ASSUME ~disturbed' PROVE Undisturbed'
    BY <1>1, <2>3, ServiceAssumption
      DEF Undisturbed, FilesAreOurs, TheServiceIsInstalled,
          HeldValuesAreCurrent, TheOwnerIsBound, TheBindingIsKnown,
          TheServiceIsConfigured, NothingRunsMeanwhile, Binding, IsActive,
          Known, KeptBinding, At, StepsOf, NoBind, WillRestart,
          UninstallMeetsNothing, ServiceInstalled
  <2> QED
    BY <2>1, <2>2, <2>3
<1>2. ASSUME StopWorks PROVE IInv'
  <2>1. TypeOK'
    BY <1>2, RecordTypes, GoesTypes, EndsTypes, ServiceAssumption
      DEF StopWorks, At, Goes, Binding, systemd, counts, IInv, TypeOK,
          FileKinds, Steps, Procs
  <2> USE DEF StopWorks, At, Goes, EndsAs, NoConf, NoBind, Empty, EnvFile,
              Binding, systemd, counts, IInv, TypeOK, Cmds, Ops, Steps, Procs,
              PendingBinds, EnvFiles, FileKinds, Confs
  <2>2. Unconditional'
    BY <1>2, ServiceAssumption
      DEF Unconditional, CommandIsAtAStep, StepsOf, MarkedIsOurs,
          OnlyTheRunningHold, UninstallProceeds, Removing,
          UninstallMeetsNothing
  <2>3. ASSUME ~disturbed' PROVE Undisturbed'
    <3>0. ~disturbed /\ Undisturbed
      BY <1>2, <2>3
    <3>1. FilesAreOurs'
      BY <1>2, <2>3, <3>0, ServiceAssumption DEF Undisturbed, FilesAreOurs
    <3>2. TheServiceIsInstalled'
      BY <1>2, <2>3, <3>0, ServiceAssumption
        DEF Undisturbed, TheServiceIsInstalled, IsActive
    <3>3. HeldValuesAreCurrent'
      BY <1>2, <2>3, <3>0, ServiceAssumption
        DEF Undisturbed, HeldValuesAreCurrent
    <3>4. TheOwnerIsBound'
      BY <1>2, <2>3, <3>0, ServiceAssumption DEF Undisturbed, TheOwnerIsBound
    <3>5. TheBindingIsKnown'
      BY <1>2, <2>3, <3>0, ServiceAssumption DEF Undisturbed, TheBindingIsKnown
    <3>6. TheServiceIsConfigured'
      BY <1>2, <2>3, <3>0, ServiceAssumption
        DEF Undisturbed, TheServiceIsConfigured
    <3>7. NothingRunsMeanwhile'
      BY <1>2, <2>3, <3>0, ServiceAssumption
        DEF Unconditional, Undisturbed, NothingRunsMeanwhile,
            UninstallMeetsNothing
    <3> QED
      BY <3>1, <3>2, <3>3, <3>4, <3>5, <3>6, <3>7 DEF Undisturbed
  <2> QED
    BY <2>1, <2>2, <2>3
<1>3. ASSUME StopFails PROVE IInv'
  <2>1. TypeOK'
    BY <1>3, RecordTypes, GoesTypes, ServiceAssumption
      DEF StopFails, At, service, systemd, counts, IInv, TypeOK, FileKinds,
          Steps, Procs
  <2> USE DEF StopFails, At, service, systemd, counts, IInv, TypeOK, Cmds, Ops,
              Steps, Procs, PendingBinds, EnvFiles, FileKinds, Confs
  <2>2. Unconditional'
    BY <1>3, ServiceAssumption
      DEF Unconditional, CommandIsAtAStep, StepsOf, MarkedIsOurs,
          OnlyTheRunningHold, Binding, UninstallProceeds, Removing,
          UninstallMeetsNothing, ShouldManage, IsManaged
  <2>3. ASSUME ~disturbed' PROVE Undisturbed'
    BY <1>3, <2>3, ServiceAssumption DEF Undisturbed
  <2> QED
    BY <2>1, <2>2, <2>3
<1>4. ASSUME DisableWorks PROVE IInv'
  <2>1. TypeOK'
    BY <1>4, RecordTypes, GoesTypes, ServiceAssumption
      DEF DisableWorks, At, Goes, files, service, counts, IInv, TypeOK,
          FileKinds, Steps, Procs
  <2> USE DEF DisableWorks, At, Goes, files, service, counts, IInv, TypeOK,
              Cmds, Ops, Steps, Procs, PendingBinds, EnvFiles, FileKinds, Confs
  <2>2. Unconditional'
    BY <1>4, ServiceAssumption
      DEF Unconditional, CommandIsAtAStep, StepsOf, MarkedIsOurs,
          OnlyTheRunningHold, Binding, UninstallProceeds, Removing,
          UninstallMeetsNothing, ShouldManage, IsManaged
  <2>3. ASSUME ~disturbed' PROVE Undisturbed'
    BY <1>4, <2>3, ServiceAssumption
      DEF Undisturbed, FilesAreOurs, TheServiceIsInstalled,
          HeldValuesAreCurrent, TheOwnerIsBound, TheBindingIsKnown,
          TheServiceIsConfigured, NothingRunsMeanwhile, Binding, IsManaged,
          IsActive, Known, ValuesOf, KeptBinding, StepsOf, Idle, NoBind,
          WillRestart, UninstallMeetsNothing, ShouldManage, ServiceInstalled
  <2> QED
    BY <2>1, <2>2, <2>3
<1>5. ASSUME DisableFails PROVE IInv'
  <2>1. TypeOK'
    BY <1>5, RecordTypes, GoesTypes, ServiceAssumption
      DEF DisableFails, At, files, service, counts, IInv, TypeOK, FileKinds,
          Steps, Procs
  <2> USE DEF DisableFails, At, files, service, counts, IInv, TypeOK, Cmds,
              Ops, Steps, Procs, PendingBinds, EnvFiles, FileKinds, Confs
  <2>2. Unconditional'
    BY <1>5, ServiceAssumption
      DEF Unconditional, CommandIsAtAStep, StepsOf, MarkedIsOurs,
          OnlyTheRunningHold, Binding, UninstallProceeds, Removing,
          UninstallMeetsNothing, ShouldManage, IsManaged
  <2>3. ASSUME ~disturbed' PROVE Undisturbed'
    BY <1>5, <2>3, ServiceAssumption DEF Undisturbed
  <2> QED
    BY <2>1, <2>2, <2>3
<1>6. ASSUME UninstallRemovesUnit PROVE IInv'
  <2>1. TypeOK'
    BY <1>6, RecordTypes, GoesTypes, ServiceAssumption
      DEF UninstallRemovesUnit, At, Goes, systemd, service, counts, IInv,
          TypeOK, FileKinds, Steps, Procs
  <2> USE DEF UninstallRemovesUnit, At, IsManaged, Goes, systemd, service,
              counts, IInv, TypeOK, Cmds, Ops, Steps, Procs, PendingBinds,
              EnvFiles, FileKinds, Confs
  <2>2. Unconditional'
    BY <1>6, ServiceAssumption
      DEF Unconditional, CommandIsAtAStep, StepsOf, MarkedIsOurs,
          OnlyTheRunningHold, Binding, UninstallProceeds, Removing,
          UninstallMeetsNothing, ShouldManage
  <2>3. ASSUME ~disturbed' PROVE Undisturbed'
    BY <1>6, <2>3, ServiceAssumption
      DEF Undisturbed, FilesAreOurs, TheServiceIsInstalled,
          HeldValuesAreCurrent, TheOwnerIsBound, TheBindingIsKnown,
          TheServiceIsConfigured, NothingRunsMeanwhile, Binding, IsActive,
          Known, ValuesOf, KeptBinding, StepsOf, Idle, NoBind, WillRestart,
          UninstallMeetsNothing, ShouldManage, ServiceInstalled
  <2> QED
    BY <2>1, <2>2, <2>3
<1>7. ASSUME UninstallRemovesEnv PROVE IInv'
  <2>1. TypeOK'
    BY <1>7, RecordTypes, GoesTypes, ServiceAssumption
      DEF UninstallRemovesEnv, At, Goes, systemd, service, counts, IInv,
          TypeOK, FileKinds, Steps, Procs
  <2> USE DEF UninstallRemovesEnv, At, IsManaged, Empty, EnvFile, Goes,
              systemd, service, counts, IInv, TypeOK, Cmds, Ops, Steps, Procs,
              PendingBinds, EnvFiles, FileKinds, Confs
  <2>2. Unconditional'
    BY <1>7, ServiceAssumption
      DEF Unconditional, CommandIsAtAStep, StepsOf, MarkedIsOurs,
          OnlyTheRunningHold, Binding, UninstallProceeds, Removing,
          UninstallMeetsNothing, ShouldManage
  <2>3. ASSUME ~disturbed' PROVE Undisturbed'
    BY <1>7, <2>3, ServiceAssumption
      DEF Undisturbed, FilesAreOurs, TheServiceIsInstalled,
          HeldValuesAreCurrent, TheOwnerIsBound, TheBindingIsKnown,
          TheServiceIsConfigured, NothingRunsMeanwhile, Unconditional,
          CommandIsAtAStep, OnlyTheRunningHold, Binding, IsActive, Known,
          ValuesOf, KeptBinding, StepsOf, Idle, NoBind, WillRestart,
          UninstallMeetsNothing, ShouldManage, ServiceInstalled
  <2> QED
    BY <2>1, <2>2, <2>3
<1>8. ASSUME UninstallPurges PROVE IInv'
  <2>1. TypeOK'
    <3>1. cmd' \in Cmds
      BY <1>8, GoesTypes DEF UninstallPurges, Goes, IInv, TypeOK, Steps
    <3>2. data' \in BOOLEAN
      BY <1>8 DEF UninstallPurges, IInv, TypeOK
    <3> QED
      BY <1>8, <3>1, <3>2 DEF UninstallPurges, IInv, TypeOK, systemd, service, counts
  <2> USE DEF UninstallPurges, At, Goes, systemd, service, counts, IInv,
              TypeOK, Cmds, Ops, Steps, Procs, PendingBinds, EnvFiles,
              FileKinds, Confs
  <2>2. Unconditional'
    <3>1. CommandIsAtAStep' /\ MarkedIsOurs' /\ OnlyTheRunningHold'
      BY <1>8 DEF Unconditional, CommandIsAtAStep, StepsOf, MarkedIsOurs,
             OnlyTheRunningHold, Binding
    <3>2. UninstallProceeds'
      BY <1>8 DEF Unconditional, UninstallProceeds, Removing
    <3>3. UninstallMeetsNothing'
      BY <1>8 DEF Unconditional, UninstallMeetsNothing
    <3> QED
      BY <3>1, <3>2, <3>3 DEF Unconditional
  <2>3. ASSUME ~disturbed' PROVE Undisturbed'
    <3>0. ~disturbed /\ Undisturbed
      BY <1>8, <2>3
    <3>1. FilesAreOurs' /\ TheServiceIsInstalled' /\ TheOwnerIsBound'
      BY <1>8, <3>0 DEF Undisturbed, FilesAreOurs, TheServiceIsInstalled,
             IsActive, Known, TheOwnerIsBound
    <3>2. HeldValuesAreCurrent'
      <4>1. cmd'.pc = "binary"
        BY <1>8
      <4>2. Binding => pending.copy = env
        BY <3>0 DEF Undisturbed, HeldValuesAreCurrent
      <4> QED
        BY <1>8, <4>1, <4>2 DEF HeldValuesAreCurrent, Binding
    <3>3. TheBindingIsKnown' /\ TheServiceIsConfigured'
      BY <1>8, <3>0 DEF Undisturbed, TheBindingIsKnown, TheServiceIsConfigured,
             Binding, WillRestart
    <3>4. NothingRunsMeanwhile'
      BY <1>8, <3>0 DEF Undisturbed, NothingRunsMeanwhile
    <3> QED
      BY <3>1, <3>2, <3>3, <3>4 DEF Undisturbed
  <2> QED
    BY <2>1, <2>2, <2>3
<1>9. ASSUME UninstallRemovesBinary PROVE IInv'
  <2>1. TypeOK'
    BY <1>9, RecordTypes, GoesTypes, ServiceAssumption
      DEF UninstallRemovesBinary, At, Goes, systemd, service, counts, IInv,
          TypeOK, FileKinds, Steps, Procs
  <2> USE DEF UninstallRemovesBinary, At, Goes, systemd, service, counts, IInv,
              TypeOK, Cmds, Ops, Steps, Procs, PendingBinds, EnvFiles,
              FileKinds, Confs
  <2>2. Unconditional'
    BY <1>9, ServiceAssumption
      DEF Unconditional, CommandIsAtAStep, StepsOf, MarkedIsOurs,
          OnlyTheRunningHold, Binding, UninstallProceeds, Removing,
          UninstallMeetsNothing, ShouldManage, IsManaged
  <2>3. ASSUME ~disturbed' PROVE Undisturbed'
    BY <1>9, <2>3, ServiceAssumption
      DEF Undisturbed, FilesAreOurs, TheServiceIsInstalled,
          HeldValuesAreCurrent, TheOwnerIsBound, TheBindingIsKnown,
          TheServiceIsConfigured, NothingRunsMeanwhile, Binding, IsManaged,
          IsActive, Known, ValuesOf, KeptBinding, StepsOf, Idle, NoBind,
          WillRestart, UninstallMeetsNothing, ShouldManage, ServiceInstalled
  <2> QED
    BY <2>1, <2>2, <2>3
<1>10. ASSUME UninstallEnds PROVE IInv'
  <2>1. TypeOK'
    BY <1>10, RecordTypes, SystemdTypes DEF UninstallEnds, IInv, TypeOK, files,
         service, counts
  <2> USE DEF UninstallEnds, At, Idle, Empty, EnvFile, LoadedFrom, files,
              service, counts, IInv, TypeOK, Cmds, Ops, Steps, Procs,
              PendingBinds, EnvFiles, FileKinds, Confs
  <2>2. Unconditional'
    BY <1>10, ServiceAssumption
      DEF Unconditional, CommandIsAtAStep, StepsOf, MarkedIsOurs,
          OnlyTheRunningHold, Binding, UninstallProceeds, UninstallMeetsNothing
  <2>3. ASSUME ~disturbed' PROVE Undisturbed'
    BY <1>10, <2>3, ServiceAssumption
      DEF Undisturbed, FilesAreOurs, TheServiceIsInstalled,
          HeldValuesAreCurrent, TheOwnerIsBound, TheBindingIsKnown,
          TheServiceIsConfigured, NothingRunsMeanwhile, Binding, IsManaged,
          IsActive, Known, ValuesOf, KeptBinding, StepsOf, NoBind, WillRestart,
          UninstallMeetsNothing, ShouldManage, ServiceInstalled
  <2> QED
    BY <2>1, <2>2, <2>3
<1>11. ASSUME UninstallCannotRemove PROVE IInv'
  <2> USE DEF UninstallCannotRemove, At, files, systemd, service, counts, IInv
  <2>1. TypeOK'
    BY <1>11, RecordTypes DEF TypeOK
  <2> USE DEF Idle, Empty, EnvFile, TypeOK
  <2>2. Unconditional'
    BY <1>11
      DEF Unconditional, CommandIsAtAStep, StepsOf, MarkedIsOurs,
          OnlyTheRunningHold, Binding, UninstallProceeds, Removing,
          UninstallMeetsNothing
  <2>3. ASSUME ~disturbed' PROVE Undisturbed'
    BY <1>11, <2>3
      DEF Undisturbed, FilesAreOurs, TheServiceIsInstalled,
          HeldValuesAreCurrent, TheOwnerIsBound, TheBindingIsKnown,
          TheServiceIsConfigured, NothingRunsMeanwhile, Binding, IsActive,
          Known, ValuesOf, WillRestart
  <2> QED
    BY <2>1, <2>2, <2>3
<1> QED
  BY <1>1, <1>2, <1>3, <1>4, <1>5, <1>6, <1>7, <1>8, <1>9, <1>10, <1>11
    DEF Uninstall, UninstallStops, UninstallDisables, StopWorks, StopFails,
        DisableWorks, DisableFails

(* What the service and systemd do of their own keeps it.                    *)
LEMMA ServiceKeepsInvariant == ASSUME IInv, Service PROVE IInv'
<1>1. ASSUME Loads PROVE IInv'
  <2>1. TypeOK'
    <3>1. conf' \in Confs
      BY <1>1 DEF Loads, Configuration, Confs, EnvFiles, IInv, TypeOK
    <3> QED
      BY <1>1, <3>1 DEF Loads, IInv, TypeOK, files, systemd, counts, Procs
  <2> USE DEF Loads, IsManaged, Configuration, files, systemd, counts, IInv,
              TypeOK, Cmds, Ops, Steps, Procs, PendingBinds, EnvFiles,
              FileKinds, Confs
  <2>2. Unconditional'
    BY <1>1, ServiceAssumption
      DEF Unconditional, CommandIsAtAStep, MarkedIsOurs, OnlyTheRunningHold,
          Binding, UninstallProceeds, Removing, UninstallMeetsNothing,
          ShouldManage
  <2>3. ASSUME ~disturbed' PROVE Undisturbed'
    BY <1>1, <2>3, ServiceAssumption
      DEF Undisturbed, FilesAreOurs, TheServiceIsInstalled,
          HeldValuesAreCurrent, TheOwnerIsBound, TheBindingIsKnown,
          TheServiceIsConfigured, NothingRunsMeanwhile, Unconditional,
          CommandIsAtAStep, OnlyTheRunningHold, Binding, IsActive, Known,
          ValuesOf, KeptBinding, At, StepsOf, Idle, NoBind, WillRestart,
          UninstallMeetsNothing, ShouldManage, ServiceInstalled
  <2> QED
    BY <2>1, <2>2, <2>3
<1>2. ASSUME CannotStart PROVE IInv'
  <2>1. TypeOK'
    BY <1>2, RecordTypes, ServiceAssumption
      DEF CannotStart, files, systemd, counts, IInv, TypeOK, FileKinds, Steps,
          Procs
  <2> USE DEF CannotStart, files, systemd, counts, IInv, TypeOK, Cmds, Ops,
              Steps, Procs, PendingBinds, EnvFiles, FileKinds, Confs
  <2>2. Unconditional'
    BY <1>2, ServiceAssumption
      DEF Unconditional, CommandIsAtAStep, MarkedIsOurs, OnlyTheRunningHold,
          Binding, UninstallProceeds, Removing, UninstallMeetsNothing,
          ShouldManage, IsManaged
  <2>3. ASSUME ~disturbed' PROVE Undisturbed'
    BY <1>2, <2>3, ServiceAssumption
      DEF Undisturbed, FilesAreOurs, TheServiceIsInstalled,
          HeldValuesAreCurrent, TheOwnerIsBound, TheBindingIsKnown,
          TheServiceIsConfigured, NothingRunsMeanwhile, Binding, IsManaged,
          IsActive, Known, ValuesOf, KeptBinding, At, StepsOf, Idle, NoBind,
          WillRestart, UninstallMeetsNothing, ShouldManage, ServiceInstalled
  <2> QED
    BY <2>1, <2>2, <2>3
<1>3. ASSUME Retries PROVE IInv'
  <2>1. TypeOK'
    BY <1>3, RecordTypes, SystemdTypes, ServiceAssumption
      DEF Retries, files, systemd, counts, IInv, TypeOK, FileKinds, Steps,
          Procs
  <2> USE DEF Retries, Started, Known, LoadedFrom, files, systemd, counts,
              IInv, TypeOK, Cmds, Ops, Steps, Procs, PendingBinds, EnvFiles,
              FileKinds, Confs
  <2>2. Unconditional'
    BY <1>3, ServiceAssumption
      DEF Unconditional, CommandIsAtAStep, MarkedIsOurs, OnlyTheRunningHold,
          Binding, UninstallProceeds, Removing, UninstallMeetsNothing,
          ShouldManage, IsManaged
  <2>3. ASSUME ~disturbed' PROVE Undisturbed'
    BY <1>3, <2>3, ServiceAssumption
      DEF Undisturbed, FilesAreOurs, TheServiceIsInstalled,
          HeldValuesAreCurrent, TheOwnerIsBound, TheBindingIsKnown,
          TheServiceIsConfigured, NothingRunsMeanwhile, OnlyTheRunningHold,
          Binding, IsManaged, IsActive, ValuesOf, KeptBinding, At, StepsOf,
          Idle, NoBind, WillRestart, UninstallMeetsNothing, ShouldManage,
          ServiceInstalled
  <2> QED
    BY <2>1, <2>2, <2>3
<1>4. ASSUME BindIsSaved PROVE IInv'
  <2>1. TypeOK'
    <3>1. env' \in EnvFiles
      BY <1>4 DEF BindIsSaved, WithBinding, PendingBinds, EnvFiles, IInv, TypeOK
    <3>2. served' \in [name : Names \cup {None}, people : SUBSET People]
      BY <1>4 DEF BindIsSaved, Serves, Binding, PendingBinds, IInv, TypeOK
    <3> QED
      BY <1>4, <3>1, <3>2, RecordTypes DEF BindIsSaved, Serves, CommandHoldsValues, IInv,
                                    TypeOK, systemd, counts
  <2> USE DEF BindIsSaved, Binding, WithBinding, CommandHoldsValues, NoBind,
              Empty, EnvFile, Serves, systemd, counts, IInv, TypeOK, Cmds, Ops,
              Steps, Procs, PendingBinds, EnvFiles, FileKinds, Confs
  <2>2. Unconditional'
    BY <1>4, ServiceAssumption
      DEF Unconditional, CommandIsAtAStep, MarkedIsOurs, OnlyTheRunningHold,
          UninstallProceeds, Removing, UninstallMeetsNothing
  <2>3. ASSUME ~disturbed' PROVE Undisturbed'
    BY <1>4, <2>3, ServiceAssumption
      DEF Undisturbed, FilesAreOurs, TheServiceIsInstalled,
          HeldValuesAreCurrent, TheOwnerIsBound, TheBindingIsKnown,
          TheServiceIsConfigured, NothingRunsMeanwhile, Unconditional,
          CommandIsAtAStep, OnlyTheRunningHold, IsManaged, IsActive, Known,
          ValuesOf, KeptBinding, At, StepsOf, Idle, WillRestart,
          UninstallMeetsNothing, ShouldManage, ServiceInstalled
  <2> QED
    BY <2>1, <2>2, <2>3
<1>5. ASSUME NEW p \in People, Answers(p) PROVE IInv'
  <2>1. TypeOK'
    BY <1>5, RecordTypes, ServiceAssumption
      DEF Answers, Binding, Serves, systemd, service, counts, IInv, TypeOK,
          FileKinds, Steps, Procs
  <2> USE DEF Answers, Binding, Serves, systemd, service, counts, IInv, TypeOK,
              Cmds, Ops, Steps, Procs, PendingBinds, EnvFiles, FileKinds, Confs
  <2>2. Unconditional'
    BY <1>5, ServiceAssumption
      DEF Unconditional, CommandIsAtAStep, MarkedIsOurs, OnlyTheRunningHold,
          UninstallProceeds, Removing, UninstallMeetsNothing, ShouldManage,
          IsManaged
  <2>3. ASSUME ~disturbed' PROVE Undisturbed'
    BY <1>5, <2>3, ServiceAssumption
      DEF Undisturbed, FilesAreOurs, TheServiceIsInstalled,
          HeldValuesAreCurrent, TheOwnerIsBound, TheBindingIsKnown,
          TheServiceIsConfigured, NothingRunsMeanwhile, IsManaged, IsActive,
          Known, ValuesOf, KeptBinding, At, StepsOf, Idle, NoBind, WillRestart,
          UninstallMeetsNothing, ShouldManage, ServiceInstalled
  <2> QED
    BY <2>1, <2>2, <2>3
<1>6. ASSUME NEW p \in People, Binds(p) PROVE IInv'
  <2>1. TypeOK'
    <3>1. conf' \in Confs /\ pending' \in PendingBinds
      BY <1>6, RecordTypes DEF Binds, Confs, PendingBinds, IInv, TypeOK
    <3> QED
      BY <1>6, <3>1 DEF Binds, IInv, TypeOK, files, systemd, counts
  <2> USE DEF Binds, Binding, ValuesOf, files, systemd, counts, IInv, TypeOK,
              Cmds, Ops, Steps, Procs, PendingBinds, EnvFiles, FileKinds, Confs
  <2>2. Unconditional'
    BY <1>6, ServiceAssumption
      DEF Unconditional, CommandIsAtAStep, MarkedIsOurs, OnlyTheRunningHold,
          UninstallProceeds, Removing, UninstallMeetsNothing, ShouldManage,
          IsManaged
  <2>3. ASSUME ~disturbed' PROVE Undisturbed'
    BY <1>6, <2>3, ServiceAssumption
      DEF Undisturbed, FilesAreOurs, TheServiceIsInstalled,
          HeldValuesAreCurrent, TheOwnerIsBound, TheBindingIsKnown,
          TheServiceIsConfigured, NothingRunsMeanwhile, IsManaged, IsActive,
          Known, KeptBinding, At, StepsOf, Idle, NoBind, WillRestart,
          UninstallMeetsNothing, ShouldManage, ServiceInstalled
  <2> QED
    BY <2>1, <2>2, <2>3
<1> QED
  BY <1>1, <1>2, <1>3, <1>4, <1>5, <1>6 DEF Service

(* A crash, a reboot and a file replaced by someone else keep it.            *)
LEMMA OutsideKeepsInvariant == ASSUME IInv, Outside PROVE IInv'
<1>1. ASSUME ServiceDies PROVE IInv'
  <2>1. TypeOK'
    BY <1>1, RecordTypes, EndsTypes, ServiceAssumption
      DEF ServiceDies, Happens, Binding, systemd, IInv, TypeOK, FileKinds,
          Steps, Procs
  <2> USE DEF ServiceDies, Happens, EndsAs, NoConf, NoBind, Empty, EnvFile,
              Binding, systemd, IInv, TypeOK, Cmds, Ops, Steps, Procs,
              PendingBinds, EnvFiles, FileKinds, Confs
  <2>2. Unconditional'
    BY <1>1, ServiceAssumption
      DEF Unconditional, CommandIsAtAStep, MarkedIsOurs, OnlyTheRunningHold,
          UninstallProceeds, Removing, UninstallMeetsNothing
  <2>3. ASSUME ~disturbed' PROVE Undisturbed'
    BY <1>1, <2>3, ServiceAssumption
      DEF Undisturbed, FilesAreOurs, TheServiceIsInstalled,
          HeldValuesAreCurrent, TheOwnerIsBound, TheBindingIsKnown,
          TheServiceIsConfigured, NothingRunsMeanwhile, IsManaged, IsActive,
          Known, ValuesOf, KeptBinding, At, StepsOf, Idle, WillRestart,
          UninstallMeetsNothing, ShouldManage, ServiceInstalled
  <2> QED
    BY <2>1, <2>2, <2>3
<1>2. ASSUME CommandDies PROVE IInv'
  <2>1. TypeOK'
    BY <1>2, RecordTypes, ServiceAssumption
      DEF CommandDies, Happens, At, systemd, service, IInv, TypeOK, FileKinds,
          Steps, Procs
  <2> USE DEF CommandDies, Happens, Idle, Empty, EnvFile, At, systemd, service,
              IInv, TypeOK, Cmds, Ops, Steps, Procs, PendingBinds, EnvFiles,
              FileKinds, Confs
  <2>2. Unconditional'
    BY <1>2, ServiceAssumption
      DEF Unconditional, CommandIsAtAStep, StepsOf, MarkedIsOurs,
          OnlyTheRunningHold, Binding, UninstallProceeds, UninstallMeetsNothing
  <2>3. ASSUME ~disturbed' PROVE Undisturbed'
    <3>0. ~disturbed /\ Undisturbed
      BY <1>2, <2>3
    <3>1. FilesAreOurs'
      BY <1>2, <2>3, <3>0, ServiceAssumption DEF Undisturbed, FilesAreOurs
    <3>2. TheServiceIsInstalled'
      BY <1>2, <2>3, <3>0, ServiceAssumption
        DEF Undisturbed, TheServiceIsInstalled, IsActive, Known
    <3>3. HeldValuesAreCurrent'
      BY <1>2, <2>3, <3>0, ServiceAssumption
        DEF Undisturbed, HeldValuesAreCurrent, Binding
    <3>4. TheOwnerIsBound'
      BY <1>2, <2>3, <3>0, ServiceAssumption DEF Undisturbed, TheOwnerIsBound
    <3>5. TheBindingIsKnown'
      BY <1>2, <2>3, <3>0, ServiceAssumption
        DEF Undisturbed, TheBindingIsKnown, Binding
    <3>6. TheServiceIsConfigured'
      BY <1>2, <2>3, <3>0, ServiceAssumption
        DEF Undisturbed, TheServiceIsConfigured, WillRestart
    <3>7. NothingRunsMeanwhile'
      BY <1>2, <2>3, <3>0, ServiceAssumption
        DEF Undisturbed, NothingRunsMeanwhile
    <3> QED
      BY <3>1, <3>2, <3>3, <3>4, <3>5, <3>6, <3>7 DEF Undisturbed
  <2> QED
    BY <2>1, <2>2, <2>3
<1>3. ASSUME Reboot PROVE IInv'
  <2>1. TypeOK'
    BY <1>3, RecordTypes, SystemdTypes, EndsTypes, ServiceAssumption
      DEF Reboot, Happens, Binding, IInv, TypeOK, FileKinds, Steps, Procs
  <2> USE DEF Reboot, Happens, Idle, Empty, EnvFile, LoadedFrom, EndsAs,
              NoConf, NoBind, Binding, IInv, TypeOK, Cmds, Ops, Steps, Procs,
              PendingBinds, EnvFiles, FileKinds, Confs
  <2>2. Unconditional'
    BY <1>3, ServiceAssumption
      DEF Unconditional, CommandIsAtAStep, MarkedIsOurs, OnlyTheRunningHold,
          UninstallProceeds, UninstallMeetsNothing
  <2>3. ASSUME ~disturbed' PROVE Undisturbed'
    BY <1>3, <2>3, ServiceAssumption
      DEF Undisturbed, FilesAreOurs, TheServiceIsInstalled,
          HeldValuesAreCurrent, TheOwnerIsBound, TheBindingIsKnown,
          TheServiceIsConfigured, NothingRunsMeanwhile, IsActive, Known,
          ValuesOf, KeptBinding, At, StepsOf, WillRestart,
          UninstallMeetsNothing, ShouldManage, ServiceInstalled
  <2> QED
    BY <2>1, <2>2, <2>3
<1>4. ASSUME FilesChange PROVE IInv'
  <2>1. TypeOK'
    BY <1>4, RecordTypes, ServiceAssumption
      DEF FilesChange, Happens, systemd, service, IInv, TypeOK, FileKinds,
          Steps, Procs
  <2> USE DEF FilesChange, Happens, Empty, EnvFile, systemd, service, IInv,
              TypeOK, Cmds, Ops, Steps, Procs, PendingBinds, EnvFiles,
              FileKinds, Confs
  <2>2. Unconditional'
    BY <1>4, ServiceAssumption
      DEF Unconditional, CommandIsAtAStep, MarkedIsOurs, OnlyTheRunningHold,
          Binding, UninstallProceeds, Removing, UninstallMeetsNothing,
          ShouldManage, IsManaged
  <2>3. ASSUME ~disturbed' PROVE Undisturbed'
    BY <1>4, <2>3, ServiceAssumption DEF Undisturbed
  <2> QED
    BY <2>1, <2>2, <2>3
<1> QED
  BY <1>1, <1>2, <1>3, <1>4 DEF Outside

(* The last restart of a command, and a systemctl call that fails, keep it.  *)
LEMMA RestartKeepsInvariant == ASSUME IInv, Restart \/ SystemctlFails PROVE IInv'
<1>1. ASSUME Restart PROVE IInv'
  <2>1. TypeOK'
    BY <1>1, RecordTypes, SystemdTypes, EndsTypes, ServiceAssumption
      DEF Restart, Binding, counts, IInv, TypeOK, FileKinds, Steps, Procs
  <2> USE DEF Restart, Idle, Empty, EnvFile, Known, LoadedFrom, EndsAs, NoConf,
              NoBind, Binding, Started, counts, IInv, TypeOK, Cmds, Ops, Steps,
              Procs, PendingBinds, EnvFiles, FileKinds, Confs
  <2>2. Unconditional'
    BY <1>1, ServiceAssumption
      DEF Unconditional, CommandIsAtAStep, StepsOf, MarkedIsOurs,
          OnlyTheRunningHold, UninstallProceeds, UninstallMeetsNothing
  <2>3. ASSUME ~disturbed' PROVE Undisturbed'
    BY <1>1, <2>3, ServiceAssumption
      DEF Undisturbed, FilesAreOurs, TheServiceIsInstalled,
          HeldValuesAreCurrent, TheOwnerIsBound, TheBindingIsKnown,
          TheServiceIsConfigured, NothingRunsMeanwhile, IsActive, ValuesOf,
          KeptBinding, At, StepsOf, WillRestart, UninstallMeetsNothing,
          ShouldManage, ServiceInstalled
  <2> QED
    BY <2>1, <2>2, <2>3
<1>2. ASSUME SystemctlFails PROVE IInv'
  <2>1. TypeOK'
    BY <1>2, RecordTypes, ServiceAssumption
      DEF SystemctlFails, FailsAt, service, Binding, files, systemd, counts,
          IInv, TypeOK, FileKinds, Steps, Procs
  <2> USE DEF SystemctlFails, FailsAt, Idle, Empty, EnvFile, service, Binding,
              NoConf, files, systemd, counts, IInv, TypeOK, Cmds, Ops, Steps,
              Procs, PendingBinds, EnvFiles, FileKinds, Confs
  <2>2. Unconditional'
    BY <1>2, ServiceAssumption
      DEF Unconditional, CommandIsAtAStep, StepsOf, MarkedIsOurs,
          OnlyTheRunningHold, UninstallProceeds, UninstallMeetsNothing
  <2>3. ASSUME ~disturbed' PROVE Undisturbed'
    BY <1>2, <2>3, ServiceAssumption DEF Undisturbed
  <2> QED
    BY <2>1, <2>2, <2>3
<1> QED
  BY <1>1, <1>2 

-----------------------------------------------------------------------------
(* The theorems.                                                           *)

\* Nothing is installed at first, and nobody is served.
LEMMA InitEstablishesInvariant == Init => IInv
<1> SUFFICES ASSUME Init PROVE IInv
  OBVIOUS
<1>1. TypeOK
  <2>1. Empty("absent") \in EnvFiles
    BY RecordTypes DEF FileKinds
  <2> QED
    BY <2>1, RecordTypes DEF Init, TypeOK, FileKinds, Procs
<1> USE DEF Init, Idle, NoBind, NoConf, Empty, EnvFile, Binding
<1>2. Unconditional
  BY DEF Unconditional, CommandIsAtAStep, StepsOf, MarkedIsOurs,
         OnlyTheRunningHold, UninstallProceeds, Removing, UninstallMeetsNothing
<1>3. Undisturbed
  BY DEF Undisturbed, FilesAreOurs, TheServiceIsInstalled, IsActive,
         HeldValuesAreCurrent, At, TheOwnerIsBound, TheBindingIsKnown,
         TheServiceIsConfigured, NothingRunsMeanwhile
<1> QED
  BY <1>1, <1>2, <1>3 DEF IInv

\* Whatever the order of commands, systemd, the service and the outside.
LEMMA NextKeepsInvariant == IInv /\ [Next]_vars => IInv'
<1> SUFFICES ASSUME IInv, [Next]_vars PROVE IInv'
  OBVIOUS
<1>1. CASE Next
  BY <1>1, InstallKeepsInvariant, ModelKeepsInvariant, ControlKeepsInvariant,
     UpgradeKeepsInvariant, UninstallKeepsInvariant, ServiceKeepsInvariant,
     OutsideKeepsInvariant, RestartKeepsInvariant DEF Next
<1>2. CASE UNCHANGED vars
  <2> USE <1>2 DEF vars
  <2>1. TypeOK'
    BY DEF IInv, TypeOK
  <2>2. Unconditional'
    BY DEF IInv, Unconditional, CommandIsAtAStep, MarkedIsOurs, OnlyTheRunningHold,
           Binding, UninstallProceeds, Removing, UninstallMeetsNothing
  <2>3. ASSUME ~disturbed PROVE Undisturbed'
    BY <2>3 DEF IInv, Undisturbed, FilesAreOurs, TheServiceIsInstalled, IsActive,
           Known, HeldValuesAreCurrent, At, Binding, TheOwnerIsBound,
           TheBindingIsKnown, TheServiceIsConfigured, WillRestart,
           NothingRunsMeanwhile
  <2> QED
    BY <2>1, <2>2, <2>3 DEF IInv
<1> QED
  BY <1>1, <1>2

\* The invariant holds in every reachable state, for any names, people and
\* models and however many commands are typed and things happen.
THEOREM Invariance == Spec => []IInv
BY InitEstablishesInvariant, NextKeepsInvariant, PTL DEF Spec

\* Every variable keeps to its values.
THEOREM TypeCorrect == Spec => []TypeOK
<1>1. IInv => TypeOK
  BY DEF IInv
<1> QED
  BY <1>1, Invariance, PTL

\* One allowed username, one person: all the policy has served are the one the
\* env file binds (bind_dm_user_id, run_install, model set, upgrade).
THEOREM OnePersonIsServed == Spec => []OneOwner
<1>1. IInv => OneOwner
  <2> SUFFICES ASSUME IInv, ~disturbed PROVE Cardinality(served.people) <= 1
    BY DEF OneOwner
  <2>1. served.people \subseteq {env.bound}
    BY DEF IInv, Undisturbed, TheOwnerIsBound
  <2>2. IsFiniteSet({env.bound}) /\ Cardinality({env.bound}) = 1
    BY FS_Singleton
  <2> QED
    BY <2>1, <2>2, FS_Subset
<1> QED
  BY <1>1, Invariance, PTL

\* Every command that changes the env file reaches the service before the next
\* one, and so does an upgrade that did not take the service for inactive
\* (restart_service_if_installed, run_upgrade).
THEOREM ServiceFollowsItsFiles == Spec => []ServiceIsConfigured
<1>1. IInv => ServiceIsConfigured
  <2> SUFFICES ASSUME IInv, ~disturbed, cmd = Idle, proc = "on", ~Binding
               PROVE  /\ conf.user = env.user /\ conf.bound = env.bound
                      /\ conf.model = env.model
                      /\ binary # "none" /\ ~conf.missed => conf.binary = binary
    BY DEF ServiceIsConfigured
  <2>1. ~WillRestart
    BY DEF WillRestart, Idle
  <2> QED
    BY <2>1 DEF IInv, Undisturbed, TheServiceIsConfigured, TheBindingIsKnown
<1> QED
  BY <1>1, Invariance, PTL

\* Whatever failed before and whatever the service does meanwhile, an uninstall
\* that found its env file, was not cut short and whose systemctl calls and
\* removals worked has stopped and removed what it found
\* (uninstall_installation).
THEOREM NothingIsLeftBehind == Spec => UninstallIsComplete
<1> DEFINE Complete ==
        At("uninstall", "reload") /\ cmd' = Idle /\ outside' = outside
            /\ cmd.good /\ cmd.read.marker
        => /\ proc' = "off" /\ ~enabled' /\ ~IsManaged(unit')
           /\ ~(IsManaged(env'.kind) /\ env'.marker)
           /\ cmd.purge => ~data'
<1>1. IInv /\ [Next]_vars => Complete \/ UNCHANGED vars
  <2> SUFFICES ASSUME IInv, Next, At("uninstall", "reload"), cmd' = Idle,
                      outside' = outside, cmd.good, cmd.read.marker
               PROVE  /\ proc' = "off" /\ ~enabled' /\ ~IsManaged(unit')
                      /\ ~(IsManaged(env'.kind) /\ env'.marker)
                      /\ cmd.purge => ~data'
    OBVIOUS
  <2>1. CASE UNCHANGED <<proc, enabled, unit, env, data>>
    BY <2>1 DEF IInv, Unconditional, UninstallProceeds, Removing, At, IsManaged
  <2>2. outside \in Nat /\ cmd.op = "uninstall" /\ cmd.pc = "reload" /\ cmd # Idle
    BY DEF IInv, TypeOK, At, Idle
  <2>3. CASE Uninstall
    BY <2>1, <2>2, <2>3 DEF Uninstall, UninstallReads, UninstallStops,
           UninstallDisables, UninstallRemovesUnit, UninstallRemovesEnv,
           UninstallCannotRemove, UninstallPurges, UninstallRemovesBinary,
           UninstallEnds, Types, At, files, systemd, service
  <2>4. CASE Outside
    BY <2>2, <2>4 DEF Outside, ServiceDies, CommandDies, Reboot, FilesChange, Happens
  <2>5. CASE Service
    BY <2>2, <2>5 DEF Service, Loads, CannotStart, Retries, BindIsSaved, Answers,
           Binds
  <2>6. CASE Install \/ Model \/ Control \/ Upgrade \/ Restart \/ SystemctlFails
    BY <2>2, <2>6 DEF Install, InstallAsks, InstallRefused, InstallAnswered,
           InstallWritesEnv, InstallWritesUnit, InstallReloads, InstallEnables,
           InstallEnablesNow, Model, ModelReads, ModelWrites, ModelProbes, Control,
           ServiceStarts, ServiceStops, ServiceRestarts, Upgrade, UpgradeBegins,
           UpgradeStops, UpgradeReplaces, UpgradeFails, Restart, SystemctlFails,
           Types, At
  <2> QED
    BY <2>3, <2>4, <2>5, <2>6 DEF Next
<1>2. IInv /\ [Next]_vars => [Complete]_vars
  BY <1>1
<1> QED
  BY <1>2, Invariance, PTL DEF Spec, UninstallIsComplete

=============================================================================
