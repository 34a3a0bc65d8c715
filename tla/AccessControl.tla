---------------------------- MODULE AccessControl ----------------------------
(***************************************************************************)
(* The capability manager (topagent-core/src/capability/decision.rs) of a  *)
(* running Telegram service, and everybody who touches it: one worker per  *)
(* chat that runs tasks and asks before it acts (context.rs), the polling  *)
(* thread with the operator's /access commands (telegram/session.rs), and  *)
(* a `topagent access` process that knows only the file (access.rs).       *)
(*                                                                         *)
(* The manager's state is behind one Mutex; what is not behind it is the   *)
(* file.  Every change of the grants is followed by persist: a snapshot    *)
(* taken under the lock, then fs::write without it, which truncates the    *)
(* file and then fills it.  One action is one critical section or one      *)
(* system call.                                                            *)
(***************************************************************************)
EXTENDS CapabilityPolicy, FiniteSets

CONSTANTS
    Chats,        \* chats with a session; each runs one task at a time
    Requests,     \* the requests their tasks make
    Offers,       \* [kind, target, mode] an operator's grant command names
    Switchable,   \* the profiles the operator switches between
    FirstAccess,  \* the AccessConfig the file holds at first
    MaxGrants,    \* bound on the grants ever made
    MaxTasks,     \* bound on the tasks ever started
    MaxCommands,  \* bound on the operator's access commands
    MaxRestarts   \* bound on crashes of the service

ASSUME AccessAssumption ==
    /\ Requests \subseteq Request /\ Requests # {}
    /\ Offers \subseteq [kind : Kinds, target : Targets, mode : Modes]
    /\ Switchable \subseteq Profiles
    /\ FirstAccess \in Config
    /\ {MaxGrants, MaxTasks, MaxCommands, MaxRestarts} \subseteq Nat
    /\ NoId \notin Nat \cup Chats /\ {"telegram", "cli"} \cap Chats = {}

VARIABLES
    memory,    \* the manager's config and grants
    store,     \* the access file
    pc,        \* where each thread is
    after,     \* where it goes once it has persisted
    draft,     \* the document it is persisting
    task,      \* each chat's running task (NoId: none)
    call,      \* the request each worker is asking about
    scope,     \* the scope its approval came with
    made,      \* grants made so far: they are numbered in that order
    begun,     \* tasks begun so far: they are numbered in that order
    commands,  \* access commands so far
    restarts,  \* crashes so far
    used       \* history: which task used which grant, in which life of the
               \* service

service == <<memory, task, call, scope>>
counters == <<made, begun, commands, restarts>>
vars == <<service, store, pc, after, draft, counters, used>>

Threads == Chats \cup {"telegram", "cli"}
Tasks == 1 .. MaxTasks

Grant == [id : 1 .. MaxGrants, kind : Kinds, target : Targets \cup {AnyTarget},
          mode : Modes, scope : Scopes, task : Tasks \cup {NoId},
          session : Chats \cup {NoId}, uses : Nat \cup {NoLimit},
          persisted : BOOLEAN, reason : {"approval", "telegram", "cli"}]
Document == [access : Config, grants : SUBSET Grant]

\* AccessConfigDocument::default, which is also what an empty file reads as.
DefaultDocument == [access |-> ForProfile("Developer"), grants |-> {}]

\* load_or_default succeeds and gives store.doc unless the file is garbled.
Readable == store.state # "garbled"

Init ==
    /\ store = [state |-> "whole",
                doc |-> [access |-> FirstAccess, grants |-> {}]]
    /\ memory = store.doc
    /\ pc = [th \in Threads |-> "idle"]
    /\ after = [th \in Threads |-> "idle"]
    /\ draft = [th \in Threads |-> DefaultDocument]
    /\ task = [c \in Chats |-> NoId]
    /\ call \in [Chats -> {CHOOSE r \in Requests : TRUE}]
    /\ scope = [c \in Chats |-> "Once"]
    /\ made = 0 /\ begun = 0 /\ commands = 0 /\ restarts = 0
    /\ used = {}

-----------------------------------------------------------------------------
(* persist_grants_and_config and save_to_path.                             *)

GoPersist(th, then) ==
    /\ pc' = [pc EXCEPT ![th] = "snapshot"]
    /\ after' = [after EXCEPT ![th] = then]

GoOn(th, then) ==
    /\ pc' = [pc EXCEPT ![th] = then]
    /\ UNCHANGED after

\* Mutant of Kept: temporary grants are written to the file too.
KeptAll(d) == d

\* What of the memory belongs into the file.
Kept(d) == [d EXCEPT !.grants = {g \in @ : g.persisted /\ ~Expired(g)}]

\* Mutant of Snapshot: grants the file knows are taken over while at it.
SnapshotMerging(th) ==
    /\ pc[th] = "snapshot"
    /\ Readable
    /\ draft' = [draft EXCEPT ![th] =
                    [Kept(memory) EXCEPT !.grants = @ \cup store.doc.grants]]
    /\ memory' = [memory EXCEPT !.grants = @ \cup store.doc.grants]
    /\ pc' = [pc EXCEPT ![th] = "open"]
    /\ UNCHANGED <<store, after, task, call, scope, counters, used>>

Snapshot(th) ==
    /\ pc[th] = "snapshot"
    /\ draft' = [draft EXCEPT ![th] = Kept(memory)]
    /\ pc' = [pc EXCEPT ![th] = "open"]
    /\ UNCHANGED <<service, store, after, counters, used>>

\* fs::write creates the file anew.
Open(th) ==
    /\ pc[th] = "open"
    /\ store' = [state |-> "empty", doc |-> DefaultDocument]
    /\ pc' = [pc EXCEPT ![th] = "write"]
    /\ UNCHANGED <<service, after, draft, counters, used>>

\* What a file holds once d was written from its start over what is there:
\* the rest of a longer content stays behind d.  Where d is where the old
\* content begins, that makes the old content; else what it makes depends on
\* the lengths, and mostly cannot be parsed.
Overwritten(d) ==
    LET old == store.doc
    IN  CASE store.state = "empty" -> {[state |-> "whole", doc |-> d]}
          [] /\ store.state = "whole"
             /\ d.access = old.access
             /\ d.grants \subseteq old.grants
             /\ \A g \in d.grants, h \in old.grants \ d.grants : g.id < h.id
                -> {store}
          [] OTHER -> {[state |-> "whole", doc |-> d],
                       [state |-> "garbled", doc |-> DefaultDocument]}

Write(th) ==
    /\ pc[th] = "write"
    /\ store' \in Overwritten(draft[th])
    /\ pc' = [pc EXCEPT ![th] = after[th]]
    /\ after' = [after EXCEPT ![th] = "idle"]
    /\ draft' = [draft EXCEPT ![th] = DefaultDocument]
    /\ UNCHANGED <<service, counters, used>>

-----------------------------------------------------------------------------
(* A worker: authorize_capability_with_pending_skill.                      *)

Matching(c, r) == {g \in memory.grants : MatchesRequest(g, r, task[c], c)}

Decision(c, r) ==
    IF Matching(c, r) # {} THEN "Allow"
    ELSE DecisionFromConfig(memory.access, r)

StartTask(c) ==
    /\ pc[c] = "idle"
    /\ begun < MaxTasks
    /\ begun' = begun + 1
    /\ task' = [task EXCEPT ![c] = begun + 1]
    /\ GoOn(c, "running")
    /\ UNCHANGED <<memory, call, scope, store, draft, made, commands,
                   restarts, used>>

\* CapabilityManager::check, a critical section of its own.
Check(c, r) ==
    /\ pc[c] = "running"
    /\ call' = [call EXCEPT ![c] = r]
    /\ GoOn(c, CASE Decision(c, r) = "Allow" -> "authorize"
                 [] Decision(c, r) = "NeedsApproval" -> "approval"
                 [] Decision(c, r) = "Deny" -> "running")
    /\ UNCHANGED <<memory, task, scope, store, draft, counters, used>>

\* The mailbox's answer, given by the polling thread between two commands; a
\* scope the operator does not name is the first one suggested, Once.
Approve(c, s) ==
    /\ pc[c] = "approval"
    /\ pc["telegram"] = "idle"
    /\ scope' = [scope EXCEPT ![c] = s]
    /\ GoOn(c, "grant")
    /\ UNCHANGED <<memory, task, call, store, draft, counters, used>>

\* Denied, expired by a stop, or superseded by a reset.
Refuse(c) ==
    /\ pc[c] = "approval"
    /\ GoOn(c, "running")
    /\ UNCHANGED <<memory, task, call, scope, store, draft, counters, used>>

ApprovedGrant(c) ==
    [NewGrant(made + 1, call[c], scope[c], "approval") EXCEPT
        !.persisted = scope[c] = "Permanent",
        !.task = task[c],
        !.session = c]

AddGrant(c) ==
    /\ pc[c] = "grant"
    /\ made < MaxGrants
    /\ made' = made + 1
    /\ memory' = [memory EXCEPT !.grants = @ \cup {ApprovedGrant(c)}]
    /\ scope' = [scope EXCEPT ![c] = "Once"]
    /\ GoPersist(c, "resume")
    /\ UNCHANGED <<task, call, store, draft, begun, commands, restarts, used>>

\* authorize uses the oldest grant that fits.
Oldest(S) == CHOOSE g \in S : \A h \in S : g.id <= h.id

\* authorize, where a grant fits: it is bound, counted, and dropped when that
\* was its last use.
UseGrant(c) ==
    LET old == Oldest(Matching(c, call[c]))
        new == Consume(BindScope(old, task[c], c))
        left == {g \in (memory.grants \ {old}) \cup {new} : ~Expired(g)}
    IN  /\ Matching(c, call[c]) # {}
        /\ memory' = [memory EXCEPT !.grants = left]
        /\ used' = used \cup {[id |-> old.id, scope |-> old.scope,
                               reason |-> old.reason, task |-> task[c],
                               chat |-> c, life |-> restarts]}
        /\ IF new.persisted \/ \E g \in left : g.persisted
           THEN GoPersist(c, "running")
           ELSE GoOn(c, "running")

\* Without a grant the configuration decides; a refusal changes nothing.
UseConfig(c) ==
    /\ Matching(c, call[c]) = {}
    /\ GoOn(c, "running")
    /\ UNCHANGED <<memory, used>>

\* CapabilityManager::authorize.  What check saw may be gone by now: then the
\* call fails, and nobody is asked a second time.
Authorize(c) ==
    /\ pc[c] \in {"authorize", "resume"}
    /\ UseGrant(c) \/ UseConfig(c)
    /\ UNCHANGED <<task, call, scope, store, draft, counters>>

\* Mutant of EndTask: the cleanup is left to the next start.
EndTaskKeeping(c) ==
    /\ pc[c] = "running"
    /\ task' = [task EXCEPT ![c] = NoId]
    /\ GoOn(c, "idle")
    /\ UNCHANGED <<memory, call, scope, store, draft, counters,
                   used>>

\* clear_task_temporary_grants, the worker's last act.
EndTask(c) ==
    LET left == {g \in memory.grants : ~(Temporary(g) /\ g.task = task[c])}
    IN  /\ pc[c] = "running"
        /\ memory' = [memory EXCEPT !.grants = left]
        /\ task' = [task EXCEPT ![c] = NoId]
        /\ IF left # memory.grants THEN GoPersist(c, "idle")
                                   ELSE GoOn(c, "idle")
        /\ UNCHANGED <<call, scope, store, draft, counters, used>>

-----------------------------------------------------------------------------
(* The operator's commands, as they change a configuration with grants.    *)

AfterSet(d, p) == [d EXCEPT !.access = SetProfileDefaults(@, p)]
AfterLockdown(d) == [access |-> LockConfig(d.access), grants |-> {}]
AfterGrant(d, o, s, lasting, who) ==
    [d EXCEPT !.grants = @ \cup
        {[NewGrant(made + 1, o, s, who) EXCEPT !.persisted = lasting]}]
AfterRevoke(d, gone) == [d EXCEPT !.grants = @ \ gone]

\* The grants that may have one id.  The id of an approval is its number within
\* its task (grant-apr-<n>), which other tasks give out too; the others are
\* made of the time.
HaveOneId(S) ==
    \A g, h \in S :
        g = h \/ (g.reason = "approval" /\ h.reason = "approval" /\ g.task # h.task)

\* What the operator can name for revocation: a target or an id.
Named(d) ==
    ({{g \in d.grants : g.target = x} : x \in Targets}
        \cup {S \in SUBSET d.grants : HaveOneId(S)}) \ {{}}

\* The polling thread runs a command that makes the memory `d`.
TelegramCommand(d, new) ==
    /\ pc["telegram"] = "idle"
    /\ commands < MaxCommands
    /\ commands' = commands + 1
    /\ memory' = d
    /\ made' = made + new
    /\ GoPersist("telegram", "idle")
    /\ UNCHANGED <<task, call, scope, store, draft, begun, restarts,
                   used>>

TelegramSet(p) == TelegramCommand(AfterSet(memory, p), 0)

TelegramGrant(o, s) ==
    /\ made < MaxGrants
    /\ TelegramCommand(AfterGrant(memory, o, s, s = "Permanent", "telegram"),
                       1)

TelegramRevoke(gone) == TelegramCommand(AfterRevoke(memory, gone), 0)

TelegramLockdown == TelegramCommand(AfterLockdown(memory), 0)

\* `topagent access`: a manager loaded from the file, changed, persisted.  Only
\* grants the file may hold are in it, so its snapshot is what it made.
CliCommand(d, new) ==
    /\ pc["cli"] = "idle"
    /\ Readable
    /\ commands < MaxCommands
    /\ commands' = commands + 1
    /\ draft' = [draft EXCEPT !["cli"] = d]
    /\ made' = made + new
    /\ GoOn("cli", "open")
    /\ UNCHANGED <<service, store, begun, restarts, used>>

CliSet(p) == CliCommand(AfterSet(store.doc, p), 0)

CliGrant(o, s) ==
    /\ made < MaxGrants
    /\ CliCommand(AfterGrant(store.doc, o, s, TRUE, "cli"), 1)

CliRevoke(gone) == CliCommand(AfterRevoke(store.doc, gone), 0)

CliLockdown == CliCommand(AfterLockdown(store.doc), 0)

\* The service dies and is started again: its threads and its memory are gone,
\* and load_access_manager reads the file as it finds it.  With a garbled file
\* the service does not come up.
Restart ==
    /\ restarts < MaxRestarts
    /\ Readable
    /\ restarts' = restarts + 1
    /\ memory' = store.doc
    /\ pc' = [th \in Threads |-> IF th = "cli" THEN pc[th] ELSE "idle"]
    /\ after' = [th \in Threads |-> "idle"]
    /\ draft' = [th \in Threads |->
                    IF th = "cli" THEN draft[th] ELSE DefaultDocument]
    /\ task' = [c \in Chats |-> NoId]
    /\ scope' = [c \in Chats |-> "Once"]
    /\ UNCHANGED <<call, store, made, begun, commands, used>>

-----------------------------------------------------------------------------
WorkerStep(c) ==
    \/ StartTask(c)
    \/ \E r \in Requests : Check(c, r)
    \/ \E s \in Scopes : Approve(c, s)
    \/ Refuse(c)
    \/ AddGrant(c)
    \/ Authorize(c)
    \/ EndTask(c)

PersistStep(th) == Snapshot(th) \/ Open(th) \/ Write(th)

TelegramStep ==
    \/ \E p \in Switchable : TelegramSet(p)
    \/ \E o \in Offers, s \in Scopes : TelegramGrant(o, s)
    \/ \E gone \in Named(memory) : TelegramRevoke(gone)
    \/ TelegramLockdown

CliStep ==
    \/ \E p \in Switchable : CliSet(p)
    \/ \E o \in Offers, s \in Scopes : CliGrant(o, s)
    \/ \E gone \in Named(store.doc) : CliRevoke(gone)
    \/ CliLockdown

Next ==
    \/ \E c \in Chats : WorkerStep(c)
    \/ \E th \in Threads : PersistStep(th)
    \/ TelegramStep
    \/ CliStep
    \/ Restart

Spec == Init /\ [][Next]_vars

-----------------------------------------------------------------------------
\* Every variable has its type, and no two grants in memory share a number.
TypeOK ==
    /\ memory \in Document
    /\ \A g, h \in memory.grants : g.id = h.id => g = h
    /\ store \in [state : {"whole", "empty", "garbled"}, doc : Document]
    /\ pc \in [Threads -> {"idle", "running", "authorize", "approval",
                           "grant", "resume", "snapshot", "open", "write"}]
    /\ after \in [Threads -> {"idle", "running", "resume"}]
    /\ draft \in [Threads -> Document]
    /\ task \in [Chats -> Tasks \cup {NoId}]
    /\ call \in [Chats -> Requests]
    /\ scope \in [Chats -> Scopes]
    /\ made \in 0 .. MaxGrants
    /\ begun \in 0 .. MaxTasks
    /\ commands \in 0 .. MaxCommands
    /\ restarts \in 0 .. MaxRestarts
    /\ used \subseteq [id : 1 .. MaxGrants, scope : Scopes,
                       reason : {"approval", "telegram", "cli"}, task : Tasks,
                       chat : Chats, life : 0 .. MaxRestarts]

\* The file may list a grant as it was before a use: it is rewritten after the
\* use, and the service can die before, or an older document overwrite it.
MayBeRestored(reason) == reason = "cli"

\* A grant for one use never authorises a second call, whichever task used it,
\* whatever is being written meanwhile and whenever the service dies.  Left out is
\* a grant that `topagent access` put into the file, after a restart: the file may
\* list it still, and then it serves again.
OnceMeansOnce ==
    \A u \in used : u.scope = "Once" =>
        \A g \in memory.grants : g.id = u.id =>
            MayBeRestored(g.reason) /\ u.life # restarts

\* A task grant serves one task and a session grant one chat, also when the
\* operator made it for nobody in particular and two chats want it at once, and
\* also over a restart; but a grant of `topagent access` may come back from the
\* file as it was before it was bound, and serve another in the next life of the
\* service.
GrantsKeepTheirHolder ==
    \A u, v \in used : u.id = v.id =>
        \/ MayBeRestored(u.reason) /\ u.life # v.life
        \/ /\ u.scope = "ThisTask" => u.task = v.task
           /\ u.scope = "Session" => u.chat = v.chat

\* A temporary approval in memory has the task it was given in.
ApprovalsHaveTheirTask ==
    \A g \in memory.grants : g.reason = "approval" /\ Temporary(g) =>
        g.task # NoId /\ \E c \in Chats : task[c] = g.task

\* None reaches the file, in any snapshot however old.
TemporaryApprovalsAreNotStored ==
    \A d \in {store.doc} \cup {draft[th] : th \in Threads} :
        \A g \in d.grants : g.reason = "approval" => ~Temporary(g)

\* What was approved for less than ever does not outlive the task it was
\* approved in, though other chats and the operator change the same list, and a
\* restart brings back only what was granted for good or by `topagent access`.
ApprovalsEndWithTheirTask ==
    ApprovalsHaveTheirTask /\ TemporaryApprovalsAreNotStored

\* While the service runs, a grant that was used up, revoked, cleared or locked
\* down does not come back into its memory, though older documents that list
\* it are still being written and read.
RemovedGrantsStayRemoved ==
    [][restarts' = restarts =>
        \A g \in memory'.grants :
            g.id \in 1 .. made => \E h \in memory.grants : h.id = g.id]_vars

-----------------------------------------------------------------------------
(* What the documentation says and the program does not do: no run checks  *)
(* these, a line of their own in MCAccessControl.cfg shows where they fail. *)

\* No document is on its way to the file.
Quiet == \A th \in Threads : pc[th] \notin {"snapshot", "open", "write"}

\* README.md:127: "`topagent access lockdown` immediately returns to the
\* `workspace` profile [...] and clears grants".  When the command that locked
\* down returns, the service that is running is locked down.
CliLockdownReachesService ==
    [][pc["cli"] = "write" /\ draft["cli"] = AfterLockdown(draft["cli"])
          /\ pc["cli"]' = "idle" =>
       memory'.access.profile = "Workspace" /\ memory'.grants = {}]_vars

\* docs/architecture.md:277: "`/access lockdown` restore `workspace`".  Where
\* the lockdown is the one command given, the file says so too once nothing
\* is being written: a restart must not undo it.
LockdownIsKept ==
    Quiet /\ memory.access.profile = "Workspace" =>
        Readable /\ store.doc.access.profile = "Workspace"

\* README.md:267: "approval creates the scoped grant and the blocked Skill call
\* continues".  From the moment the grant is made until the call is authorised
\* the manager would allow the call.
ApprovedCallsContinue ==
    \A c \in Chats :
        (after[c] = "resume" \/ pc[c] = "resume") =>
            Decision(c, call[c]) = "Allow"
=============================================================================
