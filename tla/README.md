# A TLA+ verification project for TopAgent

TopAgent is a local agent: a language model proposes tool calls, the program
decides which may run, asks the operator where it must, runs them, and keeps
what it learnt. The operator talks to it through one-shot commands
(`topagent "..."`), through a Telegram service, and through maintenance
commands (`topagent access`, `run`, `memory`, `procedure`, `install`, ...). This
directory holds TLA+ models of it, the TLC instances that check them, and proofs
that TLAPS checks.

Paths below are relative to `src/crates/`; *core* is `topagent-core/src`, *cli*
is `topagent-cli/src`.

## 1. The system

| component | state | operations | hard part |
|---|---|---|---|
| Approval mailbox (core/approval.rs) | entries, recorded skill calls, mode; one Mutex, one Condvar | request_decision, approve, deny, expire, supersede | callers joining, deciding, stopping and waking at once |
| Capability policy (core/capability/profile.rs, grant.rs, decision.rs) | none: functions of a configuration, a grant and a request | check against profile, switches and grants; lockdown | many dimensions meet in one decision |
| Risk of commands and paths (core/capability/risk.rs, core/behavior/action.rs) | none | assess a shell command, a screen action, a path | two judgements of one text, rules in an order |
| Harness (core/harness, core/agent/skill_surface.rs) | policy state, phase | expose, admit, dispatch a skill | phase, permission and the skill's own check must agree |
| Capability manager and access file (core/capability/decision.rs, core/context.rs, cli/access.rs) | configuration and grants in memory (Mutex); a TOML file | check, authorize, add, revoke, set, lockdown, cleanup, each followed by a snapshot and a file write | two-step authorisation, writes outside the lock, two processes on one file, crashes |
| Telegram polling loop and sessions (cli/telegram/runtime.rs, session.rs, router.rs, commands.rs, approval.rs) | offset, batch, `sessions`, completion channel | start, stop, reset, answer, collect | worker threads that start before they are filed and end before they are collected; redelivery |
| Progress and delivery (cli/progress.rs, core/progress.rs, cli/telegram/delivery.rs, core/channel/telegram.rs) | a channel and a status message per task; the chunks of a reply | tell, render, join; cut, send, retry | updates of two threads on one channel, a join, lost answers, a cut in the middle of a character |
| Transcript files (cli/telegram/history.rs, cli/managed_files.rs) | one JSON file per chat | load, append, cap, clear | no lock, truncating writes, crashes |
| Agent loop (core/agent/*.rs) | messages, counters, run state | run, execute a tool call, gates, planning, verification | many exits, a stop between effect and bookkeeping |
| Plan and workflow verification (core/plan.rs, core/workflow_verification) | items and statuses | requirements, evidence, recovery, gaps | a pure algorithm with many cases, computed from two records |
| Run state, task result, checkpoint (core/run_state.rs, task_result.rs, run_checkpoint.rs) | trace, receipts, changed files | record, build the result | what a stopped run reports |
| Run evidence (core/run_evidence.rs, cli/commands/run.rs) | latest.json and a history | persist, prune, freshness, resume | several runs save at once; the workspace moves meanwhile |
| Run snapshots (core/run_snapshot.rs) | a manifest and copies per run | capture, diff, restore, prune | restore over later edits, files that became directories, crashes |
| Transcript of a run (core/session.rs, compaction.rs) | the message list | append, micro and automatic compaction | counts that are right before a batch |
| Memory (cli/memory.rs, cli/memory/*.rs) | procedures, notes, trajectories, profile, MEMORY.md | promote, consolidate, revise, prune, review, export | no lock, links between files, crashes |
| Service lifecycle (cli/service/*.rs), admission (cli/telegram/admission.rs) | unit file, env file, binary, systemd's view, the service | install, model, start, stop, restart, upgrade, uninstall; bind an owner | every step can fail; the service writes the same file |
| Tools, provider, OpenRouter client, prompt, configuration, doctor, eval | I/O and text | | |

How they interact. The polling thread owns `sessions`; each accepted text
starts a **worker thread** that runs the agent loop. A tool call of the loop
goes through the **harness** to the **capability manager** (shared by all
workers and the polling thread). If it needs an approval, the worker puts a
request into its task's **mailbox** and sleeps; the notifier sends buttons to the
chat; the answer comes back as an update through the **polling thread**, which
resolves the mailbox; the worker wakes, adds a grant to the manager and asks it
again. Before a change the run copies the files into its **snapshot**. When the
run ends, the worker saves its **evidence**, promotes what it learnt into the
**memory** folder, joins the **progress thread**, sends the reply, rewrites the
chat's **transcript file**, clears its temporary grants and sends its chat id
down the completion channel, which the polling thread empties before each poll
and before each start. `/stop` expires the pending requests, cancels the task's
token and then tells the progress thread. `topagent access`, `run`, `memory`,
`procedure`, `model` and the rest are other processes that share only files with
the service.

## 2. Modules

### ApprovalMailbox, ApprovalDecision

`ApprovalMailbox` is core/approval.rs with one action per critical section of
its lock: `JoinRequest`/`NewRequest` (search and push), `Notify` (the notifier,
called without the lock), `ReturnDecision`, `ReturnCancelled`, `Sleep`,
`WakeByTimeout` (the loop of wait_for_resolution with its 100 ms wait),
`Approve`, `Deny`, `ResolveAllPending` (expire, supersede), `Cancel`.
`entries` is the code's vector; an id `apr-<n>` is an index. `announced`,
`acked` and `answer` are histories: what the operator and the callers were told.
The model allows several threads per mailbox because the type is shared
(`Clone + Send`) and written for it; the shipped runs use one requester each.

`ApprovalDecision` is what the mailbox promises: every request is undecided or
has one of four final verdicts, and a caller is told the verdict, or told to go
on waiting in immediate mode. `ApprovalMailbox!ImplementsDecision` is the
refinement, with `verdict` and `told` computed from `entries` and `answer`.

### CapabilityPolicy, AccessProfile

`CapabilityPolicy` has no state: it is `decision_from_config`, the defaults of
`AccessConfig`, and matching, binding and consuming of `CapabilityGrant`. A
path is abstracted to the place it is in (`workspace`, `home`, `elsewhere`) and
to the targets it lies within. `AccessProfile` runs `set` and `lockdown` over any
configuration the file can hold.

### ShellCommands, SkillAdmission

`ShellCommands` is how a command line is judged, twice and by different code: its
risk and kind (core/capability/risk.rs) and its class (core/behavior/action.rs). A
command is its parts, a part its first word and the texts in it that either
judgement looks for (`Marks`). The rules stand in the order of the code, because
the first that matches decides.

`SkillAdmission` is the harness over `AccessProfile` and `ShellCommands`:
`Offered` (what a turn of the model is offered), `PhaseOfCall` (the phase a call
is run in), `PolicyDenies` (both refusals of execute_skill), `CheckedBefore` (the
access a call is checked for from its declared effects) and `CheckedWithin` (the
access the skill itself checks once more, with what the harness let through
allowed already).

### TurnExposure

The time between the offer and a call. `OfferSkills` is sync_provider_tools at
the top of the loop; after it a plan may be generated (`GeneratePlan`), the calls
of the batch change the stage, the gate and the plan (`Mutate`, `UpdatePlan`), and
the operator changes profile and grants (`ChangeAccess`), before the phase and the
access of the next call are taken. When a plan is generated and when changes are
escalated is decided by counters that are in `AgentLoop`; here both may happen
whenever gate and plan allow it. `escalated` is the field of PlanningGate.

### AccessControl

One running service: per chat a worker (`StartTask`, `Check`, `Approve`/`Refuse`,
`AddGrant`, `Authorize`, `EndTask`), the polling thread's /access commands
(`Telegram...`), a `topagent access` process (`Cli...`), and for each of them
the three steps of persist: `Snapshot` (under the lock), `Open` (fs::write
truncates), `Write`. `Restart` is a crash and a new start from the file. Each
action is one critical section of the manager's Mutex or one system call. Two
writers of the file may meet: `Overwritten` says what can be left. Grants are
numbered in the order made. The code makes the id of a grant of /access or
`topagent access` of the time, and that of an approval of the number of its
request (`grant-apr-<n>`, core/capability/decision.rs:115), which starts again in
every task: the approvals of different tasks have equal ids. Only a revoke looks
at ids, and takes all that have the one it is given (`HaveOneId`, `Named`). `used`
is a history over all lives of the service: which grant served whom, in which
life.

### TelegramSession

The polling loop, the handlers of texts, /stop, /reset, approval answers (tapped
or typed), the workers and the transcript files. `main` is the main thread's
place inside a handler where another thread can come in between: between
spawning the worker and `sessions.insert` (`spawned`), between expire_pending
and cancel (`stopping`). A worker goes running, waiting, ended, loaded, writing,
saved, done. The Bot API is external: a queue that forgets what lies below the
offset it was last asked for. An update is its index in `sent`, a task its index
in `tasks`. The mailbox is reduced to the number of requests asked and the
pending one. Editing the approval message may fail, which leaves its buttons.
`handled`, `cleared`, `said` and `torn` are histories used by the properties
only.

### TelegramReply

`TelegramReply` composes the sessions with two more threads of the code: the
progress thread of each task and the worker's way from the end of its run to the
transcript. `status` is the status message with its channel (`queue`), what the
thread received last (`latest`), what the last edit shows (`rendered`) and whether
the edit that was to show the outcome failed (`missed`; an edit that fails is
logged and not tried again, cli/progress.rs:113); `reply` is how the run ended and
what has been sent; `telling` is the task that stop_chat has cancelled and not yet
told. `Chunks` is `chunk_text`, a fold over the lines (`AddLine`), and over the
characters of a line that is too long (`AddCharacter`), where a character has one
to four bytes. Its actions are those of TelegramSession with a conjunct about the
three new variables, or stutter there; `TelegramReplyProofs!Implementation` proves
that.

### AgentLoop

One run of the agent: `Agent::run` from the baseline and the classification of
the task to its outcome. `pc` is the place in the code between two points where
the rest of the system can come in (the stop, a decision, the model's answer, the
end of a skill); `loop`, `model`, `batch`, `execute`, `running`, `record` are the
top of run_inner, its model call, the tool calls of one answer, the last check
before a skill, the skill and the check after it. `plan_for_model`,
`plan_for_loop` and `plan_for_batch` are the three callers of
generate_or_fallback_plan. `count` is `LoopCounters`, `gate` is `PlanningGate`,
`changed` and `receipts` are what the run state keeps, `dirty` and `baseline`
what git reports now and reported at the start; `touched` is what the code finds
out by comparing hashes. `planned`, `ever` and `late` are histories used by the
properties only.

What is abstracted. A tool call is its class: the three classes of shell commands,
a Verification command that is_verification_command does not recognise, reading,
writing and committing tools, git_clone (which writes and is not among
behavior.mutation_tools), memory tools, update_plan with and without items, an
unknown tool. The calls of a batch are chosen when the loop reaches them. A
skill's capability requests, which are put to the operator one after the other,
are one wait (`granting`), and what the policy says is any answer; `AccessControl`
and `SkillAdmission` have the policy, `ApprovalMailbox` the waits. `unrecorded`
are the files that successful calls changed since a record last accounted for
changes, `receipts` those that a record has accounted for (`Accounts`: the records
after which the code looks at what git reports, or at the names in the call); a
commit within a call takes its files off both, as it takes them off what git
reports. Files that are dirty at the start exist and no skill restores one, so a
hash differs once and for all: a dirty file that was deleted before the run and is
made again has no baseline hash in the code (core/run_state.rs:525) and is outside
the model. The run has a mailbox, as the CLI and Telegram give it one, and starts
without a plan, as both make a new agent per task.

### WorkflowEvidence, RunEvidence, EvidenceStore

`WorkflowEvidence` is the pure part: the inference of a workflow from the words
of a plan item, what each workflow requires, which receipts and verification
commands satisfy it, which failures are recovered, the gaps and the next action.
`RunEvidence` makes the records: a run makes calls of every kind, sets plans,
ends, is followed by a verification, or fails, while others change and commit
files; `work` is the run state, `kept` the snapshot with its checkpoint and
status. Its `CheckpointVerdict` and the verdict of the task result come from two
records, as in the code. `EvidenceStore` is what is saved: `latest.json`, the
history and its pruning in separate steps, several runs at once, deaths in
between, the freshness check and `run resume` with and without confirmation.

### RunSnapshots

A tree of paths; `Capture...` copies what write, edit or a shell command is about
to change (the operands that core/tools/bash.rs finds in the segments of a
command, or the whole tree for those it cannot read), `Change` is the call, which
may change less, or other files, than was captured; `StartRestore`,
`RestoreEntry`, `FinishRestore` are `topagent run restore`, entry by entry, with
directories emptied of what the run added; a crash can come between any two steps
and inside the removal of copies. `base` is a history: the tree as a run found it;
`foreign` the paths changed by others than the run's captured changes, and those
that the run changed before it captured them or after its snapshot was pruned. An
entry whose copy is gone fails after what was in its way is removed (`PlaceMade`).
The paths above a path (`Above`) are the least set that has its parent and the
parents of its own. What a capture brings is the union of what each path of its
scope brings; the code walks them one by one, and its order of the new entries is
one of those that `Captures` allows: any with a directory before what lies in it.

### MemoryIndex, WorkspaceMemory

`MemoryIndex` is the consolidation of MEMORY.md: candidates from the index and
from saved procedures, merging by title, the limits. A line is its title, its
file, its status and what its text is made of. A text with the separator `|` in it
is not read back (`Readable`; `Barred` are the notes and procedures whose texts
have one): such a line goes to the prelude and is written again as it is. A text
with a `|` followed by a part with a colon is read back as another entry, which is
left out. `WorkspaceMemory` has the processes that use it: runs that consolidate,
load, take notes, set preferences, promote (a new procedure, a reuse, a
refinement, a successor and then the mark on the old one, a trajectory), and the
operator's disable, prune, review, export and recall, and a run may meet low-trust
content at any time before it ends (`MeetLowTrust`). Each file is read whole and
written whole, in two steps where another process can come in between; MEMORY.md
is empty between the halves of its write.

### ServiceLifecycle

install, model, start, stop, restart, upgrade and uninstall as sequences of steps,
each of which may fail, the removals of uninstall included
(`UninstallCannotRemove` ends the command, a purge that fails does not); `loaded`,
`enabled` and `proc` are systemd's view, `conf` what the running service took from
the env file at its start, `pending` the bind it is in the middle of. Outside
steps are reboots, kills, crashes while a file is written, and files replaced by
somebody else's. `served`, `disturbed` and the field `missed` of `conf` (an
upgrade took the service that runs now for inactive) are histories.

### TranscriptCompaction

What a run appends to its transcript (the task, batches of calls with their
results, redirects, nudges that are withdrawn) and what micro and automatic
compaction make of it before each request; below max(4, limit / 2) messages
neither does anything (core/agent.rs:250). `full` is a history: the transcript
without compaction.

### MC and proof modules

`ApprovalMailboxProofs`, `TelegramReplyProofs` (of TelegramSession too),
`AccessControlProofs` (of AccessProfile, SkillAdmission and TurnExposure too),
`AgentLoopProofs`, `EvidenceProofs` (of WorkflowEvidence, RunEvidence and
EvidenceStore), `TranscriptCompactionProofs`, `WorkspaceMemoryProofs` and
`ServiceLifecycleProofs` extend the modules they are about. Where one extends two
specifications, the second has its names with a prefix (`ProfileSpec`, `TurnSpec`,
`StoreSpec`). `MC...` modules give the constants for TLC.

A definition called *Mutant of X* in a module's comments is never used by the
specification: it is X with a plausible mistake in it, and TLC finds a property
violated when X is replaced by it. Each property of a passing run has one.

## 3. Runs

Sizes are distinct states.

| run | question | instance | size |
|---|---|---|---|
| approval_mailbox | Is there at most one request per action, is every waiter announced and every decision delivered; does the mailbox implement `ApprovalDecision`? | 2 threads, 2 actions, 1 blocked skill call, 2 entries, both modes | 286 thousand |
| access_profile | What does a lockdown leave; is a call that was let through asked about again; is a call of a skill that the turn was offered refused, and why? | any profile, defaults and home access with all, half or none of the approvals; every change of them during a turn; grants of both kinds that the exposure looks at; calls of every skill with a path in each place, a secret one and a padded one, 18 commands | 107 thousand |
| access_control | Do grants serve whom and as often as they were made for, and does what is gone stay gone? | 2 chats, 2 tasks, 2 grants, 1 operator command of any kind by either way, 2 crashes | 3.0 million |
| telegram_session | Do sessions match workers, are resets clean, do transcript and status message tell what happened, are the chunks of a reply its text, does a stopped or finished task free its chat, is every update handled? | 1 chat, 2 updates, 1 approval per task, 1 restart, transcripts of 3 messages, messages of 4 bytes, a reply with lines that would fit but for the newline, a blank one and one cut in two; failing polls and edits, lost requests and answers | 348 thousand |
| agent_loop | Does planning come first, is the stop prompt, are the recorded changes there and the run's own, does the run end? | 2 steps, batches of 2, 2 files of which one may be dirty, 2 retries, 3 planning steps, 2 redirects, 2 blocks, threshold 2 | 1.8 million |
| run_snapshots | Is the first copy of a path the original, does a completed restore undo the run, does it touch nothing else? | a file, a directory and a file in it; 2 runs, 3 changes, 8 commands, 1 stored snapshot, crashes anywhere | 3.9 million |
| run_evidence | Is a satisfied verdict earned; do verdicts, gaps and next action agree? | 4 commands, 5 plans, 1 file, 3 calls, 1 change from outside | 3.4 million |
| evidence_store | Is the latest snapshot in the history; does an unconfirmed resume meet the workspace its snapshot saw? | 3 runs, 2 saving at once, a history of 2, 2 changes from outside | 5.3 million |
| workspace_memory | Does a consolidation write of what exists, is a revision proven, has a superseded procedure its successor, do low-trust runs leave nothing? | 2 runs at once and a command, 3 procedures, 2 notes, 2 trajectories of which one was kept and reviewed, a procedure whose title cannot be read back, limits of 1, 2 and 4 | 3.2 million |
| service_lifecycle | Is there one owner, does the service run what is configured, is an uninstall complete? | 2 usernames, 2 people, 2 models, 4 commands, 2 outside events, any step failing | 1.4 million |
| transcript_compaction | Does every request fit the limit, are the newest messages kept? | limit 12 (6 kept), 10 steps, batches of 3, 2 redirects | 256 thousand |
| unsplit_reply | *Ends in a counterexample*, see below. | one line of three characters whose cut falls into the last, messages of 4 bytes | 8 thousand |

Why these bounds are enough. *Mailbox*: two entries and two threads give joining,
two waiters on one entry, two entries pending at once, a decided and a pending
entry under a sweep. *Access control*: two chats compete for one unbound grant;
two grants let one be used while another is kept; one command of each kind meets
every place of the workers and both writers of the file; two crashes meet every
half-written file and let a grant be used in one life of the service, be read
again, and be used in the next. *Profiles and turns*: each switch for approvals is
on in some configurations and off in others, which is how it is looked at, one at
a time; of a configuration the exposure looks at the profile and at whether there
is a grant, and what changes between offer and call is all there. *Sessions*: two
updates are a task with a stop, a reset, a tap or a second text at every stage of
its worker; a transcript of three messages is cut by the second exchange; one
restart meets a worker at every stage; the lines of the reply take the three
branches of chunk_text. Two chats share the polling thread only, and what the run
checks of sessions, resets and transcripts is proved for any number of chats.
*Agent loop*: four calls in two answers are enough to be blocked up to the
automatic plan, to clear a plan after it was made, to change two files (the
threshold) in one call or in two and be blocked after the escalation, and to stop
at each of these points; three planning steps leave room for the other budgets to
be reached first. *Snapshots*: three changes let a path be captured alone and then
with its directory, or the other way round, be replaced by a directory, and be
changed by another run in between; one stored snapshot is pruned by the second
run. *Evidence*: three calls are a failure, the call that should recover it and a
verification, in any order; three runs with a history of two make the pruning meet
a run that is still saving. *Memory*: an old procedure and two newer ones let two
runs supersede the same one at once; two notes of one title merge; the oldest
procedure is the one that cannot be read back, since a younger one can supersede
it and it can be pruned. *Service*: four commands are install, two others and
uninstall, or a second install. *Compaction*: ten steps reach the limit more than
once, also by a batch that jumps over it; the limit of 12 is large enough for both
kinds of compaction (limits of 2, 3, 4, 5 and 8 hold too). For the mailbox, the
profiles, admission, the grants, the sessions and replies, the agent loop, run
evidence, snapshots, compaction, memory and the service the theorems below remove
the bounds.

Every bound (`MaxEntries`, `MaxGrants`, `MaxTasks`, `MaxCommands`, `MaxRestarts`,
`MaxUpdates`, `MaxAsks`, `MaxBatch`, `MaxChanges`, `MaxCalls`, `MaxOutside`,
`MaxMoves`, `MaxSaving`, `MaxRuns`) stands in the guard of the action that counts
against it; the other limits are the program's own, made small. The runs allow
deadlock where all bounds are used up and the system has nothing left to do; in
access_profile it is checked. Symmetric are the chats of access_control, the runs
of run_snapshots and evidence_store, the workers of workspace_memory, the people
and models of service_lifecycle; none of these runs checks liveness.

### Disagreements

**unsplit_reply** states that a run that has returned frees its chat, and ends in
a counterexample: chunk_text cuts a line longer than a message with
`str::split_at` at a count of bytes (core/channel/telegram.rs:349), which panics
within a character. The worker dies before it saves the transcript, clears its
task's grants and sends its completion; the chat is refused every text and every
/reset until the service restarts. docs/architecture.md:204 says "send reply
(split into chunks if >4000 chars)". The notifier of an approval cuts its message
with the same function, on the worker's thread, inside the mailbox's call.

Seven more come from reading the code against the repository's documents; in the
models the steps they need are possible, and no run is kept for them.

- `topagent access lockdown` "immediately returns to the workspace profile ...
  and clears grants" (src/README.md:127). A running service read the file once and
  keeps its profile and grants; its next persist writes them back.
- A snapshot taken before a lockdown can be written after the lockdown's own
  (core/capability/decision.rs:547): the file holds the former profile, and the
  next start undoes the lockdown.
- "Approval creates the scoped grant and the blocked Skill call continues"
  (src/README.md:267). Between add_grant and the second authorize
  (core/context.rs:352) another chat's worker with the same need can use the
  one-time grant up; the approved call fails.
- A button names a request number and not its task, and numbers start at 1 in
  every task: a tap on the message of a lost or stopped task answers the present
  task's request of that number (cli/telegram/session.rs:482;
  docs/architecture.md:270).
- The transcript "survives service restarts" (docs/architecture.md:208), but a
  process that dies between truncating and writing the file leaves one that cannot
  be read, and the next exchange starts a new one (cli/managed_files.rs:85,
  cli/telegram/history.rs:91).
- On any non-Ok exit the partial TaskResult is stored "so callers can inspect
  files changed" (core/agent/run_loop.rs:31). A stop that comes while a skill
  works is seen after the receipt and before the bookkeeping
  (core/agent/tool_execution.rs:200): the result has the receipt of the call and
  not the file it changed.
- A grant for one use is dropped from memory when it is used and from the file
  after that. One that `topagent access` stored is there again if the service dies
  in between (core/capability/decision.rs:418 and 547), or if an older document is
  written last; it serves once more, and a task or session grant another task or
  chat.

Nine definitions state what a document says, or what one would expect, and are
refuted when they are added to the invariants of their run; the comment at each
says so.

- `TurnExposure!EverySkillIsOffered`: the skills of durable memory (save_note,
  manage_operator_preference) belong to the phase Finalize
  (docs/architecture.md:79), and no turn of the model is in that phase
  (current_agent_phase): they are never offered.
- `RunEvidence!RepeatedCallsRecover`: a failed or blocked attempt is recovered by
  a later success of the same tool on the same target (docs/architecture.md:98).
  The receipt of a failure carries the error as its summary
  (core/agent/tool_execution.rs:171) and recovery looks for equal summaries
  (receipt_recovery.rs:49): nothing is ever recovered.
- `RunSnapshots!DiffPredictsRestore`: run diff "previews what restore would
  change" (src/README.md:187); files that the restore would remove are not in it
  (core/run_snapshot.rs:564 against 598).
- `TranscriptCompaction!ResultsHaveRequests`: a cut is a count of messages
  (core/compaction.rs:60); where it falls between a request and its result, the
  result stays alone behind the summary. With the default limits (100, 50) too.
- `AgentLoop!StoppedResultsNameTheirFiles`: a stopped run names every file its
  successful calls changed (the sixth of the list above).
- `AgentLoop!CompletedResultsNameTheirFiles`: so does a completed one. git_clone is
  no mutation tool (core/behavior/action.rs:81): what it brought is found by the
  record of a later change, and by none if there is no later change.
- `WorkspaceMemory!NoLineOutlivesItsProcedure`: no line of MEMORY.md is about a
  procedure that is gone. render_index_entry does not escape the separator
  (cli/memory/memory_consolidation.rs:594): an entry with `|` in its title or note
  is not read back, stays in the prelude when its procedure is pruned, and is
  written once more by every consolidation while the procedure is there.
- `ServiceLifecycle!UpgradesReachTheService`: an upgrade that finds the service
  waiting for systemd to restart it, or cannot ask is-active, takes it for
  inactive (cli/service/upgrade.rs:242) and restarts nothing; the service may come
  back before the new file is in place.
- `AccessControl!LockdownIsKept`: the second of the list above.

### Seen while modelling

These are consequences of the code that the models allow for; where a property
would be false because of one, its statement says what it leaves out.

- *Agent loop.* The comment at core/agent.rs:31 calls the blocked calls that lead
  to an automatic plan consecutive, but a call that passes does not reset
  `block_count`. The suggested `pnpm test` and `yarn test` of the follow-through
  are MutationRisk to classify_bash_command, so the Verify phase denies them.
  git_clone and git_commit wait for git without a time limit and without looking
  at the token (core/tools/git.rs:282 and 433). A clone may come before a plan: it
  is no mutation to the planning gate where its phase lets it pass.
- *Admission.* A skill that was offered can be refused: web_search was offered
  while there was no plan and is refused in the phase Patch that the plan or the
  first change brings; git_clone and computer_use were offered in Patch and are
  refused in Plan once the changes were escalated; and the operator may take the
  access away. write and edit are not offered in the Research stage until a first
  mutation has executed; the stage Review is never reached. The harness trims
  arguments and the skills do not, so a padded path, or a screen action with a text
  and no target, is asked about twice. The declared WriteFilesystem of git_clone is
  checked against its URL. git_commit is High by risk_for_skill and checked as
  Moderate. classify_bash_command does not look into `sh -c`, the risk assessment
  does.
- *Replies.* chunk_text drops blank lines, and makes no chunk of a reply of blank
  lines, which then counts as not delivered. A request that failed for good may
  have reached the chat. An edit of the status message that fails is not tried
  again; of a failed run nothing else is told where there is a status message
  (cli/telegram/session.rs:755), so its chat may never hear of the failure.
  stop_chat tells "stopping" after the cancellation; the update may come after the
  outcome, when nobody listens any more. The document puts saving the transcript
  before sending the reply (docs/architecture.md:202); the code sends first, and
  must, since it keeps what was delivered.
- *Snapshots.* A path that is captured for the first time after the run has
  created it is kept with the run's own content. A file replaced by a directory
  can make every retry of a restore fail at create_dir_all. A crash inside the
  removal of copies leaves a manifest that hides older snapshots. Only the first
  segment of a command with operands is captured; absolute operands and `..` are
  not. A restore whose copy is gone empties the place of the entry before it fails.
  Stores made in one millisecond share a session id (run_snapshot.rs:118).
  A run's snapshot can be pruned by another run's capture before its change.
- *Evidence.* A verification by the follow-through is not in the command history
  of the checkpoint. Changed files with the label for files that were dirty before
  are reported missing by the freshness check. A change after the last passing
  verification counts as verified. Chats share latest.json. A commit between the
  end of a run and the saving of its snapshot is taken for the run's own, and a
  change in the content of a file that was dirty already goes unnoticed. A command
  that begins as git diff, log, show or status counts as a review of commits also
  when it writes a file by a redirection (is_commit_review_bash_command in
  core/receipt_index.rs).
- *Memory.* Lines of an earlier consolidation count as written by hand, so an
  entry of a superseded or disabled procedure can stay and the limits on curated
  entries are passed by a second consolidation. Preferences are written as the
  trust of the run is at that moment; a note taken before the run met a low-trust
  source stays. MEMORY.md, USER.md and procedures are read, changed and written
  without a lock: a disable can be lost, a pruned file made again. A crash between
  a successor and the mark on the old procedure leaves two active ones. A review
  resets an exported trajectory to ready.
- *Service.* install keeps what it read from the env file while it asks its
  questions, so a binding made meanwhile is lost. bind rewrites an env file without
  looking for its header (cli/telegram/session.rs:174). An empty env or unit file
  left by a crash is refused by install and left by uninstall. An upgrade that
  fails after the stop leaves the service stopped (cli/service/upgrade.rs:69).
  `--purge` removes .topagent while a run may be working, and a run of the command
  line makes it again. A purge that fails is only reported
  (cli/service/uninstall.rs:82); a unit or env file that cannot be removed ends
  the uninstall with the service stopped and systemd not told to reload.
- *Commands.* `/stop` is said to cancel the running task (src/README.md:143); of a
  command that leaves its output open to a process of its own, see the next
  section.

## 4. Fairness

`ApprovalMailbox!Fairness`: a thread inside a call is scheduled (weak fairness on
its own steps; it takes no lock for long), including the return of a wait by its
timeout. Nothing is assumed of the operator.

`TelegramReply!ReplyFairness`: weak fairness on the main thread's step, since it
never blocks on anything but the poll and on requests with a timeout; strong
fairness on the poll, since the loop retries every failed poll and a network that
fails for ever is not the program's; weak fairness on a worker's steps that depend
on no one (waking, joining a thread that has ended, sending a chunk, which returns
after a timeout and at most three retries, loading, writing, reporting); weak
fairness on the progress thread's receive; and weak fairness on the end of a run
**only once it was cancelled**, since every step of the agent checks the token and
both the provider call and the shell command poll it. Of a shell command this
takes one thing for granted: that nothing the command started keeps its output
open after the command was killed (core/command_exec.rs:201-206 kills the one
process and then waits for the end of its output); and of git_clone and git_commit
that git ends, since they wait for it without looking at the token
(core/tools/git.rs:276). The heartbeat needs no fairness: the outcome is rendered,
or its edit fails, when it is received. No user is assumed to answer, no run that
was not stopped is assumed to end, no restart is assumed to happen.

`AgentLoop!FairSpec`: weak fairness on the loop's own steps, which include the
model's answer or its failure (the client has a timeout) and the return of a wait
after the stop; weak fairness on the end of a skill that runs no command. A shell
command, a clone or a commit (`CommandTools`) may run for ever, stopped or not,
for the reasons above, and the operator may never decide: `RunEnds` says that a
run ends or waits for a command or for the operator for ever.

The other modules state safety only.

## 5. Theorems

All hold for every value of the constants that satisfies the named assumptions
(`MailboxAssumption`, `PolicyAssumption`, `RequestsAssumption`,
`AccessAssumption`, `SessionAssumption`, `ReplyAssumption`, `LoopAssumption`,
`CompactionAssumption`, `IndexAssumption`, `MemoryAssumption`, `FoundAssumption`,
`ServiceAssumption`, `AdmissionAssumption`, `ConfigsAssumption`,
`WorkflowAssumption`, `EvidenceAssumption`, `StoreAssumption`,
`SnapshotAssumption`, `TreeAssumption`, `CommandAssumption`), which TLC evaluates
in the runs. Most only say which values are numbers and which sets contain which,
and that limits of the program are not zero. `StoreAssumption` says more: no more
runs save at once than the history holds. The code does not enforce it; the
history holds 10 (core/run_evidence.rs:20), and one service saves for the few
chats that end at the same moment. Eleven at once could prune the latest.
`TreeAssumption` says that no path lies below itself and that the trees found are
trees; `CommandAssumption` that what a shell command removes or writes is a path
below the workspace (rm refuses the workspace itself, and what lies outside has no
snapshot); `FoundAssumption` that the index a first run finds is finitely many
lines as parse_index_entry makes them; `IndexAssumption` that `Barred` are notes
and procedures, whichever; `CompactionAssumption` that the limit is more than 1;
`ReplyAssumption` that any character, which has four bytes at most, fits into a
message (cli/telegram/session.rs:737 takes 4000). A theorem whose property no run
checks says so below; it is kept because another proof or a reader needs it.

**Mailbox.** `IInv` is the checked invariants with `WaitersAreAnnounced`
strengthened to `EntriesAreAnnounced`: a waiter can only be known to be announced
if every entry is, or is about to be by the thread that pushed it.
`Invariance` proves it inductive; uniqueness and announcement follow, as do
agreement, final verdicts and that nobody sleeps on a decided request
(`EveryoneAgrees`, `Finality`, `NoLostWakeUp`, without a run of their own: the
refinement has them). `Implementation` proves, action by action, that the mailbox
implements `ApprovalDecision`.

**Access profile and admission.** Only `ProfileTypeOK` is needed as invariant:
what a lockdown leaves holds of every configuration, which is what the proof
shows. The order of the profiles, that a lockdown only narrows, what high-impact
requests need and the documented table (`OrderOfProfiles`, `Narrowing`,
`Caution`, `AsDocumented`) are theorems about decision_from_config that no run
checks. `NeverAskedTwice` is about the harness, for any configuration and any
calls: apart from the calls that the property leaves out, the access that the
harness checks from the declared effects and the one that the skill checks itself
come from the same dimensions of the configuration, so what the first let through
the second does not ask about.

**Turns.** `OfferedAlwaysRun` is about a turn from its offer on, for any commands
of any class, whatever plans, calls and changes of the access come in between. A
skill is offered in the phase at the offer and run in that of its call; the
invariant says how the two may differ: the stage never goes back from Edit,
and a gate that was down when the skills were offered is up only after an
escalation. So a skill of the phases Plan or Patch that is refused is one of the
three that the property names.

**Access control.** `IInv` numbers the grants in the order they were made
(`Orderly`, for the memory, the file and every document on its way there), says
that a grant for one use has it left, that a grant which was used in this life of
the service and is still there is bound to who used it, one of an earlier life
being a lasting one or one of `topagent access` (`UsesHold`), that a number means
the same scope and maker in every document and every use (`MarksHold`), that no
temporary approval is marked to be kept (`Marked`) or is in a document
(`Lasting`), and that a worker has a task from its start to its end, also while it
persists (`PlacesHold`). `OnceMeansOnce` needs the numbering: no other grant has
the number of one that was used up. `GrantsKeepTheirHolder` needs `UsesHold`: a
grant that fits a second call is bound to the first's holder, so it fits only for
the same. Both are about all lives of the service. Their exception, a grant of
`topagent access` after a crash, is in the statement since the code has it; that
approvals are not in it needs `MarksHold`, because what the file lists after a
crash must be known to be no approval. The step of authorize takes the oldest of
the grants that fit; that there is an oldest is the least number of a non-empty
set of numbers (`LeastNumber`). `NothingReturns` of each step gives
`RemovedGrantsStayRemoved`. `ApprovalsAlwaysEnd` is `ApprovalsEndWithTheirTask`
with both its parts: approvals in memory have their task, and no temporary one is
in the file. The proof covers any number of chats, tasks, commands and crashes,
and any documents that two writers of the file can leave.

**Sessions.** Four inductive invariants, each with `TypeOK`:

- `SInv`: `WorkersAreReachable`, `BlockedOnlyByItsWorker` and
  `CompletionsAreOfFinishedTasks` hold each other up. They need two facts more:
  a session is filed under its own chat (`SessionsAreFiled`), and while a worker
  is spawned but not inserted its chat has no session, and it is going or has
  reported (`SpawnedIsAlone`). `OneWorkerPerChat` follows and carries the rest.
  Two of them are `SessionsMatchWorkers`, which the run checks
  (`SessionsAreWorkers`).
- `UInv`: all updates below the offset are handled, and the batch continues at
  the offset without a gap. `NoUpdateIsLost` follows because the Bot API never
  forgets beyond the offset. A restart sets the offset to 0 and keeps it true.
- `CInv`: every going worker is newer than its chat's last reset, and so is all
  it has loaded. It rests on `SInv`: /reset is refused while the chat has a
  session, and every going worker has one.
- `KInv`: what a worker holds between loading and writing is what the chat's
  tasks have said (nobody else writes, by `OneWorkerPerChat`), and cutting a list
  to its newest messages before appending loses nothing that cutting it afterwards
  keeps (`RecentOfRecent`).

**Replies.** `TelegramReplyProofs!Implementation` is `ReplySpec => Spec`: each
action of the worker with its progress thread and its delivery is an action of
TelegramSession or leaves its variables alone, for any replies and any length of a
message. `SessionsCarryOver` draws the conclusion for the three session
properties. `RInv` says for every task that its place as a worker, its status
message with the channel, and its reply agree (`Agrees`): while the run goes no
outcome is in the channel; once it has ended the outcome is the last that the
thread will render, or is rendered, or its edit has failed, which the message's
`missed` says; a worker that delivers has been joined. `OutcomesAreTold` follows.
`DInv` adds to it and to `SInv` that what stands in a transcript file was
delivered (`SavedAreDelivered`); that the cut of a transcript keeps its newest
exchange (`LastWritten`) and that the chat's worker is alone with the file give
`SavedRepliesWereSeen`.

`ChunksAreAlwaysTheText` is about chunk_text itself, for any text, any widths of
characters and any length of a message: no character is lost, doubled or moved, but
for newlines, and no chunk is longer than a message, the newlines that are put
between lines included. `RInv` gives that what a worker delivers is a text of the
agent or the error; the rest is an induction over the characters of a line too long
(`PiecesAreTheLine`) and one over the lines (`DividedIsTheText`). What they carry
along is that what is divided so far, with the chunk at hand (`Content`), has the
letters of the lines so far, and that each of its chunks fits (`Fits`). The prover
has no induction over an operator, so it is taken over a set: what holds of the
empty list and is kept by `Append` holds of every list (`ListByList`, from the least
number at which it would fail), where the set is that of the lists it holds of. A
fold is the last value of a function along the list, which exists and is the only
one (`OneGoes`, `GoesOneWay`).

**Agent loop.** `IInv` is `TypeOK`, the two properties that are inductive with it
(`PlanningIsBounded`, `UnplannedChangesEscalate`, not checked by a run) and four
parts that tie the place of the loop to the rest: `PlacesFit` (what each place
says of the outcome, the counters and the batch; blocks reach their limit only on
the way to the automatic plan), `GateHolds` (a gate that is required is up or was
lowered by a plan, an escalation without a plan keeps it up, and no call that may
mutate is past the preflight of a required gate before a plan), `StopHolds` (a
skill started after the stop had passed the last check before it, so there is no
second one) and `ReceiptsHold` (what no record has accounted for yet was changed
by the run and is in what git reports, so that the next record finds it).
`PlanComesFirst`, `StopIsPrompt` and `ChangesAreAttributed` follow. The proof has
one lemma per action and is for any limits, any finite set of files and any length
of a batch.

**Compaction.** `IInv` says that the transcript holds one summary at most, that it
stands before the newest `KeepRecent` messages, so that the next cut takes it away
(`Orderly`), and that either nothing was compacted yet or the newest messages are
those of the run and nothing of a call stands before them (`EndsAlike`). Appending
keeps both; a compaction makes a conversation of `KeepRecent + 1` messages at most
and restores both (`LimitsFit` is where the numbers of the policy meet). For a
limit of 2 or 3 no compaction comes before there are four messages, so the
property's limit is the larger of the two. The proof needs that a conversation
without its calls is in the order of the transcript, which `NthIsOne` gives.

**Memory.** `IInv` has, for each procedure, what its file may say (`Sound`:
revisions and supersessions are covered by the reuses there were, a reuse being
allowed to be counted and not recorded yet; a successor is saved, is newer and is
another; a source is trusted) and, for each place of a process, what it carries
(`Fits`): two processes that read one file and write it one after the other each
write something sound, though one of them undoes the other. Saved procedures, the
reuses and the trust of a trajectory only grow (`Grows`), so what a process read
stays sound until it writes. Names are taken in the order of time (`InOrder`),
which excludes circles of successors.

`ConsolidationAlwaysTellsTheTruth` is about what consolidate_memory_if_needed
makes of any index, notes and procedures, as long as they are finitely many
(`ListingsHold`, kept by every step), and of whichever texts that cannot be read
back: it is about the lines written for entries, beside which the prelude stays.
Of the candidates of one key exactly one wins: no two precede each other, and a
candidate that the fewest precede is preceded by none (`GroupsHaveAWinner`), which
takes the place of an induction over the merging. So a procedure keeps a candidate
with its title through the merging; the pruning drops it only where one of the two
limits is reached.

**Service.** `IInv` has a part that always holds and one that holds until the run
is *disturbed* (a call of a command failed, somebody replaced a file, or a command
and a binding were writing the env file at once). `Unconditional`: a command is at
a step of its own, and an uninstall that is past a step, and of which no call and
no removal failed, has removed what that step removes, which gives
`NothingIsLeftBehind`. `Undisturbed`: the files are the program's own, what a
command or a binding is about to write back agrees with what the file holds, the
service runs with the owner and the values of the file or will be restarted, and
only one of a command and a binding is under way. `OnePersonIsServed` and
`ServiceFollowsItsFiles` follow. `OneOwner` and `ServiceIsConfigured` state the
same exception, since without it they are false; so what a command and a binding
that meet make of the file is not covered. `ServiceIsConfigured` has one more: the
executable of a service that an upgrade took for inactive, because systemd was
waiting to restart it or is-active failed.

**Run evidence.** A verdict is a function of two records, so the proof has two
halves. The functions: a complete queue is a plan whose items are all done
(`CompleteQueueIsDone`, by counting), the last verification decides
(`LastVerificationDecides`), the verdicts of checkpoint and task result agree for
the same records (`VerdictsAgree`), and a satisfied verdict has its receipt or its
verification (`SatisfiedVerdictIsEarned`, one case per workflow). The records
(`RunInv`): a receipt of a command that ran names the command, every verification
has its receipt (`RecordIsTrue`), and result and snapshot hold the records of the
run they are of (`ResultIsTheRuns`, `SnapshotIsTheRuns`).
`SatisfiedIsAlwaysEarned` and `CheckpointAlwaysAgrees` join them, for any plans,
commands, files and any number of calls.

**Evidence store.** The run of latest.json may not be in the history yet, or be
there and be pushed towards its end by others that are still to write. `StoreInv`
counts: the runs behind it in the history together with those still to write are
fewer than the history holds (`LatestIsNear`), for at most `MaxSaving` save at once
(`FewSave`) and each writes once (`RunsGoOnce`); pruning takes files from the old
end only. `LatestIsAlwaysInHistory` follows for any number of runs, any length of
the history and deaths anywhere. A HEAD that a snapshot saw and that is not the
present one does not return (`HeadsArePast`), which `UnconfirmedResumesAreFresh`
needs.

**Snapshots** (in TranscriptCompactionProofs). `SnapshotInv` says of every run
that has begun, and of the manifest on disk, be it none (`SnapshotsHold`): each
path is in it once (`Unique`); whatever the run found below a captured path is in
it as found, or its copy is known to be gone (`Sealed`); and what is not as the
run found it is in it (`Accounted`). All three speak of the paths that only the
run's captured changes touched. `Sealed` is what makes later captures safe: a path
with a captured path above it may be skipped, since all that lay there is in the
manifest already. `Accounted` needs that a call's scope is in the manifest when
the change is made (`ScopesAreCaptured`), or the snapshot was pruned in between
and the change counts as foreign. `RestoreHolds` says the same of the manifest
that a restore has in hand, and that a file which is not back yet is among the
entries to come; an entry put back can remove what lies in its way, but by `Sealed`
nothing that the run found (`EntryPutsBack`, from `PutBackIs`, which says of each
path what one entry can make of it). `OriginalsAlwaysKept`, `RestoreAlwaysUndoes`
and `RestoreAlwaysLeavesTheRest` follow for any tree, any runs and commands, any
number of snapshots kept, restores during runs, and deaths anywhere.

**Only model-checked.** Liveness, since the prover does not reach fairness:
`EveryDecisionIsDelivered`, `RunEnds`, `EveryUpdateIsHandled`, `StopEndsTheTask`,
`FinishedTasksFreeTheirChat`. Every invariant and action property that a run checks
is a theorem.

## 6. Not modelled

- The audit log: append-only, and no decision reads it.
- Prompts, the behaviour contract's texts, provenance notes, redaction of
  secrets, the memory briefing and the extraction of tags: rendering of text.
- The provider and OpenRouter client: HTTP and JSON. An answer of the model is any
  answer, and a failure any failure.
- What programs, git, web search and the screen do: their results are inputs.
- Configuration beyond the precedence of settings in `ServiceLifecycle`; doctor,
  eval, reports and the wording of messages.
- Markup of Telegram messages and their fallback to plain text, the HTTP client
  and the single tries of one request.
- Procedures torn by a crash in the middle of a write (`WorkspaceMemory` tears
  MEMORY.md only). A file without a title is an error for every reader of the
  directory (cli/memory/procedures.rs:122), until it is removed by hand.
- The failure counter of automatic compaction: only an invalid policy is an
  error (core/compaction.rs:172), and the default policy is valid.
- Panics other than chunk_text's. A worker that joins a progress thread which
  panicked goes on in the code; in the model no such thread panics.
- A text in the index that has a `|` followed by a part with a colon, and is read
  back as another entry.
- Equal ids of two grants of one kind made in one millisecond; the session ids of
  run snapshots made in one millisecond (core/run_snapshot.rs:118).
- A grant for one task that `topagent access` stored and a task bound stays in the
  file when that task ends (core/capability/decision.rs:380); it fits no later
  task, and no document says that it goes.
- A dirty file that was deleted before the run and is made again
  (core/run_state.rs:525), as said in section 2.

## 7. Plan

1. The mailbox of `ApprovalMailbox` composed with the sessions, in the place of
   the number of requests asked; `AgentLoop` as the worker of `TelegramReply`.
2. Two chats in a run of `TelegramReply`: they share the polling thread, and a
   slow delivery to one must not hold up the other.
3. Torn procedure files, and the torn files of run evidence, under every reader.
4. `RunEvidence` with the provenance labels of `WorkspaceMemory`, so that what a
   run may promote follows from the calls it made.
