---------------------------- MODULE RunEvidence ----------------------------
(***************************************************************************)
(* What a run records of its own work: its tool receipts, verification     *)
(* commands and changed files, the task result at its end, and the         *)
(* checkpoint and status that are kept of it (topagent-core/src/           *)
(* run_state.rs, tool_execution.rs, agent/run_loop.rs, run_checkpoint.rs,  *)
(* run_evidence.rs).                                                       *)
(*                                                                         *)
(* Others change and commit files meanwhile.  The planning gate and the    *)
(* rest of the loop are in AgentLoop: here any call may come at any time.  *)
(* Texts are kept only as far as the code reads them again; lists stay     *)
(* below the caps of 8 and 12 entries.                                     *)
(***************************************************************************)
EXTENDS WorkflowEvidence

CONSTANTS
    Plans,       \* plans that update_plan may set
    Harmless,    \* shell commands after which nothing is looked for: ResearchSafe
    Removes,     \* Removes[c] are the files a shell command removes
    Suggestions, \* verification commands a workspace may suggest, or NoCommand
    NoCommand,
    MaxCalls,    \* bound: tool calls
    MaxOutside   \* bound: file changes and commits by others

PlanItem == [kind : Kinds \cup {Uncategorized}, words : SUBSET Kinds, status : Statuses]

ASSUME EvidenceAssumption ==
    /\ Plans \subseteq Seq(PlanItem)
    /\ Inspecting \subseteq Harmless /\ Harmless \subseteq ShellCommands \ Verifying
    /\ Removes \in [ShellCommands -> SUBSET Files]
    /\ Suggestions \subseteq Verifying \cup {NoCommand} /\ NoCommand \notin ShellCommands
    /\ MaxCalls \in Nat /\ MaxOutside \in Nat

VARIABLES
    dirty,   \* files that differ from HEAD
    work,    \* the run
    kept,    \* the snapshot kept of it
    calls, outside

vars == <<dirty, work, kept, calls, outside>>

NoResult == [outcome |-> "none"]
NotKept == [status |-> "none"]

Working == work.result = NoResult
Ended == ~Working

\* AgentRunState::reset, the baseline and the task mode.
Init ==
    /\ dirty \in SUBSET Files
    /\ \E mode \in {"execute", "inspect"} :
          work = [mode |-> mode, before |-> dirty, items |-> <<>>, changed |-> {},
                  commands |-> <<>>, receipts |-> <<>>, result |-> NoResult]
    /\ kept = NotKept
    /\ calls = 0 /\ outside = 0

-----------------------------------------------------------------------------
(* Tool calls. *)

\* reconcile_changed_files: what is dirty now and was not before, whoever did it.
Reconciled(changed, now) == changed \cup (now \ work.before)

\* A call leaves a receipt.
Call(receipt, items, commands, changed, now) ==
    /\ Working /\ calls < MaxCalls
    /\ calls' = calls + 1
    /\ work' = [work EXCEPT !.receipts = Append(@, receipt), !.items = items,
                            !.commands = commands, !.changed = changed]
    /\ dirty' = now
    /\ UNCHANGED <<kept, outside>>

UpdatePlan(items) ==
    Call(Receipt("update_plan", NoTarget, "succeeded"), items, work.commands,
         work.changed, dirty)

\* write and edit.
Edit(tool, f) ==
    Call(Receipt(tool, f, "succeeded"), work.items, work.commands,
         Reconciled(work.changed \cup {f}, dirty \cup {f}), dirty \cup {f})

Inspect(tool, f) ==
    Call(Receipt(tool, f, "succeeded"), work.items, work.commands, work.changed, dirty)

\* A command that ran leaves a successful receipt, whatever its exit code.
Bash(c, passed) ==
    LET now == dirty \cup Removes[c]
    IN  Call(Receipt("bash", c, "succeeded"), work.items,
             IF c \in Verifying
             THEN Append(work.commands, [command |-> c, passed |-> passed])
             ELSE work.commands,
             IF c \in Harmless THEN work.changed
             ELSE Reconciled(work.changed \cup Removes[c], now), now)

\* A call that failed, or that a gate, an approval or a capability blocked.
NoEffect(tool, target, outcome) ==
    Call(Receipt(tool, target, outcome), work.items, work.commands, work.changed, dirty)

-----------------------------------------------------------------------------
(* The end of a run. *)

\* run_bounded_verification_follow_through: at the final answer, when files
\* changed and nothing was verified.  Its command is in the task result only.
FollowThrough(c, outcome) ==
    IF work.changed = {} \/ work.commands # <<>> \/ c = NoCommand
    THEN [commands |-> work.commands, receipts |-> work.receipts]
    ELSE CASE outcome \in {"passes", "fails"} ->
                [commands |-> <<[command |-> c, passed |-> outcome = "passes"]>>,
                 receipts |-> Append(work.receipts, Receipt("bash", c, "succeeded"))]
           [] OTHER ->
                [commands |-> <<>>,
                 receipts |-> Append(work.receipts, Receipt("bash", c, outcome))]

\* attach_workflow_verification: in execute mode, with a plan.
HasWorkflow == work.mode = "execute" /\ work.items # <<>>

Result(outcome, e, changed, commands, receipts) ==
    [outcome |-> outcome, workflow |-> HasWorkflow,
     verdict |-> e, files |-> changed,
     commands |-> commands, receipts |-> receipts]

EndWith(outcome, changed, commands, receipts) ==
    /\ work' = [work EXCEPT
                  !.result = Result(outcome,
                      Evaluate(work.items, changed, commands, receipts),
                      changed, commands, receipts),
                  !.changed = changed, !.receipts = receipts]
    /\ UNCHANGED <<dirty, kept, calls, outside>>

\* finalize_text_response; run_inner has reconciled the changed files before.
Finish ==
    /\ Working
    /\ \E c \in Suggestions, outcome \in {"passes", "fails", "failed", "blocked"} :
          LET last == FollowThrough(c, outcome)
          IN  EndWith("completed", work.changed, last.commands, last.receipts)

\* Agent::run: a run that is stopped, used up its steps or failed.
Interrupt ==
    /\ Working
    /\ \E outcome \in {"stopped", "max_steps", "failed"} :
          EndWith(outcome, work.changed, work.commands, work.receipts)

-----------------------------------------------------------------------------
(* The snapshot of a run. *)

\* RunEvidenceWorkflowSummary::from_workflow.
WorkflowStatus(e) ==
    CASE e.satisfied -> "satisfied"
      [] ~e.satisfied /\ e.queue.blocked > 0 -> "blocked"
      [] ~e.satisfied /\ e.queue.blocked = 0 ->
            IF e.failures > 0 /\ ~e.passed THEN "failed" ELSE "incomplete"

\* status_from_task_result.
StatusOf(result) ==
    CASE result.workflow -> WorkflowStatus(result.verdict)
      [] ~result.workflow /\ \E i \in DOMAIN result.receipts :
            ~Successful(result.receipts[i]) -> "blocked"
      [] OTHER ->
            CASE result.outcome = "completed" ->
                    IF result.verdict.finalPassed THEN "passed"
                    ELSE IF result.commands = <<>> THEN "unverified" ELSE "failed"
              [] result.outcome = "failed" -> "failed"
              [] OTHER -> "incomplete"

\* Mutant of CheckpointVerdict: the verification commands are left out.
CheckpointWithoutCommands == Evaluate(work.items, work.changed, <<>>, work.receipts)

\* build_checkpoint: evaluated again from the state of the run, with a plan in
\* whatever mode.
CheckpointVerdict ==
    Evaluate(work.items, work.changed, work.commands, work.receipts)

CheckpointGaps == IF work.items = <<>> THEN {} ELSE Gaps(CheckpointVerdict)

\* issues_from_task_result and RunEvidenceResumeHint::from_evidence: the issues
\* are changes nobody verified, gaps, and calls that did not succeed.  A resume
\* must be confirmed when the text of one has a word of risk in it: a failed
\* call's text begins with the name of its tool, and the rest of it, a gap's and
\* a file's name may say anything ("approval required", "upload", "post" ...).
RiskyTools == {"write", "edit", "external_send"}

NeedsConfirmation(result) ==
    LET failed == {result.receipts[i].tool :
                      i \in {j \in DOMAIN result.receipts : ~Successful(result.receipts[j])}}
        others == failed # {} \/ CheckpointGaps # {} \/ result.files # {}
    IN  IF failed \cap RiskyTools # {} THEN {TRUE}
        ELSE {FALSE} \cup {others}

\* A changed file that was dirty before the run is listed with a remark behind
\* its name, and no file of that name exists.
Labelled(changed, before) == changed \cap before

\* RunEvidenceSnapshot::from_task_result.
Capture ==
    /\ Ended /\ kept = NotKept
    /\ \E confirm \in NeedsConfirmation(work.result) :
          kept' = [status |-> StatusOf(work.result), gaps |-> CheckpointGaps,
                   confirm |-> confirm, dirty |-> dirty, changed |-> work.changed,
                   labelled |-> Labelled(work.changed, work.before)]
    /\ UNCHANGED <<dirty, work, calls, outside>>

\* Another program or the operator changes a file, or commits.
Outside(now) ==
    /\ outside < MaxOutside /\ now # dirty
    /\ outside' = outside + 1
    /\ dirty' = now
    /\ UNCHANGED <<work, kept, calls>>

Next ==
    \/ \E items \in Plans : UpdatePlan(items)
    \/ \E f \in Files :
          \/ \E tool \in {"write", "edit"} :
                \/ Edit(tool, f)
                \/ \E outcome \in {"failed", "blocked"} : NoEffect(tool, f, outcome)
          \/ Inspect("read", f)
          \/ Outside(dirty \cup {f})
    \/ Inspect("git_diff", NoTarget) \/ Inspect("web_search", NoTarget)
    \/ \E c \in ShellCommands :
          \/ \E passed \in BOOLEAN : Bash(c, passed)
          \/ \E outcome \in {"failed", "blocked"} : NoEffect("bash", c, outcome)
    \/ Finish \/ Interrupt \/ Capture \/ Outside({})

Spec == Init /\ [][Next]_vars

-----------------------------------------------------------------------------
(* Properties. *)

\* A run whose workflow is reported as satisfied has done what the architecture
\* document asks of it (docs/architecture.md:89-98), told from its calls in
\* their order: nothing of the plan is open, no relevant verification failed
\* after the last one that passed, audits looked at the repository and not only
\* at the web, and reviews at its history or its changes (by a command that may
\* do more than look: any that begins as git diff, log, show or status does).
SatisfiedIsEarned ==
    Ended /\ StatusOf(work.result) = "satisfied" =>
        LET receipts == work.result.receipts
            commands == work.result.commands
            has(k) == \E i \in DOMAIN work.items : KindOf(work.items[i]) = k
            looked == {i \in DOMAIN receipts : receipts[i].outcome = "succeeded" /\
                          (receipts[i].tool \in {"read", "git_diff"} \/ receipts[i].of \in Inspecting)}
        IN  /\ work.items # <<>>
            /\ \A i \in DOMAIN work.items : work.items[i].status = "done"
            /\ (has("test") \/ (has("patch") /\ work.changed # {}))
                  => /\ \E i \in DOMAIN commands : commands[i].passed
                     /\ Last(commands).passed
            /\ has("release_gate") => \E i \in DOMAIN receipts :
                  receipts[i].outcome = "succeeded" /\ receipts[i].of \in Gating
            /\ has("audit") => looked # {}
            /\ has("commit_review") => \E i \in DOMAIN receipts :
                  /\ receipts[i].outcome = "succeeded"
                  /\ receipts[i].tool = "git_diff" \/ receipts[i].of \in Reviewing

\* What a run is told of its evidence is computed four times: the verdict, the
\* gaps and the next action of the checkpoint, and the verdict of the task
\* result, from two records of one run.  A run is told what to do exactly as long
\* as something is missing, and the two verdicts agree, but for the verification
\* that the follow-through adds to the second alone.
CheckpointAgrees ==
    LET e == CheckpointVerdict
    IN  /\ e.satisfied <=> Gaps(e) = {}
        /\ e.satisfied <=> NextAction(e) = "none"
        /\ kept.status = "satisfied" /\ work.commands = work.result.commands
              => kept.gaps = {}

\* docs/architecture.md:98: a failed or blocked attempt is recovered by a later
\* success of the same tool on the same target.  No run checks this: the receipt
\* of a failure does not name its target, so nothing is ever recovered; added to
\* the invariants of MCRunEvidence.cfg it shows how.
RepeatedCallsRecover ==
    \A i, j \in DOMAIN work.receipts :
        /\ i < j
        /\ work.receipts[i].tool = work.receipts[j].tool
        /\ work.receipts[i].of = work.receipts[j].of
        /\ Successful(work.receipts[j])
        => i \notin UnrecoveredIssues(work.receipts)

=============================================================================
