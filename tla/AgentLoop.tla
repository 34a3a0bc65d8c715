------------------------------ MODULE AgentLoop ------------------------------
(***************************************************************************)
(* One run of the agent (topagent-core/src/agent): Agent::run asks the     *)
(* model, takes every tool call of its answer through the preflight gates, *)
(* the access check and the skill, and keeps what the run did, until the   *)
(* model answers in text, the step limit or an error ends it, or the       *)
(* operator stops it.  A Telegram worker or a CLI run makes a new agent    *)
(* for each task, so a run begins with no plan.                            *)
(*                                                                         *)
(* The model's answers, the operator's decisions (ApprovalMailbox has the  *)
(* mailbox, AccessControl the policy) and the cancellation token are the   *)
(* environment.  A tool call is reduced to its class; the calls of a batch *)
(* are chosen when the loop reaches them.  What only feeds the prompt and  *)
(* the report (transcript, tool trace, active files, source labels,        *)
(* progress) is left out, and a receipt is the files it stands for.  The   *)
(* run has an approval mailbox, as the CLI and Telegram give it one.  The  *)
(* workspace is a git repository; files that were dirty when the run began *)
(* exist, a clone's target does not, and no skill puts a file back as it   *)
(* was then.                                                               *)
(***************************************************************************)
EXTENDS Naturals, FiniteSets

CONSTANTS
    Files,       \* files of the workspace
    DirtyFiles,  \* files that may have changes when the run begins
    RequirePlan, \* RuntimeOptions::require_plan
    MaxSteps,    \* RuntimeOptions::max_steps
    MaxRetries,  \* RuntimeOptions::max_provider_retries
    MaxResearch, \* max_research_steps_without_plan
    MaxRedirects,\* max_text_redirects_before_auto_plan
    MaxBlocked,  \* max_blocked_mutations_before_auto_plan
    Threshold,   \* unplanned_mutation_escalation_threshold
    MaxBatch     \* bound on the tool calls of one answer

ASSUME LoopAssumption ==
    /\ IsFiniteSet(Files) /\ DirtyFiles \subseteq Files
    /\ RequirePlan \in BOOLEAN
    /\ MaxSteps \in Nat /\ MaxRetries \in Nat /\ MaxBatch \in Nat
    /\ MaxResearch \in Nat /\ MaxRedirects \in Nat
    /\ MaxBlocked \in Nat \ {0}
    /\ Threshold \in Nat \ {0}

VARIABLES
    cancelled, \* the run's cancellation token
    waits,     \* the mailbox waits for decisions (it may return Pending)
    pc,        \* where the loop is
    count,     \* LoopCounters
    gate,      \* PlanningGate
    executes,  \* the gate's task_mode is PlanAndExecute
    plan,      \* the plan has items
    started,   \* the execution stage is past Research
    left,      \* calls of the batch not yet taken
    call,      \* the call being executed, and the files it names
    dirty,     \* what git reports as changed in the workspace
    baseline,  \* RunBaseline: what was dirty when the run began
    touched,   \* files whose content differs from when the run began
    changed,   \* the run's changed_files
    verified,  \* the last verification command of bash_history
    receipts,  \* files that the receipts of recorded calls stand for
    outcome,   \* the ExecutionSessionOutcome
    planned,   \* history: there was a plan since the gate was last raised
    ever,      \* history: there was a plan in this run
    unrecorded,\* history: files of successful calls not recorded yet
    late       \* history: skills started after the stop

operator == <<cancelled, waits>>
planning == <<gate, executes, plan, planned, ever>>
batch == <<left, call>>
workspace == <<dirty, baseline, touched>>
record == <<started, changed, verified>>
history == <<receipts, unrecorded>>
vars == <<cancelled, waits, pc, count, gate, executes, plan, started, left,
          call, dirty, baseline, touched, changed, verified, receipts,
          outcome, planned, ever, unrecorded, late>>

\* Shell commands by BashCommandClass.  "verify_part" is a Verification
\* command by one of its segments only ("cd x && cargo test"), which
\* is_verification_command does not recognise.
Verifications == {"verify", "verify_part"}
BashTools == Verifications \cup {"research", "risky"}
\* "read" is every skill that changes no file and passes every gate;
\* "update_plan" with no items is "clear_plan"; git_add is a "write" that
\* names no file.  git_clone changes files and is no mutation tool.
Tools == BashTools \cup {"unknown", "read", "memory", "write", "git_commit",
                         "git_clone", "update_plan", "clear_plan"}

NoCall == [tool |-> "unknown", named |-> {}]

Init ==
    /\ cancelled = FALSE /\ waits \in BOOLEAN
    /\ pc = "start" /\ outcome = "Unknown"
    /\ count = [steps |-> 0, retries |-> 0, research |-> 0, redirects |-> 0]
    /\ gate = [active |-> FALSE, required |-> FALSE, escalated |-> FALSE,
               blocks |-> 0]
    /\ executes = TRUE /\ plan = FALSE /\ planned = FALSE /\ ever = FALSE
    /\ left = 0 /\ call = NoCall
    /\ dirty \in SUBSET DirtyFiles
    /\ baseline = {} /\ touched = {}
    /\ started = FALSE /\ changed = {} /\ verified = "none"
    /\ receipts = {} /\ unrecorded = {} /\ late = 0

End(o) == pc' = "done" /\ outcome' = o

Goto(p) == pc' = p /\ UNCHANGED outcome
-----------------------------------------------------------------------------
(* The start of a run: reset_run_state takes the baseline and classifies   *)
(* the task, with up to two questions to the model.                        *)

Start ==
    /\ pc = "start"
    /\ \/ cancelled /\ End("Stopped") /\ UNCHANGED baseline
       \/ ~cancelled /\ Goto("classify") /\ baseline' = dirty
    /\ UNCHANGED <<operator, count, planning, record, batch, dirty, touched,
                   history, late>>

\* An error of the model classifies the task as simple, a stop ends the run.
Classify ==
    /\ pc = "classify"
    /\ \/ /\ cancelled
          /\ End("Stopped")
          /\ UNCHANGED <<gate, executes>>
       \/ \E required, mode \in BOOLEAN :
             /\ required => RequirePlan
             /\ ~required => mode
             /\ gate' = [active |-> required, required |-> required,
                         escalated |-> FALSE, blocks |-> 0]
             /\ executes' = mode
             /\ Goto("loop")
    /\ UNCHANGED <<operator, count, plan, planned, ever, record, batch,
                   workspace, history, late>>
-----------------------------------------------------------------------------
(* The planning gate.                                                      *)

PlanMissing == gate.active /\ ~plan

Deactivated(g) == [g EXCEPT !.active = FALSE, !.blocks = 0]

SetPlan(p) ==
    /\ plan' = p
    /\ planned' = (planned \/ p)
    /\ ever' = (ever \/ p)

AutoPlanned == Deactivated(gate)

\* generate_or_fallback_plan: the model's plan or, when it gives none, the
\* emergency plan of two steps.  Only a stop leaves the run without a plan.
AutoPlan(next) ==
    /\ \/ /\ cancelled
          /\ End("Stopped")
          /\ UNCHANGED planning
       \/ /\ SetPlan(TRUE)
          /\ gate' = AutoPlanned
          /\ Goto(next)
          /\ UNCHANGED executes
    /\ UNCHANGED <<operator, count, record, batch, workspace, history, late>>

AutoPlanForModel == pc = "plan_for_model" /\ AutoPlan("model")
AutoPlanForLoop == pc = "plan_for_loop" /\ AutoPlan("loop")
AutoPlanForBatch == pc = "plan_for_batch" /\ AutoPlan("batch")

\* Mutant of ShouldEscalate: one file too late.
ShouldEscalateLate(files) ==
    /\ RequirePlan /\ ~gate.active /\ ~gate.escalated /\ ~plan
    /\ Cardinality(files) > Threshold

ShouldEscalate(files) ==
    /\ RequirePlan /\ ~gate.active /\ ~gate.escalated /\ ~plan
    /\ Cardinality(files) >= Threshold

\* maybe_escalate_to_planning, after `files` became the changed files.
Escalate(files) ==
    IF ShouldEscalate(files)
    THEN /\ gate' = [gate EXCEPT !.active = TRUE, !.required = TRUE,
                                 !.escalated = TRUE]
         /\ planned' = FALSE
    ELSE UNCHANGED <<gate, planned>>
-----------------------------------------------------------------------------
(* The top of the loop and the model's answer.                             *)

ResearchIsOver == count.research + 1 >= MaxResearch

TopOfLoop ==
    /\ pc = "loop"
    /\ \/ cancelled /\ End("Stopped") /\ UNCHANGED count
       \/ /\ ~cancelled /\ count.steps >= MaxSteps
          /\ End("MaxStepsReached")
          /\ UNCHANGED count
       \* the project instructions cannot be read
       \/ /\ ~cancelled /\ count.steps < MaxSteps
          /\ End("Failed")
          /\ UNCHANGED count
       \/ /\ ~cancelled /\ count.steps < MaxSteps /\ PlanMissing
          /\ count' = [count EXCEPT !.research = @ + 1]
          /\ Goto(IF ResearchIsOver THEN "plan_for_model" ELSE "model")
       \/ /\ ~cancelled /\ count.steps < MaxSteps /\ ~PlanMissing
          /\ Goto("model")
          /\ UNCHANGED count
    /\ UNCHANGED <<operator, planning, record, batch, workspace, history,
                   late>>

Answering == pc = "model" /\ ~cancelled

ModelStopped ==
    /\ pc = "model" /\ cancelled
    /\ End("Stopped")
    /\ UNCHANGED <<operator, count, planning, record, batch, workspace,
                   history, late>>

\* Mutant of Retried: a failed request does not use up the retries.
RetriedForever == count

\* The budget is shared by failed requests and empty answers.
Retried == [count EXCEPT !.retries = @ + 1]

ModelFails ==
    /\ Answering
    /\ \/ /\ count.retries + 1 >= MaxRetries
          /\ End("Failed")
          /\ UNCHANGED count
       \/ /\ count.retries + 1 < MaxRetries
          /\ count' = Retried
          /\ Goto("loop")
    /\ UNCHANGED <<operator, planning, record, batch, workspace, history,
                   late>>

Stepped == [count EXCEPT !.steps = @ + 1]

EmptyAnswer ==
    /\ Answering
    /\ \/ /\ count.retries >= MaxRetries
          /\ count' = Stepped
          /\ End("Failed")
       \/ /\ count.retries < MaxRetries
          /\ count' = [Stepped EXCEPT !.retries = @ + 1]
          /\ Goto("loop")
    /\ UNCHANGED <<operator, planning, record, batch, workspace, history,
                   late>>

\* An answer that is no text, or one that asks for input the run has not.
OtherAnswer ==
    /\ Answering
    /\ count' = Stepped
    /\ Goto("loop") \/ End("Failed")
    /\ UNCHANGED <<operator, planning, record, batch, workspace, history,
                   late>>

RedirectText ==
    /\ Answering /\ PlanMissing
    /\ count' = [Stepped EXCEPT !.redirects = @ + 1]
    /\ Goto(IF count.redirects + 1 >= MaxRedirects
            THEN "plan_for_loop" ELSE "loop")
    /\ UNCHANGED <<operator, planning, record, batch, workspace, history,
                   late>>

\* finalize_text_response: a run that changed files and verified nothing
\* tries a verification command, when the workspace suggests one.
FinalText ==
    /\ Answering /\ ~PlanMissing
    /\ count' = Stepped
    /\ \/ changed # {} /\ verified = "none" /\ Goto("follow_up")
       \/ End("Completed")
    /\ UNCHANGED <<operator, planning, record, batch, workspace, history,
                   late>>

ToolCalls(n) ==
    /\ Answering
    /\ count' = Stepped
    /\ left' = n
    /\ Goto("batch")
    /\ UNCHANGED <<operator, planning, record, call, workspace, history,
                   late>>
-----------------------------------------------------------------------------
(* One tool call: the preflight gates.                                     *)

\* Mutant of PlanningBlocks: verification commands pass the planning gate.
PlanningBlocksMutations(t) ==
    PlanMissing /\ t \in {"write", "git_commit", "risky"}

PlanningBlocks(t) ==
    PlanMissing /\ t \in {"write", "git_commit", "risky"} \cup Verifications

PreExecutionBlocks(t) ==
    /\ gate.required /\ plan /\ ~started /\ executes
    /\ t \in Verifications

NeedsApproval(t) == t \in {"git_commit", "risky"}

\* The call is answered without being executed; on to the next one.
Skip == left' = left - 1 /\ call' = NoCall

\* note_planning_block counts and, at the limit, has a plan made.
\* Mutant of BlockedEnough: the blocks are counted and never acted upon.
BlockedForever == FALSE

BlockedEnough == gate.blocks + 1 >= MaxBlocked

BlockForPlan(t) ==
    /\ pc = "batch" /\ left > 0 /\ PlanningBlocks(t)
    /\ Skip
    /\ gate' = [gate EXCEPT !.blocks = @ + 1]
    /\ Goto(IF BlockedEnough THEN "plan_for_batch" ELSE "batch")
    /\ UNCHANGED <<operator, count, executes, plan, planned, ever, record,
                   workspace, history, late>>

\* The unknown tool, the pre-execution verification gate and, for durable
\* memory, the trust gate.
Block(t) ==
    /\ pc = "batch" /\ left > 0 /\ ~PlanningBlocks(t)
    /\ t \in {"unknown", "memory"} \/ PreExecutionBlocks(t)
    /\ Skip
    /\ UNCHANGED <<operator, pc, outcome, count, planning, record, workspace,
                   history, late>>

Pass(t) ==
    /\ pc = "batch" /\ left > 0
    /\ ~PlanningBlocks(t) /\ ~PreExecutionBlocks(t) /\ t # "unknown"
    /\ call' = [tool |-> t, named |-> {}]
    /\ Goto(IF NeedsApproval(t) THEN "asking" ELSE "execute")
    /\ UNCHANGED <<operator, count, planning, left, record, workspace,
                   history, late>>

\* The retries are for consecutive failures: a batch of calls resets them.
EndBatch ==
    /\ pc = "batch" /\ left = 0
    /\ count' = [count EXCEPT !.retries = 0]
    /\ Goto("loop")
    /\ UNCHANGED <<operator, planning, batch, record, workspace, history,
                   late>>

Approve ==
    /\ pc = "asking" /\ waits
    /\ Goto("execute")
    /\ UNCHANGED <<operator, count, planning, batch, record, workspace,
                   history, late>>

Refusal(at) ==
    /\ pc = at /\ waits
    /\ Skip /\ Goto("batch")
    /\ UNCHANGED <<operator, count, planning, record, workspace, history,
                   late>>

\* Denied or superseded by the operator.
Deny == Refusal("asking")

\* The stop wakes the wait, which comes back expired.
ExpireApproval == cancelled /\ Refusal("asking")

\* A mailbox that does not wait says Pending: ApprovalRequired ends the run.
ReturnPending ==
    /\ pc \in {"asking", "granting"} /\ ~waits
    /\ End("Failed")
    /\ UNCHANGED <<operator, count, planning, batch, record, workspace,
                   history, late>>
-----------------------------------------------------------------------------
(* Harness::execute_skill: phase and access, capabilities, the skill.      *)

\* Mutant of StopSeen: the check before the execution is gone.
StopUnseen == FALSE

StopSeen == cancelled

Execute ==
    /\ pc = "execute"
    /\ IF StopSeen THEN End("Stopped") ELSE Goto("authorizing")
    /\ UNCHANGED <<operator, count, planning, batch, record, workspace,
                   history, late>>

\* Durable memory is not written in the Plan phase, and a clone is made in the
\* Patch phase only.
DeniedInPhase(t) ==
    \/ t \in {"memory", "git_clone"} /\ PlanMissing
    \/ t = "git_clone" /\ ~gate.active /\ ~started

\* Planning asks for no capability.
AsksCapability(t) == t \notin {"update_plan", "clear_plan"}

\* SkillPolicyDenied, or a capability the policy denies.
DenySkill ==
    /\ pc = "authorizing" /\ AsksCapability(call.tool)
    /\ Skip /\ Goto("batch")
    /\ UNCHANGED <<operator, count, planning, record, workspace, history,
                   late>>

\* Until they are granted, the skill's capability requests are put to the
\* operator one after the other.
AskCapability ==
    /\ pc = "authorizing"
    /\ AsksCapability(call.tool) /\ ~DeniedInPhase(call.tool)
    /\ Goto("granting")
    /\ UNCHANGED <<operator, count, planning, batch, record, workspace,
                   history, late>>

\* The skill starts; a shell command looks at the token first.
StartSkill ==
    \/ /\ cancelled /\ call.tool \in BashTools
       /\ Skip /\ Goto("batch")
       /\ UNCHANGED late
    \/ /\ ~(cancelled /\ call.tool \in BashTools)
       /\ Goto("running")
       /\ late' = IF cancelled THEN late + 1 ELSE late
       /\ UNCHANGED batch

Authorized ==
    /\ pc = "authorizing" /\ ~DeniedInPhase(call.tool)
    /\ StartSkill
    /\ UNCHANGED <<operator, count, planning, record, workspace, history>>

Grant ==
    /\ pc = "granting" /\ waits
    /\ StartSkill
    /\ UNCHANGED <<operator, count, planning, record, workspace, history>>

DenyGrant == Refusal("granting")
ExpireGrant == cancelled /\ Refusal("granting")

\* The files a write names, and what a skill of each class may change: a
\* write may leave the file as it was; a clone makes a new directory.
Names(t) == IF t = "write" THEN {{}} \cup {{f} : f \in Files} ELSE {{}}

Writes(t) ==
    CASE t = "write" -> Names(t)
      [] t \in Verifications \cup {"risky"} -> SUBSET Files
      [] t = "git_clone" -> SUBSET (Files \ dirty)
      [] OTHER -> {{}}

Commits(t) == t \in {"git_commit", "risky"}

\* The files `w` were written; a commit may have taken `gone` off the dirty.
Work(w, gone) ==
    /\ touched' = touched \cup w
    /\ dirty' = (dirty \cup w) \ gone
    /\ UNCHANGED baseline

\* The receipt is recorded before the run looks at the token again.
SkillSucceeds(w, named, gone) ==
    /\ pc = "running"
    /\ w \in Writes(call.tool) /\ named \in Names(call.tool)
    /\ call.tool = "write" => w \subseteq named
    /\ gone # {} => Commits(call.tool) /\ gone = dirty \cup w
    /\ Work(w, gone)
    /\ unrecorded' = (unrecorded \cup w) \ gone
    /\ call' = [call EXCEPT !.named = named]
    /\ IF call.tool \in {"update_plan", "clear_plan"}
       THEN SetPlan(call.tool = "update_plan")
       ELSE UNCHANGED <<plan, planned, ever>>
    /\ Goto("record")
    /\ UNCHANGED <<operator, count, gate, executes, left, record, receipts,
                   late>>

\* An error, or a command killed by the stop, may leave part of its work.
SkillFails(w) ==
    /\ pc = "running"
    /\ \E all \in Writes(call.tool) : w \subseteq all
    /\ Work(w, {})
    /\ Skip /\ Goto("batch")
    /\ UNCHANGED <<operator, count, planning, record, history, late>>
-----------------------------------------------------------------------------
(* What the run keeps of a call that succeeded.                            *)

\* Mutant of Reconciled: pre-existing dirty files are the run's too.
ReconciledWithDirty == dirty

\* reconcile_changed_files: what git reports and the baseline did not have,
\* or had with another content.
Reconciled == dirty \ (baseline \ touched)

NewlyNamed(paths) == paths \ (baseline \cup changed)

\* A risky command: when git shows nothing of the run, the paths the command
\* line names are taken for changed.
RecordRisky(hints) ==
    IF Reconciled # {}
    THEN changed' = changed \cup Reconciled /\ Escalate(changed')
    ELSE /\ changed' = changed \cup NewlyNamed(hints)
         /\ IF NewlyNamed(hints) # {} THEN Escalate(changed')
            ELSE UNCHANGED <<gate, planned>>

\* A Verification command may change files as well.
RecordVerification ==
    /\ changed' = changed \cup Reconciled
    /\ started' = (started \/ Reconciled # {})
    /\ IF Reconciled # {} THEN Escalate(changed')
       ELSE UNCHANGED <<gate, planned>>

RecordMutation ==
    /\ changed' = changed \cup (call.named \ baseline) \cup Reconciled
    /\ started' = TRUE
    /\ Escalate(changed')

RecordPlan == gate' = IF plan THEN Deactivated(gate) ELSE gate

\* The calls whose record is to account for every file changed so far: the
\* commands that may change files, and behavior.mutation_tools.
Accounts(t) == t \in {"write", "git_commit", "risky"} \cup Verifications

\* The check after the skill: nothing but the receipt is kept.
StoppedAfterSkill ==
    /\ pc = "record" /\ cancelled
    /\ End("Stopped")
    /\ UNCHANGED <<operator, count, planning, batch, record, workspace,
                   history, late>>

Record(hints, exit) ==
    /\ pc = "record" /\ ~cancelled
    /\ CASE call.tool = "risky" ->
              /\ RecordRisky(hints)
              /\ started' = TRUE
         [] call.tool \in Verifications -> RecordVerification
         [] call.tool \in {"write", "git_commit"} -> RecordMutation
         [] call.tool \in {"update_plan", "clear_plan"} ->
              RecordPlan /\ UNCHANGED <<planned, changed, started>>
         [] OTHER -> UNCHANGED <<gate, planned, changed, started>>
    /\ verified' = IF call.tool = "verify" THEN exit ELSE verified
    /\ IF Accounts(call.tool)
       THEN receipts' = receipts \cup unrecorded /\ unrecorded' = {}
       ELSE UNCHANGED history
    /\ left' = left - 1
    /\ call' = NoCall
    /\ Goto("batch")
    /\ UNCHANGED <<operator, count, executes, plan, ever, workspace, late>>
-----------------------------------------------------------------------------
(* The verification follow-through of the final answer: one shell command  *)
(* in the Verify phase.  Whatever becomes of it, the run is completed.     *)

SkipFollowUp ==
    /\ pc = "follow_up" \/ (pc = "granting_check" /\ waits /\ cancelled)
    /\ End("Completed")
    /\ UNCHANGED <<operator, count, planning, batch, record, workspace,
                   history, late>>

AskFollowUp ==
    /\ pc = "follow_up" /\ waits
    /\ Goto("granting_check")
    /\ UNCHANGED <<operator, count, planning, batch, record, workspace,
                   history, late>>

StartFollowUp ==
    /\ IF cancelled THEN End("Completed") ELSE Goto("checking")
    /\ UNCHANGED <<operator, count, planning, batch, record, workspace,
                   history, late>>

RunFollowUp == pc = "follow_up" /\ StartFollowUp
GrantFollowUp == pc = "granting_check" /\ waits /\ StartFollowUp

DenyFollowUp ==
    /\ pc = "granting_check" /\ waits
    /\ End("Completed")
    /\ UNCHANGED <<operator, count, planning, batch, record, workspace,
                   history, late>>

\* Its files are not reconciled; a failure or a kill leaves no verdict.
FollowUpEnds(w, exit) ==
    /\ pc = "checking"
    /\ Work(w, {})
    /\ verified' = exit
    /\ End("Completed")
    /\ UNCHANGED <<operator, count, planning, batch, started, changed,
                   history, late>>
-----------------------------------------------------------------------------
\* /stop, Ctrl-C or a restart of the service.
Cancel ==
    /\ ~cancelled /\ pc # "done"
    /\ cancelled' = TRUE
    /\ UNCHANGED <<waits, pc, outcome, count, planning, batch, record,
                   workspace, history, late>>

Decision == Approve \/ Deny \/ Grant \/ DenyGrant \/ GrantFollowUp
            \/ DenyFollowUp

\* A shell command has no time limit.  A stop kills the process that was
\* started, but the call returns only once its output is closed, and whatever
\* that process started may hold it open for as long as it likes.  git_clone
\* and git_commit wait for git, that is for a remote or a hook, without a time
\* limit and without looking at the token.
CommandTools == BashTools \cup {"git_clone", "git_commit"}

CommandRuns ==
    pc = "checking" \/ (pc = "running" /\ call.tool \in CommandTools)

SkillEnds ==
    \/ \E w, named, gone \in SUBSET Files : SkillSucceeds(w, named, gone)
    \/ \E w \in SUBSET Files : SkillFails(w)
    \/ \E w \in SUBSET Files, exit \in {"passed", "failed", "none"} :
          FollowUpEnds(w, exit)

TakeCall(t) == BlockForPlan(t) \/ Block(t) \/ Pass(t)

Answer ==
    \/ ModelStopped \/ ModelFails \/ EmptyAnswer \/ OtherAnswer
    \/ RedirectText \/ FinalText
    \/ \E n \in 1 .. MaxBatch : ToolCalls(n)

Plan == AutoPlanForModel \/ AutoPlanForLoop \/ AutoPlanForBatch

Step ==
    \/ Start \/ Classify \/ TopOfLoop \/ Answer \/ Plan
    \/ \E t \in Tools : TakeCall(t)
    \/ EndBatch \/ ExpireApproval \/ ReturnPending
    \/ Execute \/ DenySkill \/ AskCapability \/ Authorized \/ ExpireGrant
    \/ StoppedAfterSkill
    \/ \E hints \in SUBSET Files, exit \in {"passed", "failed"} :
          Record(hints, exit)
    \/ SkipFollowUp \/ AskFollowUp \/ RunFollowUp

Next == Step \/ SkillEnds \/ Decision \/ Cancel

Spec == Init /\ [][Next]_vars

\* The loop never rests while it has a step to take; the model's answer is
\* bounded by provider_timeout_secs, and a skill that waits for no command, no
\* remote and no hook ends.  These need not end, and the operator need not
\* decide.
FairSpec ==
    /\ Spec
    /\ WF_vars(Step)
    /\ WF_vars(SkillEnds /\ ~CommandRuns)
-----------------------------------------------------------------------------
(* Properties.                                                             *)

Outcomes == {"Unknown", "Completed", "Stopped", "MaxStepsReached", "Failed"}
Places == {"start", "classify", "loop", "plan_for_model", "plan_for_loop",
           "plan_for_batch", "model", "batch", "asking", "execute",
           "authorizing", "granting", "running", "record", "follow_up",
           "granting_check", "checking", "done"}

Counts == [steps : 0 .. MaxSteps, retries : 0 .. MaxRetries,
           research : Nat, redirects : Nat]
Gates == [active : BOOLEAN, required : BOOLEAN, escalated : BOOLEAN,
          blocks : 0 .. MaxBlocked]
Calls == [tool : Tools, named : SUBSET Files]

TypeOK ==
    /\ cancelled \in BOOLEAN /\ waits \in BOOLEAN
    /\ pc \in Places /\ outcome \in Outcomes
    /\ count \in Counts /\ gate \in Gates
    /\ executes \in BOOLEAN /\ plan \in BOOLEAN
    /\ planned \in BOOLEAN /\ ever \in BOOLEAN
    /\ left \in 0 .. MaxBatch
    /\ call \in Calls
    /\ dirty \subseteq Files /\ baseline \subseteq Files
    /\ touched \subseteq Files /\ changed \subseteq Files
    /\ receipts \subseteq Files /\ unrecorded \subseteq Files
    /\ started \in BOOLEAN /\ verified \in {"none", "passed", "failed"}
    /\ late \in Nat

MayMutate(t) == Accounts(t) \/ t = "git_clone"

\* The planning gate holds: a run of which a plan is required (by its
\* classification, or since its changes were escalated) runs nothing that can
\* change the workspace, and gives no final answer, before a plan was made.
PlanComesFirst ==
    gate.required /\ (\/ pc = "running" /\ MayMutate(call.tool)
                     \/ outcome = "Completed")
        => planned

\* Planning is bounded: when the model is asked while a plan is missing, both
\* budgets that end in an automatic plan still have room.
PlanningIsBounded ==
    pc = "model" /\ PlanMissing =>
        /\ count.research < MaxResearch
        /\ gate.blocks < MaxBlocked

\* maybe_escalate_to_planning misses no change: a run that has changed as
\* many files as the threshold and never had a plan is behind the gate.
UnplannedChangesEscalate ==
    RequirePlan /\ ~ever /\ Cardinality(changed) >= Threshold => gate.active

\* The stop is prompt: at most the one skill that had passed the last check
\* of the token is started after it.
StopIsPrompt == late <= 1

\* The run's changed files are its own: once the record of a call has accounted
\* for what was changed, every file that this call and the calls before it
\* changed, and that git still shows, is among them, also when the run is
\* stopped later; none that was dirty before is, unless the run changed it.  A
\* clone accounts for nothing: its files are found by the next call that does.
\* Left out are a call that failed, the last command of the final answer, and
\* what was committed before it was accounted for.
ChangesAreAttributed ==
    /\ receipts \subseteq changed
    /\ changed \cap baseline \subseteq touched

\* A run ends, unless it waits for ever for a shell command, a clone or a
\* commit, stopped or not, or for an operator who neither decides nor stops it.
Stuck == \/ CommandRuns
         \/ ~cancelled /\ pc \in {"asking", "granting", "granting_check"}

RunEnds == <>(pc = "done") \/ <>[]Stuck

\* What ExecutionSessionOutcome says of a stopped run: its result has the
\* files changed before the stop.  The program does not do so for the call that
\* the stop came after: no run checks this, an INVARIANT line in
\* MCAgentLoop.cfg shows where it fails.
StoppedResultsNameTheirFiles ==
    outcome = "Stopped" => unrecorded \subseteq changed

\* That a completed run names every file a successful call changed.  It does
\* not name what a clone brought when no change was recorded after it; an
\* INVARIANT line in MCAgentLoop.cfg shows that too.
CompletedResultsNameTheirFiles ==
    outcome = "Completed" => unrecorded \subseteq changed
=============================================================================
