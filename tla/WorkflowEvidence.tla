-------------------------- MODULE WorkflowEvidence --------------------------
(***************************************************************************)
(* Which evidence a coding workflow needs, and whether a run has it        *)
(* (topagent-core/src/workflow_verification, plan.rs, receipt_index.rs).   *)
(*                                                                         *)
(* A shell command is a model value; what the code reads off its text is   *)
(* given by the sets below.  A plan is a sequence of items, a receipt says *)
(* what a tool call came to.  Wording, capping and redaction of the texts  *)
(* made from them are left out.                                            *)
(***************************************************************************)
EXTENDS Naturals, Sequences, FiniteSets, SequencesExt

CONSTANTS
    ShellCommands, \* shell commands
    Verifying,     \* those that are verification: tests, builds, lints
    Gating,        \* those that name a part of the release gate
    Inspecting,    \* those that only look at the workspace
    Reviewing,     \* git diff, log, show and status
    Family,        \* what a command's first words are
    Files          \* paths

ASSUME WorkflowAssumption ==
    /\ Verifying \cup Gating \cup Inspecting \cup Reviewing \subseteq ShellCommands
    /\ Verifying \cap Inspecting = {}
    /\ ShellCommands \subseteq DOMAIN Family
    /\ ShellCommands \cap Files = {}

-----------------------------------------------------------------------------
(* The plan. *)

Statuses == {"pending", "in_progress", "blocked", "done"}

Uncategorized == "uncategorized"

Kinds == {"audit", "patch", "test", "commit_review", "release_gate"}

\* CodingWorkflowKind::infer: the words of a description, tried in this order.
InferenceOrder == <<"release_gate", "commit_review", "test", "patch", "audit">>

Infer(words) ==
    IF words = {} THEN Uncategorized
    ELSE InferenceOrder[CHOOSE i \in DOMAIN InferenceOrder :
            /\ InferenceOrder[i] \in words
            /\ \A j \in 1 .. i - 1 : InferenceOrder[j] \notin words]

\* The kind an item is counted under: its own or the inferred one.
KindOf(item) ==
    IF item.kind # Uncategorized THEN item.kind ELSE Infer(item.words)

\* queue_status.
QueueStatus(items) ==
    [total |-> Len(items),
     done |-> Cardinality({i \in DOMAIN items : items[i].status = "done"}),
     blocked |-> Cardinality({i \in DOMAIN items : items[i].status = "blocked"}),
     kinds |-> {KindOf(items[i]) : i \in DOMAIN items} \ {Uncategorized}]

\* A blocked item is unfinished.
IsComplete(queue) == queue.total > 0 /\ queue.done = queue.total

-----------------------------------------------------------------------------
(* Receipts. *)

NoTarget == "no target"

Outcomes == {"succeeded", "failed", "blocked"}

\* The summary of a successful call names its command or its path; the summary
\* of a failed or blocked one is the message of the error.  `of` is history.
Receipt(tool, target, outcome) ==
    [tool |-> tool, outcome |-> outcome, of |-> target,
     target |-> IF outcome = "succeeded" /\ tool \in {"bash", "read", "write", "edit"}
                THEN target ELSE NoTarget]

Successful(receipt) == receipt.outcome = "succeeded"

BashOf(receipts, commands) ==
    {i \in DOMAIN receipts :
        Successful(receipts[i]) /\ receipts[i].tool = "bash"
            /\ receipts[i].target \in commands}

HasLocalInspection(receipts) ==
    \/ \E i \in DOMAIN receipts : Successful(receipts[i])
          /\ receipts[i].tool \in {"read", "rg", "git_diff", "git_status", "git_branch"}
    \/ BashOf(receipts, Inspecting) # {}

HasCommitReview(receipts) ==
    \/ \E i \in DOMAIN receipts : Successful(receipts[i])
          /\ receipts[i].tool \in {"git_diff", "git_status"}
    \/ BashOf(receipts, Reviewing) # {}

\* receipt_recovery_key.  A message makes a key only for the other tools, and
\* then it is that of no success, whose summary is the name of the tool.
NoKey == <<>>

RecoveryKey(receipt) ==
    CASE receipt.tool = "bash" ->
            IF receipt.target = NoTarget THEN NoKey
            ELSE <<Family[receipt.target], receipt.target \in Verifying>>
      [] receipt.tool \in {"read", "write", "edit", "external_send"} ->
            IF receipt.target = NoTarget THEN NoKey ELSE <<receipt.target>>
      [] OTHER -> <<receipt.outcome>>

\* has_later_recovery_receipt.
Recovered(receipts, i) ==
    \E j \in i + 1 .. Len(receipts) :
        /\ Successful(receipts[j]) /\ receipts[j].tool = receipts[i].tool
        /\ RecoveryKey(receipts[i]) # NoKey
        /\ RecoveryKey(receipts[j]) = RecoveryKey(receipts[i])

UnrecoveredIssues(receipts) ==
    {i \in DOMAIN receipts : ~Successful(receipts[i]) /\ ~Recovered(receipts, i)}

-----------------------------------------------------------------------------
(* Requirements. *)

\* workflow_requirements: what the plan names, or else what was done.
Requirements(queue, changed) ==
    IF queue.kinds # {} THEN queue.kinds
    ELSE IF changed # {} THEN {"patch"} ELSE {"analysis_only"}

NeedsCommand(kind) == kind \in {"patch", "test", "release_gate"}

NeedsInspection(kind) == kind \in {"audit", "commit_review"}

\* final_relevant_pass_required.
NeedsFinalPass(kind, changed) ==
    NeedsCommand(kind) /\ (kind = "patch" => changed # {})

\* verification_command_matches_requirement.
Relevant(kind) ==
    CASE kind \in {"patch", "test"} -> Verifying
      [] kind = "release_gate"      -> Gating
      [] OTHER                      -> {}

\* has_relevant_verification_evidence: a command that ran, passing or not.
HasRelevantCommand(kind, commands, receipts) ==
    \/ \E i \in DOMAIN commands : commands[i].command \in Relevant(kind)
    \/ BashOf(receipts, Relevant(kind)) # {}

EvidencePresent(kind, changed, commands, receipts) ==
    CASE kind = "analysis_only" -> TRUE
      [] kind = "patch" -> changed = {} \/ HasRelevantCommand(kind, commands, receipts)
      [] kind = "audit" -> HasLocalInspection(receipts)
      [] kind = "commit_review" -> HasCommitReview(receipts)
      [] OTHER -> HasRelevantCommand(kind, commands, receipts)

\* Mutant of FinalRelevantPassed: any relevant pass counts.
SomeRelevantPassed(kinds, commands) ==
    \E i \in DOMAIN commands :
        /\ commands[i].command \in UNION {Relevant(k) : k \in kinds}
        /\ commands[i].passed

\* latest_relevant_verification_passed: the last command that is relevant to
\* one of the requirements.
FinalRelevantPassed(kinds, commands) ==
    LET relevant == {i \in DOMAIN commands :
                        commands[i].command \in UNION {Relevant(k) : k \in kinds}}
    IN  relevant # {}
          /\ commands[CHOOSE i \in relevant : \A j \in relevant : j <= i].passed

-----------------------------------------------------------------------------
(* The verdict, the gaps and the next action. *)

\* evaluate_workflow_evidence.
Evaluate(items, changed, commands, receipts) ==
    LET queue == QueueStatus(items)
        kinds == Requirements(queue, changed)
        passed == FinalRelevantPassed(kinds, commands)
        passNeeded == \E k \in kinds : NeedsFinalPass(k, changed)
        present == \A k \in kinds : EvidencePresent(k, changed, commands, receipts)
        issues == UnrecoveredIssues(receipts)
    IN  [queue |-> queue, kinds |-> kinds, present |-> present,
         passNeeded |-> passNeeded, passed |-> passed, issues |-> issues,
         failures |-> Cardinality({i \in DOMAIN commands : ~commands[i].passed}),
         finalPassed |-> commands # <<>> /\ Last(commands).passed,
         satisfied |-> /\ IsComplete(queue) /\ present
                       /\ passNeeded => passed
                       /\ issues = {}]

\* unresolved_evidence_gaps.
Gaps(e) ==
    {g \in {"queue", "evidence", "pass", "receipts"} :
        CASE g = "queue"    -> ~IsComplete(e.queue)
          [] g = "evidence" -> ~e.present
          [] g = "pass"     -> e.passNeeded /\ ~e.passed
          [] OTHER          -> e.issues # {}}

\* next_required_evidence_action.
NextAction(e) ==
    CASE ~IsComplete(e.queue) -> "finish the queue"
      [] IsComplete(e.queue) /\ ~e.present ->
            IF "release_gate" \in e.kinds THEN "run the release gate"
            ELSE IF \E k \in e.kinds : NeedsCommand(k) THEN "run a verification"
            ELSE "inspect the repository"
      [] IsComplete(e.queue) /\ e.present /\ e.passNeeded /\ ~e.passed ->
            "verify until it passes"
      [] OTHER -> IF e.issues # {} THEN "recover failed calls" ELSE "none"

=============================================================================
