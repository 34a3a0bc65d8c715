--------------------------- MODULE EvidenceProofs ---------------------------
(***************************************************************************)
(* Proofs about WorkflowEvidence and RunEvidence, for any plans, commands, *)
(* files and calls; and about EvidenceStore, for any number of runs and of *)
(* snapshots kept, and crashes anywhere.                                   *)
(***************************************************************************)
EXTENDS RunEvidence, EvidenceStore, SequenceTheorems, FiniteSetTheorems, TLAPS

-----------------------------------------------------------------------------
(* The verdict (WorkflowEvidence).                                         *)

Tools == {"update_plan", "write", "edit", "read", "git_diff", "web_search", "bash"}

Targets == ShellCommands \cup Files \cup {NoTarget}

Receipts == [tool : Tools, outcome : Outcomes, of : Targets, target : Targets]

Verifications == [command : Verifying, passed : BOOLEAN]

\* The receipt of a command that ran names the command.
Named(receipts) ==
    \A i \in DOMAIN receipts :
        Successful(receipts[i]) /\ receipts[i].tool = "bash"
            => receipts[i].target = receipts[i].of

\* Each verification has a receipt of its command.
Witnessed(commands, receipts) ==
    \A i \in DOMAIN commands : \E j \in DOMAIN receipts :
        Successful(receipts[j]) /\ receipts[j].of = commands[i].command

\* A queue is complete when it has items and all of them are done.
LEMMA CompleteQueueIsDone ==
    ASSUME NEW items \in Seq(PlanItem), IsComplete(QueueStatus(items))
    PROVE  items # <<>> /\ \A i \in DOMAIN items : items[i].status = "done"
<1> DEFINE all == DOMAIN items
           finished == {i \in DOMAIN items : items[i].status = "done"}
<1>1. Len(items) \in Nat /\ all = 1 .. Len(items)
  BY LenProperties
<1>2. IsFiniteSet(all) /\ Cardinality(all) = Len(items)
  BY <1>1, FS_Interval
<1>3. Len(items) > 0 /\ Cardinality(finished) = Len(items)
  BY DEF IsComplete, QueueStatus
<1>4. finished = all
  <2>1. finished \in SUBSET all
    OBVIOUS
  <2> QED
    BY <1>2, <1>3, <2>1, FS_Subset
<1>5. items # <<>>
  BY <1>3
<1> QED
  BY <1>4, <1>5

\* Every verification is relevant to a patch or a test, so that the last of them
\* decides.
LEMMA LastVerificationDecides ==
    ASSUME NEW commands \in Seq(Verifications), NEW kinds,
           NEW k \in kinds, k \in {"patch", "test"},
           FinalRelevantPassed(kinds, commands)
    PROVE  /\ \E i \in DOMAIN commands : commands[i].passed
           /\ Last(commands).passed
<1> DEFINE relevant == {i \in DOMAIN commands :
                          commands[i].command \in UNION {Relevant(n) : n \in kinds}}
<1>1. relevant # {} /\ commands[CHOOSE i \in relevant : \A j \in relevant : j <= i].passed
  BY DEF FinalRelevantPassed
<1>2. Len(commands) \in Nat /\ DOMAIN commands = 1 .. Len(commands)
  BY LenProperties
<1>3. Relevant(k) = Verifying
  BY DEF Relevant
<1>4. relevant = 1 .. Len(commands)
  <2>1. \A i \in DOMAIN commands : commands[i].command \in Verifying
    <3>1. \A i \in DOMAIN commands : commands[i] \in Verifications
      BY <1>2
    <3> QED
      BY <3>1 DEF Verifications
  <2> QED
    BY <1>2, <1>3, <2>1
<1>5. Len(commands) \in relevant /\ \A j \in relevant : j <= Len(commands)
  BY <1>1, <1>2, <1>4
<1>6. (CHOOSE i \in relevant : \A j \in relevant : j <= i) = Len(commands)
  <2>1. \A i \in relevant : (\A j \in relevant : j <= i) => i = Len(commands)
    BY <1>2, <1>4, <1>5
  <2> QED
    BY <1>5, <2>1
<1>7. commands[Len(commands)].passed /\ Len(commands) \in DOMAIN commands
  BY <1>1, <1>2, <1>4, <1>5, <1>6
<1> QED
  BY <1>7 DEF Last

\* The verdict is that nothing is missing exactly when there is no gap, and
\* exactly when there is nothing to do next.
LEMMA VerdictsAgree ==
    ASSUME NEW items, NEW changed, NEW commands, NEW receipts, NEW e,
           e = Evaluate(items, changed, commands, receipts)
    PROVE  /\ e.satisfied <=> Gaps(e) = {}
           /\ e.satisfied <=> NextAction(e) = "none"
<1> DEFINE complete == IsComplete(QueueStatus(items))
           kinds == Requirements(QueueStatus(items), changed)
           passed == FinalRelevantPassed(kinds, commands)
           needed == \E k \in kinds : NeedsFinalPass(k, changed)
           present == \A k \in kinds : EvidencePresent(k, changed, commands, receipts)
           issues == UnrecoveredIssues(receipts)
<1>1. /\ e.satisfied <=> complete /\ present /\ (needed => passed) /\ issues = {}
      /\ IsComplete(e.queue) <=> complete
      /\ e.present <=> present
      /\ e.passNeeded <=> needed
      /\ e.passed <=> passed
      /\ e.issues = issues
  BY DEF Evaluate
<1> HIDE DEF complete, kinds, passed, needed, present, issues
<1>2. /\ "queue" \in Gaps(e) <=> ~complete
      /\ "evidence" \in Gaps(e) <=> ~present
      /\ "pass" \in Gaps(e) <=> needed /\ ~passed
      /\ "receipts" \in Gaps(e) <=> issues # {}
  BY <1>1 DEF Gaps
<1>3. Gaps(e) \subseteq {"queue", "evidence", "pass", "receipts"}
  BY DEF Gaps
<1>4. e.satisfied <=> Gaps(e) = {}
  BY <1>1, <1>2, <1>3
<1>5. e.satisfied <=> NextAction(e) = "none"
  <2>1. CASE ~complete
    BY <1>1, <2>1 DEF NextAction
  <2>2. CASE complete /\ ~present
    BY <1>1, <2>2 DEF NextAction
  <2>3. CASE complete /\ present /\ needed /\ ~passed
    BY <1>1, <2>3 DEF NextAction
  <2>4. CASE complete /\ present /\ ~(needed /\ ~passed)
    BY <1>1, <2>4 DEF NextAction
  <2> QED
    BY <2>1, <2>2, <2>3, <2>4
<1> QED
  BY <1>4, <1>5

\* Only a satisfied verdict is reported as one.
LEMMA ReportedIsSatisfied ==
    ASSUME NEW items \in Seq(PlanItem), NEW changed, NEW commands, NEW receipts,
           NEW e, e = Evaluate(items, changed, commands, receipts),
           WorkflowStatus(e) = "satisfied"
    PROVE  e.satisfied
<1> DEFINE waiting == {i \in DOMAIN items : items[i].status = "blocked"}
<1>1. e.queue.blocked = Cardinality(waiting)
  BY DEF Evaluate, QueueStatus
<1>2. IsFiniteSet(DOMAIN items)
  BY LenProperties, FS_Interval
<1>3. IsFiniteSet(waiting)
  BY <1>2, FS_Subset
<1>4. e.queue.blocked \in Nat
  BY <1>1, <1>3, FS_CardinalityType
<1> QED
  BY <1>4 DEF WorkflowStatus

\* What a satisfied verdict rests on.
Earned(items, changed, commands, receipts) ==
    LET has(k) == \E i \in DOMAIN items : KindOf(items[i]) = k
    IN  /\ items # <<>>
        /\ \A i \in DOMAIN items : items[i].status = "done"
        /\ has("test") \/ (has("patch") /\ changed # {})
              => /\ \E i \in DOMAIN commands : commands[i].passed
                 /\ Last(commands).passed
        /\ has("release_gate") => \E i \in DOMAIN receipts :
              receipts[i].outcome = "succeeded" /\ receipts[i].of \in Gating
        /\ has("audit") => \E i \in DOMAIN receipts :
              /\ receipts[i].outcome = "succeeded"
              /\ \/ receipts[i].tool \in {"read", "git_diff"}
                 \/ receipts[i].of \in Inspecting
        /\ has("commit_review") => \E i \in DOMAIN receipts :
              /\ receipts[i].outcome = "succeeded"
              /\ receipts[i].tool = "git_diff" \/ receipts[i].of \in Reviewing

LEMMA SatisfiedVerdictIsEarned ==
    ASSUME NEW items \in Seq(PlanItem), NEW changed,
           NEW commands \in Seq(Verifications), NEW receipts \in Seq(Receipts),
           Named(receipts), Witnessed(commands, receipts),
           Evaluate(items, changed, commands, receipts).satisfied
    PROVE  Earned(items, changed, commands, receipts)
<1> DEFINE has(k) == \E i \in DOMAIN items : KindOf(items[i]) = k
           kinds == Requirements(QueueStatus(items), changed)
<1>1. /\ IsComplete(QueueStatus(items))
      /\ (\E k \in kinds : NeedsFinalPass(k, changed))
            => FinalRelevantPassed(kinds, commands)
      /\ \A k \in kinds : EvidencePresent(k, changed, commands, receipts)
  BY DEF Evaluate
<1>2. items # <<>> /\ \A i \in DOMAIN items : items[i].status = "done"
  BY <1>1, CompleteQueueIsDone
<1>3. \A k \in Kinds : has(k) => k \in kinds
  <2>1. QueueStatus(items).kinds =
           {KindOf(items[i]) : i \in DOMAIN items} \ {Uncategorized}
    BY DEF QueueStatus
  <2>2. Uncategorized \notin Kinds
    BY DEF Kinds, Uncategorized
  <2> QED
    BY <2>1, <2>2 DEF Requirements
<1>4. \A i \in DOMAIN receipts : receipts[i].tool \in Tools
  <2>1. \A i \in DOMAIN receipts : receipts[i] \in Receipts
    OBVIOUS
  <2> QED
    BY <2>1 DEF Receipts
<1>5. ASSUME NEW some, BashOf(receipts, some) # {}
      PROVE  \E i \in DOMAIN receipts :
                receipts[i].outcome = "succeeded" /\ receipts[i].of \in some
  BY <1>5 DEF BashOf, Named, Successful
<1>6. ASSUME has("test") \/ (has("patch") /\ changed # {})
      PROVE  /\ \E i \in DOMAIN commands : commands[i].passed
             /\ Last(commands).passed
  <2>1. PICK k \in kinds : k \in {"patch", "test"} /\ NeedsFinalPass(k, changed)
    BY <1>3, <1>6 DEF Kinds, NeedsFinalPass, NeedsCommand
  <2>2. FinalRelevantPassed(kinds, commands)
    BY <1>1, <2>1
  <2> QED
    BY <2>1, <2>2, LastVerificationDecides
<1>7. ASSUME has("release_gate")
      PROVE  \E i \in DOMAIN receipts :
                receipts[i].outcome = "succeeded" /\ receipts[i].of \in Gating
  <2>1. HasRelevantCommand("release_gate", commands, receipts)
    BY <1>1, <1>3, <1>7 DEF Kinds, EvidencePresent
  <2>2. Relevant("release_gate") = Gating
    BY DEF Relevant
  <2>3. CASE \E i \in DOMAIN commands : commands[i].command \in Gating
    BY <2>3 DEF Witnessed, Successful
  <2>4. CASE BashOf(receipts, Gating) # {}
    BY <1>5, <2>4
  <2> QED
    BY <2>1, <2>2, <2>3, <2>4 DEF HasRelevantCommand
<1>8. ASSUME has("audit")
      PROVE  \E i \in DOMAIN receipts :
                /\ receipts[i].outcome = "succeeded"
                /\ \/ receipts[i].tool \in {"read", "git_diff"}
                   \/ receipts[i].of \in Inspecting
  <2>1. HasLocalInspection(receipts)
    BY <1>1, <1>3, <1>8 DEF Kinds, EvidencePresent
  <2> QED
    BY <1>4, <1>5, <2>1 DEF HasLocalInspection, Successful, Tools
<1>9. ASSUME has("commit_review")
      PROVE  \E i \in DOMAIN receipts :
                /\ receipts[i].outcome = "succeeded"
                /\ receipts[i].tool = "git_diff" \/ receipts[i].of \in Reviewing
  <2>1. HasCommitReview(receipts)
    BY <1>1, <1>3, <1>9 DEF Kinds, EvidencePresent
  <2> QED
    BY <1>4, <1>5, <2>1 DEF HasCommitReview, Successful, Tools
<1> QED
  BY <1>2, <1>6, <1>7, <1>8, <1>9 DEF Earned

-----------------------------------------------------------------------------
(* The inductive invariant (RunEvidence).                                  *)

Endings == {"completed", "stopped", "max_steps", "failed"}

RunTypeOK ==
    /\ dirty \subseteq Files
    /\ DOMAIN work = {"mode", "before", "items", "changed", "commands", "receipts",
                      "result"}
    /\ work.mode \in {"execute", "inspect"} /\ work.before \subseteq Files
    /\ work.items \in Seq(PlanItem) /\ work.changed \subseteq Files
    /\ work.commands \in Seq(Verifications) /\ work.receipts \in Seq(Receipts)
    /\ calls \in Nat /\ outside \in Nat

\* The record of the run says what ran.
RecordIsTrue == Named(work.receipts) /\ Witnessed(work.commands, work.receipts)

\* The task result is made of the record of the run; its verifications may be
\* others than the record's, and have their receipts too.
ResultIsTheRuns ==
    Ended => \E outcome \in Endings, commands \in Seq(Verifications) :
        /\ work.result = Result(outcome,
              Evaluate(work.items, work.changed, commands, work.receipts),
              work.changed, commands, work.receipts)
        /\ Witnessed(commands, work.receipts)

\* The snapshot is that of the run's end.
SnapshotIsTheRuns ==
    kept # NotKept =>
        /\ Ended
        /\ kept.status = StatusOf(work.result)
        /\ kept.gaps = CheckpointGaps

RunInv == RunTypeOK /\ RecordIsTrue /\ ResultIsTheRuns /\ SnapshotIsTheRuns

\* A longer record of the same verifications is true as well.
LEMMA RecordGrows ==
    ASSUME NEW commands \in Seq(Verifications), NEW receipts \in Seq(Receipts),
           NEW receipt \in Receipts, Named(receipts), Witnessed(commands, receipts),
           Successful(receipt) /\ receipt.tool = "bash" => receipt.target = receipt.of
    PROVE  /\ Append(receipts, receipt) \in Seq(Receipts)
           /\ Named(Append(receipts, receipt))
           /\ Witnessed(commands, Append(receipts, receipt))
           /\ \A c \in Verifying, p \in BOOLEAN :
                 Successful(receipt) /\ receipt.of = c =>
                    /\ Append(commands, [command |-> c, passed |-> p]) \in Seq(Verifications)
                    /\ Witnessed(Append(commands, [command |-> c, passed |-> p]),
                                 Append(receipts, receipt))
<1> DEFINE longer == Append(receipts, receipt)
<1>1. /\ longer \in Seq(Receipts) /\ DOMAIN longer = 1 .. Len(receipts) + 1
      /\ Len(receipts) \in Nat /\ DOMAIN receipts = 1 .. Len(receipts)
      /\ longer[Len(receipts) + 1] = receipt
      /\ \A i \in DOMAIN receipts : longer[i] = receipts[i] /\ i \in DOMAIN longer
  BY AppendProperties, LenProperties
<1> HIDE DEF longer
<1>2. \A i \in DOMAIN longer : i = Len(receipts) + 1 \/ i \in DOMAIN receipts
  BY <1>1
<1>3. Named(longer)
  BY <1>1, <1>2 DEF Named
<1>4. Witnessed(commands, longer)
  BY <1>1 DEF Witnessed
<1>5. ASSUME NEW c \in Verifying, NEW p \in BOOLEAN, Successful(receipt), receipt.of = c
      PROVE  /\ Append(commands, [command |-> c, passed |-> p]) \in Seq(Verifications)
             /\ Witnessed(Append(commands, [command |-> c, passed |-> p]), longer)
  <2>1. PICK one : one = [command |-> c, passed |-> p]
    OBVIOUS
  <2>2. one \in Verifications /\ one.command = c
    BY <2>1 DEF Verifications
  <2>3. PICK all : all = Append(commands, one)
    OBVIOUS
  <2>4. /\ all \in Seq(Verifications) /\ DOMAIN all = 1 .. Len(commands) + 1
        /\ Len(commands) \in Nat /\ DOMAIN commands = 1 .. Len(commands)
        /\ all[Len(commands) + 1] = one
        /\ \A i \in DOMAIN commands : all[i] = commands[i]
    BY <2>2, <2>3, AppendProperties, LenProperties
  <2>5. ASSUME NEW i \in DOMAIN all
        PROVE  \E j \in DOMAIN longer : Successful(longer[j]) /\ longer[j].of = all[i].command
    <3>1. CASE i = Len(commands) + 1
      <4>1. Len(receipts) + 1 \in DOMAIN longer
        BY <1>1
      <4> QED
        BY <1>1, <1>5, <2>2, <2>4, <3>1, <4>1
    <3>2. CASE i \in DOMAIN commands
      BY <1>4, <2>4, <3>2 DEF Witnessed
    <3> QED
      BY <2>4, <3>1, <3>2
  <2> QED
    BY <2>1, <2>3, <2>4, <2>5 DEF Witnessed
<1> QED
  BY <1>1, <1>3, <1>4, <1>5 DEF longer

\* What a receipt says of a call.
LEMMA ReceiptIs ==
    ASSUME NEW tool \in Tools, NEW target \in Targets, NEW outcome \in Outcomes
    PROVE  LET receipt == Receipt(tool, target, outcome)
           IN  /\ receipt \in Receipts
               /\ receipt.of = target /\ receipt.tool = tool
               /\ receipt.outcome = outcome
               /\ Successful(receipt) <=> outcome = "succeeded"
               /\ Successful(receipt) /\ receipt.tool = "bash"
                     => receipt.target = receipt.of
<1>1. PICK named \in Targets :
         named = (IF outcome = "succeeded" /\ tool \in {"bash", "read", "write", "edit"}
                  THEN target ELSE NoTarget)
  BY DEF Targets
<1>2. Receipt(tool, target, outcome) =
         [tool |-> tool, outcome |-> outcome, of |-> target, target |-> named]
  BY <1>1 DEF Receipt
<1> QED
  BY <1>1, <1>2 DEF Receipts, Successful

\* A call keeps the invariant when its receipt is true and what it adds to the
\* verifications is the command of the receipt.
LEMMA CallKeepsRun ==
    ASSUME RunInv, NEW tool \in Tools, NEW target \in Targets, NEW outcome \in Outcomes,
           NEW items \in Seq(PlanItem), NEW commands, NEW changed \in SUBSET Files,
           NEW now \in SUBSET Files,
           \/ commands = work.commands
           \/ /\ outcome = "succeeded" /\ target \in Verifying
              /\ \E p \in BOOLEAN :
                    commands = Append(work.commands, [command |-> target, passed |-> p]),
           Call(Receipt(tool, target, outcome), items, commands, changed, now)
    PROVE  RunInv'
<1>1. PICK receipt : receipt = Receipt(tool, target, outcome)
  OBVIOUS
<1>2. PICK longer : longer = Append(work.receipts, receipt)
  OBVIOUS
<1>3. /\ work.result = NoResult /\ UNCHANGED <<kept, outside>>
      /\ work' = [work EXCEPT !.receipts = longer, !.items = items,
                              !.commands = commands, !.changed = changed]
      /\ dirty' = now /\ calls' = calls + 1
  BY <1>1, <1>2 DEF Call, Working
<1>4. /\ DOMAIN work' = DOMAIN work
      /\ work'.mode = work.mode /\ work'.before = work.before
      /\ work'.result = NoResult /\ work'.receipts = longer /\ work'.items = items
      /\ work'.commands = commands /\ work'.changed = changed
  BY <1>3 DEF RunInv, RunTypeOK
<1>5. /\ receipt \in Receipts /\ receipt.of = target
      /\ Successful(receipt) <=> outcome = "succeeded"
      /\ Successful(receipt) /\ receipt.tool = "bash" => receipt.target = receipt.of
  BY <1>1, ReceiptIs
<1>6. /\ longer \in Seq(Receipts) /\ Named(longer)
      /\ commands \in Seq(Verifications) /\ Witnessed(commands, longer)
  <2>1. /\ work.commands \in Seq(Verifications) /\ work.receipts \in Seq(Receipts)
        /\ Named(work.receipts) /\ Witnessed(work.commands, work.receipts)
    BY DEF RunInv, RunTypeOK, RecordIsTrue
  <2>2. /\ longer \in Seq(Receipts) /\ Named(longer)
        /\ Witnessed(work.commands, longer)
    BY <1>2, <1>5, <2>1, RecordGrows
  <2>3. CASE commands = work.commands
    BY <2>1, <2>2, <2>3
  <2>4. CASE \E p \in BOOLEAN :
                commands = Append(work.commands, [command |-> target, passed |-> p])
             /\ outcome = "succeeded" /\ target \in Verifying
    <3>1. Successful(receipt) /\ receipt.of = target
      BY <1>5, <2>4
    <3> QED
      BY <1>2, <1>5, <2>1, <2>2, <2>4, <3>1, RecordGrows
  <2> QED
    BY <2>3, <2>4
<1>7. RunTypeOK'
  BY <1>3, <1>4, <1>6 DEF RunInv, RunTypeOK
<1>8. RecordIsTrue'
  BY <1>4, <1>6 DEF RecordIsTrue, Named, Witnessed
<1>9. kept = NotKept
  BY <1>3 DEF RunInv, SnapshotIsTheRuns, Ended, Working
<1>10. ResultIsTheRuns' /\ SnapshotIsTheRuns'
  BY <1>3, <1>4, <1>9 DEF ResultIsTheRuns, SnapshotIsTheRuns, Ended, Working
<1> QED
  BY <1>7, <1>8, <1>10 DEF RunInv

LEMMA UpdatePlanKeepsRun ==
    ASSUME RunInv, NEW items \in Plans, UpdatePlan(items) PROVE RunInv'
<1>1. items \in Seq(PlanItem)
  BY EvidenceAssumption
<1>2. work.changed \in SUBSET Files /\ dirty \in SUBSET Files
  BY DEF RunInv, RunTypeOK
<1> QED
  BY <1>1, <1>2, CallKeepsRun DEF UpdatePlan, Targets, Tools, Outcomes

LEMMA EditKeepsRun ==
    ASSUME RunInv, NEW tool \in {"write", "edit"}, NEW f \in Files, Edit(tool, f)
    PROVE  RunInv'
<1>1. /\ Reconciled(work.changed \cup {f}, dirty \cup {f}) \in SUBSET Files
      /\ work.items \in Seq(PlanItem) /\ dirty \cup {f} \in SUBSET Files
  BY DEF RunInv, RunTypeOK, Reconciled
<1> QED
  BY <1>1, CallKeepsRun DEF Edit, Targets, Tools, Outcomes

\* A call that changes nothing but the receipts.
LEMMA OtherCallsKeepRun ==
    ASSUME RunInv, NEW tool \in Tools, NEW target \in Targets,
           \/ Inspect(tool, target)
           \/ \E outcome \in {"failed", "blocked"} : NoEffect(tool, target, outcome)
    PROVE  RunInv'
<1>1. /\ work.changed \in SUBSET Files /\ dirty \in SUBSET Files
      /\ work.items \in Seq(PlanItem)
  BY DEF RunInv, RunTypeOK
<1> QED
  BY <1>1, CallKeepsRun DEF Inspect, NoEffect, Outcomes

LEMMA BashKeepsRun ==
    ASSUME RunInv, NEW c \in ShellCommands, NEW passed \in BOOLEAN, Bash(c, passed)
    PROVE  RunInv'
<1>1. PICK now : now = dirty \cup Removes[c]
  OBVIOUS
<1>2. PICK commands :
         commands = IF c \in Verifying
                    THEN Append(work.commands, [command |-> c, passed |-> passed])
                    ELSE work.commands
  OBVIOUS
<1>3. PICK changed :
         changed = IF c \in Harmless THEN work.changed
                   ELSE Reconciled(work.changed \cup Removes[c], now)
  OBVIOUS
<1>4. Call(Receipt("bash", c, "succeeded"), work.items, commands, changed, now)
  BY <1>1, <1>2, <1>3 DEF Bash
<1>5. now \in SUBSET Files /\ changed \in SUBSET Files
  <2>1. Removes[c] \subseteq Files
    BY EvidenceAssumption
  <2> QED
    BY <1>1, <1>3, <2>1 DEF RunInv, RunTypeOK, Reconciled
<1>6. \/ commands = work.commands
      \/ /\ c \in Verifying
         /\ \E p \in BOOLEAN :
               commands = Append(work.commands, [command |-> c, passed |-> p])
  BY <1>2
<1>7. c \in Targets /\ "bash" \in Tools /\ "succeeded" \in Outcomes
  BY DEF Targets, Tools, Outcomes
<1>8. work.items \in Seq(PlanItem)
  BY DEF RunInv, RunTypeOK
<1> QED
  BY <1>4, <1>5, <1>6, <1>7, <1>8, CallKeepsRun

\* The end of a run: what the result says is the record of the run, with the
\* verifications and receipts that the follow-through may have added.
LEMMA EndKeepsRun ==
    ASSUME RunInv, Working, NEW outcome \in Endings,
           NEW commands \in Seq(Verifications), NEW receipts \in Seq(Receipts),
           Named(receipts), Witnessed(commands, receipts),
           Witnessed(work.commands, receipts),
           EndWith(outcome, work.changed, commands, receipts)
    PROVE  RunInv'
<1>1. PICK result : result = Result(outcome,
                       Evaluate(work.items, work.changed, commands, receipts),
                       work.changed, commands, receipts)
  OBVIOUS
<1>2. work' = [work EXCEPT !.result = result, !.changed = work.changed,
                           !.receipts = receipts]
      /\ UNCHANGED <<dirty, kept, calls, outside>>
  BY <1>1 DEF EndWith
<1>3. /\ DOMAIN work' = DOMAIN work
      /\ work'.mode = work.mode /\ work'.before = work.before
      /\ work'.items = work.items /\ work'.commands = work.commands
      /\ work'.changed = work.changed /\ work'.receipts = receipts
      /\ work'.result = result
  BY <1>2 DEF RunInv, RunTypeOK
<1>4. RunTypeOK'
  BY <1>2, <1>3 DEF RunInv, RunTypeOK
<1>5. RecordIsTrue'
  BY <1>3 DEF RecordIsTrue, Named, Witnessed
<1>6. ResultIsTheRuns'
  <2>1. result = Result(outcome,
                    Evaluate(work.items, work.changed, commands, receipts),
                    work.changed, commands, receipts)'
    BY <1>1, <1>3 DEF Result, HasWorkflow
  <2> QED
    BY <1>3, <2>1 DEF ResultIsTheRuns, Witnessed
<1>7. kept' = NotKept
  BY <1>2 DEF RunInv, SnapshotIsTheRuns, Ended
<1>8. SnapshotIsTheRuns'
  BY <1>7 DEF SnapshotIsTheRuns
<1> QED
  BY <1>4, <1>5, <1>6, <1>8 DEF RunInv

LEMMA FinishKeepsRun == ASSUME RunInv, Finish PROVE RunInv'
<1>1. PICK c \in Suggestions, outcome \in {"passes", "fails", "failed", "blocked"} :
         EndWith("completed", work.changed, FollowThrough(c, outcome).commands,
                 FollowThrough(c, outcome).receipts)
  BY DEF Finish
<1>2. /\ work.commands \in Seq(Verifications) /\ work.receipts \in Seq(Receipts)
      /\ Named(work.receipts) /\ Witnessed(work.commands, work.receipts)
  BY DEF RunInv, RunTypeOK, RecordIsTrue
<1>3. PICK commands, receipts :
         commands = FollowThrough(c, outcome).commands /\
         receipts = FollowThrough(c, outcome).receipts
  OBVIOUS
<1>4. /\ commands \in Seq(Verifications) /\ receipts \in Seq(Receipts)
      /\ Named(receipts) /\ Witnessed(commands, receipts)
      /\ Witnessed(work.commands, receipts)
  <2>1. CASE work.changed = {} \/ work.commands # <<>> \/ c = NoCommand
    BY <1>2, <1>3, <2>1 DEF FollowThrough
  <2>2. CASE ~(work.changed = {} \/ work.commands # <<>> \/ c = NoCommand)
    <3>1. c \in Verifying /\ c \in Targets /\ "bash" \in Tools
      BY <2>2, EvidenceAssumption, WorkflowAssumption DEF Targets, Tools
    <3>2. work.commands = <<>>
      BY <2>2
    <3>3. CASE outcome \in {"passes", "fails"}
      <4>1. PICK receipt : receipt = Receipt("bash", c, "succeeded")
        OBVIOUS
      <4>2. /\ receipt \in Receipts /\ Successful(receipt) /\ receipt.of = c
            /\ receipt.target = receipt.of
        BY <3>1, <4>1, ReceiptIs DEF Outcomes
      <4>3. receipts = Append(work.receipts, receipt)
        BY <1>3, <2>2, <3>3, <4>1 DEF FollowThrough
      <4>4. PICK p \in BOOLEAN : p = (outcome = "passes")
        OBVIOUS
      <4>5. commands = Append(work.commands, [command |-> c, passed |-> p])
        BY <1>3, <2>2, <3>2, <3>3, <4>4 DEF FollowThrough
      <4> QED
        BY <1>2, <3>1, <4>2, <4>3, <4>5, RecordGrows
    <3>4. CASE outcome \in {"failed", "blocked"}
      <4>1. PICK receipt : receipt = Receipt("bash", c, outcome)
        OBVIOUS
      <4>2. receipt \in Receipts /\ ~Successful(receipt)
        BY <3>1, <3>4, <4>1, ReceiptIs DEF Outcomes
      <4>3. receipts = Append(work.receipts, receipt) /\ commands = <<>>
        BY <1>3, <2>2, <3>4, <4>1 DEF FollowThrough
      <4> QED
        BY <1>2, <3>2, <4>2, <4>3, RecordGrows
    <3> QED
      BY <3>3, <3>4
  <2> QED
    BY <2>1, <2>2
<1>5. Working /\ "completed" \in Endings
  BY DEF Finish, Endings
<1> QED
  BY <1>1, <1>3, <1>4, <1>5, EndKeepsRun

LEMMA InterruptKeepsRun == ASSUME RunInv, Interrupt PROVE RunInv'
<1>1. PICK outcome \in Endings :
         EndWith(outcome, work.changed, work.commands, work.receipts)
  BY DEF Interrupt, Endings
<1>2. /\ work.commands \in Seq(Verifications) /\ work.receipts \in Seq(Receipts)
      /\ Named(work.receipts) /\ Witnessed(work.commands, work.receipts)
  BY DEF RunInv, RunTypeOK, RecordIsTrue
<1> QED
  BY <1>1, <1>2, EndKeepsRun DEF Interrupt

LEMMA CaptureKeepsRun == ASSUME RunInv, Capture PROVE RunInv'
<1>1. UNCHANGED <<dirty, work, calls, outside>>
  BY DEF Capture
<1>2. RunTypeOK' /\ RecordIsTrue'
  BY <1>1 DEF RunInv, RunTypeOK, RecordIsTrue, Named, Witnessed
<1>3. ResultIsTheRuns'
  BY <1>1 DEF RunInv, ResultIsTheRuns, Ended, Working, Result, HasWorkflow, Witnessed
<1>4. SnapshotIsTheRuns'
  <2>1. Ended' /\ kept'.status = StatusOf(work.result) /\ kept'.gaps = CheckpointGaps
    BY <1>1 DEF Capture, Ended, Working
  <2>2. CheckpointGaps' = CheckpointGaps
    BY <1>1 DEF CheckpointGaps, CheckpointVerdict
  <2> QED
    BY <1>1, <2>1, <2>2 DEF SnapshotIsTheRuns
<1> QED
  BY <1>2, <1>3, <1>4 DEF RunInv

LEMMA OutsideKeepsRun ==
    ASSUME RunInv, NEW now \in SUBSET Files, Outside(now) PROVE RunInv'
<1>1. UNCHANGED <<work, kept, calls>> /\ dirty' = now /\ outside' = outside + 1
  BY DEF Outside
<1>2. RunTypeOK' /\ RecordIsTrue'
  BY <1>1 DEF RunInv, RunTypeOK, RecordIsTrue, Named, Witnessed
<1>3. ResultIsTheRuns'
  BY <1>1 DEF RunInv, ResultIsTheRuns, Ended, Working, Result, HasWorkflow, Witnessed
<1>4. SnapshotIsTheRuns'
  BY <1>1 DEF RunInv, SnapshotIsTheRuns, Ended, Working, CheckpointGaps, CheckpointVerdict
<1> QED
  BY <1>2, <1>3, <1>4 DEF RunInv

LEMMA RunBegins == ASSUME Init PROVE RunInv
<1>1. PICK mode \in {"execute", "inspect"} :
         work = [mode |-> mode, before |-> dirty, items |-> <<>>, changed |-> {},
                 commands |-> <<>>, receipts |-> <<>>, result |-> NoResult]
  BY DEF Init
<1>2. /\ work.items = <<>> /\ work.commands = <<>> /\ work.receipts = <<>>
      /\ work.result = NoResult /\ kept = NotKept
  BY <1>1 DEF Init
<1>3. RunTypeOK
  BY <1>1 DEF Init, RunTypeOK
<1>4. RecordIsTrue
  BY <1>2 DEF RecordIsTrue, Named, Witnessed
<1> QED
  BY <1>2, <1>3, <1>4 DEF RunInv, ResultIsTheRuns, SnapshotIsTheRuns, Ended, Working

\* Every step of a run keeps the invariant.
LEMMA RunGoesOn == ASSUME RunInv, [Next]_vars PROVE RunInv'
<1>1. CASE \E items \in Plans : UpdatePlan(items)
  BY <1>1, UpdatePlanKeepsRun
<1>2. CASE \E f \in Files :
              \/ \E tool \in {"write", "edit"} :
                    \/ Edit(tool, f)
                    \/ \E outcome \in {"failed", "blocked"} : NoEffect(tool, f, outcome)
              \/ Inspect("read", f)
              \/ Outside(dirty \cup {f})
  <2>1. PICK f \in Files :
              \/ \E tool \in {"write", "edit"} :
                    \/ Edit(tool, f)
                    \/ \E outcome \in {"failed", "blocked"} : NoEffect(tool, f, outcome)
              \/ Inspect("read", f)
              \/ Outside(dirty \cup {f})
    BY <1>2
  <2>2. f \in Targets /\ {"write", "edit", "read"} \subseteq Tools
    BY DEF Targets, Tools
  <2>3. dirty \cup {f} \in SUBSET Files
    BY DEF RunInv, RunTypeOK
  <2> QED
    BY <2>1, <2>2, <2>3, EditKeepsRun, OtherCallsKeepRun, OutsideKeepsRun
<1>3. CASE Inspect("git_diff", NoTarget) \/ Inspect("web_search", NoTarget)
  <2>1. NoTarget \in Targets /\ {"git_diff", "web_search"} \subseteq Tools
    BY DEF Targets, Tools
  <2> QED
    BY <1>3, <2>1, OtherCallsKeepRun
<1>4. CASE \E c \in ShellCommands :
              \/ \E passed \in BOOLEAN : Bash(c, passed)
              \/ \E outcome \in {"failed", "blocked"} : NoEffect("bash", c, outcome)
  <2>1. ShellCommands \subseteq Targets /\ "bash" \in Tools
    BY DEF Targets, Tools
  <2> QED
    BY <1>4, <2>1, BashKeepsRun, OtherCallsKeepRun
<1>5. CASE Finish \/ Interrupt \/ Capture \/ Outside({})
  BY <1>5, FinishKeepsRun, InterruptKeepsRun, CaptureKeepsRun, OutsideKeepsRun
<1>6. CASE UNCHANGED vars
  BY <1>6 DEF vars, RunInv, RunTypeOK, RecordIsTrue, Named, Witnessed, ResultIsTheRuns,
              SnapshotIsTheRuns, Ended, Working, Result, HasWorkflow, CheckpointGaps,
              CheckpointVerdict
<1> QED
  BY <1>1, <1>2, <1>3, <1>4, <1>5, <1>6 DEF Next

\* Whatever the calls, plans and commands, and however the run ends, its record is
\* true and its result and its snapshot are made of it.
THEOREM RunInvariance == Spec => []RunInv
<1>1. Init => RunInv
  BY RunBegins
<1>2. RunInv /\ [Next]_vars => RunInv'
  BY RunGoesOn
<1> QED
  BY <1>1, <1>2, PTL DEF Spec

\* A run whose workflow is reported as satisfied (workflow_verification) has done
\* the whole plan, has verified what it changed as the last thing it verified, and
\* has looked where a gate, an audit or a review has to look.
THEOREM SatisfiedIsAlwaysEarned == Spec => []SatisfiedIsEarned
<1>1. RunInv => SatisfiedIsEarned
  <2> SUFFICES ASSUME RunInv, Ended, StatusOf(work.result) = "satisfied"
               PROVE  SatisfiedIsEarned
    BY DEF SatisfiedIsEarned
  <2>1. PICK outcome \in Endings, commands \in Seq(Verifications) :
           /\ work.result = Result(outcome,
                 Evaluate(work.items, work.changed, commands, work.receipts),
                 work.changed, commands, work.receipts)
           /\ Witnessed(commands, work.receipts)
    BY DEF RunInv, ResultIsTheRuns
  <2>2. /\ work.result.workflow <=> HasWorkflow
        /\ work.result.commands = commands /\ work.result.receipts = work.receipts
        /\ work.result.verdict =
              Evaluate(work.items, work.changed, commands, work.receipts)
    BY <2>1 DEF Result
  <2>3. work.result.workflow /\ WorkflowStatus(work.result.verdict) = "satisfied"
    BY DEF StatusOf
  <2>4. work.result.verdict.satisfied
    BY <2>2, <2>3, ReportedIsSatisfied DEF RunInv, RunTypeOK
  <2>5. Earned(work.items, work.changed, commands, work.receipts)
    BY <2>1, <2>2, <2>4, SatisfiedVerdictIsEarned DEF RunInv, RunTypeOK, RecordIsTrue
  <2> QED
    BY <2>2, <2>5 DEF SatisfiedIsEarned, Earned
<1> QED
  BY <1>1, RunInvariance, PTL

\* The verdict, the gaps and the next action (workflow_verification/summary.rs)
\* agree, and so do the checkpoint and the task result of a run (build_checkpoint,
\* attach_workflow_verification) where they are made of the same verifications.
THEOREM CheckpointAlwaysAgrees == Spec => []CheckpointAgrees
<1>1. RunInv => CheckpointAgrees
  <2> SUFFICES ASSUME RunInv PROVE CheckpointAgrees
    OBVIOUS
  <2>1. /\ CheckpointVerdict.satisfied <=> Gaps(CheckpointVerdict) = {}
        /\ CheckpointVerdict.satisfied <=> NextAction(CheckpointVerdict) = "none"
    BY VerdictsAgree DEF CheckpointVerdict
  <2>2. ASSUME kept.status = "satisfied", work.commands = work.result.commands
        PROVE  kept.gaps = {}
    <3>1. /\ Ended /\ StatusOf(work.result) = "satisfied"
          /\ kept.gaps = CheckpointGaps
      BY <2>2 DEF RunInv, SnapshotIsTheRuns, NotKept
    <3>2. PICK outcome \in Endings, commands \in Seq(Verifications) :
             work.result = Result(outcome,
                Evaluate(work.items, work.changed, commands, work.receipts),
                work.changed, commands, work.receipts)
      BY <3>1 DEF RunInv, ResultIsTheRuns
    <3>3. work.result.verdict = CheckpointVerdict
      BY <2>2, <3>2 DEF Result, CheckpointVerdict
    <3>4. work.result.workflow /\ WorkflowStatus(work.result.verdict) = "satisfied"
      BY <3>1 DEF StatusOf
    <3>5. CheckpointVerdict.satisfied
      BY <3>3, <3>4, ReportedIsSatisfied DEF RunInv, RunTypeOK, CheckpointVerdict
    <3> QED
      BY <2>1, <3>1, <3>5 DEF CheckpointGaps
  <2> QED
    BY <2>1, <2>2 DEF CheckpointAgrees
<1> QED
  BY <1>1, RunInvariance, PTL

-----------------------------------------------------------------------------
(* The inductive invariant of the store (EvidenceStore).                   *)

Snapshots ==
    [run : Runs, resumable : BOOLEAN, confirm : BOOLEAN, head : Nat,
     dirty : SUBSET Paths, changed : SUBSET Paths, labelled : SUBSET Paths]

AtWork == [step : {"works"}, before : SUBSET Paths, own : SUBSET Paths]

Saves == [step : {"latest", "history", "prune"}, snapshot : Snapshots]

StoreTypeOK ==
    /\ ws \in [head : Nat, dirty : SUBSET Paths, gone : SUBSET Paths]
    /\ working \in [Runs -> {NotWorking} \cup AtWork]
    /\ saving \in [Runs -> {NotSaving} \cup Saves]
    /\ latest \in {NoSnapshot} \cup Snapshots
    /\ history \in Seq(Runs)
    /\ begun \subseteq Runs /\ moved \subseteq Runs /\ torn \subseteq Runs
    /\ moves \in Nat

\* Few runs save at a time, each its own snapshot.
Savers == {r \in Runs : IsSaving(r)}

FewSave ==
    /\ IsFiniteSet(Savers) /\ Cardinality(Savers) <= MaxSaving
    /\ \A r \in Savers : saving[r].snapshot.run = r

\* The runs but r that are about to write to the history.
Following(r) == {q \in Runs \ {r} : saving[q].step = "history"}

\* The run of the latest snapshot is so near the end of the history that those
\* which may still write there do not push it out, or it is about to write there,
\* or it died before it could.
LatestIsNear ==
    latest # NoSnapshot =>
        \/ latest.run \in torn
        \/ saving[latest.run].step = "history"
        \/ \E k \in DOMAIN history :
              /\ history[k] = latest.run
              /\ Len(history) - k + Cardinality(Following(latest.run)) < MaxSaving

\* A run works, saves and is saved once, in this order.
RunsGoOnce ==
    \A r \in Runs :
        /\ r \notin begun => ~IsWorking(r) /\ ~IsSaving(r)
        /\ IsWorking(r) \/ r \notin begun => r \notin moved /\ latest.run # r
        /\ IsWorking(r) => ~IsSaving(r)

\* HEAD only moves on, and has, past the snapshots that a commit has overtaken.
HeadsArePast ==
    /\ latest # NoSnapshot =>
          latest.head <= ws.head /\ (latest.run \in moved => latest.head < ws.head)
    /\ \A r \in Savers :
          /\ saving[r].snapshot.head <= ws.head
          /\ r \in moved => saving[r].snapshot.head < ws.head

StoreInv ==
    /\ StoreTypeOK /\ FewSave /\ LatestIsNear /\ RunsGoOnce /\ HeadsArePast

-----------------------------------------------------------------------------
(* The steps of the store.                                                 *)

\* What is saved, by its step.
LEMMA SavingSteps ==
    ASSUME StoreTypeOK, NEW r \in Runs
    PROVE  /\ IsSaving(r) <=> saving[r].step # "none"
           /\ IsSaving(r) => saving[r] \in Saves
           /\ IsWorking(r) => working[r] \in AtWork
           /\ saving[r].step \in {"none", "latest", "history", "prune"}
BY DEF StoreTypeOK, IsSaving, IsWorking, NotSaving, NotWorking, Saves, AtWork

\* Only a run that saves is about to write to the history.
LEMMA FollowingSave ==
    ASSUME StoreTypeOK, NEW r \in Runs
    PROVE  Following(r) \subseteq Savers \ {r}
BY SavingSteps DEF Following, Savers

\* Those that follow are no more than the runs that save besides.
LEMMA FewFollow ==
    ASSUME StoreTypeOK, FewSave, NEW r \in Savers
    PROVE  /\ IsFiniteSet(Savers \ {r})
           /\ Cardinality(Savers \ {r}) \in Nat
           /\ Cardinality(Savers \ {r}) < MaxSaving
<1>1. /\ IsFiniteSet(Savers \ {r})
      /\ Cardinality(Savers \ {r}) = Cardinality(Savers) - 1
  BY FS_RemoveElement DEF FewSave
<1>2. Cardinality(Savers) \in Nat /\ Cardinality(Savers \ {r}) \in Nat
  BY <1>1, FS_CardinalityType DEF FewSave
<1> QED
  BY <1>1, <1>2, StoreAssumption DEF FewSave

\* The number of those that follow.
LEMMA FollowingNumber ==
    ASSUME StoreTypeOK, FewSave, NEW r \in Runs
    PROVE  IsFiniteSet(Following(r)) /\ Cardinality(Following(r)) \in Nat
<1>1. Following(r) \in SUBSET Savers
  BY FollowingSave
<1>2. IsFiniteSet(Following(r))
  BY <1>1, FS_Subset DEF FewSave
<1> QED
  BY <1>2, FS_CardinalityType

\* Where nothing is written and nobody more follows, the latest stays near.
LEMMA StaysNear ==
    ASSUME StoreInv, latest' = latest, history' = history, torn \subseteq torn',
           latest # NoSnapshot => latest.run \in Runs,
           latest # NoSnapshot /\ saving[latest.run].step = "history"
              => saving'[latest.run].step = "history" \/ latest.run \in torn',
           \A r \in Runs : Following(r)' \subseteq Following(r)
    PROVE  LatestIsNear'
<1> SUFFICES ASSUME latest # NoSnapshot, latest.run \notin torn',
                    saving[latest.run].step # "history"
             PROVE  \E k \in DOMAIN history :
                       /\ history[k] = latest.run
                       /\ Len(history) - k + Cardinality(Following(latest.run)') < MaxSaving
  BY DEF LatestIsNear
<1>1. PICK k \in DOMAIN history :
         /\ history[k] = latest.run
         /\ Len(history) - k + Cardinality(Following(latest.run)) < MaxSaving
  BY DEF StoreInv, LatestIsNear
<1>2. IsFiniteSet(Following(latest.run)) /\ Cardinality(Following(latest.run)) \in Nat
  BY FollowingNumber DEF StoreInv
<1>3. /\ Cardinality(Following(latest.run)') \in Nat
      /\ Cardinality(Following(latest.run)') <= Cardinality(Following(latest.run))
  <2>1. Following(latest.run)' \in SUBSET Following(latest.run)
    OBVIOUS
  <2>2. IsFiniteSet(Following(latest.run)')
    BY <1>2, <2>1, FS_Subset
  <2> QED
    BY <1>2, <2>1, <2>2, FS_Subset, FS_CardinalityType
<1>4. Len(history) \in Nat /\ k \in 1 .. Len(history)
  BY <1>1, LenProperties DEF StoreInv, StoreTypeOK
<1>5. Len(history) - k + Cardinality(Following(latest.run)') < MaxSaving
  BY <1>1, <1>2, <1>3, <1>4, StoreAssumption
<1> QED
  BY <1>1, <1>5

-----------------------------------------------------------------------------
(* The steps.                                                              *)

\* The latest snapshot is of a run.
LEMMA LatestIsOfARun ==
    ASSUME StoreTypeOK, latest # NoSnapshot
    PROVE  latest \in Snapshots /\ latest.run \in Runs /\ latest.head \in Nat
BY DEF StoreTypeOK, Snapshots

\* A run begins.
LEMMA BeginKeepsStore == ASSUME StoreInv, NEW r \in Runs, BeginAs(r) PROVE StoreInv'
<1> USE DEF BeginAs
<1>1. StoreTypeOK'
  BY DEF StoreInv, StoreTypeOK, AtWork
<1>2. FewSave'
  BY DEF StoreInv, FewSave, Savers, IsSaving
<1>3. \A q \in Runs : Following(q)' = Following(q)
  BY DEF Following
<1>4. LatestIsNear'
  BY <1>3, StaysNear, LatestIsOfARun DEF StoreInv
<1>5. RunsGoOnce'
  BY DEF StoreInv, RunsGoOnce, StoreTypeOK, IsWorking, IsSaving
<1>6. HeadsArePast'
  BY DEF StoreInv, HeadsArePast, Savers, IsSaving
<1> QED
  BY <1>1, <1>2, <1>4, <1>5, <1>6 DEF StoreInv

\* A tool call, or somebody else, changes files.
LEMMA ChangeKeepsStore ==
    ASSUME StoreInv, NEW f \in Paths, NEW gone \in BOOLEAN,
           \/ \E r \in Runs : Change(r, f, gone)
           \/ ChangeOutside(f, gone)
    PROVE  StoreInv'
<1>1. /\ UNCHANGED <<saving, latest, history, begun, moved, torn>>
      /\ moves' \in Nat
  BY DEF Change, ChangeOutside, ByOthers, StoreInv, StoreTypeOK
<1>2. ws' \in [head : Nat, dirty : SUBSET Paths, gone : SUBSET Paths] /\ ws'.head = ws.head
  <2>1. PICK left \in SUBSET Paths :
           ws' = [ws EXCEPT !.dirty = ws.dirty \cup {f}, !.gone = left]
    <3>1. (IF gone THEN ws.gone \cup {f} ELSE ws.gone \ {f}) \in SUBSET Paths
      BY DEF StoreInv, StoreTypeOK
    <3> QED
      BY <3>1 DEF Change, ChangeOutside
  <2> QED
    BY <2>1 DEF StoreInv, StoreTypeOK
<1>3. /\ working' \in [Runs -> {NotWorking} \cup AtWork]
      /\ \A q \in Runs : IsWorking(q)' => IsWorking(q)
  <2>1. CASE UNCHANGED working
    BY <2>1 DEF StoreInv, StoreTypeOK, IsWorking
  <2>2. ASSUME NEW r \in Runs, Change(r, f, gone)
        PROVE  /\ working' \in [Runs -> {NotWorking} \cup AtWork]
               /\ \A q \in Runs : IsWorking(q)' => IsWorking(q)
    <3>1. working[r] \in AtWork /\ IsWorking(r)
      BY <2>2, SavingSteps DEF Change, StoreInv
    <3>2. working' = [working EXCEPT ![r] =
                         [working[r] EXCEPT !.own = working[r].own \cup {f}]]
      BY <2>2 DEF Change
    <3>3. [working[r] EXCEPT !.own = working[r].own \cup {f}] \in AtWork
      BY <3>1 DEF AtWork
    <3> QED
      BY <3>1, <3>2, <3>3 DEF StoreInv, StoreTypeOK, IsWorking
  <2> QED
    BY <2>1, <2>2 DEF ChangeOutside, ByOthers
<1>4. StoreTypeOK'
  BY <1>1, <1>2, <1>3 DEF StoreInv, StoreTypeOK
<1>5. FewSave'
  BY <1>1 DEF StoreInv, FewSave, Savers, IsSaving
<1>6. \A q \in Runs : Following(q)' = Following(q)
  BY <1>1 DEF Following
<1>7. LatestIsNear'
  BY <1>1, <1>6, StaysNear, LatestIsOfARun DEF StoreInv
<1>8. RunsGoOnce'
  BY <1>1, <1>3 DEF StoreInv, RunsGoOnce, IsSaving, IsWorking
<1>9. HeadsArePast'
  BY <1>1, <1>2 DEF StoreInv, HeadsArePast, Savers, IsSaving
<1> QED
  BY <1>4, <1>5, <1>7, <1>8, <1>9 DEF StoreInv

\* A commit overtakes the latest snapshot and those that are being saved.
LEMMA CommitKeepsStore == ASSUME StoreInv, Commit PROVE StoreInv'
<1>1. /\ UNCHANGED <<working, saving, latest, history, begun, torn>>
      /\ ws'.head = ws.head + 1 /\ ws.head \in Nat
      /\ moved' = moved \cup ({latest.run} \ {NoRun}) \cup {r \in Runs : IsSaving(r)}
  BY DEF Commit, ByOthers, StoreInv, StoreTypeOK
<1>2. latest.run \in Runs \cup {NoRun}
  BY DEF StoreInv, StoreTypeOK, Snapshots, NoSnapshot
<1>3. StoreTypeOK'
  <2>1. moved' \subseteq Runs
    BY <1>1, <1>2 DEF StoreInv, StoreTypeOK
  <2>2. ws' \in [head : Nat, dirty : SUBSET Paths, gone : SUBSET Paths]
    <3>1. PICK h \in Nat : h = ws.head + 1
      BY <1>1
    <3>2. ws' = [ws EXCEPT !.head = h, !.dirty = {}]
      BY <3>1 DEF Commit
    <3> QED
      BY <3>2 DEF StoreInv, StoreTypeOK
  <2>3. moves' \in Nat
    BY DEF Commit, ByOthers, StoreInv, StoreTypeOK
  <2> QED
    BY <1>1, <2>1, <2>2, <2>3 DEF StoreInv, StoreTypeOK
<1>4. FewSave'
  BY <1>1 DEF StoreInv, FewSave, Savers, IsSaving
<1>5. \A q \in Runs : Following(q)' = Following(q)
  BY <1>1 DEF Following
<1>6. LatestIsNear'
  BY <1>1, <1>5, StaysNear, LatestIsOfARun DEF StoreInv
<1>7. RunsGoOnce'
  BY <1>1 DEF StoreInv, RunsGoOnce, IsSaving, IsWorking
<1>8. HeadsArePast'
  <2>1. \A r \in Savers : saving[r].snapshot.head \in Nat
    BY SavingSteps DEF StoreInv, Savers, Saves, Snapshots
  <2> QED
    BY <1>1, <2>1, LatestIsOfARun DEF StoreInv, HeadsArePast, Savers, IsSaving
<1> QED
  BY <1>3, <1>4, <1>6, <1>7, <1>8 DEF StoreInv

\* A run ends; it goes on to save.
LEMMA EndKeepsStore ==
    ASSUME StoreInv, NEW r \in Runs, NEW resumable \in BOOLEAN, NEW confirm \in BOOLEAN,
           End(r, resumable, confirm)
    PROVE  StoreInv'
<1> DEFINE snapshot == [run |-> r, resumable |-> resumable, confirm |-> confirm,
                        head |-> ws.head, dirty |-> ws.dirty,
                        changed |-> ChangedBy(r), labelled |-> LabelledBy(r)]
<1>1. /\ UNCHANGED <<ws, latest, history, begun, moves, moved, torn>>
      /\ saving' = [saving EXCEPT ![r] = [step |-> "latest", snapshot |-> snapshot]]
      /\ working' = [working EXCEPT ![r] = NotWorking]
      /\ IsWorking(r) /\ Cardinality(Savers) < MaxSaving
  BY DEF End, Savers
<1>2. working[r] \in AtWork /\ ~IsSaving(r) /\ r \in begun /\ r \notin moved
  BY <1>1, SavingSteps DEF StoreInv, RunsGoOnce
<1>3. snapshot \in Snapshots
  BY <1>2 DEF Snapshots, ChangedBy, LabelledBy, AtWork, StoreInv, StoreTypeOK
<1> HIDE DEF snapshot
<1>4. [step |-> "latest", snapshot |-> snapshot] \in Saves
  BY <1>3 DEF Saves
<1>5. StoreTypeOK'
  BY <1>1, <1>4 DEF StoreInv, StoreTypeOK
<1>6. /\ saving'[r] = [step |-> "latest", snapshot |-> snapshot]
      /\ \A q \in Runs \ {r} : saving'[q] = saving[q]
      /\ IsSaving(r)'
  BY <1>1, <1>4 DEF StoreInv, StoreTypeOK, IsSaving, NotSaving, Saves
<1>7. Savers' = Savers \cup {r} /\ r \notin Savers
  BY <1>2, <1>6 DEF Savers, IsSaving
<1>8. snapshot.run = r /\ snapshot.head = ws.head
  BY DEF snapshot
<1>9. FewSave'
  <2>1. IsFiniteSet(Savers') /\ Cardinality(Savers') = Cardinality(Savers) + 1
    BY <1>7, FS_AddElement DEF StoreInv, FewSave
  <2>2. Cardinality(Savers) \in Nat
    BY FS_CardinalityType DEF StoreInv, FewSave
  <2>3. \A q \in Savers' : saving'[q].snapshot.run = q
    BY <1>6, <1>7, <1>8 DEF StoreInv, FewSave, Savers
  <2> QED
    BY <1>1, <2>1, <2>2, <2>3, StoreAssumption DEF FewSave
<1>10. \A q \in Runs : Following(q)' \subseteq Following(q)
  BY <1>6 DEF Following
<1>11. saving[r].step # "history"
  BY <1>2, SavingSteps DEF StoreInv
<1>12. LatestIsNear'
  BY <1>1, <1>6, <1>10, <1>11, StaysNear, LatestIsOfARun DEF StoreInv
<1>13. RunsGoOnce'
  BY <1>1, <1>2, <1>6 DEF StoreInv, StoreTypeOK, RunsGoOnce, IsSaving, IsWorking
<1>14. HeadsArePast'
  BY <1>1, <1>2, <1>6, <1>7, <1>8 DEF StoreInv, StoreTypeOK, HeadsArePast, Savers
<1> QED
  BY <1>5, <1>9, <1>12, <1>13, <1>14 DEF StoreInv

\* A step of saving goes on with the same snapshot.
LEMMA SavingGoesOn ==
    ASSUME StoreInv, NEW r \in Runs, IsSaving(r), NEW step \in {"history", "prune"},
           saving' = [saving EXCEPT ![r].step = step]
    PROVE  /\ saving' \in [Runs -> {NotSaving} \cup Saves]
           /\ saving'[r].step = step /\ saving'[r].snapshot = saving[r].snapshot
           /\ \A q \in Runs \ {r} : saving'[q] = saving[q]
           /\ \A q \in Runs : IsSaving(q)' <=> IsSaving(q)
           /\ Savers' = Savers /\ FewSave'
<1>1. saving[r] \in Saves
  BY SavingSteps DEF StoreInv
<1>2. saving' = [saving EXCEPT ![r] = [saving[r] EXCEPT !.step = step]]
  OBVIOUS
<1>3. /\ [saving[r] EXCEPT !.step = step] \in Saves
      /\ [saving[r] EXCEPT !.step = step].step = step
      /\ [saving[r] EXCEPT !.step = step].snapshot = saving[r].snapshot
  BY <1>1 DEF Saves
<1> HIDE DEF IsSaving
<1>4. /\ saving' \in [Runs -> {NotSaving} \cup Saves]
      /\ saving'[r].step = step /\ saving'[r].snapshot = saving[r].snapshot
      /\ \A q \in Runs \ {r} : saving'[q] = saving[q]
  BY <1>2, <1>3 DEF StoreInv, StoreTypeOK
<1>5. \A q \in Runs : IsSaving(q)' <=> IsSaving(q)
  BY <1>4 DEF IsSaving, NotSaving
<1>6. Savers' = Savers
  BY <1>5 DEF Savers
<1>7. FewSave'
  BY <1>4, <1>6 DEF StoreInv, FewSave, Savers
<1> QED
  BY <1>4, <1>5, <1>6, <1>7

\* latest.json is written; the run is about to write to the history.
LEMMA WriteLatestKeepsStore ==
    ASSUME StoreInv, NEW r \in Runs, WriteLatest(r) PROVE StoreInv'
<1>1. /\ UNCHANGED <<ws, working, history, begun, moves, moved, torn>>
      /\ latest' = saving[r].snapshot
      /\ saving' = [saving EXCEPT ![r].step = "history"]
      /\ saving[r].step = "latest"
  BY DEF WriteLatest
<1>2. IsSaving(r) /\ saving[r] \in Saves
  BY <1>1, SavingSteps DEF StoreInv
<1>3. /\ saving' \in [Runs -> {NotSaving} \cup Saves]
      /\ saving'[r].step = "history" /\ saving'[r].snapshot = saving[r].snapshot
      /\ \A q \in Runs \ {r} : saving'[q] = saving[q]
      /\ \A q \in Runs : IsSaving(q)' <=> IsSaving(q)
      /\ Savers' = Savers /\ FewSave'
  BY <1>1, <1>2, SavingGoesOn
<1>4. /\ latest' \in Snapshots /\ latest'.run = r
      /\ latest'.head <= ws.head /\ (r \in moved => latest'.head < ws.head)
  BY <1>1, <1>2 DEF Saves, StoreInv, FewSave, HeadsArePast, Savers
<1>5. StoreTypeOK'
  BY <1>1, <1>3, <1>4 DEF StoreInv, StoreTypeOK
<1>6. LatestIsNear'
  BY <1>3, <1>4 DEF LatestIsNear
<1>7. RunsGoOnce'
  BY <1>1, <1>2, <1>3, <1>4 DEF StoreInv, RunsGoOnce, IsWorking
<1>8. HeadsArePast'
  BY <1>1, <1>3, <1>4 DEF StoreInv, HeadsArePast, Savers
<1> QED
  BY <1>3, <1>5, <1>6, <1>7, <1>8 DEF StoreInv

\* The snapshot goes to the end of the history.
LEMMA WriteHistoryKeepsStore ==
    ASSUME StoreInv, NEW r \in Runs, WriteHistory(r) PROVE StoreInv'
<1>1. /\ UNCHANGED <<ws, working, latest, begun, moves, moved, torn>>
      /\ history' = Append(history, r)
      /\ saving' = [saving EXCEPT ![r].step = "prune"]
      /\ saving[r].step = "history"
  BY DEF WriteHistory
<1>2. IsSaving(r)
  BY <1>1, SavingSteps DEF StoreInv
<1>3. /\ saving' \in [Runs -> {NotSaving} \cup Saves]
      /\ saving'[r].step = "prune" /\ saving'[r].snapshot = saving[r].snapshot
      /\ \A q \in Runs \ {r} : saving'[q] = saving[q]
      /\ \A q \in Runs : IsSaving(q)' <=> IsSaving(q)
      /\ Savers' = Savers /\ FewSave'
  BY <1>1, <1>2, SavingGoesOn
<1>4. /\ history' \in Seq(Runs) /\ Len(history) \in Nat
      /\ Len(history') = Len(history) + 1 /\ DOMAIN history' = 1 .. Len(history) + 1
      /\ history'[Len(history) + 1] = r
      /\ \A k \in DOMAIN history : k \in 1 .. Len(history) /\ history'[k] = history[k]
  <2>1. history \in Seq(Runs)
    BY DEF StoreInv, StoreTypeOK
  <2>2. history' \in Seq(Runs) /\ Len(history') = Len(history) + 1
    BY <1>1, <2>1, AppendProperties
  <2> QED
    BY <1>1, <2>1, <2>2, AppendProperties, LenProperties
<1>5. StoreTypeOK'
  BY <1>1, <1>3, <1>4 DEF StoreInv, StoreTypeOK
<1>6. \A q \in Runs : Following(q)' = Following(q) \ {r}
  BY <1>3 DEF Following
<1>7. LatestIsNear'
  <2> SUFFICES ASSUME NEW l \in Runs, l = latest.run, latest # NoSnapshot,
                      l \notin torn, ~(saving'[l].step = "history")
               PROVE  \E k \in DOMAIN history' :
                         /\ history'[k] = l
                         /\ Len(history') - k + Cardinality(Following(l)') < MaxSaving
    BY <1>1, LatestIsOfARun DEF LatestIsNear, Following, StoreInv
  <2>2. CASE l = r
    <3>1. Following(r)' \in SUBSET (Savers \ {r})
      BY <1>6, FollowingSave DEF StoreInv
    <3>2. r \in Savers
      BY <1>2 DEF Savers
    <3>3. /\ IsFiniteSet(Savers \ {r}) /\ Cardinality(Savers \ {r}) \in Nat
          /\ Cardinality(Savers \ {r}) < MaxSaving
      BY <3>2, FewFollow DEF StoreInv
    <3>4. /\ Cardinality(Following(r)') \in Nat
          /\ Cardinality(Following(r)') <= Cardinality(Savers \ {r})
      BY <3>1, <3>3, FS_Subset, FS_CardinalityType
    <3>5. Len(history') - (Len(history) + 1) + Cardinality(Following(r)') < MaxSaving
      BY <1>4, <3>3, <3>4, StoreAssumption
    <3>6. /\ Len(history) + 1 \in DOMAIN history'
          /\ history'[Len(history) + 1] = l
      BY <1>4, <2>2
    <3> QED
      BY <2>2, <3>5, <3>6
  <2>3. CASE l # r
    <3>1. saving[l].step # "history"
      BY <1>3, <2>3
    <3>2. PICK k \in DOMAIN history :
             /\ history[k] = l
             /\ Len(history) - k + Cardinality(Following(l)) < MaxSaving
      BY <3>1 DEF StoreInv, LatestIsNear
    <3>3. r \in Following(l)
      BY <1>1, <2>3 DEF Following
    <3>4. /\ IsFiniteSet(Following(l))
          /\ Cardinality(Following(l)) \in Nat
      BY FollowingNumber DEF StoreInv
    <3>5. Cardinality(Following(l)') = Cardinality(Following(l)) - 1
      BY <1>6, <3>3, <3>4, FS_RemoveElement
    <3>6. k \in 1 .. Len(history) /\ k \in DOMAIN history' /\ history'[k] = l
      BY <1>4, <3>2
    <3>7. Len(history') - k + Cardinality(Following(l)') < MaxSaving
      BY <1>4, <3>2, <3>4, <3>5, <3>6, StoreAssumption
    <3> QED
      BY <3>6, <3>7
  <2> QED
    BY <2>2, <2>3
<1>8. RunsGoOnce'
  BY <1>1, <1>3 DEF StoreInv, RunsGoOnce, IsWorking
<1>9. HeadsArePast'
  BY <1>1, <1>3 DEF StoreInv, HeadsArePast, Savers
<1> QED
  BY <1>3, <1>5, <1>7, <1>8, <1>9 DEF StoreInv

\* What is kept of a history is its end.
LEMMA KeptIsTheEnd ==
    ASSUME NEW h \in Seq(Runs), Len(h) > MaxHistory
    PROVE  /\ Kept(h) \in Seq(Runs) /\ Len(Kept(h)) = MaxHistory
           /\ DOMAIN Kept(h) = 1 .. MaxHistory
           /\ \A k \in 1 .. MaxHistory : Kept(h)[k] = h[Len(h) - MaxHistory + k]
<1> DEFINE first == Len(h) - MaxHistory + 1
<1>1. /\ Len(h) \in Nat /\ MaxHistory \in Nat /\ first \in Int
      /\ Kept(h) = SubSeq(h, first, Len(h))
      /\ \A k \in 1 .. MaxHistory : first + k - 1 = Len(h) - MaxHistory + k
      /\ Len(h) - first + 1 = MaxHistory /\ first <= Len(h) + 1
  BY LenProperties, StoreAssumption DEF Kept
<1>2. \A i \in first .. Len(h) : h[i] \in Runs
  BY <1>1, LenProperties, ElementOfSeq
<1> HIDE DEF first
<1>3. /\ Kept(h) \in Seq(Runs)
      /\ Len(Kept(h)) = IF first <= Len(h) THEN Len(h) - first + 1 ELSE 0
      /\ \A i \in 1 .. Len(h) - first + 1 : Kept(h)[i] = h[first + i - 1]
  BY <1>1, <1>2, SubSeqProperties
<1>4. Len(Kept(h)) = MaxHistory
  BY <1>1, <1>3
<1> QED
  BY <1>1, <1>3, <1>4, LenProperties

\* The saving of a run is over, done or broken off.
LEMMA SavingEnds ==
    ASSUME StoreInv, NEW r \in Runs, saving' = [saving EXCEPT ![r] = NotSaving]
    PROVE  /\ saving' \in [Runs -> {NotSaving} \cup Saves]
           /\ ~IsSaving(r)' /\ saving'[r].step = "none"
           /\ \A q \in Runs \ {r} : saving'[q] = saving[q]
           /\ \A q \in Runs : IsSaving(q)' => IsSaving(q)
           /\ Savers' = Savers \ {r} /\ FewSave'
           /\ \A q \in Runs : Following(q)' = Following(q) \ {r}
<1>1. /\ saving' \in [Runs -> {NotSaving} \cup Saves]
      /\ saving'[r] = NotSaving /\ saving'[r].step = "none"
      /\ \A q \in Runs \ {r} : saving'[q] = saving[q]
  BY DEF StoreInv, StoreTypeOK, NotSaving
<1>2. ~IsSaving(r)' /\ \A q \in Runs : IsSaving(q)' => IsSaving(q)
  BY <1>1 DEF IsSaving
<1>3. Savers' = Savers \ {r}
  BY <1>1 DEF Savers, IsSaving
<1>4. FewSave'
  <2>1. IsFiniteSet(Savers') /\ Cardinality(Savers') <= Cardinality(Savers)
    <3>1. Savers' \in SUBSET Savers
      BY <1>3
    <3> QED
      BY <3>1, FS_Subset DEF StoreInv, FewSave
  <2>2. Cardinality(Savers') \in Nat /\ Cardinality(Savers) \in Nat
    BY <2>1, FS_CardinalityType DEF StoreInv, FewSave
  <2>3. \A q \in Savers' : saving'[q].snapshot.run = q
    BY <1>1, <1>3 DEF StoreInv, FewSave, Savers
  <2> QED
    BY <2>1, <2>2, <2>3, StoreAssumption DEF StoreInv, FewSave
<1>5. \A q \in Runs : Following(q)' = Following(q) \ {r}
  BY <1>1 DEF Following
<1> QED
  BY <1>1, <1>2, <1>3, <1>4, <1>5

\* Pruning keeps the latest snapshot: so few runs save that it is near the end.
LEMMA PruneKeepsStore ==
    ASSUME StoreInv, NEW r \in Runs, PruneHistory(r) PROVE StoreInv'
<1>1. /\ UNCHANGED <<ws, working, latest, begun, moves, moved, torn>>
      /\ history' = Kept(history)
      /\ saving' = [saving EXCEPT ![r] = NotSaving]
      /\ saving[r].step = "prune"
  BY DEF PruneHistory
<1>2. /\ saving' \in [Runs -> {NotSaving} \cup Saves]
      /\ ~IsSaving(r)' /\ saving'[r].step = "none"
      /\ \A q \in Runs \ {r} : saving'[q] = saving[q]
      /\ \A q \in Runs : IsSaving(q)' => IsSaving(q)
      /\ Savers' = Savers \ {r} /\ FewSave'
      /\ \A q \in Runs : Following(q)' = Following(q) \ {r}
  BY <1>1, SavingEnds
<1>3. \A q \in Runs : Following(q)' = Following(q)
  BY <1>1, <1>2 DEF Following
<1>4. history \in Seq(Runs) /\ Len(history) \in Nat
  BY LenProperties DEF StoreInv, StoreTypeOK
<1>5. history' \in Seq(Runs)
  BY <1>1, <1>4, KeptIsTheEnd, StoreAssumption DEF Kept
<1>6. StoreTypeOK'
  BY <1>1, <1>2, <1>5 DEF StoreInv, StoreTypeOK
<1>7. LatestIsNear'
  <2>1. CASE Len(history) <= MaxHistory
    <3>1. history' = history
      BY <1>1, <2>1 DEF Kept
    <3>2. latest # NoSnapshot /\ saving[latest.run].step = "history"
             => saving'[latest.run].step = "history"
      BY <1>1, <1>2, LatestIsOfARun DEF StoreInv
    <3> QED
      BY <1>1, <1>3, <3>1, <3>2, StaysNear, LatestIsOfARun DEF StoreInv
  <2>2. CASE Len(history) > MaxHistory
    <3> SUFFICES ASSUME NEW l \in Runs, l = latest.run, latest # NoSnapshot,
                        l \notin torn, ~(saving'[l].step = "history")
                 PROVE  \E k \in DOMAIN history' :
                           /\ history'[k] = l
                           /\ Len(history') - k + Cardinality(Following(l)') < MaxSaving
      BY <1>1, LatestIsOfARun DEF LatestIsNear, Following, StoreInv
    <3>1. saving[l].step # "history"
      BY <1>1, <1>2
    <3>2. PICK k \in DOMAIN history :
             /\ history[k] = l
             /\ Len(history) - k + Cardinality(Following(l)) < MaxSaving
      BY <3>1 DEF StoreInv, LatestIsNear
    <3>3. Cardinality(Following(l)) \in Nat /\ k \in 1 .. Len(history)
      BY <1>4, <3>1, FollowingNumber, LenProperties DEF StoreInv
    <3>4. /\ Len(history') = MaxHistory /\ DOMAIN history' = 1 .. MaxHistory
          /\ \A i \in 1 .. MaxHistory : history'[i] = history[Len(history) - MaxHistory + i]
      BY <1>1, <1>4, <2>2, KeptIsTheEnd
    <3> DEFINE j == k - (Len(history) - MaxHistory)
    <3>5. /\ j \in 1 .. MaxHistory /\ Len(history) - MaxHistory + j = k
          /\ MaxHistory - j = Len(history) - k
      BY <1>4, <3>2, <3>3, StoreAssumption
    <3>6. history'[j] = l /\ j \in DOMAIN history'
      BY <3>2, <3>4, <3>5
    <3>7. Len(history') - j + Cardinality(Following(l)') < MaxSaving
      BY <1>3, <3>1, <3>2, <3>4, <3>5
    <3> QED
      BY <3>6, <3>7
  <2> QED
    BY <1>4, <2>1, <2>2, StoreAssumption
<1>8. RunsGoOnce'
  BY <1>1, <1>2 DEF StoreInv, RunsGoOnce, IsWorking
<1>9. HeadsArePast'
  BY <1>1, <1>2 DEF StoreInv, HeadsArePast, Savers
<1> QED
  BY <1>2, <1>6, <1>7, <1>8, <1>9 DEF StoreInv

\* A run that dies between the two files is remembered as torn.
LEMMA CrashKeepsStore == ASSUME StoreInv, NEW r \in Runs, Crash(r) PROVE StoreInv'
<1>1. /\ UNCHANGED <<ws, latest, history, begun, moves, moved>>
      /\ saving' = [saving EXCEPT ![r] = NotSaving]
      /\ working' = [working EXCEPT ![r] = NotWorking]
      /\ torn' = IF saving[r].step = "history" THEN torn \cup {r} ELSE torn
      /\ IsWorking(r) \/ IsSaving(r)
  BY DEF Crash
<1>2. /\ saving' \in [Runs -> {NotSaving} \cup Saves]
      /\ ~IsSaving(r)' /\ saving'[r].step = "none"
      /\ \A q \in Runs \ {r} : saving'[q] = saving[q]
      /\ \A q \in Runs : IsSaving(q)' => IsSaving(q)
      /\ Savers' = Savers \ {r} /\ FewSave'
      /\ \A q \in Runs : Following(q)' = Following(q) \ {r}
  BY <1>1, SavingEnds
<1>3. StoreTypeOK'
  BY <1>1, <1>2 DEF StoreInv, StoreTypeOK
<1>4. torn \subseteq torn'
  BY <1>1
<1>5. latest # NoSnapshot /\ saving[latest.run].step = "history"
         => saving'[latest.run].step = "history" \/ latest.run \in torn'
  BY <1>1, <1>2, LatestIsOfARun DEF StoreInv
<1>6. LatestIsNear'
  BY <1>1, <1>2, <1>4, <1>5, StaysNear, LatestIsOfARun DEF StoreInv
<1>7. \A q \in Runs : IsWorking(q)' => IsWorking(q)
  BY <1>1 DEF IsWorking, StoreInv, StoreTypeOK
<1>8. RunsGoOnce'
  BY <1>1, <1>2, <1>7 DEF StoreInv, RunsGoOnce
<1>9. HeadsArePast'
  BY <1>1, <1>2 DEF StoreInv, HeadsArePast, Savers
<1> QED
  BY <1>2, <1>3, <1>6, <1>8, <1>9 DEF StoreInv

-----------------------------------------------------------------------------
(* The theorems of the store.                                              *)

\* Nothing is saved at first.
LEMMA StoreInitInvariant == StoreInit => StoreInv
<1> SUFFICES ASSUME StoreInit PROVE StoreInv
  OBVIOUS
<1>1. StoreTypeOK
  BY EmptySeq DEF StoreInit, StoreTypeOK
<1>2. Savers = {}
  BY DEF StoreInit, Savers, IsSaving
<1>3. FewSave
  BY <1>2, FS_EmptySet, StoreAssumption DEF FewSave
<1>4. LatestIsNear
  BY DEF StoreInit, LatestIsNear
<1>5. RunsGoOnce
  BY StoreAssumption DEF StoreInit, RunsGoOnce, IsWorking, IsSaving, NoSnapshot
<1>6. HeadsArePast
  BY <1>2 DEF StoreInit, HeadsArePast
<1> QED
  BY <1>1, <1>3, <1>4, <1>5, <1>6 DEF StoreInv

\* However many runs save at once and wherever they die.
LEMMA StoreNextInvariant == StoreInv /\ [StoreNext]_storeVars => StoreInv'
<1> SUFFICES ASSUME StoreInv, [StoreNext]_storeVars PROVE StoreInv'
  OBVIOUS
<1>1. CASE UNCHANGED storeVars
  BY <1>1 DEF storeVars, StoreInv, StoreTypeOK, FewSave, Savers, IsSaving, LatestIsNear,
     Following, RunsGoOnce, IsWorking, HeadsArePast
<1>2. ASSUME NEW r \in Runs, NEW confirmed \in BOOLEAN, Begin(r) \/ Resume(r, confirmed)
      PROVE  StoreInv'
  BY <1>2, BeginKeepsStore DEF Begin, Resume
<1>3. CASE StoreNext
  BY <1>2, <1>3, ChangeKeepsStore, CommitKeepsStore, EndKeepsStore,
     WriteLatestKeepsStore, WriteHistoryKeepsStore, PruneKeepsStore, CrashKeepsStore
     DEF StoreNext
<1> QED
  BY <1>1, <1>3

\* The inductive invariant of the store, for any number of runs.
THEOREM StoreInvariance == StoreSpec => []StoreInv
BY StoreInitInvariant, StoreNextInvariant, PTL DEF StoreSpec

\* What is saved has its type throughout.
THEOREM StoreTypeCorrect == StoreSpec => []StoreTypeOK
<1>1. StoreInv => StoreTypeOK
  BY DEF StoreInv
<1> QED
  BY <1>1, StoreInvariance, PTL

\* The snapshot of latest.json is in the history as soon as nobody saves, or its
\* run died between the two files (persist_snapshot, prune_history).
THEOREM LatestIsAlwaysInHistory == StoreSpec => []LatestIsInHistory
<1>1. StoreInv => LatestIsInHistory
  <2> SUFFICES ASSUME StoreInv, \A r \in Runs : ~IsSaving(r), latest # NoSnapshot,
                      latest.run \notin torn
               PROVE  latest.run \in Range(history)
    BY DEF LatestIsInHistory
  <2>1. saving[latest.run].step # "history"
    BY SavingSteps, LatestIsOfARun DEF StoreInv
  <2>2. \E k \in DOMAIN history : history[k] = latest.run
    BY <2>1 DEF StoreInv, LatestIsNear
  <2> QED
    BY <2>2 DEF Range
<1> QED
  BY <1>1, StoreInvariance, PTL

\* A run is resumed without a confirmation only where nobody committed since its
\* snapshot and none of its files is gone (RunEvidenceFreshness::compare).
THEOREM UnconfirmedResumesAreFresh == StoreSpec => UnconfirmedResumeIsFresh
<1> DEFINE Fresh == \A r \in Runs : Resume(r, FALSE) =>
                       /\ latest.run \notin moved
                       /\ latest.changed \cap ws.gone = {}
<1>1. StoreInv /\ [StoreNext]_storeVars => Fresh
  <2> SUFFICES ASSUME StoreInv, NEW r \in Runs, Resume(r, FALSE)
               PROVE  latest.run \notin moved /\ latest.changed \cap ws.gone = {}
    OBVIOUS
  <2>1. latest # NoSnapshot /\ ~StaleRisk(latest)
    BY DEF Resume
  <2>2. latest.head = ws.head /\ latest.changed \cap ws.gone = {}
    BY <2>1 DEF StaleRisk, MissingFiles
  <2>3. latest.head \in Nat
    BY <2>1, LatestIsOfARun DEF StoreInv
  <2> QED
    BY <2>1, <2>2, <2>3 DEF StoreInv, HeadsArePast
<1>2. StoreInv /\ [StoreNext]_storeVars => [Fresh]_storeVars
  BY <1>1
<1> QED
  BY <1>2, StoreInvariance, PTL DEF StoreSpec, UnconfirmedResumeIsFresh

=============================================================================
