-------------------------- MODULE AgentLoopProofs --------------------------
(***************************************************************************)
(* Proofs about AgentLoop, for every set of files and every bound.         *)
(***************************************************************************)
EXTENDS AgentLoop, FiniteSetTheorems, TLAPS

-----------------------------------------------------------------------------
(* The inductive invariant.                                                *)

\* Where a call is on its way, and where the final answer is being verified.
Calling == {"asking", "execute", "authorizing", "granting", "running"}
FollowingUp == {"follow_up", "granting_check", "checking"}

\* What the loop's places say of the counters: a step is left when the model
\* is asked, a call of the batch while one is taken, and nothing is changed
\* before the task is classified.
PlacesFit ==
    /\ pc # "done" => outcome = "Unknown"
    /\ pc \in {"start", "classify"} => changed = {}
    /\ pc \in {"model", "plan_for_model"} => count.steps < MaxSteps
    /\ pc \in Calling \cup {"record"} => left > 0
    /\ pc \notin {"plan_for_batch", "done"} => gate.blocks < MaxBlocked

\* The gate is lowered by a plan only, and what it holds back is behind it
\* until then.
GateHolds ==
    /\ plan => planned
    /\ planned => ever
    /\ gate.required /\ ~gate.active => planned
    /\ gate.escalated /\ ~ever => gate.active
    /\ gate.required /\ pc \in Calling /\ Accounts(call.tool) => planned
    /\ gate.required /\ pc \in {"granting", "running"}
          /\ MayMutate(call.tool) => planned
    /\ gate.required /\ (pc \in FollowingUp \/ outcome = "Completed")
          => planned

\* Only a skill on its way to be started can still start after a stop.
StopHolds ==
    /\ late \in 0 .. 1
    /\ late = 1 => cancelled /\ pc \notin {"authorizing", "granting"}

\* What is not accounted for yet was changed in this run, and git shows it.
ReceiptsHold ==
    /\ receipts \subseteq changed
    /\ unrecorded \subseteq dirty \cap touched
    /\ changed \cap baseline \subseteq touched

IInv ==
    /\ TypeOK /\ PlacesFit /\ GateHolds /\ StopHolds /\ ReceiptsHold
    /\ PlanningIsBounded /\ UnplannedChangesEscalate

-----------------------------------------------------------------------------
(* What single operators do.                                               *)

\* A lowered gate counts no blocks and remembers the rest.
LEMMA LoweredGate ==
    ASSUME gate \in Gates
    PROVE  /\ Deactivated(gate) \in Gates
           /\ ~Deactivated(gate).active
           /\ Deactivated(gate).blocks = 0
           /\ Deactivated(gate).required = gate.required
           /\ Deactivated(gate).escalated = gate.escalated
<1>1. 0 \in 0 .. MaxBlocked
  BY LoopAssumption
<1>2. Deactivated(gate) \in Gates
  BY <1>1 DEF Gates, Deactivated
<1>3. ~Deactivated(gate).active /\ Deactivated(gate).blocks = 0
  BY DEF Gates, Deactivated
<1>4. Deactivated(gate).required = gate.required
  BY DEF Gates, Deactivated
<1>5. Deactivated(gate).escalated = gate.escalated
  BY DEF Gates, Deactivated
<1> QED
  BY <1>2, <1>3, <1>4, <1>5

\* An answer takes one step.
LEMMA StepTaken ==
    ASSUME count \in Counts
    PROVE  Stepped = [steps |-> count.steps + 1, retries |-> count.retries,
                      research |-> count.research,
                      redirects |-> count.redirects]
  BY DEF Stepped, Counts

\* An escalation raises the gate over a run without a plan, or does nothing.
LEMMA Escalation ==
    ASSUME gate \in Gates, NEW files, Escalate(files)
    PROVE  /\ gate' \in Gates
           /\ gate'.blocks = gate.blocks
           /\ \/ /\ gate'.active /\ gate'.required /\ gate'.escalated
                 /\ ~plan /\ planned' = FALSE
              \/ /\ ~ShouldEscalate(files)
                 /\ gate' = gate /\ planned' = planned
<1>1. CASE ShouldEscalate(files)
  <2>1. /\ gate' = [gate EXCEPT !.active = TRUE, !.required = TRUE,
                                !.escalated = TRUE]
        /\ planned' = FALSE /\ ~plan
    BY <1>1 DEF Escalate, ShouldEscalate
  <2> QED
    BY <2>1 DEF Gates
<1>2. CASE ~ShouldEscalate(files)
  BY <1>2 DEF Escalate
<1> QED
  BY <1>1, <1>2

\* The classification sets the gate anew.
LEMMA Classified ==
    ASSUME gate \in Gates, gate.blocks < MaxBlocked, Classify
    PROVE  gate' \in Gates /\ gate'.blocks < MaxBlocked
<1>1. 0 \in 0 .. MaxBlocked /\ 0 < MaxBlocked
  BY LoopAssumption
<1>2. CASE UNCHANGED gate
  BY <1>2
<1>3. ASSUME NEW required \in BOOLEAN,
             gate' = [active |-> required, required |-> required,
                      escalated |-> FALSE, blocks |-> 0]
      PROVE  gate' \in Gates /\ gate'.blocks < MaxBlocked
  BY <1>1, <1>3 DEF Gates
<1> QED
  BY <1>2, <1>3 DEF Classify

\* An automatic plan lowers the gate; a stop changes nothing.
LEMMA AutoPlanEffect ==
    ASSUME NEW next, AutoPlan(next)
    PROVE  /\ \/ /\ pc' = "done" /\ outcome' = "Stopped"
                 /\ UNCHANGED planning
              \/ /\ pc' = next /\ outcome' = outcome
                 /\ plan' = TRUE /\ planned' = TRUE /\ ever' = TRUE
                 /\ gate' = Deactivated(gate) /\ executes' = executes
           /\ UNCHANGED <<operator, count, record, batch, workspace, history,
                          late>>
  BY Zenon DEF AutoPlan, AutoPlanned, SetPlan, End, Goto

\* An automatic plan keeps the gate well formed and leaves no block counted,
\* unless a stop ends the run there.
LEMMA AutoPlanKeepsGate ==
    ASSUME gate \in Gates, NEW next, AutoPlan(next)
    PROVE  gate' \in Gates /\ (pc' # "done" => gate'.blocks < MaxBlocked)
<1>1. CASE pc' = "done" /\ UNCHANGED planning
  BY <1>1 DEF planning
<1>2. CASE gate' = Deactivated(gate)
  BY <1>2, LoweredGate, LoopAssumption
<1> QED
  BY <1>1, <1>2, AutoPlanEffect

\* An automatic plan starts no skill and is not stopped again.
LEMMA AutoPlanKeepsStop ==
    ASSUME NEW next, next \notin {"authorizing", "granting"}, AutoPlan(next)
    PROVE  /\ late' = late /\ cancelled' = cancelled
           /\ pc' \notin {"authorizing", "granting"}
  BY DEF AutoPlan, End, Goto, operator

\* Recording a call adds what git shows of the run when the call accounts for
\* it, nothing of the baseline that the run left alone, and lets the
\* gate follow.
LEMMA Recorded ==
    ASSUME TypeOK, NEW hints \in SUBSET Files,
           NEW exit \in {"passed", "failed"}, Record(hints, exit)
    PROVE  /\ changed \subseteq changed' /\ changed' \subseteq Files
           /\ Accounts(call.tool) => Reconciled \subseteq changed'
           /\ (changed' \ changed) \cap baseline \subseteq touched
           /\ started' \in BOOLEAN
           /\ \/ Escalate(changed')
              \/ changed' = changed /\ UNCHANGED <<gate, planned>>
              \/ changed' = changed /\ RecordPlan /\ UNCHANGED planned
<1> USE DEF TypeOK, record
<1>0. Reconciled \subseteq Files /\ Reconciled \cap baseline \subseteq touched
  BY DEF Reconciled
<1>1. CASE call.tool = "risky"
  <2>1. RecordRisky(hints) /\ started' = TRUE
    BY <1>1 DEF Record, Verifications
  <2>2. NewlyNamed(hints) \subseteq Files /\ NewlyNamed(hints) \cap baseline = {}
    BY DEF NewlyNamed
  <2> QED
    BY <1>0, <2>1, <2>2 DEF RecordRisky
<1>2. CASE call.tool \in Verifications
  <2>1. RecordVerification
    BY <1>2 DEF Record, Verifications
  <2> QED
    BY <1>0, <2>1 DEF RecordVerification
<1>3. CASE call.tool \in {"write", "git_commit"}
  <2>1. RecordMutation
    BY <1>3 DEF Record, Verifications
  <2>2. call.named \subseteq Files
    BY DEF Calls
  <2> QED
    BY <1>0, <2>1, <2>2 DEF RecordMutation
<1>4. CASE call.tool \in {"update_plan", "clear_plan"}
  BY <1>4 DEF Record, Verifications, Accounts
<1>5. CASE call.tool \notin {"risky", "write", "git_commit", "update_plan",
                             "clear_plan"} \cup Verifications
  BY <1>5 DEF Record, Accounts
<1> QED
  BY <1>1, <1>2, <1>3, <1>4, <1>5

-----------------------------------------------------------------------------
\* The types hold and the places fit.
LEMMA TypeInductive ==
    ASSUME TypeOK, PlacesFit, [Next]_vars
    PROVE  TypeOK' /\ PlacesFit'
<1> USE LoopAssumption DEF TypeOK, PlacesFit, Calling, Places, Outcomes,
              operator, planning, batch, workspace, record, history
<1>a. NoCall \in Calls /\ (left > 0 => left - 1 \in 0 .. MaxBatch)
  BY DEF NoCall, Calls, Tools, BashTools, Verifications
<1>1. Start => TypeOK' /\ PlacesFit'
  BY DEF Start, End, Goto
<1>2. Classify => TypeOK' /\ PlacesFit'
  <2> SUFFICES ASSUME Classify PROVE TypeOK' /\ PlacesFit'
    OBVIOUS
  <2>1. pc = "classify"
    BY DEF Classify
  <2>2. gate' \in Gates /\ gate'.blocks < MaxBlocked
    BY <2>1, Classified
  <2> QED
    BY <2>2 DEF Classify, End, Goto
<1>3. TopOfLoop => TypeOK' /\ PlacesFit'
  BY DEF TopOfLoop, PlanMissing, ResearchIsOver, End, Goto, Counts
<1>4. ModelStopped => TypeOK' /\ PlacesFit'
  BY DEF ModelStopped, End
<1>5. ModelFails => TypeOK' /\ PlacesFit'
  BY DEF ModelFails, Answering, Retried, End, Goto, Counts
<1>6. EmptyAnswer => TypeOK' /\ PlacesFit'
  BY StepTaken DEF EmptyAnswer, Answering, End, Goto, Counts
<1>7. OtherAnswer => TypeOK' /\ PlacesFit'
  BY DEF OtherAnswer, Answering, Stepped, End, Goto, Counts
<1>8. RedirectText => TypeOK' /\ PlacesFit'
  BY StepTaken DEF RedirectText, Answering, PlanMissing, Goto, Counts
<1>9. FinalText => TypeOK' /\ PlacesFit'
  BY DEF FinalText, Answering, PlanMissing, Stepped, End, Goto, Counts
<1>10. \A n \in 1 .. MaxBatch : ToolCalls(n) => TypeOK' /\ PlacesFit'
  BY DEF ToolCalls, Answering, Stepped, Goto, Counts
<1>11. AutoPlanForModel => TypeOK' /\ PlacesFit'
  <2> SUFFICES ASSUME AutoPlanForModel PROVE TypeOK' /\ PlacesFit'
    OBVIOUS
  <2>1. gate' \in Gates /\ (pc' # "done" => gate'.blocks < MaxBlocked)
    BY AutoPlanKeepsGate DEF AutoPlanForModel
  <2> QED
    BY <2>1 DEF AutoPlanForModel, AutoPlan, SetPlan, End, Goto
<1>12. AutoPlanForLoop => TypeOK' /\ PlacesFit'
  <2> SUFFICES ASSUME AutoPlanForLoop PROVE TypeOK' /\ PlacesFit'
    OBVIOUS
  <2>1. gate' \in Gates /\ (pc' # "done" => gate'.blocks < MaxBlocked)
    BY AutoPlanKeepsGate DEF AutoPlanForLoop
  <2> QED
    BY <2>1 DEF AutoPlanForLoop, AutoPlan, SetPlan, End, Goto
<1>13. AutoPlanForBatch => TypeOK' /\ PlacesFit'
  <2> SUFFICES ASSUME AutoPlanForBatch PROVE TypeOK' /\ PlacesFit'
    OBVIOUS
  <2>1. gate' \in Gates /\ (pc' # "done" => gate'.blocks < MaxBlocked)
    BY AutoPlanKeepsGate DEF AutoPlanForBatch
  <2> QED
    BY <2>1 DEF AutoPlanForBatch, AutoPlan, SetPlan, End, Goto
<1>14. \A t \in Tools : BlockForPlan(t) => TypeOK' /\ PlacesFit'
  BY <1>a DEF BlockForPlan, PlanningBlocks, PlanMissing, BlockedEnough, Skip,
     Goto, Gates
<1>15. \A t \in Tools : Block(t) => TypeOK' /\ PlacesFit'
  BY <1>a DEF Block, PlanningBlocks, PreExecutionBlocks, Skip
<1>16. \A t \in Tools : Pass(t) => TypeOK' /\ PlacesFit'
  BY DEF Pass, PlanningBlocks, PreExecutionBlocks, PlanMissing,
     NeedsApproval, Goto, Calls
<1>17. EndBatch => TypeOK' /\ PlacesFit'
  BY DEF EndBatch, Goto, Counts
<1>18. Approve => TypeOK' /\ PlacesFit'
  BY DEF Approve, Goto
<1>19. Deny => TypeOK' /\ PlacesFit'
  BY <1>a DEF Deny, Refusal, Skip, Goto
<1>20. ExpireApproval => TypeOK' /\ PlacesFit'
  BY <1>a DEF ExpireApproval, Refusal, Skip, Goto
<1>21. ReturnPending => TypeOK' /\ PlacesFit'
  BY DEF ReturnPending, End
<1>22. Execute => TypeOK' /\ PlacesFit'
  BY DEF Execute, StopSeen, End, Goto
<1>23. DenySkill => TypeOK' /\ PlacesFit'
  BY <1>a DEF DenySkill, Skip, Goto
<1>24. AskCapability => TypeOK' /\ PlacesFit'
  BY DEF AskCapability, Goto
<1>25. Authorized => TypeOK' /\ PlacesFit'
  BY <1>a DEF Authorized, StartSkill, Skip, Goto
<1>26. Grant => TypeOK' /\ PlacesFit'
  BY <1>a DEF Grant, StartSkill, Skip, Goto
<1>27. DenyGrant => TypeOK' /\ PlacesFit'
  BY <1>a DEF DenyGrant, Refusal, Skip, Goto
<1>28. ExpireGrant => TypeOK' /\ PlacesFit'
  BY <1>a DEF ExpireGrant, Refusal, Skip, Goto
<1>29. \A w, named, gone \in SUBSET Files :
       SkillSucceeds(w, named, gone) => TypeOK' /\ PlacesFit'
  <2> SUFFICES ASSUME NEW w \in SUBSET Files, NEW named \in SUBSET Files,
                      NEW gone \in SUBSET Files, SkillSucceeds(w, named, gone)
               PROVE  TypeOK' /\ PlacesFit'
    OBVIOUS
  <2>1. /\ call' = [call EXCEPT !.named = named]
        /\ plan' \in BOOLEAN /\ planned' \in BOOLEAN /\ ever' \in BOOLEAN
    BY DEF SkillSucceeds, SetPlan
  <2>2. call' \in Calls
    BY <2>1 DEF Calls
  <2> QED
    BY <2>1, <2>2 DEF SkillSucceeds, Work, Goto
<1>30. \A w \in SUBSET Files : SkillFails(w) => TypeOK' /\ PlacesFit'
  BY <1>a DEF SkillFails, Work, Skip, Goto
<1>31. StoppedAfterSkill => TypeOK' /\ PlacesFit'
  BY DEF StoppedAfterSkill, End
<1>32. \A hints \in SUBSET Files, exit \in {"passed", "failed"} :
       Record(hints, exit) => TypeOK' /\ PlacesFit'
  <2> SUFFICES ASSUME NEW hints \in SUBSET Files,
                      NEW exit \in {"passed", "failed"}, Record(hints, exit)
               PROVE  TypeOK' /\ PlacesFit'
    OBVIOUS
  <2>a. pc = "record" /\ 0 < MaxBlocked
    BY DEF Record
  <2>b. /\ gate' \in Gates /\ planned' \in BOOLEAN
        /\ gate'.blocks < MaxBlocked
    <3>1. CASE Escalate(changed')
      BY <2>a, <3>1, Escalation
    <3>2. CASE UNCHANGED <<gate, planned>>
      BY <2>a, <3>2
    <3>3. CASE RecordPlan /\ UNCHANGED planned
      BY <2>a, <3>3, LoweredGate DEF RecordPlan
    <3> QED
      BY <3>1, <3>2, <3>3, Recorded
  <2>1. changed' \subseteq Files /\ started' \in BOOLEAN
    BY Recorded
  <2>2. /\ verified' \in {"none", "passed", "failed"}
        /\ pc = "record" /\ pc' = "batch" /\ outcome' = outcome
        /\ left' = left - 1 /\ call' = NoCall
        /\ UNCHANGED <<cancelled, waits, count, executes, plan, ever, dirty,
                       baseline, touched, late>>
        /\ receipts' \subseteq Files /\ unrecorded' \subseteq Files
    BY DEF Record, Goto
  <2> QED
    BY <1>a, <2>a, <2>b, <2>1, <2>2
<1>33. SkipFollowUp => TypeOK' /\ PlacesFit'
  BY DEF SkipFollowUp, End
<1>34. AskFollowUp => TypeOK' /\ PlacesFit'
  BY DEF AskFollowUp, Goto
<1>35. RunFollowUp => TypeOK' /\ PlacesFit'
  BY DEF RunFollowUp, StartFollowUp, End, Goto
<1>36. GrantFollowUp => TypeOK' /\ PlacesFit'
  BY DEF GrantFollowUp, StartFollowUp, End, Goto
<1>37. DenyFollowUp => TypeOK' /\ PlacesFit'
  BY DEF DenyFollowUp, End
<1>38. \A w \in SUBSET Files, exit \in {"passed", "failed", "none"} :
       FollowUpEnds(w, exit) => TypeOK' /\ PlacesFit'
  BY DEF FollowUpEnds, Work, End
<1>39. Cancel => TypeOK' /\ PlacesFit'
  BY DEF Cancel
<1>40. UNCHANGED vars => TypeOK' /\ PlacesFit'
  BY DEF vars
<1> QED
  BY <1>1, <1>2, <1>3, <1>4, <1>5, <1>6, <1>7, <1>8, <1>9, <1>10, <1>11,
     <1>12, <1>13, <1>14, <1>15, <1>16, <1>17, <1>18, <1>19, <1>20, <1>21,
     <1>22, <1>23, <1>24, <1>25, <1>26, <1>27, <1>28, <1>29, <1>30, <1>31,
     <1>32, <1>33, <1>34, <1>35, <1>36, <1>37, <1>38, <1>39, <1>40
     DEF Next, Step, Answer, Plan, SkillEnds, Decision, TakeCall

\* The gate holds.
LEMMA GateInductive ==
    ASSUME TypeOK, PlacesFit, GateHolds, [Next]_vars
    PROVE  GateHolds'
<1> USE DEF TypeOK, PlacesFit, GateHolds, Calling, FollowingUp, MayMutate,
           Accounts, Verifications, operator, planning, batch, workspace, record, history
<1>1. Start => GateHolds'
  BY DEF Start, End, Goto
<1>2. Classify => GateHolds'
  BY DEF Classify, End, Goto, Gates
<1>3. TopOfLoop => GateHolds'
  BY DEF TopOfLoop, PlanMissing, ResearchIsOver, End, Goto
<1>4. ModelStopped => GateHolds'
  BY DEF ModelStopped, End
<1>5. ModelFails => GateHolds'
  BY DEF ModelFails, Answering, Retried, End, Goto
<1>6. EmptyAnswer => GateHolds'
  BY DEF EmptyAnswer, Answering, Stepped, End, Goto
<1>7. OtherAnswer => GateHolds'
  BY DEF OtherAnswer, Answering, Stepped, End, Goto
<1>8. RedirectText => GateHolds'
  BY DEF RedirectText, Answering, PlanMissing, Stepped, Goto
<1>9. FinalText => GateHolds'
  BY DEF FinalText, Answering, PlanMissing, Stepped, End, Goto
<1>10. \A n \in 1 .. MaxBatch : ToolCalls(n) => GateHolds'
  BY DEF ToolCalls, Answering, Stepped, Goto
<1>11. AutoPlanForModel => GateHolds'
  BY AutoPlanEffect, LoweredGate DEF AutoPlanForModel
<1>12. AutoPlanForLoop => GateHolds'
  BY AutoPlanEffect, LoweredGate DEF AutoPlanForLoop
<1>13. AutoPlanForBatch => GateHolds'
  BY AutoPlanEffect, LoweredGate DEF AutoPlanForBatch
<1>14. \A t \in Tools : BlockForPlan(t) => GateHolds'
  BY DEF BlockForPlan, PlanningBlocks, PlanMissing, BlockedEnough, Skip,
     NoCall, Goto, Gates
<1>15. \A t \in Tools : Block(t) => GateHolds'
  BY DEF Block, PlanningBlocks, PreExecutionBlocks, Skip, NoCall
<1>16. \A t \in Tools : Pass(t) => GateHolds'
  BY DEF Pass, PlanningBlocks, PreExecutionBlocks, PlanMissing,
     NeedsApproval, Goto
<1>17. EndBatch => GateHolds'
  BY DEF EndBatch, Goto
<1>18. Approve => GateHolds'
  BY DEF Approve, Goto
<1>19. Deny => GateHolds'
  BY DEF Deny, Refusal, Skip, NoCall, Goto
<1>20. ExpireApproval => GateHolds'
  BY DEF ExpireApproval, Refusal, Skip, NoCall, Goto
<1>21. ReturnPending => GateHolds'
  BY DEF ReturnPending, End
<1>22. Execute => GateHolds'
  BY DEF Execute, StopSeen, End, Goto
<1>23. DenySkill => GateHolds'
  BY DEF DenySkill, Skip, NoCall, Goto
<1>24. AskCapability => GateHolds'
  BY DEF AskCapability, DeniedInPhase, PlanMissing, Goto
<1>25. Authorized => GateHolds'
  BY DEF Authorized, DeniedInPhase, PlanMissing, StartSkill, Skip, NoCall, Goto
<1>26. Grant => GateHolds'
  BY DEF Grant, StartSkill, Skip, NoCall, Goto
<1>27. DenyGrant => GateHolds'
  BY DEF DenyGrant, Refusal, Skip, NoCall, Goto
<1>28. ExpireGrant => GateHolds'
  BY DEF ExpireGrant, Refusal, Skip, NoCall, Goto
<1>29. \A w, named, gone \in SUBSET Files :
       SkillSucceeds(w, named, gone) => GateHolds'
  BY DEF SkillSucceeds, Work, SetPlan, Goto
<1>30. \A w \in SUBSET Files : SkillFails(w) => GateHolds'
  BY DEF SkillFails, Work, Skip, NoCall, Goto
<1>31. StoppedAfterSkill => GateHolds'
  BY DEF StoppedAfterSkill, End
<1>32. \A hints \in SUBSET Files, exit \in {"passed", "failed"} :
       Record(hints, exit) => GateHolds'
  <2> SUFFICES ASSUME NEW hints \in SUBSET Files,
                      NEW exit \in {"passed", "failed"}, Record(hints, exit)
               PROVE  GateHolds'
    OBVIOUS
  <2>1. /\ pc' = "batch" /\ outcome' = "Unknown"
        /\ plan' = plan /\ ever' = ever
    BY DEF Record, Goto
  <2>2. CASE Escalate(changed')
    BY <2>1, <2>2, Escalation
  <2>3. CASE UNCHANGED <<gate, planned>>
    BY <2>1, <2>3
  <2>4. CASE RecordPlan /\ UNCHANGED planned
    BY <2>1, <2>4, LoweredGate DEF RecordPlan
  <2> QED
    BY <2>2, <2>3, <2>4, Recorded
<1>33. SkipFollowUp => GateHolds'
  BY DEF SkipFollowUp, End
<1>34. AskFollowUp => GateHolds'
  BY DEF AskFollowUp, Goto
<1>35. RunFollowUp => GateHolds'
  BY DEF RunFollowUp, StartFollowUp, End, Goto
<1>36. GrantFollowUp => GateHolds'
  BY DEF GrantFollowUp, StartFollowUp, End, Goto
<1>37. DenyFollowUp => GateHolds'
  BY DEF DenyFollowUp, End
<1>38. \A w \in SUBSET Files, exit \in {"passed", "failed", "none"} :
       FollowUpEnds(w, exit) => GateHolds'
  BY DEF FollowUpEnds, Work, End
<1>39. Cancel => GateHolds'
  BY DEF Cancel
<1>40. UNCHANGED vars => GateHolds'
  BY DEF vars
<1> QED
  BY <1>1, <1>2, <1>3, <1>4, <1>5, <1>6, <1>7, <1>8, <1>9, <1>10, <1>11,
     <1>12, <1>13, <1>14, <1>15, <1>16, <1>17, <1>18, <1>19, <1>20, <1>21,
     <1>22, <1>23, <1>24, <1>25, <1>26, <1>27, <1>28, <1>29, <1>30, <1>31,
     <1>32, <1>33, <1>34, <1>35, <1>36, <1>37, <1>38, <1>39, <1>40
     DEF Next, Step, Answer, Plan, SkillEnds, Decision, TakeCall

\* The stop is seen.
LEMMA StopInductive ==
    ASSUME TypeOK, StopHolds, [Next]_vars
    PROVE  StopHolds'
<1> USE DEF TypeOK, StopHolds, operator, planning, batch, workspace, record, history
<1>1. Start => StopHolds'
  BY DEF Start, End, Goto
<1>2. Classify => StopHolds'
  BY DEF Classify, End, Goto
<1>3. TopOfLoop => StopHolds'
  BY DEF TopOfLoop, PlanMissing, ResearchIsOver, End, Goto
<1>4. ModelStopped => StopHolds'
  BY DEF ModelStopped, End
<1>5. ModelFails => StopHolds'
  BY DEF ModelFails, Answering, Retried, End, Goto
<1>6. EmptyAnswer => StopHolds'
  BY DEF EmptyAnswer, Answering, Stepped, End, Goto
<1>7. OtherAnswer => StopHolds'
  BY DEF OtherAnswer, Answering, Stepped, End, Goto
<1>8. RedirectText => StopHolds'
  BY DEF RedirectText, Answering, PlanMissing, Stepped, Goto
<1>9. FinalText => StopHolds'
  BY DEF FinalText, Answering, PlanMissing, Stepped, End, Goto
<1>10. \A n \in 1 .. MaxBatch : ToolCalls(n) => StopHolds'
  BY DEF ToolCalls, Answering, Stepped, Goto
<1>11. AutoPlanForModel => StopHolds'
  BY AutoPlanKeepsStop DEF AutoPlanForModel
<1>12. AutoPlanForLoop => StopHolds'
  BY AutoPlanKeepsStop DEF AutoPlanForLoop
<1>13. AutoPlanForBatch => StopHolds'
  BY AutoPlanKeepsStop DEF AutoPlanForBatch
<1>14. \A t \in Tools : BlockForPlan(t) => StopHolds'
  BY DEF BlockForPlan, PlanningBlocks, PlanMissing, BlockedEnough, Skip,
     NoCall, Goto
<1>15. \A t \in Tools : Block(t) => StopHolds'
  BY DEF Block, PlanningBlocks, PreExecutionBlocks, Skip, NoCall
<1>16. \A t \in Tools : Pass(t) => StopHolds'
  BY DEF Pass, PlanningBlocks, PreExecutionBlocks, PlanMissing,
     NeedsApproval, Goto
<1>17. EndBatch => StopHolds'
  BY DEF EndBatch, Goto
<1>18. Approve => StopHolds'
  BY DEF Approve, Goto
<1>19. Deny => StopHolds'
  BY DEF Deny, Refusal, Skip, NoCall, Goto
<1>20. ExpireApproval => StopHolds'
  BY DEF ExpireApproval, Refusal, Skip, NoCall, Goto
<1>21. ReturnPending => StopHolds'
  BY DEF ReturnPending, End
<1>22. Execute => StopHolds'
  BY DEF Execute, StopSeen, End, Goto
<1>23. DenySkill => StopHolds'
  BY DEF DenySkill, Skip, NoCall, Goto
<1>24. AskCapability => StopHolds'
  BY DEF AskCapability, Goto
<1>25. Authorized => StopHolds'
  BY DEF Authorized, StartSkill, Skip, NoCall, Goto
<1>26. Grant => StopHolds'
  BY DEF Grant, StartSkill, Skip, NoCall, Goto
<1>27. DenyGrant => StopHolds'
  BY DEF DenyGrant, Refusal, Skip, NoCall, Goto
<1>28. ExpireGrant => StopHolds'
  BY DEF ExpireGrant, Refusal, Skip, NoCall, Goto
<1>29. \A w, named, gone \in SUBSET Files :
       SkillSucceeds(w, named, gone) => StopHolds'
  BY DEF SkillSucceeds, Work, SetPlan, Goto
<1>30. \A w \in SUBSET Files : SkillFails(w) => StopHolds'
  BY DEF SkillFails, Work, Skip, NoCall, Goto
<1>31. StoppedAfterSkill => StopHolds'
  BY DEF StoppedAfterSkill, End
<1>32. \A hints \in SUBSET Files, exit \in {"passed", "failed"} :
       Record(hints, exit) => StopHolds'
  BY DEF Record
<1>33. SkipFollowUp => StopHolds'
  BY DEF SkipFollowUp, End
<1>34. AskFollowUp => StopHolds'
  BY DEF AskFollowUp, Goto
<1>35. RunFollowUp => StopHolds'
  BY DEF RunFollowUp, StartFollowUp, End, Goto
<1>36. GrantFollowUp => StopHolds'
  BY DEF GrantFollowUp, StartFollowUp, End, Goto
<1>37. DenyFollowUp => StopHolds'
  BY DEF DenyFollowUp, End
<1>38. \A w \in SUBSET Files, exit \in {"passed", "failed", "none"} :
       FollowUpEnds(w, exit) => StopHolds'
  BY DEF FollowUpEnds, Work, End
<1>39. Cancel => StopHolds'
  BY DEF Cancel
<1>40. UNCHANGED vars => StopHolds'
  BY DEF vars
<1> QED
  BY <1>1, <1>2, <1>3, <1>4, <1>5, <1>6, <1>7, <1>8, <1>9, <1>10, <1>11,
     <1>12, <1>13, <1>14, <1>15, <1>16, <1>17, <1>18, <1>19, <1>20, <1>21,
     <1>22, <1>23, <1>24, <1>25, <1>26, <1>27, <1>28, <1>29, <1>30, <1>31,
     <1>32, <1>33, <1>34, <1>35, <1>36, <1>37, <1>38, <1>39, <1>40
     DEF Next, Step, Answer, Plan, SkillEnds, Decision, TakeCall

\* Receipts and changed files agree.
LEMMA ReceiptsInductive ==
    ASSUME TypeOK, PlacesFit, ReceiptsHold, [Next]_vars
    PROVE  ReceiptsHold'
<1> USE DEF TypeOK, PlacesFit, ReceiptsHold, Calling, operator, planning,
     batch,
           workspace, record, history
<1>1. Start => ReceiptsHold'
  BY DEF Start, End, Goto
<1>2. Classify => ReceiptsHold'
  BY DEF Classify, End, Goto
<1>3. TopOfLoop => ReceiptsHold'
  BY DEF TopOfLoop, PlanMissing, ResearchIsOver, End, Goto
<1>4. ModelStopped => ReceiptsHold'
  BY DEF ModelStopped, End
<1>5. ModelFails => ReceiptsHold'
  BY DEF ModelFails, Answering, Retried, End, Goto
<1>6. EmptyAnswer => ReceiptsHold'
  BY DEF EmptyAnswer, Answering, Stepped, End, Goto
<1>7. OtherAnswer => ReceiptsHold'
  BY DEF OtherAnswer, Answering, Stepped, End, Goto
<1>8. RedirectText => ReceiptsHold'
  BY DEF RedirectText, Answering, PlanMissing, Stepped, Goto
<1>9. FinalText => ReceiptsHold'
  BY DEF FinalText, Answering, PlanMissing, Stepped, End, Goto
<1>10. \A n \in 1 .. MaxBatch : ToolCalls(n) => ReceiptsHold'
  BY DEF ToolCalls, Answering, Stepped, Goto
<1>11. AutoPlanForModel => ReceiptsHold'
  BY AutoPlanEffect DEF AutoPlanForModel
<1>12. AutoPlanForLoop => ReceiptsHold'
  BY AutoPlanEffect DEF AutoPlanForLoop
<1>13. AutoPlanForBatch => ReceiptsHold'
  BY AutoPlanEffect DEF AutoPlanForBatch
<1>14. \A t \in Tools : BlockForPlan(t) => ReceiptsHold'
  BY DEF BlockForPlan, PlanningBlocks, PlanMissing, BlockedEnough, Skip,
     NoCall, Goto
<1>15. \A t \in Tools : Block(t) => ReceiptsHold'
  BY DEF Block, PlanningBlocks, PreExecutionBlocks, Skip, NoCall
<1>16. \A t \in Tools : Pass(t) => ReceiptsHold'
  BY DEF Pass, PlanningBlocks, PreExecutionBlocks, PlanMissing,
     NeedsApproval, Goto
<1>17. EndBatch => ReceiptsHold'
  BY DEF EndBatch, Goto
<1>18. Approve => ReceiptsHold'
  BY DEF Approve, Goto
<1>19. Deny => ReceiptsHold'
  BY DEF Deny, Refusal, Skip, NoCall, Goto
<1>20. ExpireApproval => ReceiptsHold'
  BY DEF ExpireApproval, Refusal, Skip, NoCall, Goto
<1>21. ReturnPending => ReceiptsHold'
  BY DEF ReturnPending, End
<1>22. Execute => ReceiptsHold'
  BY DEF Execute, StopSeen, End, Goto
<1>23. DenySkill => ReceiptsHold'
  BY DEF DenySkill, Skip, NoCall, Goto
<1>24. AskCapability => ReceiptsHold'
  BY DEF AskCapability, Goto
<1>25. Authorized => ReceiptsHold'
  BY DEF Authorized, StartSkill, Skip, NoCall, Goto
<1>26. Grant => ReceiptsHold'
  BY DEF Grant, StartSkill, Skip, NoCall, Goto
<1>27. DenyGrant => ReceiptsHold'
  BY DEF DenyGrant, Refusal, Skip, NoCall, Goto
<1>28. ExpireGrant => ReceiptsHold'
  BY DEF ExpireGrant, Refusal, Skip, NoCall, Goto
<1>29. \A w, named, gone \in SUBSET Files :
       SkillSucceeds(w, named, gone) => ReceiptsHold'
  <2> SUFFICES ASSUME NEW w \in SUBSET Files, NEW named \in SUBSET Files,
                      NEW gone \in SUBSET Files, SkillSucceeds(w, named, gone)
               PROVE  ReceiptsHold'
    OBVIOUS
  <2>1. /\ changed' = changed /\ receipts' = receipts
        /\ baseline' = baseline /\ touched' = touched \cup w
        /\ dirty' = (dirty \cup w) \ gone
        /\ unrecorded' = (unrecorded \cup w) \ gone
    BY DEF SkillSucceeds, Work, Goto
  <2> QED
    BY <2>1
<1>30. \A w \in SUBSET Files : SkillFails(w) => ReceiptsHold'
  BY DEF SkillFails, Work, Skip, NoCall, Goto
<1>31. StoppedAfterSkill => ReceiptsHold'
  BY DEF StoppedAfterSkill, End
<1>32. \A hints \in SUBSET Files, exit \in {"passed", "failed"} :
       Record(hints, exit) => ReceiptsHold'
  <2> SUFFICES ASSUME NEW hints \in SUBSET Files,
                      NEW exit \in {"passed", "failed"}, Record(hints, exit)
               PROVE  ReceiptsHold'
    OBVIOUS
  <2>1. /\ UNCHANGED <<dirty, touched, baseline>>
        /\ \/ /\ Accounts(call.tool)
              /\ receipts' = receipts \cup unrecorded /\ unrecorded' = {}
           \/ UNCHANGED <<receipts, unrecorded>>
    BY DEF Record
  <2>2. dirty \cap touched \subseteq Reconciled
    BY DEF Reconciled
  <2>3. /\ changed \subseteq changed'
        /\ Accounts(call.tool) => Reconciled \subseteq changed'
        /\ (changed' \ changed) \cap baseline \subseteq touched
    BY Recorded
  <2> QED
    BY <2>1, <2>2, <2>3
<1>33. SkipFollowUp => ReceiptsHold'
  BY DEF SkipFollowUp, End
<1>34. AskFollowUp => ReceiptsHold'
  BY DEF AskFollowUp, Goto
<1>35. RunFollowUp => ReceiptsHold'
  BY DEF RunFollowUp, StartFollowUp, End, Goto
<1>36. GrantFollowUp => ReceiptsHold'
  BY DEF GrantFollowUp, StartFollowUp, End, Goto
<1>37. DenyFollowUp => ReceiptsHold'
  BY DEF DenyFollowUp, End
<1>38. \A w \in SUBSET Files, exit \in {"passed", "failed", "none"} :
       FollowUpEnds(w, exit) => ReceiptsHold'
  BY DEF FollowUpEnds, Work, End
<1>39. Cancel => ReceiptsHold'
  BY DEF Cancel
<1>40. UNCHANGED vars => ReceiptsHold'
  BY DEF vars
<1> QED
  BY <1>1, <1>2, <1>3, <1>4, <1>5, <1>6, <1>7, <1>8, <1>9, <1>10, <1>11,
     <1>12, <1>13, <1>14, <1>15, <1>16, <1>17, <1>18, <1>19, <1>20, <1>21,
     <1>22, <1>23, <1>24, <1>25, <1>26, <1>27, <1>28, <1>29, <1>30, <1>31,
     <1>32, <1>33, <1>34, <1>35, <1>36, <1>37, <1>38, <1>39, <1>40
     DEF Next, Step, Answer, Plan, SkillEnds, Decision, TakeCall

\* The budgets have room and no change is missed.
LEMMA BoundInductive ==
    ASSUME TypeOK, PlacesFit, GateHolds, PlanningIsBounded,
           UnplannedChangesEscalate, [Next]_vars
    PROVE  PlanningIsBounded' /\ UnplannedChangesEscalate'
<1> USE DEF TypeOK, PlacesFit, GateHolds, PlanningIsBounded,
           UnplannedChangesEscalate, PlanMissing, operator, planning, batch,
           workspace, record, history
<1>1. Start => PlanningIsBounded' /\ UnplannedChangesEscalate'
  BY DEF Start, End, Goto
<1>2. Classify => PlanningIsBounded' /\ UnplannedChangesEscalate'
  <2> SUFFICES ASSUME Classify
               PROVE  PlanningIsBounded' /\ UnplannedChangesEscalate'
    OBVIOUS
  <2>1. changed' = {} /\ pc' # "model"
    BY DEF Classify, End, Goto
  <2>2. Cardinality(changed') < Threshold /\ Cardinality(changed') = 0
    BY <2>1, LoopAssumption, FS_EmptySet
  <2>3. Threshold \in Nat \ {0}
    BY LoopAssumption
  <2> QED
    BY ONLY <2>1, <2>2, <2>3 DEF PlanningIsBounded, UnplannedChangesEscalate
<1>3. TopOfLoop => PlanningIsBounded' /\ UnplannedChangesEscalate'
  BY LoopAssumption DEF TopOfLoop, PlanMissing, ResearchIsOver, End, Goto,
     Counts
<1>4. ModelStopped => PlanningIsBounded' /\ UnplannedChangesEscalate'
  BY DEF ModelStopped, End
<1>5. ModelFails => PlanningIsBounded' /\ UnplannedChangesEscalate'
  BY DEF ModelFails, Answering, Retried, End, Goto
<1>6. EmptyAnswer => PlanningIsBounded' /\ UnplannedChangesEscalate'
  BY DEF EmptyAnswer, Answering, Stepped, End, Goto
<1>7. OtherAnswer => PlanningIsBounded' /\ UnplannedChangesEscalate'
  BY DEF OtherAnswer, Answering, Stepped, End, Goto
<1>8. RedirectText => PlanningIsBounded' /\ UnplannedChangesEscalate'
  BY DEF RedirectText, Answering, PlanMissing, Stepped, Goto
<1>9. FinalText => PlanningIsBounded' /\ UnplannedChangesEscalate'
  BY DEF FinalText, Answering, PlanMissing, Stepped, End, Goto
<1>10. \A n \in 1 .. MaxBatch : ToolCalls(n) => PlanningIsBounded' /\ UnplannedChangesEscalate'
  BY DEF ToolCalls, Answering, Stepped, Goto
<1>11. AutoPlanForModel => PlanningIsBounded' /\ UnplannedChangesEscalate'
  BY AutoPlanEffect, LoweredGate DEF AutoPlanForModel
<1>12. AutoPlanForLoop => PlanningIsBounded' /\ UnplannedChangesEscalate'
  BY AutoPlanEffect, LoweredGate DEF AutoPlanForLoop
<1>13. AutoPlanForBatch => PlanningIsBounded' /\ UnplannedChangesEscalate'
  BY AutoPlanEffect, LoweredGate DEF AutoPlanForBatch
<1>14. \A t \in Tools : BlockForPlan(t) => PlanningIsBounded' /\ UnplannedChangesEscalate'
  BY DEF BlockForPlan, PlanningBlocks, PlanMissing, BlockedEnough, Skip,
     NoCall, Goto
<1>15. \A t \in Tools : Block(t) => PlanningIsBounded' /\ UnplannedChangesEscalate'
  BY DEF Block, PlanningBlocks, PreExecutionBlocks, Skip, NoCall
<1>16. \A t \in Tools : Pass(t) => PlanningIsBounded' /\ UnplannedChangesEscalate'
  BY DEF Pass, PlanningBlocks, PreExecutionBlocks, PlanMissing,
     NeedsApproval, Goto
<1>17. EndBatch => PlanningIsBounded' /\ UnplannedChangesEscalate'
  BY DEF EndBatch, Goto
<1>18. Approve => PlanningIsBounded' /\ UnplannedChangesEscalate'
  BY DEF Approve, Goto
<1>19. Deny => PlanningIsBounded' /\ UnplannedChangesEscalate'
  BY DEF Deny, Refusal, Skip, NoCall, Goto
<1>20. ExpireApproval => PlanningIsBounded' /\ UnplannedChangesEscalate'
  BY DEF ExpireApproval, Refusal, Skip, NoCall, Goto
<1>21. ReturnPending => PlanningIsBounded' /\ UnplannedChangesEscalate'
  BY DEF ReturnPending, End
<1>22. Execute => PlanningIsBounded' /\ UnplannedChangesEscalate'
  BY DEF Execute, StopSeen, End, Goto
<1>23. DenySkill => PlanningIsBounded' /\ UnplannedChangesEscalate'
  BY DEF DenySkill, Skip, NoCall, Goto
<1>24. AskCapability => PlanningIsBounded' /\ UnplannedChangesEscalate'
  BY DEF AskCapability, Goto
<1>25. Authorized => PlanningIsBounded' /\ UnplannedChangesEscalate'
  BY DEF Authorized, StartSkill, Skip, NoCall, Goto
<1>26. Grant => PlanningIsBounded' /\ UnplannedChangesEscalate'
  BY DEF Grant, StartSkill, Skip, NoCall, Goto
<1>27. DenyGrant => PlanningIsBounded' /\ UnplannedChangesEscalate'
  BY DEF DenyGrant, Refusal, Skip, NoCall, Goto
<1>28. ExpireGrant => PlanningIsBounded' /\ UnplannedChangesEscalate'
  BY DEF ExpireGrant, Refusal, Skip, NoCall, Goto
<1>29. \A w, named, gone \in SUBSET Files :
       SkillSucceeds(w, named,
     gone) => PlanningIsBounded' /\ UnplannedChangesEscalate'
  BY DEF SkillSucceeds, Work, SetPlan, Goto
<1>30. \A w \in SUBSET Files : SkillFails(w) => PlanningIsBounded' /\ UnplannedChangesEscalate'
  BY DEF SkillFails, Work, Skip, NoCall, Goto
<1>31. StoppedAfterSkill => PlanningIsBounded' /\ UnplannedChangesEscalate'
  BY DEF StoppedAfterSkill, End
<1>32. \A hints \in SUBSET Files, exit \in {"passed", "failed"} :
       Record(hints, exit) => PlanningIsBounded' /\ UnplannedChangesEscalate'
  <2> SUFFICES ASSUME NEW hints \in SUBSET Files,
                      NEW exit \in {"passed", "failed"}, Record(hints, exit)
               PROVE  PlanningIsBounded' /\ UnplannedChangesEscalate'
    OBVIOUS
  <2>1. pc' = "batch" /\ plan' = plan /\ ever' = ever
    BY DEF Record, Goto
  <2>2. CASE Escalate(changed')
    BY <2>1, <2>2, Escalation DEF ShouldEscalate
  <2>3. CASE changed' = changed /\ UNCHANGED <<gate, planned>>
    BY <2>1, <2>3
  <2>4. CASE changed' = changed /\ RecordPlan /\ UNCHANGED planned
    BY <2>1, <2>4, LoweredGate DEF RecordPlan
  <2> QED
    BY <2>2, <2>3, <2>4, Recorded
<1>33. SkipFollowUp => PlanningIsBounded' /\ UnplannedChangesEscalate'
  BY DEF SkipFollowUp, End
<1>34. AskFollowUp => PlanningIsBounded' /\ UnplannedChangesEscalate'
  BY DEF AskFollowUp, Goto
<1>35. RunFollowUp => PlanningIsBounded' /\ UnplannedChangesEscalate'
  BY DEF RunFollowUp, StartFollowUp, End, Goto
<1>36. GrantFollowUp => PlanningIsBounded' /\ UnplannedChangesEscalate'
  BY DEF GrantFollowUp, StartFollowUp, End, Goto
<1>37. DenyFollowUp => PlanningIsBounded' /\ UnplannedChangesEscalate'
  BY DEF DenyFollowUp, End
<1>38. \A w \in SUBSET Files, exit \in {"passed", "failed", "none"} :
       FollowUpEnds(w,
     exit) => PlanningIsBounded' /\ UnplannedChangesEscalate'
  BY DEF FollowUpEnds, Work, End
<1>39. Cancel => PlanningIsBounded' /\ UnplannedChangesEscalate'
  BY DEF Cancel
<1>40. UNCHANGED vars => PlanningIsBounded' /\ UnplannedChangesEscalate'
  BY DEF vars
<1> QED
  BY <1>1, <1>2, <1>3, <1>4, <1>5, <1>6, <1>7, <1>8, <1>9, <1>10, <1>11,
     <1>12, <1>13, <1>14, <1>15, <1>16, <1>17, <1>18, <1>19, <1>20, <1>21,
     <1>22, <1>23, <1>24, <1>25, <1>26, <1>27, <1>28, <1>29, <1>30, <1>31,
     <1>32, <1>33, <1>34, <1>35, <1>36, <1>37, <1>38, <1>39, <1>40
     DEF Next, Step, Answer, Plan, SkillEnds, Decision, TakeCall

-----------------------------------------------------------------------------
(* The theorems.                                                           *)

\* Every reachable state of a run satisfies the inductive invariant, whatever
\* the model answers, the operator decides and whenever the stop comes.
THEOREM Invariance == Spec => []IInv
<1>1. Init => IInv
  <2> SUFFICES ASSUME Init PROVE IInv
    OBVIOUS
  <2>a. count \in Counts /\ gate \in Gates /\ call \in Calls
    BY LoopAssumption
       DEF Init, NoCall, Calls, Tools, Counts, Gates
  <2>1. TypeOK
    <3>1. /\ cancelled \in BOOLEAN /\ waits \in BOOLEAN
          /\ pc \in Places /\ outcome \in Outcomes
          /\ executes \in BOOLEAN /\ plan \in BOOLEAN
          /\ planned \in BOOLEAN /\ ever \in BOOLEAN
      BY DEF Init, Places, Outcomes
    <3>2. /\ left \in 0 .. MaxBatch
          /\ dirty \subseteq Files /\ baseline \subseteq Files
          /\ touched \subseteq Files /\ changed \subseteq Files
          /\ receipts \subseteq Files /\ unrecorded \subseteq Files
      BY LoopAssumption DEF Init
    <3>3. /\ started \in BOOLEAN /\ verified \in {"none", "passed", "failed"}
          /\ late \in Nat
      BY DEF Init
    <3> QED
      BY <2>a, <3>1, <3>2, <3>3 DEF TypeOK
  <2>2. Cardinality({}) = 0
    BY FS_EmptySet
  <2> QED
    BY <2>1, <2>2, LoopAssumption
       DEF Init, IInv, PlacesFit, GateHolds, StopHolds, ReceiptsHold, Calling,
           FollowingUp, PlanningIsBounded, UnplannedChangesEscalate
<1>2. IInv /\ [Next]_vars => IInv'
  BY TypeInductive, GateInductive, StopInductive, ReceiptsInductive,
     BoundInductive
     DEF IInv
<1> QED
  BY <1>1, <1>2, PTL DEF Spec

\* The run's state is well typed: no counter passes its bound.
THEOREM TypeCorrect == Spec => []TypeOK
<1>1. IInv => TypeOK
  BY DEF IInv
<1> QED
  BY <1>1, Invariance, PTL

\* Nothing that can change the workspace runs, and no final answer is given,
\* before the plan that the task asks for was made.
THEOREM PlanFirst == Spec => []PlanComesFirst
<1>1. IInv => PlanComesFirst
  BY DEF IInv, GateHolds, PlanComesFirst, Calling
<1> QED
  BY <1>1, Invariance, PTL

\* The budgets of research steps and of blocked calls end planning in time.
THEOREM PlanningBounded == Spec => []PlanningIsBounded
<1>1. IInv => PlanningIsBounded
  BY DEF IInv
<1> QED
  BY <1>1, Invariance, PTL

\* No change escapes the escalation to planning.
THEOREM ChangesEscalate == Spec => []UnplannedChangesEscalate
<1>1. IInv => UnplannedChangesEscalate
  BY DEF IInv
<1> QED
  BY <1>1, Invariance, PTL

\* At most one skill starts after the stop.
THEOREM PromptStop == Spec => []StopIsPrompt
<1>1. IInv => StopIsPrompt
  BY DEF IInv, StopHolds, StopIsPrompt
<1> QED
  BY <1>1, Invariance, PTL

\* What the receipts of recorded calls stand for is among the changed files, for
\* a clone from the next record of a change on, and nothing of the baseline that
\* the run left alone is.
THEOREM Attribution == Spec => []ChangesAreAttributed
<1>1. IInv => ChangesAreAttributed
  BY DEF IInv, ReceiptsHold, ChangesAreAttributed
<1> QED
  BY <1>1, Invariance, PTL
=============================================================================
