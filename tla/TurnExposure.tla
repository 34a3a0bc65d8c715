---------------------------- MODULE TurnExposure ----------------------------
(***************************************************************************)
(* A turn of the model: the skills are offered once, at the top of the     *)
(* loop (run_inner, sync_provider_tools), and the phase and the access of  *)
(* each call are taken when the call is executed.  In between a plan may   *)
(* be generated, the earlier calls of the batch change gate, plan and      *)
(* stage, and the operator changes profile and grants on another thread.   *)
(*                                                                         *)
(* AgentLoop has the counters that decide when a plan is generated and     *)
(* when changes are escalated, and every other gate of a call; here both   *)
(* may happen whenever gate and plan allow it, and a call may not run.     *)
(***************************************************************************)
EXTENDS SkillAdmission

CONSTANT Configs  \* the configurations a run may begin with

ASSUME ConfigsAssumption == Configs \subseteq Config

VARIABLES
    turn,      \* [gate, plan, stage] of the agent
    escalated, \* PlanningGate::escalated
    granted,   \* the kinds that some live grant is for
    offered    \* the skills the provider was given for this turn

turnVars == <<config, edited, turn, escalated, granted, offered>>
access == <<config, edited, granted>>

\* What skill_allowed_by_access looks at.
Features == {"ComputerUse", "WebSearch"}

\* reset_run_state, before the first turn.
TurnInit ==
    /\ ProfileInit /\ config \in Configs
    /\ turn \in [gate : BOOLEAN, plan : {FALSE}, stage : {"Research"}]
    /\ escalated = FALSE
    /\ granted \in SUBSET Features
    /\ offered = {}

\* sync_provider_tools.
OfferSkills ==
    /\ offered' = Offered(config.profile, turn, granted)
    /\ UNCHANGED <<access, turn, escalated>>

\* generate_or_fallback_plan, before the model is asked or within the batch.
GeneratePlan ==
    /\ turn.gate /\ ~turn.plan
    /\ turn' = [turn EXCEPT !.gate = FALSE, !.plan = TRUE]
    /\ UNCHANGED <<access, escalated, offered>>

\* The harness lets the call run.
Admitted(c) ==
    /\ ~PlanningBlocks(turn, c)
    /\ ~PolicyDenies(config.profile, turn, granted, c)

IsVerification(c) == c.skill = "bash" /\ Class(c.command) = "Verification"
IsRisky(c) == c.skill = "bash" /\ Class(c.command) = "MutationRisk"

\* A call that changed files, or that may have: mark_execution_started and, at
\* the threshold, maybe_escalate_to_planning.
Mutate(c) ==
    /\ c.skill \in MutationSkills \/ IsRisky(c) \/ IsVerification(c)
    /\ Admitted(c)
    /\ \E escalate \in BOOLEAN :
          /\ escalate => ~turn.gate /\ ~escalated /\ ~turn.plan
          /\ turn' = [turn EXCEPT !.stage = "Edit", !.gate = @ \/ escalate]
          /\ escalated' = (escalated \/ escalate)
    /\ UNCHANGED <<access, offered>>

\* update_plan, with items or with none; a plan takes the gate away.
UpdatePlan(c) ==
    /\ c.skill = "update_plan" /\ Admitted(c)
    /\ \E p \in BOOLEAN :
          turn' = [turn EXCEPT !.plan = p, !.gate = @ /\ ~p]
    /\ UNCHANGED <<access, escalated, offered>>

\* /access and the approvals of other chats (AccessControl).
ChangeAccess ==
    /\ \/ ProfileNext /\ UNCHANGED granted
       \/ granted' \in SUBSET Features /\ UNCHANGED <<config, edited>>
    /\ UNCHANGED <<turn, escalated, offered>>

TurnNext ==
    \/ OfferSkills \/ GeneratePlan \/ ChangeAccess
    \/ \E c \in Calls : Mutate(c) \/ UpdatePlan(c)

TurnSpec == TurnInit /\ [][TurnNext]_turnVars

-----------------------------------------------------------------------------
(* Properties. *)

Situation == [gate : BOOLEAN, plan : BOOLEAN, stage : Stages]

TurnTypeOK ==
    /\ ProfileTypeOK
    /\ turn \in Situation /\ escalated \in BOOLEAN
    /\ granted \subseteq Features /\ offered \subseteq Skills

\* A call of a skill offered in this turn that execute_skill refuses.
OfferedAndDenied(c) ==
    /\ c.skill \in offered
    /\ ~PlanningBlocks(turn, c)
    /\ PolicyDenies(config.profile, turn, granted, c)

\* What is offered in a turn, and the phase a call is run in, are decided by two
\* functions at two times.  A call of an offered skill that the planning gate
\* lets through is refused by the harness only for what happened since the offer:
\* the access was taken away, a web search comes after the work has begun, or a
\* clone or a screen action comes after the changes were escalated and before
\* there is a plan.
OfferedSkillsRun ==
    \A c \in Calls : OfferedAndDenied(c) =>
        \/ ~AllowedByAccess(config.profile, c.skill, granted)
        \/ c.skill = "web_search" /\ CurrentPhase(turn) = "Patch"
        \/ /\ c.skill \in {"git_clone", "computer_use"}
           /\ escalated /\ CurrentPhase(turn) = "Plan"

\* docs/architecture.md, "Phase exposure": the skills of durable memory are for
\* the phase Finalize.  No run checks this: no turn of the model is in that
\* phase, so they are never offered; added to the invariants of
\* MCAccessProfile.cfg it shows that.
EverySkillIsOffered ==
    config.profile = "Full" =>
        \A s \in Skills : \E at \in Situation : s \in Offered("Full", at, {})
=============================================================================
