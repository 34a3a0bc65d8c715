------------------------ MODULE TranscriptCompaction ------------------------
(***************************************************************************)
(* The transcript of one run of the agent and its compaction before each   *)
(* request to the model (topagent-core/src/compaction.rs, session.rs,      *)
(* behavior/compaction_policy.rs, agent.rs maybe_compact_context).         *)
(*                                                                         *)
(* Every call of a skill appends its request and its result, one after the *)
(* other, also when the model asked for several calls at once.  The system *)
(* prompt is rendered anew for each request and is not in the transcript.  *)
(* What a message says is left out: a call is its number, a text is who    *)
(* wrote it, a notice is the summary of what a compaction took away.       *)
(***************************************************************************)
EXTENDS Naturals, Sequences, FiniteSets

CONSTANTS
    MaxMessages,      \* max_messages_before_truncation
    MaxRedirects,     \* max_text_redirects_before_auto_plan
    MaxBatch,         \* bound: calls in one answer of the model
    MaxSteps          \* max_steps

\* A limit below two leaves no room for a summary and a message.
ASSUME CompactionAssumption ==
    /\ MaxMessages \in Nat /\ MaxMessages > 1
    /\ {MaxRedirects, MaxBatch, MaxSteps} \subseteq Nat

VARIABLES
    transcript,   \* Session.messages
    full,         \* history: what it would be without compaction
    pc,           \* "top", "ask" or "done"
    planning,     \* the gate is up and there is no plan
    redirects,    \* answers sent back to planning
    calls, steps

vars == <<transcript, full, pc, planning, redirects, calls, steps>>

-----------------------------------------------------------------------------
(* Messages. *)

Text(who) == [kind |-> "text", who |-> who]

Notice(level) == [kind |-> "notice", level |-> level]

Request(c) == [kind |-> "request", call |-> c]

Result(c) == [kind |-> "result", call |-> c]

\* Mutant of IsNotice: an old notice is a text like any other.
NoticesAreTexts(m) == m.kind = "text" /\ m.who = "nobody"

\* is_compaction_notice
IsNotice(m) == m.kind = "notice"

IsOfCall(m) == m.kind \in {"request", "result"}

Larger(a, b) == IF a > b THEN a ELSE b

-----------------------------------------------------------------------------
(* The policy of a run, default_compaction_policy: the divisor is 2. *)

MicroTrigger == Larger(4, MaxMessages \div 2)

KeepRecent == Larger(1, MaxMessages \div 2)

KeepRebuilt == Larger(8, MaxMessages \div 8)

-----------------------------------------------------------------------------
(* Compaction. *)

\* Mutant of Older: the cut is one message late.
OlderAndOne(msgs, keep) ==
    SubSeq(msgs, 1, IF Len(msgs) > keep THEN Len(msgs) - keep + 1 ELSE 0)

\* The cut is where the newest messages begin, in the middle of a call if
\* need be.
Older(msgs, keep) == SubSeq(msgs, 1, IF Len(msgs) > keep THEN Len(msgs) - keep ELSE 0)

Recent(msgs, keep) == SubSeq(msgs, Len(Older(msgs, keep)) + 1, Len(msgs))

\* The k-th of a set of positions.
Nth(S, k) == CHOOSE i \in S : Cardinality({j \in S : j <= i}) = k

\* summarize_older_tool_history: texts stay, calls and old notices go.  (A
\* SelectSeq, written out for the proofs.)
Conversation(msgs) ==
    LET stay == {i \in DOMAIN msgs : ~IsOfCall(msgs[i]) /\ ~IsNotice(msgs[i])}
    IN  [k \in 1 .. Cardinality(stay) |-> msgs[Nth(stay, k)]]

\* micro_compact
MicroCompact(msgs) ==
    LET older == Older(msgs, KeepRecent)
    IN  IF \E i \in DOMAIN older : IsOfCall(older[i])
        THEN Conversation(older) \o <<Notice("micro")>> \o Recent(msgs, KeepRecent)
        ELSE msgs

\* summarize_transcript: texts go too.
Summarized(msgs, keep, level) == <<Notice(level)>> \o Recent(msgs, keep)

\* auto_compact; the full rebuild, if that is not enough, is never needed with
\* this divisor.
AutoCompact(msgs) ==
    LET short == Summarized(msgs, KeepRecent, "auto")
    IN  IF Len(short) <= MaxMessages THEN short
        ELSE Summarized(short, KeepRebuilt, "rebuild")

\* maybe_compact_context: below the trigger nothing is done, also where the
\* limit is smaller than the trigger.
Compacted(msgs) ==
    CASE Len(msgs) < MicroTrigger -> msgs
      [] Len(msgs) >= MicroTrigger /\ Len(msgs) >= MaxMessages -> AutoCompact(msgs)
      [] OTHER -> MicroCompact(msgs)

-----------------------------------------------------------------------------
(* The run. *)

\* Session::new, add_message of the instruction.
Init ==
    /\ transcript = <<Text("user")>> /\ full = transcript
    /\ pc = "top"
    /\ planning \in BOOLEAN
    /\ redirects = 0 /\ calls = 0 /\ steps = 0

Compact ==
    /\ pc = "top" /\ steps < MaxSteps
    /\ transcript' = Compacted(transcript)
    /\ pc' = "ask"
    /\ UNCHANGED <<full, planning, redirects, calls, steps>>

\* The request fails, or the answer is empty: asked again from the top.
Fails ==
    /\ pc = "ask"
    /\ pc' = "top"
    /\ steps' \in {steps, steps + 1}
    /\ UNCHANGED <<transcript, full, planning, redirects, calls>>

\* record_tool_result, for calls that ran and calls that were blocked.
Recorded(n) ==
    [i \in 1 .. 2 * n |->
        IF i % 2 = 1 THEN Request(calls + (i + 1) \div 2) ELSE Result(calls + i \div 2)]

\* The calls may make the plan, or raise the gate by what they change.
Calls(n) ==
    /\ pc = "ask"
    /\ transcript' = transcript \o Recorded(n)
    /\ full' = full \o Recorded(n)
    /\ calls' = calls + n
    /\ planning' \in BOOLEAN
    /\ steps' = steps + 1
    /\ pc' = "top"
    /\ UNCHANGED redirects

\* pop_last_if: the last nudge is replaced, not added to.
WithoutNudge(msgs) ==
    IF msgs[Len(msgs)] = Text("nudge") THEN SubSeq(msgs, 1, Len(msgs) - 1) ELSE msgs

Redirected(msgs) == WithoutNudge(msgs) \o <<Text("assistant"), Text("nudge")>>

\* redirect_to_planning; too many redirects make a plan.
Redirect ==
    /\ pc = "ask" /\ planning
    /\ transcript' = Redirected(transcript)
    /\ full' = Redirected(full)
    /\ redirects' = redirects + 1
    /\ planning' = (redirects' < MaxRedirects)
    /\ steps' = steps + 1
    /\ pc' = "top"
    /\ UNCHANGED calls

\* The final answer.
Answer ==
    /\ pc = "ask" /\ ~planning
    /\ transcript' = Append(transcript, Text("assistant"))
    /\ full' = Append(full, Text("assistant"))
    /\ steps' = steps + 1
    /\ pc' = "done"
    /\ UNCHANGED <<planning, redirects, calls>>

Next == Compact \/ Fails \/ (\E n \in 1 .. MaxBatch : Calls(n)) \/ Redirect \/ Answer

Spec == Init /\ [][Next]_vars

-----------------------------------------------------------------------------
(* Properties. *)

\* The limit a request keeps: fewer than four messages are never compacted.
Limit == Larger(4, MaxMessages)

\* However many calls an answer holds, whatever is sent to the model is shorter
\* than the limit - or than four messages, where the limit is smaller - and
\* holds no more than one summary: summaries do not pile up
\* (maybe_compact_context).
RequestsFit ==
    pc = "ask" =>
        /\ Len(transcript) < Limit
        /\ \A i, j \in DOMAIN transcript :
               transcript[i].kind = "notice" /\ transcript[j].kind = "notice" => i = j

Newest(msgs, k) == SubSeq(msgs, Len(msgs) - k + 1, Len(msgs))

\* What is sent ends with the newest messages of the run, KeepRecent of them at
\* least, unaltered and in order, and nothing of a call stands before them: so
\* a result follows its own request, but for one that is the first of them
\* (micro_compact, auto_compact).
NewestAreKept ==
    pc = "ask" =>
        \E k \in 0 .. Len(full) :
            /\ k >= KeepRecent \/ k = Len(full)
            /\ k <= Len(transcript)
            /\ Newest(transcript, k) = Newest(full, k)
            /\ \A i \in 1 .. Len(transcript) - k : ~IsOfCall(transcript[i])

\* A result never stands without its request.  The code does not see to it: a
\* cut between the two leaves the result alone after the summary.  No run
\* checks this; added to the invariants of MCTranscriptCompaction.cfg it shows
\* where.
ResultsHaveRequests ==
    pc = "ask" =>
        \A i \in DOMAIN transcript :
            transcript[i].kind = "result" =>
                i > 1 /\ transcript[i - 1] = Request(transcript[i].call)

=============================================================================
