--------------------------- MODULE TelegramReply ---------------------------
(***************************************************************************)
(* What a Telegram chat sees of its task: the status message that a        *)
(* progress thread keeps up to date (topagent-cli/src/progress.rs), and    *)
(* the reply, cut into chunks (topagent-core/src/channel/telegram.rs) and  *)
(* sent one by one (telegram/delivery.rs).  It is TelegramSession with the *)
(* worker's way from the end of the run to the transcript: it joins the    *)
(* progress thread, which ends on a terminal update only, sends the reply, *)
(* and keeps what was delivered.                                           *)
(*                                                                         *)
(* A text is a sequence of lines, a line the widths of its characters in   *)
(* UTF-8.  An update is its kind; "working" stands for every kind of a     *)
(* task that goes on, Received, Working, Retrying and Blocked.             *)
(***************************************************************************)
EXTENDS TelegramSession, SequencesExt

CONSTANTS
    Texts,     \* replies of the agent
    MaxBytes   \* the length of a message

\* Any character fits into a message.
ASSUME ReplyAssumption ==
    MaxBytes \in Nat /\ MaxBytes >= 4 /\ Texts \subseteq Seq(Seq(1 .. 4))

VARIABLES
    status,    \* per task: its progress thread and the status message
    reply,     \* per task: how it ended and what was sent
    telling    \* the task that stop_chat has cancelled and not yet told

own == <<status, reply, telling>>
replyVars == <<vars, own>>

-----------------------------------------------------------------------------
(* chunk_text.  Newline is a character of one byte.                        *)

\* What `op` makes of `base` and the elements of s, one after the other.
Along(s, base, op(_, _)) ==
    LET upTo[i \in 0 .. Len(s)] == IF i = 0 THEN base ELSE op(upTo[i - 1], s[i])
    IN  upTo[Len(s)]

Newline == 0
Width(ch) == IF ch = Newline THEN 1 ELSE ch
Bytes(s) == Along(s, 0, LAMBDA n, ch : n + Width(ch))

Flat(parts) == Along(parts, << >>, LAMBDA s, part : s \o part)

\* What is done, and the chunk at hand.
Nothing == [chunks |-> << >>, chunk |-> << >>]

Flushed(acc) ==
    IF acc.chunk = << >> THEN acc.chunks ELSE Append(acc.chunks, acc.chunk)

AddCharacter(acc, ch) ==
    IF Bytes(acc.chunk) + Width(ch) <= MaxBytes
    THEN [acc EXCEPT !.chunk = Append(@, ch)]
    ELSE [chunks |-> Append(acc.chunks, acc.chunk), chunk |-> <<ch>>]

\* Pieces of MaxBytes bytes, as long as a character ends there: else split_at
\* panics.
Pieces(line) == Flushed(Along(line, Nothing, AddCharacter))

Splits(line) ==
    \A k \in 1 .. Len(Pieces(line)) - 1 : Bytes(Pieces(line)[k]) = MaxBytes

Joined(chunk, line) ==
    IF chunk = << >> \/ line = << >> THEN chunk \o line
    ELSE chunk \o <<Newline>> \o line

\* Mutant of AddLine: the newline between two lines is not counted.
AddLineUncounted(acc, line) ==
    IF Bytes(acc.chunk) + Bytes(line) <= MaxBytes
    THEN [acc EXCEPT !.chunk = Joined(@, line)]
    ELSE IF Bytes(line) > MaxBytes
    THEN [chunks |-> Flushed(acc) \o Pieces(line), chunk |-> << >>]
    ELSE [chunks |-> Flushed(acc), chunk |-> line]

AddLine(acc, line) ==
    IF Bytes(acc.chunk) + Bytes(line) + 1 <= MaxBytes
    THEN [acc EXCEPT !.chunk = Joined(@, line)]
    ELSE IF Bytes(line) > MaxBytes
    THEN [chunks |-> Flushed(acc) \o Pieces(line), chunk |-> << >>]
    ELSE [chunks |-> Flushed(acc), chunk |-> line]

\* The text before it is divided into lines.
Whole(text) ==
    Flat([i \in DOMAIN text |-> IF i = 1 THEN text[i] ELSE <<Newline>> \o text[i]])

\* A text that fits is sent as it is.
Chunks(text) ==
    IF Bytes(Whole(text)) <= MaxBytes THEN <<Whole(text)>>
    ELSE Flushed(Along(text, Nothing, AddLine))

\* Of the error that a task without a status message sends.
ErrorText == <<<<1>>>>

CanBeSplit(text) ==
    Bytes(Whole(text)) > MaxBytes =>
        \A i \in DOMAIN text : Bytes(text[i]) > MaxBytes => Splits(text[i])

\* Worked out once for every text.
ChunksOf == [text \in Texts \cup {ErrorText} |-> Chunks(text)]
Splittable == {text \in Texts \cup {ErrorText} : CanBeSplit(text)}

-----------------------------------------------------------------------------
(* The progress thread of a task.                                          *)

Outcomes == {"completed", "failed", "stopped"}
\* Mutant of IsTerminal: a stop is not one.
IsTerminalUnlessStopped(u) == u \in {"completed", "failed"}

IsTerminal(u) == u \in Outcomes

\* for_telegram sends the status message first; without it there is none.  What
\* the message shows is `rendered`; `missed` says that the edit which was to tell
\* the outcome failed.
Status(shown) ==
    [shown |-> shown, on |-> shown, queue |-> << >>, latest |-> "working",
     rendered |-> "working", missed |-> FALSE]

\* The channel, where an update like the one before it changes nothing; once
\* the thread has ended nobody listens.
Told(s, u) ==
    IF ~s.on \/ (s.queue # << >> /\ Last(s.queue) = u) THEN s
    ELSE [s EXCEPT !.queue = Append(@, u)]

\* One edit of the message, which may fail for good: that is logged.
Edited(s, u) ==
    {[s EXCEPT !.rendered = u], [s EXCEPT !.missed = IsTerminal(u)]}

\* Mutant of Rendered: the outcome waits for the heartbeat like the rest.
RenderedLater(s, u) ==
    IF u = "stopping" THEN Edited(s, u) ELSE Edited(s, u) \cup {s}

\* What becomes of the message with update `u`: within one interval of the last
\* edit a change waits for the heartbeat, but not a stop nor a block.
Rendered(s, u) ==
    IF IsTerminal(u) \/ u = "stopping" THEN Edited(s, u)
    ELSE Edited(s, u) \cup {s}

\* The thread has taken `u` up, and ends with an outcome.
TakenUp(s, u) ==
    [s EXCEPT !.queue = Tail(@), !.latest = u, !.on = ~IsTerminal(u)]

Receive(t) ==
    /\ status[t].on /\ status[t].queue # << >>
    /\ LET u == Head(status[t].queue)
       IN  \E s \in Rendered(status[t], u) :
              status' = [status EXCEPT ![t] = TakenUp(s, u)]
    /\ UNCHANGED <<vars, reply, telling>>

\* Every heartbeat edits the message again, after a failed edit as well.
Heartbeat(t) ==
    /\ status[t].on /\ status[t].queue = << >>
    /\ status[t].rendered # status[t].latest
    /\ \E s \in Edited(status[t], status[t].latest) :
          status' = [status EXCEPT ![t] = s]
    /\ UNCHANGED <<vars, reply, telling>>

Tell(t, u) == status' = [status EXCEPT ![t] = Told(@, u)]

\* broadcast_progress: every session.
TellAll(u) ==
    status' = [t \in TaskIds |->
                  IF sessions[Chat(t)] = t THEN Told(status[t], u) ELSE status[t]]

-----------------------------------------------------------------------------
(* The main thread.                                                        *)

NoReply == [step |-> "running", outcome |-> "working", text |-> << >>,
            sent |-> 0, lost |-> FALSE, seen |-> TRUE]

ReplyInit ==
    /\ Init
    /\ status = << >> /\ reply = << >>
    /\ telling = NoTask

Start ==
    /\ StartMessage
    /\ IF Len(tasks') = Len(tasks) THEN UNCHANGED <<status, reply>>
       ELSE /\ \E shown \in BOOLEAN : status' = Append(status, Status(shown))
            /\ reply' = Append(reply, NoReply)
    /\ UNCHANGED telling

\* The token first, the progress second.
Cancel ==
    /\ StopCancels
    /\ telling' = main.task
    /\ UNCHANGED <<status, reply>>

TellStopping ==
    /\ telling # NoTask
    /\ Tell(telling, "stopping")
    /\ telling' = NoTask
    /\ UNCHANGED <<vars, reply>>

\* The first poll that works after others failed tells so; whether this one
\* is, is left open.
Poll ==
    /\ GetUpdates
    /\ TellAll("working") \/ UNCHANGED status
    /\ UNCHANGED <<reply, telling>>

PollFails ==
    /\ PollingFails
    /\ TellAll("working")
    /\ UNCHANGED <<reply, telling>>

MainMoves ==
    \/ TellStopping
    \/ /\ telling = NoTask
       /\ \/ Start \/ Cancel \/ Poll
          \/ /\ \/ CollectFinishedTasks \/ InsertSession \/ StopExpires
                \/ ResetChat \/ AnswerApproval
             /\ UNCHANGED own

-----------------------------------------------------------------------------
(* The worker.                                                             *)

Reports(t) ==
    /\ At(t, "running") /\ status[t].queue = << >>
    /\ Tell(t, "working")
    /\ UNCHANGED <<vars, reply, telling>>

\* preflight tells that it is blocked before it waits.
Ask(t) ==
    /\ AskApproval(t)
    /\ Tell(t, "working")
    /\ UNCHANGED <<reply, telling>>

\* Agent::run tells how it ended, whatever way it ended.
Return(t) ==
    /\ EndRun(t)
    /\ \E outcome \in Outcomes, text \in Texts :
          /\ outcome = "stopped" => tasks[t].cancelled
          /\ outcome # "completed" => text = CHOOSE x \in Texts : TRUE
          /\ Tell(t, outcome)
          /\ reply' = [reply EXCEPT ![t] =
                 [@ EXCEPT !.step = "joining", !.outcome = outcome,
                           !.text = IF outcome = "completed" THEN text
                                    ELSE ErrorText]]
    /\ UNCHANGED telling

\* A reply, or the error where no status message tells it.
IsSent(t) ==
    \/ reply[t].outcome = "completed"
    \/ reply[t].outcome = "failed" /\ ~status[t].shown

\* progress.wait(), then the chunks.
Join(t) ==
    /\ At(t, "ended") /\ reply[t].step = "joining" /\ ~status[t].on
    /\ reply' = [reply EXCEPT ![t].step =
                    CASE ~IsSent(t) -> "told"
                      [] reply[t].text \in Splittable -> "sending"
                      [] OTHER -> "panicked"]
    /\ UNCHANGED <<vars, status, telling>>

\* Mutant of Lost: the last request decides.
LastIsLost(before, answered) == ~answered

Lost(before, answered) == before \/ ~answered

Attempted(r, arrived, answered) ==
    [r EXCEPT !.sent = @ + 1, !.lost = Lost(@, answered), !.seen = @ /\ arrived]

\* A request that failed for good may have reached the chat all the same.
SendChunk(t) ==
    /\ At(t, "ended") /\ reply[t].step = "sending"
    /\ reply[t].sent < Len(ChunksOf[reply[t].text])
    /\ \E arrived, answered \in BOOLEAN :
          /\ answered => arrived
          /\ reply' = [reply EXCEPT ![t] = Attempted(@, arrived, answered)]
    /\ UNCHANGED <<vars, status, telling>>

\* As many chunks delivered as attempted, and some.
FullyDelivered(t) == reply[t].sent > 0 /\ ~reply[t].lost

Load(t) ==
    /\ \/ reply[t].step = "told"
       \/ /\ reply[t].step = "sending"
          /\ reply[t].sent = Len(ChunksOf[reply[t].text])
    /\ LoadTranscript(t)
    /\ UNCHANGED own

Write(t) ==
    /\ WriteTranscript(t)
    /\ said' = [said EXCEPT ![Chat(t)] = @ \o Exchange(t, FullyDelivered(t))]
    /\ UNCHANGED own

\* What the worker knew of its task goes with it.
Finish(t) ==
    /\ ReportCompletion(t)
    /\ status' = [status EXCEPT ![t] = Status(FALSE)]
    /\ reply' = [reply EXCEPT ![t] = NoReply]
    /\ UNCHANGED telling

WorkerProceeds(t) ==
    \/ Join(t) \/ SendChunk(t) \/ Load(t) \/ Write(t)
    \/ /\ \/ WakeResolved(t) \/ WakeCancelled(t)
          \/ TruncateTranscript(t)
       /\ UNCHANGED own
    \/ Finish(t)

WorkerMoves(t) == Reports(t) \/ Ask(t) \/ Return(t) \/ WorkerProceeds(t)

Reboot ==
    /\ Restart
    /\ status' = [t \in TaskIds |-> Status(FALSE)]
    /\ reply' = [t \in TaskIds |-> NoReply]
    /\ telling' = NoTask

ReplyNext ==
    \/ /\ \/ \E c \in Chats, kind \in {"text", "stop", "reset"} : Say(c, kind)
          \/ \E b \in buttons : Tap(b)
          \/ \E c \in Chats, n \in 1 .. MaxAsks : Type(c, n)
       /\ UNCHANGED own
    \/ MainMoves
    \/ telling = NoTask /\ PollFails
    \/ \E t \in TaskIds : WorkerMoves(t) \/ Receive(t) \/ Heartbeat(t)
    \/ Reboot

ReplySpec == ReplyInit /\ [][ReplyNext]_replyVars

-----------------------------------------------------------------------------
(* Fairness: that of TelegramSession, and that the progress thread runs;   *)
(* a request to the Bot API returns, as the client has a timeout and the   *)
(* retries are counted.  A chat has at most one worker at a time.          *)

InChat(c) == {t \in TaskIds : Chat(t) = c}

ReturnCancelled(t) == tasks[t].cancelled /\ Return(t)

ReplyFairness ==
    /\ WF_replyVars(MainMoves)
    /\ SF_replyVars(telling = NoTask /\ Poll)
    /\ \A c \in Chats :
          /\ WF_replyVars(\E t \in InChat(c) : WorkerProceeds(t))
          /\ WF_replyVars(\E t \in InChat(c) : ReturnCancelled(t))
          /\ WF_replyVars(\E t \in InChat(c) : Receive(t))

ReplyFairSpec == ReplySpec /\ ReplyFairness

-----------------------------------------------------------------------------
(* Properties.                                                             *)

\* Once the worker has joined the progress thread, the status message tells the
\* outcome of the run, unless the very edit that was to tell it failed: no
\* "stopping", no report and no polling trouble that came late stands in its
\* place.  After a failed edit the message stays as it was, and of a run that
\* failed the chat then learns nothing.
StatusTellsTheOutcome ==
    \A t \in TaskIds :
        (status[t].shown /\ reply[t].step \in {"told", "sending", "panicked"})
            => status[t].missed \/ status[t].rendered = reply[t].outcome

AddLetter(s, ch) == IF ch = Newline THEN s ELSE Append(s, ch)
Letters(s) == Along(s, << >>, AddLetter)

\* The transcript takes up the agent's part of an exchange only if every chunk
\* of it was sent and the chat has seen them all.
TranscriptIsWhatWasSeen ==
    \A t \in TaskIds :
        (At(t, "saved") /\ Last(transcript[Chat(t)]) = [task |-> t, by |-> "assistant"])
            => reply[t].seen /\ reply[t].sent = Len(ChunksOf[reply[t].text])

\* What is sent is the text: the chunks hold every character of it but newlines,
\* in its order, and each fits into a message (chunk_text).
ChunksAreTheText ==
    \A t \in TaskIds :
        reply[t].step = "sending"
            => LET chunks == ChunksOf[reply[t].text]
               IN  /\ Letters(Flat(chunks)) = Flat(reply[t].text)
                   /\ \A n \in DOMAIN chunks : Bytes(chunks[n]) <= MaxBytes

\* A run that has returned frees its chat: the status message, the reply and
\* the transcript keep nobody waiting for ever.
FinishedTasksFreeTheirChat ==
    \A c \in Chats :
        (\E t \in InChat(c) : At(t, "ended")) ~> (sessions[c] = NoTask)
=============================================================================
