-------------------------- MODULE TelegramSession --------------------------
(***************************************************************************)
(* The Telegram service (topagent-cli/src/telegram): one main thread polls *)
(* the Bot API and handles updates one at a time; each accepted text       *)
(* starts a worker thread that runs the agent, may stop to ask for an      *)
(* approval, appends the exchange to the chat's transcript file and sends  *)
(* its chat id down the completion channel.  Only the main thread touches  *)
(* the `sessions` map.                                                     *)
(*                                                                         *)
(* An update's id is its index in `sent`, a task's id its index in         *)
(* `tasks`.  The approval mailbox of a task is reduced to the number of    *)
(* requests asked and the one pending (ApprovalMailbox.tla has the rest);  *)
(* the worker's last duty before it reports, clearing the task's temporary *)
(* grants, is AccessControl's EndTask.                                     *)
(***************************************************************************)
EXTENDS Naturals, Sequences

CONSTANTS
    Chats,         \* private chats that passed admission
    MaxTranscript, \* MAX_PERSISTED_TRANSCRIPT_MESSAGES
    MaxUpdates,    \* bound on the updates users send
    MaxAsks,       \* bound on the approvals one task asks for
    MaxRestarts    \* bound on process restarts

ASSUME SessionAssumption ==
    /\ MaxTranscript \in Nat \ {0}
    /\ MaxUpdates \in Nat
    /\ MaxAsks \in Nat
    /\ MaxRestarts \in Nat

VARIABLES
    sent,       \* every update users have sent, oldest first
    dropped,    \* the Bot API has forgotten the updates 1..dropped
    buttons,    \* approval messages in chats that still show their buttons
    transcript, \* the transcript file of each chat
    offset,     \* the next update id get_updates asks for
    batch,      \* ids of the updates fetched and not yet handled
    main,       \* where the main thread is
    sessions,   \* the running task of each chat (NoTask: none)
    tasks,      \* every task ever started, its worker and its mailbox
    completed,  \* the completion channel
    restarts,   \* process restarts so far
    handled,    \* history: updates whose handler has returned
    cleared,    \* history: the last task begun before the chat's last reset
    said,       \* history: what tasks wrote to the chat since its last reset
    torn        \* history: chats whose file a restart caught half-written

server == <<sent, dropped, buttons>>
history == <<handled, cleared, said, torn>>
vars == <<sent, dropped, buttons, transcript, offset, batch, main, sessions,
          tasks, completed, restarts, handled, cleared, said, torn>>

NoTask == 0
\* A truncated file, which cannot be loaded: the message of no task.
Torn == <<[task |-> NoTask, by |-> "nobody"]>>

TaskIds == DOMAIN tasks
Messages == [task : Nat, by : {"user", "assistant"}]
Stages == {"running", "waiting", "ended", "loaded", "writing", "saved",
           "done", "dead"}
Task == [chat : Chats, stage : Stages, cancelled : BOOLEAN,
         asked : 0 .. MaxAsks, pending : 0 .. MaxAsks, loaded : Seq(Messages)]
Updates == [chat : Chats, kind : {"text", "stop", "reset", "answer"},
            n : 0 .. MaxAsks, shown : Nat]
Live(t) == tasks[t].stage \notin {"done", "dead"}

\* `t` was spawned but start_message has not reached sessions.insert yet.
BeingInserted(t) == main = [at |-> "spawned", task |-> t]

Loop == [at |-> "loop", task |-> NoTask]

Init ==
    /\ sent = << >>
    /\ dropped = 0
    /\ buttons = {}
    /\ transcript = [c \in Chats |-> << >>]
    /\ offset = 0
    /\ batch = << >>
    /\ main = Loop
    /\ sessions = [c \in Chats |-> NoTask]
    /\ tasks = << >>
    /\ completed = << >>
    /\ restarts = 0
    /\ handled = {}
    /\ cleared = [c \in Chats |-> 0]
    /\ said = [c \in Chats |-> << >>]
    /\ torn = {}
-----------------------------------------------------------------------------
(* The users.  An answer names the request number `n` only, whether it is  *)
(* typed or the callback data of a tap on an approval message; `shown`,    *)
(* the task that message was about, is kept for the properties.            *)

Send(u) ==
    /\ Len(sent) < MaxUpdates
    /\ sent' = Append(sent, u)
    /\ UNCHANGED <<dropped, buttons, transcript, offset, batch, main,
                   sessions, tasks, completed, restarts, history>>

Say(c, kind) == Send([chat |-> c, kind |-> kind, n |-> 0, shown |-> NoTask])

Tap(b) == Send([chat |-> tasks[b.task].chat, kind |-> "answer",
                n |-> b.n, shown |-> b.task])

\* The typed /approve and /deny name a number and show nothing.
Type(c, n) == Send([chat |-> c, kind |-> "answer", n |-> n,
                    shown |-> NoTask])
-----------------------------------------------------------------------------
(* The main loop: collect_finished_tasks, then get_updates.                *)

CollectedOf(done) ==
    [c \in Chats |->
        IF \E i \in DOMAIN done : done[i] = c THEN NoTask ELSE sessions[c]]

CollectFinishedTasks ==
    /\ main = Loop /\ batch = << >>
    /\ sessions' = CollectedOf(completed)
    /\ completed' = << >>
    /\ main' = [Loop EXCEPT !.at = "polling"]
    /\ UNCHANGED <<server, transcript, offset, batch, tasks, restarts,
                   history>>

\* The last update before those that get_updates(offset) returns.
BeforeOffset == IF offset > dropped THEN offset - 1 ELSE dropped

UpdatesAfter(id) == [i \in 1 .. Len(sent) - id |-> id + i]

\* Mutant of Confirmed: what is returned is confirmed at once.
ConfirmedOnFetch == Len(sent)

\* Asking for `offset` confirms every update below it.
Confirmed == BeforeOffset

GetUpdates ==
    /\ main.at = "polling"
    /\ batch' = UpdatesAfter(BeforeOffset)
    /\ dropped' = Confirmed
    /\ main' = Loop
    /\ UNCHANGED <<sent, buttons, transcript, offset, sessions, tasks,
                   completed, restarts, history>>

\* The request, or only its answer, is lost; the loop backs off and retries.
PollingFails ==
    /\ main.at = "polling"
    /\ dropped' \in {dropped, Confirmed}
    /\ main' = Loop
    /\ UNCHANGED <<sent, buttons, transcript, offset, batch, sessions, tasks,
                   completed, restarts, history>>
-----------------------------------------------------------------------------
(* Handlers.  The offset moves past an update before it is handled.        *)

Handling(kind) ==
    /\ main = Loop
    /\ batch # << >>
    /\ sent[Head(batch)].kind = kind

Update == sent[Head(batch)]

\* Mutant of OffsetAfter: the next update is skipped.
OffsetAfterNext(id) == id + 2

OffsetAfter(id) == id + 1

Take ==
    /\ batch' = Tail(batch)
    /\ offset' = OffsetAfter(Head(batch))

Handled == handled' = handled \cup {Head(batch)}

NewTask(c) == [chat |-> c, stage |-> "running", cancelled |-> FALSE,
               asked |-> 0, pending |-> 0, loaded |-> << >>]

\* Mutant of MayStart: the check is left to the caller.
MayStartAnyway(c, open) == TRUE

\* start_message collects first and refuses while the chat has a session.
MayStart(c, open) == open[c] = NoTask

StartMessage ==
    /\ Handling("text")
    /\ LET c == Update.chat
           open == CollectedOf(completed)
       IN  /\ sessions' = open
           /\ IF MayStart(c, open)
              THEN /\ tasks' = Append(tasks, NewTask(c))
                   /\ main' = [at |-> "spawned", task |-> Len(tasks) + 1]
              ELSE UNCHANGED <<tasks, main>>
    /\ completed' = << >>
    /\ Take /\ Handled
    /\ UNCHANGED <<server, transcript, restarts, cleared, said, torn>>

InsertSession ==
    /\ main.at = "spawned"
    /\ sessions' = [sessions EXCEPT ![tasks[main.task].chat] = main.task]
    /\ main' = Loop
    /\ UNCHANGED <<server, transcript, offset, batch, tasks, completed,
                   restarts, history>>

\* stop_chat: expire_pending first, the cancellation token second.
StopExpires ==
    /\ Handling("stop")
    /\ LET t == sessions[Update.chat]
       IN  IF t = NoTask
           THEN UNCHANGED <<tasks, main>>
           ELSE /\ tasks' = [tasks EXCEPT ![t].pending = 0]
                /\ main' = [at |-> "stopping", task |-> t]
    /\ Take /\ Handled
    /\ UNCHANGED <<server, transcript, sessions, completed, restarts, cleared,
                   said, torn>>

StopCancels ==
    /\ main.at = "stopping"
    /\ tasks' = [tasks EXCEPT ![main.task].cancelled = TRUE]
    /\ main' = Loop
    /\ UNCHANGED <<server, transcript, offset, batch, sessions, completed,
                   restarts, history>>

\* handle_reset looks at the sessions without collecting first.
MayReset(c) == sessions[c] = NoTask

ResetChat ==
    /\ Handling("reset")
    /\ LET c == Update.chat
       IN  IF MayReset(c)
           THEN /\ sessions' = [sessions EXCEPT ![c] = NoTask]
                /\ transcript' = [transcript EXCEPT ![c] = << >>]
                /\ cleared' = [cleared EXCEPT ![c] = Len(tasks)]
                /\ said' = [said EXCEPT ![c] = << >>]
                /\ torn' = torn \ {c}
           ELSE UNCHANGED <<sessions, transcript, cleared, said, torn>>
    /\ Take /\ Handled
    /\ UNCHANGED <<server, main, tasks, completed, restarts>>

\* The request an answer resolves is looked up in the chat's running task.
\* The buttons go when the message can be edited; a typed answer keeps them.
Resolves(u) ==
    /\ sessions[u.chat] # NoTask
    /\ tasks[sessions[u.chat]].pending = u.n

AnswerApproval ==
    /\ Handling("answer")
    /\ IF Resolves(Update)
       THEN /\ tasks' = [tasks EXCEPT ![sessions[Update.chat]].pending = 0]
            /\ buttons' \in {buttons, buttons \ {[task |-> Update.shown,
                                                  n |-> Update.n]}}
       ELSE UNCHANGED <<tasks, buttons>>
    /\ Take /\ Handled
    /\ UNCHANGED <<sent, dropped, transcript, main, sessions, completed,
                   restarts, cleared, said, torn>>
-----------------------------------------------------------------------------
(* The worker of task `t`: agent.run, handle_telegram_run_outcome (load    *)
(* the transcript, truncate the file, write it), the completion.           *)

At(t, stage) == tasks[t].stage = stage
Chat(t) == tasks[t].chat

Move(t, stage) == tasks' = [tasks EXCEPT ![t].stage = stage]

MainUnchanged == UNCHANGED <<offset, batch, main, sessions, restarts>>

\* request_decision: the entry is pushed, the notifier sends its buttons.
AskApproval(t) ==
    /\ At(t, "running") /\ tasks[t].asked < MaxAsks
    /\ LET n == tasks[t].asked + 1
       IN  /\ tasks' = [tasks EXCEPT ![t].asked = n, ![t].pending = n,
                                     ![t].stage = "waiting"]
           /\ buttons' = buttons \cup {[task |-> t, n |-> n]}
    /\ MainUnchanged
    /\ UNCHANGED <<sent, dropped, transcript, completed, history>>

WakeResolved(t) ==
    /\ At(t, "waiting") /\ tasks[t].pending = 0
    /\ Move(t, "running")
    /\ MainUnchanged
    /\ UNCHANGED <<server, transcript, completed, history>>

\* Mutant of SeesCancellation: the wait only listens to the condvar.
NeverSeesCancellation(t) == FALSE

\* The wait polls the token every 100 ms and expires its own request.
SeesCancellation(t) == tasks[t].cancelled

WakeCancelled(t) ==
    /\ At(t, "waiting") /\ tasks[t].pending # 0 /\ SeesCancellation(t)
    /\ tasks' = [tasks EXCEPT ![t].stage = "running", ![t].pending = 0]
    /\ MainUnchanged
    /\ UNCHANGED <<server, transcript, completed, history>>

\* Mutant of AfterRun: the completion is sent as soon as agent.run returns.
AfterRunReported(t) == Append(completed, Chat(t))

\* What the completion channel holds once the run of `t` has returned.
AfterRun(t) == completed

EndRun(t) ==
    /\ At(t, "running")
    /\ Move(t, "ended")
    /\ completed' = AfterRun(t)
    /\ MainUnchanged
    /\ UNCHANGED <<server, transcript, history>>

LoadTranscript(t) ==
    /\ At(t, "ended")
    /\ tasks' = [tasks EXCEPT ![t].stage = "loaded",
                   ![t].loaded = IF transcript[Chat(t)] = Torn
                                 THEN << >> ELSE transcript[Chat(t)]]
    /\ MainUnchanged
    /\ UNCHANGED <<server, transcript, completed, history>>

TruncateTranscript(t) ==
    /\ At(t, "loaded")
    /\ transcript' = [transcript EXCEPT ![Chat(t)] = Torn]
    /\ Move(t, "writing")
    /\ MainUnchanged
    /\ UNCHANGED <<server, completed, history>>

\* The newest MaxTranscript messages.
Recent(ms) ==
    IF Len(ms) > MaxTranscript
    THEN SubSeq(ms, Len(ms) - MaxTranscript + 1, Len(ms))
    ELSE ms

\* The reply is kept only when it was fully delivered.
Exchange(t, delivered) ==
    LET user == [task |-> t, by |-> "user"]
        reply == [task |-> t, by |-> "assistant"]
    IN  IF delivered THEN <<user, reply>> ELSE <<user>>

WriteTranscript(t) ==
    /\ At(t, "writing")
    /\ \E delivered \in BOOLEAN :
          LET ms == Exchange(t, delivered)
          IN  /\ transcript' = [transcript EXCEPT
                     ![Chat(t)] = Recent(tasks[t].loaded \o ms)]
              /\ said' = [said EXCEPT ![Chat(t)] = @ \o ms]
    /\ tasks' = [tasks EXCEPT ![t].stage = "saved", ![t].loaded = << >>]
    /\ MainUnchanged
    /\ UNCHANGED <<server, completed, handled, cleared, torn>>

\* Mutant of ReportCompletion: the worker returns without a completion.
ReportNothing(t) ==
    /\ At(t, "saved")
    /\ Move(t, "done")
    /\ MainUnchanged
    /\ UNCHANGED <<server, transcript, completed, history>>

ReportCompletion(t) ==
    /\ At(t, "saved")
    /\ completed' = Append(completed, Chat(t))
    /\ Move(t, "done")
    /\ MainUnchanged
    /\ UNCHANGED <<server, transcript, history>>

-----------------------------------------------------------------------------
(* The process dies and is started again.  The files and the Bot API's     *)
(* queue survive; the offset starts from 0.                                *)

Restart ==
    /\ restarts < MaxRestarts
    /\ restarts' = restarts + 1
    /\ offset' = 0
    /\ batch' = << >>
    /\ main' = Loop
    /\ sessions' = [c \in Chats |-> NoTask]
    /\ completed' = << >>
    /\ torn' = torn \cup {Chat(t) : t \in {x \in TaskIds : At(x, "writing")}}
    /\ tasks' = [t \in TaskIds |->
                    IF Live(t)
                    THEN [tasks[t] EXCEPT !.stage = "dead", !.pending = 0,
                                          !.loaded = << >>]
                    ELSE tasks[t]]
    /\ UNCHANGED <<server, transcript, handled, cleared, said>>

MainStep ==
    \/ CollectFinishedTasks \/ GetUpdates
    \/ StartMessage \/ InsertSession
    \/ StopExpires \/ StopCancels
    \/ ResetChat \/ AnswerApproval

\* The worker's steps that depend on neither the model nor the operator.
Proceed(t) ==
    \/ WakeResolved(t) \/ WakeCancelled(t)
    \/ LoadTranscript(t) \/ TruncateTranscript(t) \/ WriteTranscript(t)
    \/ ReportCompletion(t)

Worker(t) == AskApproval(t) \/ EndRun(t) \/ Proceed(t)

Next ==
    \/ \E c \in Chats, kind \in {"text", "stop", "reset"} : Say(c, kind)
    \/ \E b \in buttons : Tap(b)
    \/ \E c \in Chats, n \in 1 .. MaxAsks : Type(c, n)
    \/ MainStep
    \/ PollingFails
    \/ \E t \in TaskIds : Worker(t)
    \/ Restart

Spec == Init /\ [][Next]_vars
-----------------------------------------------------------------------------
(* Fairness.  The main thread is scheduled and polling does not fail       *)
(* forever; a worker that can move moves; a cancelled run returns          *)
(* (check_cancelled is called in every step, the provider call and the     *)
(* shell command are polled against the token); of a command it killed     *)
(* this assumes that nothing it had started keeps its output open.         *)
(* Nothing makes a user answer, a run that was not stopped return, or the  *)
(* process restart.                                                        *)

\* Every update gives rise to at most one task in each life of the process.
PossibleTasks == 1 .. MaxUpdates * (MaxRestarts + 1)

EndCancelledRun(t) == tasks[t].cancelled /\ EndRun(t)

Fairness ==
    /\ WF_vars(MainStep)
    /\ SF_vars(GetUpdates)
    /\ \A t \in PossibleTasks :
          /\ WF_vars(t \in TaskIds /\ Proceed(t))
          /\ WF_vars(t \in TaskIds /\ EndCancelledRun(t))

FairSpec == Spec /\ Fairness
-----------------------------------------------------------------------------
(* Properties.                                                             *)

\* Every variable has its type; a transcript never outgrows its cap, and a
\* batch lists the updates not handled yet, in order.
TypeOK ==
    /\ sent \in Seq(Updates)
    /\ dropped \in 0 .. Len(sent)
    /\ buttons \in SUBSET [task : TaskIds, n : 1 .. MaxAsks]
    /\ DOMAIN transcript = Chats
    /\ \A c \in Chats : \/ transcript[c] = Torn
                        \/ /\ transcript[c] \in Seq(Messages)
                           /\ Len(transcript[c]) <= MaxTranscript
    /\ offset \in 0 .. Len(sent) + 1
    /\ batch \in Seq(DOMAIN sent)
    /\ \A i, j \in DOMAIN batch : i < j => batch[i] < batch[j]
    /\ main \in [at : {"loop", "polling", "spawned", "stopping"},
                 task : TaskIds \cup {NoTask}]
    /\ sessions \in [Chats -> TaskIds \cup {NoTask}]
    /\ tasks \in Seq(Task)
    /\ completed \in Seq(Chats)
    /\ restarts \in 0 .. MaxRestarts
    /\ handled \subseteq DOMAIN sent
    /\ cleared \in [Chats -> 0 .. Len(tasks)]
    /\ said \in [Chats -> Seq(Messages)]
    /\ torn \in SUBSET Chats

\* A worker that is still going is the session of its chat, so /stop, /reset
\* and answers reach it and no second worker of that chat can exist.
WorkersAreReachable ==
    \A t \in TaskIds :
        Live(t) => \/ sessions[Chat(t)] = t
                   \/ BeingInserted(t)

\* A chat is blocked by its session only while the worker is going or its
\* completion is on the way; nothing else would ever unblock it.
BlockedOnlyByItsWorker ==
    \A c \in Chats :
        sessions[c] # NoTask =>
            \/ Live(sessions[c])
            \/ \E i \in DOMAIN completed : completed[i] = c

\* Both ways: the session map says which chats have a worker, neither more
\* (a chat refused for ever) nor less (a worker nobody can stop).
SessionsMatchWorkers == WorkersAreReachable /\ BlockedOnlyByItsWorker

\* A completion in the channel is that of the chat's own finished task:
\* collecting it never removes the session of a task that is going.
CompletionsAreOfFinishedTasks ==
    \A i \in DOMAIN completed :
        \A t \in TaskIds : Chat(t) = completed[i] => ~Live(t)

\* After /reset was accepted no task begun before it is in the transcript.
ResetIsClean ==
    \A c \in Chats :
        transcript[c] # Torn =>
            \A i \in DOMAIN transcript[c] :
                transcript[c][i].task > cleared[c]

\* Unless a restart tore the file, the transcript holds the most recent
\* messages of what the chat's tasks wrote: no exchange is overwritten.
TranscriptKeepsExchanges ==
    \A c \in Chats \ torn :
        \/ transcript[c] = Recent(said[c])
        \/ \E t \in TaskIds : Chat(t) = c /\ At(t, "writing")

\* The Bot API forgets an update only when its handler has returned, in this
\* life of the process or an earlier one.
NoUpdateIsLost == 1 .. dropped \subseteq handled

\* A stopped task ends and frees its chat, whatever it was waiting for.
StopEndsTheTask ==
    \A t \in PossibleTasks :
        (t \in TaskIds /\ tasks[t].cancelled)
            ~> ~(t \in TaskIds /\ sessions[Chat(t)] = t)

\* Every update a user sends is handled in the end, restarts and polling
\* failures notwithstanding.
EveryUpdateIsHandled ==
    \A u \in 1 .. MaxUpdates : (u \in DOMAIN sent) ~> (u \in handled)
-----------------------------------------------------------------------------
(* What the documentation says and the program does not do: no run checks  *)
(* these, an INVARIANT line in MCTelegramReply.cfg shows where they fail. *)

\* An approval message's buttons answer the request the message rendered.
ButtonsAnswerTheirRequest ==
    Handling("answer") /\ Update.shown # NoTask /\ Resolves(Update)
        => Update.shown = sessions[Update.chat]

\* What tasks wrote to a transcript is still there after a restart.
TranscriptSurvivesRestarts ==
    \A c \in torn : said[c] # << >> => transcript[c] = Recent(said[c])
=============================================================================
