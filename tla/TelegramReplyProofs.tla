------------------------ MODULE TelegramReplyProofs ------------------------
(***************************************************************************)
(* Proofs about TelegramSession and about TelegramReply, which composes it *)
(* with the progress threads and the delivery of replies, for every set of *)
(* chats, texts and every bound.  The sessions come first, then the map of *)
(* TelegramReply's steps to theirs, then the status message and the reply, *)
(* then what the transcript keeps of a reply, and last that its chunks are *)
(* its text.                                                               *)
(***************************************************************************)
EXTENDS TelegramReply, SequenceTheorems, WellFoundedInduction, TLAPS

-----------------------------------------------------------------------------
(* Lists.                                                                  *)

\* Appending keeps the elements a list has.
LEMMA AppendTo ==
    ASSUME NEW S, NEW s \in Seq(S), NEW e \in S
    PROVE  /\ Append(s, e) \in Seq(S)
           /\ Len(Append(s, e)) = Len(s) + 1
           /\ DOMAIN s = 1 .. Len(s)
           /\ DOMAIN Append(s, e) = 1 .. (Len(s) + 1)
           /\ \A i \in DOMAIN s : Append(s, e)[i] = s[i]
           /\ Append(s, e)[Len(s) + 1] = e
  BY AppendProperties, LenProperties

\* A transcript keeps at most MaxTranscript messages, each of the list's.
LEMMA RecentMessages ==
    ASSUME NEW S, NEW ms \in Seq(S)
    PROVE  /\ Recent(ms) \in Seq(S)
           /\ Len(Recent(ms)) <= MaxTranscript
           /\ \A i \in DOMAIN Recent(ms) : \E j \in DOMAIN ms :
                 Recent(ms)[i] = ms[j]
<1>1. Len(ms) \in Nat /\ MaxTranscript \in Nat /\ DOMAIN ms = 1 .. Len(ms)
  BY SessionAssumption, LenProperties
<1>2. CASE Len(ms) <= MaxTranscript
  BY <1>1, <1>2 DEF Recent
<1>3. CASE Len(ms) > MaxTranscript
  <2> DEFINE m == Len(ms) - MaxTranscript + 1
             r == SubSeq(ms, m, Len(ms))
  <2>1. m \in Int /\ m >= 1 /\ Recent(ms) = r
    BY <1>1, <1>3 DEF Recent
  <2>2. \A i \in m .. Len(ms) : ms[i] \in S
    BY <1>1, <2>1, LenProperties
  <2> HIDE DEF m
  <2>3. /\ r \in Seq(S)
        /\ Len(r) = IF m <= Len(ms) THEN Len(ms) - m + 1 ELSE 0
        /\ \A i \in 1 .. Len(ms) - m + 1 : r[i] = ms[m + i - 1]
    BY <1>1, <2>1, <2>2, SubSeqProperties
  <2>4. Len(r) <= MaxTranscript
    BY <1>1, <2>1, <2>3 DEF m
  <2> HIDE DEF r
  <2>5. DOMAIN r = 1 .. Len(r)
    BY <2>3, LenProperties
  <2>6. ASSUME NEW i \in DOMAIN r
        PROVE  \E j \in DOMAIN ms : r[i] = ms[j]
    <3>1. i \in 1 .. Len(ms) - m + 1 /\ m + i - 1 \in DOMAIN ms
      BY <1>1, <2>1, <2>3, <2>5
    <3> QED
      BY <2>3, <3>1
  <2> QED
    BY <2>1, <2>3, <2>4, <2>6
<1> QED
  BY <1>1, <1>2, <1>3

\* Changing one task keeps the others, and keeps tasks a list of tasks.
LEMMA ReplaceTask ==
    ASSUME tasks \in Seq(Task), NEW t \in TaskIds, NEW e \in Task,
           tasks' = [tasks EXCEPT ![t] = e]
    PROVE  /\ tasks' \in Seq(Task)
           /\ Len(tasks') = Len(tasks)
           /\ TaskIds = 1 .. Len(tasks)
           /\ TaskIds' = TaskIds
           /\ \A u \in TaskIds : tasks'[u] = IF u = t THEN e ELSE tasks[u]
  BY ExceptSeq, LenProperties DEF TaskIds

\* A list over a set is a list over a larger one.
LEMMA WiderList ==
    ASSUME NEW S, NEW T, S \subseteq T, NEW s \in Seq(S)
    PROVE  s \in Seq(T)
<1>1. Len(s) \in Nat /\ s \in [1 .. Len(s) -> T]
  BY LenProperties
<1> QED
  BY <1>1, SeqDef
-----------------------------------------------------------------------------
(* Type correctness.                                                       *)

\* A step that changes a task and at most the transcripts, the buttons, the
\* completions and what was said, each within its type, keeps the types.
LEMMA TaskStepTypes ==
    ASSUME TypeOK, NEW t \in TaskIds, NEW e \in Task,
           tasks' = [tasks EXCEPT ![t] = e],
           buttons' \in SUBSET [task : TaskIds, n : 1 .. MaxAsks],
           DOMAIN transcript' = Chats,
           \A c \in Chats :
               \/ transcript'[c] = Torn
               \/ transcript'[c] \in Seq(Messages)
                  /\ Len(transcript'[c]) <= MaxTranscript,
           completed' \in Seq(Chats),
           said' \in [Chats -> Seq(Messages)],
           UNCHANGED <<sent, dropped, offset, batch, main, sessions, restarts,
                       handled, cleared, torn>>
    PROVE  TypeOK'
<1>1. tasks \in Seq(Task)
  BY DEF TypeOK
<1>2. tasks' \in Seq(Task) /\ Len(tasks') = Len(tasks) /\ TaskIds' = TaskIds
  BY <1>1, ReplaceTask
<1> QED
  BY <1>2 DEF TypeOK

\* An entry of tasks is a task, of a chat.
LEMMA ATask ==
    ASSUME tasks \in Seq(Task), NEW t \in TaskIds
    PROVE  tasks[t] \in Task /\ Chat(t) \in Chats /\ t \in Nat \ {0}
<1>1. tasks[t] \in Task /\ t \in Nat \ {0}
  BY LenProperties DEF TaskIds
<1> QED
  BY <1>1 DEF Task, Chat

\* The values the steps give to a task's fields.
LEMMA TaskFields ==
    ASSUME tasks \in Seq(Task), NEW t \in TaskIds, NEW st \in Stages,
           NEW ms \in Seq(Messages), NEW n \in 0 .. MaxAsks
    PROVE  /\ tasks[t] \in Task
           /\ [tasks[t] EXCEPT !.stage = st] \in Task
           /\ [tasks[t] EXCEPT !.stage = st, !.pending = n] \in Task
           /\ [tasks[t] EXCEPT !.asked = n, !.pending = n, !.stage = st] \in Task
           /\ [tasks[t] EXCEPT !.stage = st, !.loaded = ms] \in Task
           /\ [tasks[t] EXCEPT !.stage = st, !.pending = n, !.loaded = ms]
                 \in Task
           /\ [tasks[t] EXCEPT !.pending = n] \in Task
           /\ [tasks[t] EXCEPT !.cancelled = TRUE] \in Task
<1>1. tasks[t] \in Task
  BY LenProperties DEF TaskIds
<1>2. [tasks[t] EXCEPT !.cancelled = TRUE] \in Task
  BY <1>1, Zenon DEF Task
<1> QED
  BY <1>1, <1>2 DEF Task

\* The empty service is well typed.
LEMMA TypeInit == Init => TypeOK
<1> SUFFICES ASSUME Init PROVE TypeOK
  OBVIOUS
<1>1. /\ sent \in Seq(Updates) /\ Len(sent) = 0
      /\ batch \in Seq(DOMAIN sent) /\ batch = << >> /\ DOMAIN batch = {}
      /\ tasks \in Seq(Task) /\ Len(tasks) = 0 /\ TaskIds = {}
      /\ completed \in Seq(Chats)
      /\ << >> \in Seq(Messages) /\ Len(<< >>) = 0
  BY EmptySeq DEF Init, TaskIds
<1>2. MaxTranscript \in Nat /\ MaxRestarts \in Nat
  BY SessionAssumption
<1>3. said \in [Chats -> Seq(Messages)]
  BY <1>1 DEF Init
<1>4. \A c \in Chats : transcript[c] \in Seq(Messages)
                       /\ Len(transcript[c]) <= MaxTranscript
  <2>1. \A c \in Chats : transcript[c] = << >>
    BY DEF Init
  <2>2. 0 <= MaxTranscript
    BY <1>2
  <2> QED
    BY <1>1, <2>1, <2>2, Zenon
<1>5. /\ main \in [at : {"loop", "polling", "spawned", "stopping"},
                   task : TaskIds \cup {NoTask}]
      /\ sessions \in [Chats -> TaskIds \cup {NoTask}]
      /\ cleared \in [Chats -> 0 .. Len(tasks)]
  BY <1>1 DEF Init, Loop
<1> QED
  BY <1>1, <1>2, <1>3, <1>4, <1>5 DEF Init, TypeOK

\* A new update leaves the batch a list of known ids.
LEMMA SendTypes ==
    ASSUME TypeOK, NEW u \in Updates, Send(u)
    PROVE  TypeOK'
<1>1. /\ sent \in Seq(Updates) /\ Len(sent) \in Nat
      /\ batch \in Seq(DOMAIN sent)
  BY LenProperties DEF TypeOK
<1>2. sent' = Append(sent, u)
  BY DEF Send
<1>3. /\ sent' \in Seq(Updates) /\ Len(sent') = Len(sent) + 1
      /\ DOMAIN sent \subseteq DOMAIN sent'
  BY <1>1, <1>2, AppendTo
<1>4. batch \in Seq(DOMAIN sent')
  BY <1>1, <1>3, WiderList
<1>5. UNCHANGED <<TaskIds, batch>>
  BY DEF Send, TaskIds
<1> QED
  BY <1>1, <1>3, <1>4, <1>5 DEF TypeOK, Send, history

\* What users can say, tap and type are updates.
LEMMA UsersSend ==
    ASSUME TypeOK
    PROVE  /\ \A c \in Chats, kind \in {"text", "stop", "reset"} :
                 [chat |-> c, kind |-> kind, n |-> 0, shown |-> NoTask]
                    \in Updates
           /\ \A b \in buttons :
                 [chat |-> tasks[b.task].chat, kind |-> "answer",
                  n |-> b.n, shown |-> b.task] \in Updates
           /\ \A c \in Chats, n \in 1 .. MaxAsks :
                 [chat |-> c, kind |-> "answer", n |-> n, shown |-> NoTask]
                    \in Updates
<1>1. MaxAsks \in Nat
  BY SessionAssumption
<1>2. \A t \in TaskIds : tasks[t] \in Task /\ t \in Nat
  BY LenProperties DEF TypeOK, TaskIds
<1>3. \A b \in buttons : b.task \in TaskIds /\ b.n \in 1 .. MaxAsks
  BY DEF TypeOK
<1> QED
  BY <1>1, <1>2, <1>3 DEF Updates, NoTask, Task

\* Taking an update off the batch.
LEMMA TakeTypes ==
    ASSUME TypeOK, batch # << >>, Take
    PROVE  /\ Head(batch) \in DOMAIN sent
           /\ Update \in Updates
           /\ batch' \in Seq(DOMAIN sent)
           /\ \A i, j \in DOMAIN batch' : i < j => batch'[i] < batch'[j]
           /\ offset' \in 0 .. Len(sent) + 1
<1>1. /\ sent \in Seq(Updates) /\ Len(sent) \in Nat
      /\ DOMAIN sent = 1 .. Len(sent)
      /\ batch \in Seq(DOMAIN sent) /\ Len(batch) \in Nat
      /\ DOMAIN batch = 1 .. Len(batch)
  BY LenProperties DEF TypeOK
<1>2. /\ Head(batch) \in DOMAIN sent
      /\ batch' \in Seq(DOMAIN sent)
      /\ Len(batch') = Len(batch) - 1
      /\ \A i \in 1 .. Len(batch') : batch'[i] = batch[i + 1]
  BY <1>1, HeadTailProperties DEF Take
<1>3. DOMAIN batch' = 1 .. Len(batch')
  BY <1>2, LenProperties
<1>4. ASSUME NEW i \in DOMAIN batch', NEW j \in DOMAIN batch', i < j
      PROVE  batch'[i] < batch'[j]
  <2> DEFINE n == Len(batch)
  <2>0. n \in Nat /\ i \in 1 .. n - 1 /\ j \in 1 .. n - 1
    BY <1>1, <1>2, <1>3
  <2> HIDE DEF n
  <2>1. i + 1 \in 1 .. n /\ j + 1 \in 1 .. n /\ i + 1 < j + 1
    BY <1>4, <2>0
  <2>2. batch[i + 1] < batch[j + 1]
    BY <1>1, <2>1 DEF TypeOK, n
  <2> QED
    BY <1>2, <1>3, <2>2
<1>5. Update \in Updates
  BY <1>1, <1>2 DEF Update
<1>6. offset' \in 0 .. Len(sent) + 1
  BY <1>1, <1>2 DEF Take, OffsetAfter
<1> QED
  BY <1>2, <1>4, <1>5, <1>6

\* A worker's steps keep every variable within its type.
LEMMA WorkerTypes ==
    ASSUME TypeOK, NEW t \in TaskIds, Worker(t)
    PROVE  TypeOK'
<1>0. /\ MaxAsks \in Nat /\ 0 \in 0 .. MaxAsks
      /\ tasks \in Seq(Task) /\ tasks[t] \in Task
      /\ Chat(t) \in Chats
      /\ completed \in Seq(Chats)
      /\ << >> \in Seq(Messages)
  <2>1. tasks \in Seq(Task) /\ completed \in Seq(Chats)
    BY DEF TypeOK
  <2>2. MaxAsks \in Nat /\ 0 \in 0 .. MaxAsks
    BY SessionAssumption
  <2> QED
    BY <2>1, <2>2, ATask, EmptySeq
<1> DEFINE Moved(st) == [tasks[t] EXCEPT !.stage = st]
           Freed(st) == [tasks[t] EXCEPT !.stage = st, !.pending = 0]
<1>1. /\ \A st \in Stages : Moved(st) \in Task
      /\ \A st \in Stages : Freed(st) \in Task
  BY <1>0, TaskFields
<1>2. {"running", "waiting", "ended", "loaded", "writing", "saved", "done"}
         \subseteq Stages
  BY DEF Stages
<1>3. CASE AskApproval(t)
  <2> DEFINE n == tasks[t].asked + 1
             e == [tasks[t] EXCEPT !.asked = n, !.pending = n,
                                   !.stage = "waiting"]
  <2>1. n \in 1 .. MaxAsks
    BY <1>0, <1>3 DEF AskApproval, Task
  <2> HIDE DEF n
  <2>2. e \in Task
    <3>1. n \in 0 .. MaxAsks
      BY <1>0, <2>1
    <3> QED
      BY <1>0, <1>2, <3>1, TaskFields
  <2>3. /\ tasks' = [tasks EXCEPT ![t] = e]
        /\ buttons' = buttons \cup {[task |-> t, n |-> n]}
    BY <1>3 DEF AskApproval, n
  <2>4. buttons' \in SUBSET [task : TaskIds, n : 1 .. MaxAsks]
    BY <2>1, <2>3 DEF TypeOK
  <2> HIDE DEF e
  <2> QED
    BY <1>3, <2>2, <2>3, <2>4, TaskStepTypes
       DEF AskApproval, MainUnchanged, history, TypeOK
<1>4. CASE WakeResolved(t)
  <2>1. tasks' = [tasks EXCEPT ![t] = Moved("running")]
    BY <1>4 DEF WakeResolved, Move
  <2> HIDE DEF Moved
  <2> QED
    BY <1>1, <1>2, <1>4, <2>1, TaskStepTypes
       DEF WakeResolved, MainUnchanged, server, history, TypeOK
<1>5. CASE WakeCancelled(t)
  <2>1. tasks' = [tasks EXCEPT ![t] = Freed("running")]
    BY <1>5 DEF WakeCancelled
  <2> HIDE DEF Freed
  <2> QED
    BY <1>1, <1>2, <1>5, <2>1, TaskStepTypes
       DEF WakeCancelled, MainUnchanged, server, history, TypeOK
<1>6. CASE EndRun(t)
  <2>1. tasks' = [tasks EXCEPT ![t] = Moved("ended")]
    BY <1>6 DEF EndRun, Move
  <2> HIDE DEF Moved
  <2> QED
    BY <1>1, <1>2, <1>6, <2>1, TaskStepTypes
       DEF EndRun, AfterRun, MainUnchanged, server, history, TypeOK
<1>7. CASE LoadTranscript(t)
  <2> DEFINE ms == IF transcript[Chat(t)] = Torn THEN << >>
                   ELSE transcript[Chat(t)]
             e == [tasks[t] EXCEPT !.stage = "loaded", !.loaded = ms]
  <2>1. ms \in Seq(Messages)
    BY <1>0, Zenon DEF TypeOK
  <2>2. e \in Task
    BY <1>0, <1>2, <2>1, TaskFields
  <2>3. tasks' = [tasks EXCEPT ![t] = e]
    BY <1>7 DEF LoadTranscript
  <2> HIDE DEF e
  <2> QED
    BY <1>7, <2>2, <2>3, TaskStepTypes
       DEF LoadTranscript, MainUnchanged, server, history, TypeOK
<1>8. CASE TruncateTranscript(t)
  <2>1. tasks' = [tasks EXCEPT ![t] = Moved("writing")]
    BY <1>8 DEF TruncateTranscript, Move
  <2> HIDE DEF Moved
  <2>2. transcript' = [transcript EXCEPT ![Chat(t)] = Torn]
    BY <1>8 DEF TruncateTranscript
  <2>3. /\ DOMAIN transcript' = Chats
        /\ \A c \in Chats : transcript'[c] \in {transcript[c], Torn}
    BY <1>0, <2>2 DEF TypeOK
  <2>4. \A c \in Chats : \/ transcript'[c] = Torn
                         \/ transcript'[c] \in Seq(Messages)
                            /\ Len(transcript'[c]) <= MaxTranscript
    BY <2>3 DEF TypeOK
  <2> QED
    BY <1>1, <1>2, <1>8, <2>1, <2>3, <2>4, TaskStepTypes
       DEF TruncateTranscript, MainUnchanged, server, history, TypeOK
<1>9. CASE WriteTranscript(t)
  <2>1. PICK delivered \in BOOLEAN :
          /\ transcript' = [transcript EXCEPT
                ![Chat(t)] = Recent(tasks[t].loaded \o Exchange(t, delivered))]
          /\ said' = [said EXCEPT
                ![Chat(t)] = said[Chat(t)] \o Exchange(t, delivered)]
    BY <1>9 DEF WriteTranscript, Exchange
  <2> DEFINE ms == Exchange(t, delivered)
             kept == Recent(tasks[t].loaded \o ms)
             e == [tasks[t] EXCEPT !.stage = "saved", !.loaded = << >>]
  <2>2. ms \in Seq(Messages)
    <3> DEFINE user == [task |-> t, by |-> "user"]
               answer == [task |-> t, by |-> "assistant"]
    <3>1. t \in Nat
      BY <1>0, ATask
    <3>2. user \in Messages /\ answer \in Messages
      BY <3>1 DEF Messages
    <3>3. ms = IF delivered THEN <<user, answer>> ELSE <<user>>
      BY DEF Exchange
    <3> HIDE DEF user, answer, ms
    <3> QED
      BY <3>2, <3>3
  <2> HIDE DEF ms
  <2>3. tasks[t].loaded \o ms \in Seq(Messages)
    BY <1>0, <2>2, ConcatProperties DEF Task
  <2>4. kept \in Seq(Messages) /\ Len(kept) <= MaxTranscript
    BY <2>3, RecentMessages
  <2> HIDE DEF kept
  <2>5. /\ DOMAIN transcript' = Chats
        /\ \A c \in Chats : transcript'[c] \in {transcript[c], kept}
    BY <1>0, <2>1 DEF TypeOK, kept, ms
  <2>6. \A c \in Chats : \/ transcript'[c] = Torn
                         \/ transcript'[c] \in Seq(Messages)
                            /\ Len(transcript'[c]) <= MaxTranscript
    BY <2>4, <2>5 DEF TypeOK
  <2>7. said' \in [Chats -> Seq(Messages)]
    <3>1. said[Chat(t)] \o ms \in Seq(Messages)
      BY <1>0, <2>2, ConcatProperties DEF TypeOK
    <3> QED
      BY <1>0, <2>1, <3>1 DEF TypeOK, ms
  <2>8. e \in Task
    BY <1>0, <1>2, TaskFields
  <2>9. tasks' = [tasks EXCEPT ![t] = e]
    BY <1>9 DEF WriteTranscript
  <2> HIDE DEF e
  <2> QED
    BY <1>9, <2>5, <2>6, <2>7, <2>8, <2>9, TaskStepTypes
       DEF WriteTranscript, MainUnchanged, server, TypeOK
<1>10. CASE ReportCompletion(t)
  <2>1. tasks' = [tasks EXCEPT ![t] = Moved("done")]
    BY <1>10 DEF ReportCompletion, Move
  <2> HIDE DEF Moved
  <2>2. completed' \in Seq(Chats)
    BY <1>0, <1>10, AppendProperties DEF ReportCompletion
  <2> QED
    BY <1>1, <1>2, <1>10, <2>1, <2>2, TaskStepTypes
       DEF ReportCompletion, MainUnchanged, server, history, TypeOK
<1> QED
  BY <1>3, <1>4, <1>5, <1>6, <1>7, <1>8, <1>9, <1>10 DEF Worker, Proceed

\* Collecting completions keeps the sessions typed.
LEMMA CollectedTypes ==
    ASSUME TypeOK, NEW done
    PROVE  CollectedOf(done) \in [Chats -> TaskIds \cup {NoTask}]
  BY DEF TypeOK, CollectedOf

\* Every step keeps every variable within its type.
LEMMA TypeNext == TypeOK /\ [Next]_vars => TypeOK'
<1> SUFFICES ASSUME TypeOK, [Next]_vars PROVE TypeOK'
  OBVIOUS
<1>0. /\ MaxAsks \in Nat /\ MaxRestarts \in Nat /\ 0 \in 0 .. MaxAsks
      /\ sent \in Seq(Updates) /\ Len(sent) \in Nat /\ DOMAIN sent = 1 .. Len(sent)
      /\ tasks \in Seq(Task) /\ Len(tasks) \in Nat /\ TaskIds = 1 .. Len(tasks)
      /\ completed \in Seq(Chats)
      /\ << >> \in Seq(Chats) /\ << >> \in Seq(Messages)
      /\ << >> \in Seq(DOMAIN sent) /\ DOMAIN << >> = {}
  BY SessionAssumption, LenProperties, EmptySeq DEF TypeOK, TaskIds
<1>1. ASSUME NEW c \in Chats, NEW kind \in {"text", "stop", "reset"},
             Say(c, kind)
      PROVE  TypeOK'
  BY <1>1, UsersSend, SendTypes DEF Say
<1>2. ASSUME NEW b \in buttons, Tap(b) PROVE TypeOK'
  BY <1>2, UsersSend, SendTypes DEF Tap
<1>3. ASSUME NEW c \in Chats, NEW n \in 1 .. MaxAsks, Type(c, n)
      PROVE  TypeOK'
  BY <1>3, UsersSend, SendTypes DEF Type
<1>4. CASE CollectFinishedTasks
  <2>1. sessions' \in [Chats -> TaskIds \cup {NoTask}]
    BY <1>4, CollectedTypes DEF CollectFinishedTasks
  <2>2. main' \in [at : {"loop", "polling", "spawned", "stopping"},
                   task : TaskIds \cup {NoTask}]
    BY <1>4 DEF CollectFinishedTasks, Loop
  <2>3. TaskIds' = TaskIds
    BY <1>4 DEF CollectFinishedTasks, TaskIds
  <2> QED
    BY <1>0, <1>4, <2>1, <2>2, <2>3
       DEF TypeOK, CollectFinishedTasks, server, history
<1>5. BeforeOffset \in 0 .. Len(sent)
  BY <1>0 DEF TypeOK, BeforeOffset
<1>6. CASE GetUpdates
  <2> DEFINE id == BeforeOffset
             n == Len(sent) - id
  <2>1. n \in Nat /\ batch' = [i \in 1 .. n |-> id + i]
    BY <1>0, <1>5, <1>6 DEF GetUpdates, UpdatesAfter
  <2>2. \A i \in 1 .. n : id + i \in DOMAIN sent
    BY <1>0, <1>5
  <2>3. batch' \in [1 .. n -> DOMAIN sent]
    BY <2>1, <2>2
  <2>4. batch' \in Seq(DOMAIN sent)
    BY <2>1, <2>3, SeqDef
  <2>5. \A i, j \in DOMAIN batch' : i < j => batch'[i] < batch'[j]
    BY <1>0, <1>5, <2>1
  <2>6. main' \in [at : {"loop", "polling", "spawned", "stopping"},
                   task : TaskIds \cup {NoTask}]
    BY <1>6 DEF GetUpdates, Loop
  <2>7. dropped' \in 0 .. Len(sent)
    BY <1>5, <1>6 DEF GetUpdates, Confirmed
  <2>8. TaskIds' = TaskIds
    BY <1>6 DEF GetUpdates, TaskIds
  <2> QED
    BY <1>6, <2>4, <2>5, <2>6, <2>7, <2>8 DEF TypeOK, GetUpdates, history
<1>7. CASE PollingFails
  <2>1. main' \in [at : {"loop", "polling", "spawned", "stopping"},
                   task : TaskIds \cup {NoTask}]
    BY <1>7 DEF PollingFails, Loop
  <2>2. dropped' \in 0 .. Len(sent)
    BY <1>5, <1>7 DEF PollingFails, Confirmed, TypeOK
  <2>3. TaskIds' = TaskIds
    BY <1>7 DEF PollingFails, TaskIds
  <2> QED
    BY <1>7, <2>1, <2>2, <2>3 DEF TypeOK, PollingFails, history
<1>8. ASSUME NEW kind, Handling(kind), Take, Handled
      PROVE  /\ Update.chat \in Chats
             /\ Update.shown \in Nat /\ Update.n \in 0 .. MaxAsks
             /\ batch' \in Seq(DOMAIN sent)
             /\ \A i, j \in DOMAIN batch' : i < j => batch'[i] < batch'[j]
             /\ offset' \in 0 .. Len(sent) + 1
             /\ handled' \subseteq DOMAIN sent
  <2>1. batch # << >>
    BY <1>8 DEF Handling
  <2> QED
    BY <1>8, <2>1, TakeTypes DEF TypeOK, Handled, Updates
<1>9. CASE StartMessage
  <2> DEFINE c == Update.chat
             open == CollectedOf(completed)
  <2>1. /\ c \in Chats
        /\ batch' \in Seq(DOMAIN sent)
        /\ \A i, j \in DOMAIN batch' : i < j => batch'[i] < batch'[j]
        /\ offset' \in 0 .. Len(sent) + 1
        /\ handled' \subseteq DOMAIN sent
    BY <1>8, <1>9 DEF StartMessage
  <2>2. open \in [Chats -> TaskIds \cup {NoTask}]
    BY CollectedTypes
  <2>3. sessions' = open /\ completed' = << >>
    BY <1>9 DEF StartMessage
  <2>4. NewTask(c) \in Task
    BY <1>0, <2>1 DEF NewTask, Task, Stages
  <2>5. /\ tasks' \in Seq(Task)
        /\ Len(tasks') \in {Len(tasks), Len(tasks) + 1}
        /\ main' \in [at : {"loop", "polling", "spawned", "stopping"},
                      task : 1 .. Len(tasks') \cup {NoTask}]
    <3>1. CASE MayStart(c, open)
      <4>1. /\ tasks' = Append(tasks, NewTask(c))
            /\ main' = [at |-> "spawned", task |-> Len(tasks) + 1]
        BY <1>9, <3>1 DEF StartMessage
      <4> QED
        BY <1>0, <2>4, <4>1, AppendTo
    <3>2. CASE ~MayStart(c, open)
      BY <1>0, <1>9, <3>2 DEF StartMessage, TypeOK
    <3> QED
      BY <3>1, <3>2
  <2>6. /\ TaskIds' = 1 .. Len(tasks')
        /\ TaskIds \subseteq TaskIds'
        /\ 0 .. Len(tasks) \subseteq 0 .. Len(tasks')
    BY <1>0, <2>5, LenProperties DEF TaskIds
  <2> HIDE DEF c, open
  <2>7. UNCHANGED <<sent, dropped, buttons, transcript, restarts, cleared, said,
                    torn>>
    BY <1>9 DEF StartMessage, server
  <2>8. /\ sessions' \in [Chats -> TaskIds' \cup {NoTask}]
        /\ cleared' \in [Chats -> 0 .. Len(tasks')]
        /\ buttons' \in SUBSET [task : TaskIds', n : 1 .. MaxAsks]
    BY <2>2, <2>3, <2>6, <2>7 DEF TypeOK
  <2> QED
    BY <1>0, <2>1, <2>3, <2>5, <2>6, <2>7, <2>8 DEF TypeOK
<1>10. CASE InsertSession
  <2>1. TaskIds' = TaskIds /\ main.task \in TaskIds \cup {NoTask}
    BY <1>10 DEF InsertSession, TaskIds, TypeOK
  <2>2. /\ sessions' \in [Chats -> TaskIds \cup {NoTask}]
        /\ main' \in [at : {"loop", "polling", "spawned", "stopping"},
                      task : TaskIds \cup {NoTask}]
    BY <1>10, <2>1 DEF InsertSession, Loop, TypeOK
  <2> QED
    BY <1>10, <2>1, <2>2 DEF TypeOK, InsertSession, server, history
<1>11. CASE StopExpires
  <2> DEFINE t == sessions[Update.chat]
  <2>1. /\ Update.chat \in Chats
        /\ batch' \in Seq(DOMAIN sent)
        /\ \A i, j \in DOMAIN batch' : i < j => batch'[i] < batch'[j]
        /\ offset' \in 0 .. Len(sent) + 1
        /\ handled' \subseteq DOMAIN sent
    BY <1>8, <1>11 DEF StopExpires
  <2>2. t \in TaskIds \cup {NoTask}
    BY <2>1 DEF TypeOK
  <2>3. /\ tasks' \in Seq(Task) /\ Len(tasks') = Len(tasks)
        /\ TaskIds' = TaskIds
        /\ main' \in [at : {"loop", "polling", "spawned", "stopping"},
                      task : TaskIds \cup {NoTask}]
    <3>1. CASE t = NoTask
      BY <1>0, <1>11, <3>1 DEF StopExpires, TypeOK, TaskIds
    <3>2. CASE t # NoTask
      <4>1. /\ tasks' = [tasks EXCEPT ![t] = [tasks[t] EXCEPT !.pending = 0]]
            /\ main' = [at |-> "stopping", task |-> t]
        BY <1>11, <3>2 DEF StopExpires
      <4>2. [tasks[t] EXCEPT !.pending = 0] \in Task
        BY <1>0, <2>2, <3>2, TaskFields DEF Stages
      <4> QED
        BY <1>0, <2>2, <3>2, <4>1, <4>2, ReplaceTask
    <3> QED
      BY <3>1, <3>2
  <2> HIDE DEF t
  <2> QED
    BY <1>11, <2>1, <2>3 DEF TypeOK, StopExpires, server
<1>12. CASE StopCancels
  <2>1. main.task \in TaskIds \cup {NoTask}
    BY DEF TypeOK
  <2>2. /\ tasks' \in Seq(Task) /\ Len(tasks') = Len(tasks)
        /\ TaskIds' = TaskIds
    <3>1. CASE main.task \in TaskIds
      <4>1. tasks' = [tasks EXCEPT ![main.task] =
                         [tasks[main.task] EXCEPT !.cancelled = TRUE]]
        BY <1>12 DEF StopCancels
      <4>2. [tasks[main.task] EXCEPT !.cancelled = TRUE] \in Task
        BY <1>0, <3>1, TaskFields DEF Stages
      <4> QED
        BY <1>0, <3>1, <4>1, <4>2, ReplaceTask
    <3>2. CASE main.task \notin TaskIds
      <4>1. tasks' = tasks
        BY <1>0, <1>12, <3>2, LenProperties DEF StopCancels, TaskIds
      <4> QED
        BY <1>0, <4>1 DEF TaskIds
    <3> QED
      BY <3>1, <3>2
  <2>3. main' \in [at : {"loop", "polling", "spawned", "stopping"},
                   task : TaskIds \cup {NoTask}]
    BY <1>12 DEF StopCancels, Loop
  <2> QED
    BY <1>12, <2>2, <2>3 DEF TypeOK, StopCancels, server, history
<1>13. CASE ResetChat
  <2> DEFINE c == Update.chat
  <2>1. /\ c \in Chats
        /\ batch' \in Seq(DOMAIN sent)
        /\ \A i, j \in DOMAIN batch' : i < j => batch'[i] < batch'[j]
        /\ offset' \in 0 .. Len(sent) + 1
        /\ handled' \subseteq DOMAIN sent
    BY <1>8, <1>13 DEF ResetChat
  <2>2. TaskIds' = TaskIds /\ Len(<< >>) = 0 /\ MaxTranscript \in Nat
    BY <1>13, EmptySeq, SessionAssumption DEF ResetChat, TaskIds
  <2>3. /\ sessions' \in [Chats -> TaskIds \cup {NoTask}]
        /\ cleared' \in [Chats -> 0 .. Len(tasks)]
        /\ torn' \in SUBSET Chats
    <3>1. CASE MayReset(c)
      <4>1. /\ sessions' = [sessions EXCEPT ![c] = NoTask]
            /\ cleared' = [cleared EXCEPT ![c] = Len(tasks)]
            /\ torn' = torn \ {c}
        BY <1>13, <3>1 DEF ResetChat
      <4>2. Len(tasks) \in 0 .. Len(tasks)
        BY <1>0
      <4> QED
        BY <2>1, <4>1, <4>2 DEF TypeOK
    <3>2. CASE ~MayReset(c)
      BY <1>13, <3>2 DEF ResetChat, TypeOK
    <3> QED
      BY <3>1, <3>2
  <2>4. said' \in [Chats -> Seq(Messages)]
    BY <1>0, <1>13, <2>1 DEF ResetChat, TypeOK
  <2>5. /\ DOMAIN transcript' = Chats
        /\ \A d \in Chats : transcript'[d] \in {transcript[d], << >>}
    BY <1>13, <2>1 DEF ResetChat, TypeOK
  <2>6. \A d \in Chats :
            \/ transcript'[d] = Torn
            \/ transcript'[d] \in Seq(Messages)
               /\ Len(transcript'[d]) <= MaxTranscript
    <3>1. 0 <= MaxTranscript
      BY <2>2
    <3> QED
      BY <1>0, <2>2, <2>5, <3>1, Zenon DEF TypeOK
  <2> HIDE DEF c
  <2> QED
    BY <1>13, <2>1, <2>2, <2>3, <2>4, <2>5, <2>6 DEF TypeOK, ResetChat, server
<1>14. CASE AnswerApproval
  <2> DEFINE t == sessions[Update.chat]
  <2>1. /\ Update.chat \in Chats
        /\ batch' \in Seq(DOMAIN sent)
        /\ \A i, j \in DOMAIN batch' : i < j => batch'[i] < batch'[j]
        /\ offset' \in 0 .. Len(sent) + 1
        /\ handled' \subseteq DOMAIN sent
    BY <1>8, <1>14 DEF AnswerApproval
  <2>2. t \in TaskIds \cup {NoTask}
    BY <2>1 DEF TypeOK
  <2>3. /\ tasks' \in Seq(Task) /\ Len(tasks') = Len(tasks)
        /\ TaskIds' = TaskIds
        /\ buttons' \in SUBSET [task : TaskIds, n : 1 .. MaxAsks]
    <3>1. CASE ~Resolves(Update)
      BY <1>0, <1>14, <3>1 DEF AnswerApproval, TypeOK, TaskIds
    <3>2. CASE Resolves(Update)
      <4>1. /\ tasks' = [tasks EXCEPT ![t] = [tasks[t] EXCEPT !.pending = 0]]
            /\ buttons' \subseteq buttons
            /\ t # NoTask
        BY <1>14, <3>2 DEF AnswerApproval, Resolves
      <4>2. [tasks[t] EXCEPT !.pending = 0] \in Task
        BY <1>0, <2>2, <4>1, TaskFields DEF Stages
      <4>3. tasks' \in Seq(Task) /\ Len(tasks') = Len(tasks) /\ TaskIds' = TaskIds
        BY <1>0, <2>2, <4>1, <4>2, ReplaceTask
      <4> QED
        BY <4>1, <4>3 DEF TypeOK
    <3> QED
      BY <3>1, <3>2
  <2> HIDE DEF t
  <2> QED
    BY <1>14, <2>1, <2>3 DEF TypeOK, AnswerApproval
<1>15. ASSUME NEW t \in TaskIds, Worker(t) PROVE TypeOK'
  BY <1>15, WorkerTypes
<1>16. CASE Restart
  <2>1. /\ tasks' \in Seq(Task) /\ Len(tasks') = Len(tasks)
        /\ TaskIds' = TaskIds
    <3>1. tasks' = [t \in 1 .. Len(tasks) |->
                      IF Live(t)
                      THEN [tasks[t] EXCEPT !.stage = "dead", !.pending = 0,
                                            !.loaded = << >>]
                      ELSE tasks[t]]
      BY <1>0, <1>16 DEF Restart
    <3>2. ASSUME NEW t \in 1 .. Len(tasks)
          PROVE  /\ tasks[t] \in Task
                 /\ [tasks[t] EXCEPT !.stage = "dead", !.pending = 0,
                                     !.loaded = << >>] \in Task
      BY <1>0, TaskFields DEF Stages
    <3>3. tasks' \in [1 .. Len(tasks) -> Task]
      BY <3>1, <3>2
    <3>4. tasks' \in Seq(Task)
      BY <1>0, <3>3, SeqDef
    <3>5. Len(tasks') = Len(tasks)
      BY <1>0, <3>3, <3>4, LenProperties
    <3> QED
      BY <1>0, <3>4, <3>5, LenProperties DEF TaskIds
  <2>2. main' \in [at : {"loop", "polling", "spawned", "stopping"},
                   task : TaskIds \cup {NoTask}]
    BY <1>16 DEF Restart, Loop
  <2>3. sessions' \in [Chats -> TaskIds \cup {NoTask}]
    BY <1>16 DEF Restart
  <2>4. torn' \in SUBSET Chats
    <3>1. \A t \in TaskIds : Chat(t) \in Chats
      BY <1>0, ATask
    <3>2. {Chat(t) : t \in {x \in TaskIds : At(x, "writing")}} \subseteq Chats
      BY <3>1
    <3> QED
      BY <1>16, <3>2 DEF Restart, TypeOK
  <2>5. /\ offset' = 0 /\ batch' = << >> /\ completed' = << >>
        /\ UNCHANGED <<sent, dropped, buttons, transcript, handled, cleared,
                       said>>
    BY <1>16 DEF Restart, server
  <2>6. restarts' \in 0 .. MaxRestarts
    <3>1. restarts \in 0 .. MaxRestarts
      BY DEF TypeOK
    <3>2. restarts < MaxRestarts /\ restarts' = restarts + 1
      BY <1>16 DEF Restart
    <3> QED
      BY <1>0, <3>1, <3>2
  <2>7. /\ batch' \in Seq(DOMAIN sent) /\ DOMAIN batch' = {}
        /\ completed' \in Seq(Chats)
        /\ offset' \in 0 .. Len(sent) + 1
    BY <1>0, <2>5
  <2> QED
    BY <2>1, <2>2, <2>3, <2>4, <2>5, <2>6, <2>7 DEF TypeOK
<1>17. CASE UNCHANGED vars
  BY <1>17 DEF TypeOK, vars, TaskIds
<1> QED
  BY <1>1, <1>2, <1>3, <1>4, <1>6, <1>7, <1>9, <1>10, <1>11, <1>12, <1>13,
     <1>14, <1>15, <1>16, <1>17 DEF Next, MainStep

\* Every variable keeps its type, in particular a transcript its cap.
THEOREM TypeCorrect == Spec => []TypeOK
  BY TypeInit, TypeNext, PTL DEF Spec

-----------------------------------------------------------------------------
(* Sessions and workers.  The inductive invariant adds to the checked      *)
(* invariants that a session is filed under its own chat, and what holds   *)
(* between spawning a worker and inserting its session: the chat has no    *)
(* session, so the worker is the only one, and it may have reported.       *)

Reported(c) == \E i \in DOMAIN completed : completed[i] = c

SessionsAreFiled ==
    \A c \in Chats : sessions[c] # NoTask => Chat(sessions[c]) = c

SpawnedIsAlone ==
    main.at = "spawned" =>
        /\ main.task \in TaskIds
        /\ sessions[Chat(main.task)] = NoTask
        /\ Live(main.task) \/ Reported(Chat(main.task))

SInv ==
    /\ TypeOK
    /\ SessionsAreFiled
    /\ SpawnedIsAlone
    /\ WorkersAreReachable
    /\ BlockedOnlyByItsWorker
    /\ CompletionsAreOfFinishedTasks

\* A chat has at most one worker that is still going.
LEMMA OneWorkerPerChat ==
    ASSUME SInv, NEW t \in TaskIds, NEW u \in TaskIds,
           Live(t), Live(u), Chat(t) = Chat(u)
    PROVE  t = u
<1>1. sessions[Chat(t)] = t \/ BeingInserted(t)
  BY DEF SInv, WorkersAreReachable
<1>2. sessions[Chat(t)] = u \/ BeingInserted(u)
  BY DEF SInv, WorkersAreReachable
<1>3. \A x \in TaskIds : x # NoTask
  BY ATask DEF SInv, TypeOK, NoTask
<1> QED
  BY <1>1, <1>2, <1>3 DEF SInv, SpawnedIsAlone, BeingInserted

\* A step that starts no task, ends none and keeps the sessions and the
\* completions keeps the invariant.
LEMMA SessionsUntouched ==
    ASSUME SInv, TypeOK',
           TaskIds' = TaskIds,
           \A t \in TaskIds : tasks'[t].chat = tasks[t].chat
                              /\ (Live(t)' <=> Live(t)),
           main' = main \/ (main.at # "spawned" /\ main'.at # "spawned"),
           UNCHANGED <<sessions, completed>>
    PROVE  SInv'
<1>1. \A t \in TaskIds : Chat(t)' = Chat(t)
  BY DEF Chat
<1>2. \A t \in TaskIds : BeingInserted(t) <=> BeingInserted(t)'
  BY DEF BeingInserted
<1>3. \A c \in Chats : sessions[c] \in TaskIds \cup {NoTask}
  BY DEF SInv, TypeOK
<1>4. WorkersAreReachable'
  BY <1>1, <1>2 DEF SInv, WorkersAreReachable
<1>5. SessionsAreFiled'
  BY <1>1, <1>3 DEF SInv, SessionsAreFiled
<1>6. SpawnedIsAlone'
  BY <1>1 DEF SInv, SpawnedIsAlone, Reported
<1>7. BlockedOnlyByItsWorker'
  BY <1>3 DEF SInv, BlockedOnlyByItsWorker
<1>8. CompletionsAreOfFinishedTasks'
  BY <1>1 DEF SInv, CompletionsAreOfFinishedTasks
<1> QED
  BY <1>4, <1>5, <1>6, <1>7, <1>8 DEF SInv

\* What replacing a task by one of the same chat does to chats and workers.
LEMMA SameChat ==
    ASSUME NEW t \in TaskIds, NEW e,
           tasks' = [tasks EXCEPT ![t] = e],
           e.chat = tasks[t].chat
    PROVE  /\ TaskIds' = TaskIds
           /\ \A u \in TaskIds : tasks'[u].chat = tasks[u].chat
           /\ \A u \in TaskIds : u # t => (Live(u)' <=> Live(u))
           /\ Live(t)' <=> e.stage \notin {"done", "dead"}
<1>1. TaskIds' = TaskIds /\ tasks'[t] = e
      /\ \A u \in TaskIds : u # t => tasks'[u] = tasks[u]
  BY DEF TaskIds
<1> QED
  BY <1>1 DEF Live

\* An empty service has neither sessions nor workers.
LEMMA SessionsInit == Init => SInv
<1> SUFFICES ASSUME Init PROVE SInv
  OBVIOUS
<1>1. TypeOK
  BY TypeInit
<1>2. TaskIds = {} /\ DOMAIN completed = {} /\ main = Loop
  BY DEF Init, TaskIds
<1> QED
  BY <1>1, <1>2
     DEF SInv, SessionsAreFiled, SpawnedIsAlone, WorkersAreReachable,
         BlockedOnlyByItsWorker, CompletionsAreOfFinishedTasks, Init, Loop

\* The steps of a worker before its last keep the invariant; with the last,
\* its completion is in the channel.
LEMMA WorkerSessions ==
    ASSUME SInv, TypeOK', NEW t \in TaskIds, Worker(t)
    PROVE  SInv'
<1>0. /\ tasks \in Seq(Task) /\ tasks[t] \in Task
      /\ TaskIds = 1 .. Len(tasks) /\ tasks' \in Seq(Task)
      /\ completed \in Seq(Chats)
  BY ATask, LenProperties DEF SInv, TypeOK, TaskIds
<1>1. ASSUME NEW e, tasks' = [tasks EXCEPT ![t] = e],
             e.chat = tasks[t].chat, e.stage \notin {"done", "dead"},
             Live(t), UNCHANGED <<sessions, completed, main>>
      PROVE  SInv'
  BY <1>1, SameChat, SessionsUntouched
<1>2. CASE AskApproval(t)
  <2> DEFINE e == [tasks[t] EXCEPT !.asked = tasks[t].asked + 1,
                                   !.pending = tasks[t].asked + 1,
                                   !.stage = "waiting"]
  <2>1. tasks' = [tasks EXCEPT ![t] = e]
    BY <1>2 DEF AskApproval
  <2>2. e.chat = tasks[t].chat /\ e.stage \notin {"done", "dead"}
    BY <1>0 DEF Task
  <2>3. Live(t) /\ UNCHANGED <<sessions, completed, main>>
    BY <1>2 DEF AskApproval, Live, At, MainUnchanged, AfterRun
  <2> HIDE DEF e
  <2> QED
    BY <1>1, <2>1, <2>2, <2>3
<1>4. CASE WakeResolved(t)
  <2> DEFINE e == [tasks[t] EXCEPT !.stage = "running"]
  <2>1. tasks' = [tasks EXCEPT ![t] = e]
    BY <1>4 DEF WakeResolved, Move
  <2>2. e.chat = tasks[t].chat /\ e.stage \notin {"done", "dead"}
    BY <1>0 DEF Task
  <2>3. Live(t) /\ UNCHANGED <<sessions, completed, main>>
    BY <1>4 DEF WakeResolved, Live, At, MainUnchanged, AfterRun
  <2> HIDE DEF e
  <2> QED
    BY <1>1, <2>1, <2>2, <2>3
<1>5. CASE WakeCancelled(t)
  <2> DEFINE e == [tasks[t] EXCEPT !.stage = "running", !.pending = 0]
  <2>1. tasks' = [tasks EXCEPT ![t] = e]
    BY <1>5 DEF WakeCancelled
  <2>2. e.chat = tasks[t].chat /\ e.stage \notin {"done", "dead"}
    BY <1>0 DEF Task
  <2>3. Live(t) /\ UNCHANGED <<sessions, completed, main>>
    BY <1>5 DEF WakeCancelled, Live, At, MainUnchanged, AfterRun
  <2> HIDE DEF e
  <2> QED
    BY <1>1, <2>1, <2>2, <2>3
<1>6. CASE EndRun(t)
  <2> DEFINE e == [tasks[t] EXCEPT !.stage = "ended"]
  <2>1. tasks' = [tasks EXCEPT ![t] = e]
    BY <1>6 DEF EndRun, Move
  <2>2. e.chat = tasks[t].chat /\ e.stage \notin {"done", "dead"}
    BY <1>0 DEF Task
  <2>3. Live(t) /\ UNCHANGED <<sessions, completed, main>>
    BY <1>6 DEF EndRun, Live, At, MainUnchanged, AfterRun
  <2> HIDE DEF e
  <2> QED
    BY <1>1, <2>1, <2>2, <2>3
<1>7. CASE LoadTranscript(t)
  <2> DEFINE e == [tasks[t] EXCEPT
                    !.stage = "loaded",
                    !.loaded = IF transcript[Chat(t)] = Torn
                               THEN << >> ELSE transcript[Chat(t)]]
  <2>1. tasks' = [tasks EXCEPT ![t] = e]
    BY <1>7 DEF LoadTranscript
  <2>2. e.chat = tasks[t].chat /\ e.stage \notin {"done", "dead"}
    BY <1>0 DEF Task
  <2>3. Live(t) /\ UNCHANGED <<sessions, completed, main>>
    BY <1>7 DEF LoadTranscript, Live, At, MainUnchanged, AfterRun
  <2> HIDE DEF e
  <2> QED
    BY <1>1, <2>1, <2>2, <2>3
<1>8. CASE TruncateTranscript(t)
  <2> DEFINE e == [tasks[t] EXCEPT !.stage = "writing"]
  <2>1. tasks' = [tasks EXCEPT ![t] = e]
    BY <1>8 DEF TruncateTranscript, Move
  <2>2. e.chat = tasks[t].chat /\ e.stage \notin {"done", "dead"}
    BY <1>0 DEF Task
  <2>3. Live(t) /\ UNCHANGED <<sessions, completed, main>>
    BY <1>8 DEF TruncateTranscript, Live, At, MainUnchanged, AfterRun
  <2> HIDE DEF e
  <2> QED
    BY <1>1, <2>1, <2>2, <2>3
<1>9. CASE WriteTranscript(t)
  <2> DEFINE e == [tasks[t] EXCEPT !.stage = "saved", !.loaded = << >>]
  <2>1. tasks' = [tasks EXCEPT ![t] = e]
    BY <1>9 DEF WriteTranscript
  <2>2. e.chat = tasks[t].chat /\ e.stage \notin {"done", "dead"}
    BY <1>0 DEF Task
  <2>3. Live(t) /\ UNCHANGED <<sessions, completed, main>>
    BY <1>9 DEF WriteTranscript, Live, At, MainUnchanged, AfterRun
  <2> HIDE DEF e
  <2> QED
    BY <1>1, <2>1, <2>2, <2>3
<1>3. CASE ReportCompletion(t)
  <2> DEFINE e == [tasks[t] EXCEPT !.stage = "done"]
  <2>0. PICK c \in Chats : c = Chat(t)
    BY <1>0, ATask
  <2>1. /\ tasks' = [tasks EXCEPT ![t] = e]
        /\ completed' = Append(completed, c)
        /\ UNCHANGED <<sessions, main>>
        /\ Live(t)
    BY <1>3, <2>0 DEF ReportCompletion, Move, MainUnchanged, Live, At
  <2>2. e.chat = tasks[t].chat /\ e.stage = "done"
    BY <1>0 DEF Task
  <2> HIDE DEF e
  <2>3. /\ TaskIds' = TaskIds
        /\ \A u \in TaskIds : Chat(u)' = Chat(u)
        /\ \A u \in TaskIds : u # t => (Live(u)' <=> Live(u))
        /\ ~Live(t)'
    BY <2>1, <2>2, SameChat DEF Chat
  <2>4. /\ \A d \in Chats : Reported(d) => Reported(d)'
        /\ Reported(c)'
        /\ \A d \in Chats : Reported(d)' => Reported(d) \/ d = c
    <3>1. /\ DOMAIN completed' = 1 .. Len(completed) + 1
          /\ DOMAIN completed = 1 .. Len(completed)
          /\ \A i \in DOMAIN completed : completed'[i] = completed[i]
          /\ completed'[Len(completed) + 1] = c
      BY <1>0, <2>1, AppendTo
    <3>2. PICK n \in Nat : n = Len(completed)
      BY <1>0, LenProperties
    <3>3. /\ DOMAIN completed' = DOMAIN completed \cup {n + 1}
          /\ completed'[n + 1] = c
      BY <3>1, <3>2
    <3> QED
      BY <3>1, <3>3 DEF Reported
  <2>5. \A u \in TaskIds : Live(u) /\ Chat(u) = c => u = t
    BY <2>1, <2>0, OneWorkerPerChat
  <2>6. WorkersAreReachable'
    BY <2>1, <2>3 DEF SInv, WorkersAreReachable, BeingInserted
  <2>7. \A d \in Chats : sessions[d] \in TaskIds \cup {NoTask}
    BY DEF SInv, TypeOK
  <2>8. SessionsAreFiled'
    BY <2>1, <2>3, <2>7 DEF SInv, SessionsAreFiled
  <2>9. SpawnedIsAlone'
    <3>1. SUFFICES ASSUME main.at = "spawned" PROVE SpawnedIsAlone'
      BY <2>1 DEF SpawnedIsAlone
    <3>2. PICK m \in TaskIds : m = main.task
      BY <3>1 DEF SInv, SpawnedIsAlone
    <3>3. sessions[Chat(m)] = NoTask /\ (Live(m) \/ Reported(Chat(m)))
      BY <3>1, <3>2 DEF SInv, SpawnedIsAlone
    <3>4. PICK d \in Chats : d = Chat(m) /\ d = Chat(m)'
      BY <1>0, <2>3, ATask
    <3>5. Live(m)' \/ Reported(d)'
      <4>1. CASE m = t
        BY <2>4, <2>0, <3>4, <4>1
      <4>2. CASE m # t
        BY <2>3, <2>4, <3>3, <3>4, <4>2
      <4> QED
        BY <4>1, <4>2
    <3>6. main'.task = m /\ m \in TaskIds' /\ sessions'[d] = NoTask
      BY <2>1, <2>3, <3>2, <3>3, <3>4
    <3> QED
      BY <3>4, <3>5, <3>6 DEF SpawnedIsAlone, Reported, Live, Chat
  <2>10. BlockedOnlyByItsWorker'
    <3>1. ASSUME NEW d \in Chats, sessions[d] # NoTask
          PROVE  tasks'[sessions[d]].stage \notin {"done", "dead"}
                 \/ Reported(d)'
      <4>1. PICK u \in TaskIds : u = sessions[d]
        BY <2>7, <3>1
      <4>2. Chat(u) = d /\ (Live(u) \/ Reported(d))
        BY <3>1, <4>1
           DEF SInv, SessionsAreFiled, BlockedOnlyByItsWorker, Reported
      <4>3. Live(u)' \/ Reported(d)'
        BY <2>3, <2>4, <2>0, <4>2
      <4> QED
        BY <4>1, <4>3 DEF Live
    <3> QED
      BY <2>1, <3>1 DEF BlockedOnlyByItsWorker, Reported, Live
  <2>11. CompletionsAreOfFinishedTasks'
    <3>1. ASSUME NEW u \in TaskIds, Live(u)' PROVE ~Reported(Chat(u))'
      <4>1. u # t /\ Live(u) /\ Chat(u) # c
        BY <2>3, <2>5, <3>1
      <4>2. ~Reported(Chat(u))
        BY <4>1 DEF SInv, CompletionsAreOfFinishedTasks, Reported
      <4>3. Chat(u) \in Chats /\ Chat(u)' = Chat(u)
        BY <1>0, <2>3, ATask
      <4> QED
        BY <2>4, <4>1, <4>2, <4>3 DEF Reported
    <3> QED
      BY <2>3, <3>1 DEF CompletionsAreOfFinishedTasks, Reported
  <2> QED
    BY <2>6, <2>8, <2>9, <2>10, <2>11 DEF SInv
<1> QED
  BY <1>2, <1>3, <1>4, <1>5, <1>6, <1>7, <1>8, <1>9 DEF Worker, Proceed

\* Every step keeps the invariant.
LEMMA SessionsNext == SInv /\ [Next]_vars => SInv'
<1> SUFFICES ASSUME SInv, [Next]_vars PROVE SInv'
  OBVIOUS
<1>0. /\ TypeOK /\ TypeOK'
      /\ tasks \in Seq(Task) /\ tasks' \in Seq(Task)
      /\ TaskIds = 1 .. Len(tasks) /\ Len(tasks) \in Nat
  BY TypeNext, LenProperties DEF SInv, TypeOK, TaskIds
<1>1. CASE UNCHANGED <<tasks, sessions, completed, main>>
  <2>1. TaskIds' = TaskIds
    BY <1>1 DEF TaskIds
  <2>2. \A t \in TaskIds : tasks'[t].chat = tasks[t].chat
                           /\ (Live(t)' <=> Live(t))
    BY <1>1 DEF Live
  <2> QED
    BY <1>0, <1>1, <2>1, <2>2, SessionsUntouched
<1>2. CASE GetUpdates \/ PollingFails
  <2>1. /\ UNCHANGED <<tasks, sessions, completed>>
        /\ main.at = "polling" /\ main'.at = "loop"
    BY <1>2 DEF GetUpdates, PollingFails, Loop
  <2>2. TaskIds' = TaskIds
    BY <2>1 DEF TaskIds
  <2>3. \A t \in TaskIds : tasks'[t].chat = tasks[t].chat
                           /\ (Live(t)' <=> Live(t))
    BY <2>1 DEF Live
  <2> QED
    BY <1>0, <2>1, <2>2, <2>3, SessionsUntouched
<1>3. CASE CollectFinishedTasks
  <2>1. /\ sessions' = CollectedOf(completed)
        /\ completed' = << >> /\ tasks' = tasks
        /\ main = Loop /\ main'.at = "polling"
    BY <1>3 DEF CollectFinishedTasks, Loop
  <2>2. /\ TaskIds' = TaskIds /\ DOMAIN completed' = {}
        /\ \A t \in TaskIds : (Live(t)' <=> Live(t)) /\ Chat(t)' = Chat(t)
    BY <2>1 DEF TaskIds, Live, Chat
  <2>3. \A c \in Chats : /\ Reported(c) => sessions'[c] = NoTask
                         /\ ~Reported(c) => sessions'[c] = sessions[c]
    BY <2>1 DEF CollectedOf, Reported
  <2>4. \A t \in TaskIds : Chat(t) \in Chats /\ ~BeingInserted(t)
    BY <1>0, <2>1, ATask DEF BeingInserted, Loop
  <2>5. \A c \in Chats : sessions[c] \in TaskIds \cup {NoTask}
    BY <1>0 DEF TypeOK
  <2>6. WorkersAreReachable'
    <3>1. ASSUME NEW t \in TaskIds, Live(t) PROVE sessions'[Chat(t)] = t
      <4>1. sessions[Chat(t)] = t
        BY <2>4, <3>1 DEF SInv, WorkersAreReachable
      <4>2. ~Reported(Chat(t))
        BY <3>1 DEF SInv, CompletionsAreOfFinishedTasks, Reported
      <4> QED
        BY <2>3, <2>4, <4>1, <4>2
    <3> QED
      BY <2>2, <3>1 DEF WorkersAreReachable
  <2>7. SessionsAreFiled'
    BY <2>2, <2>3, <2>5 DEF SInv, SessionsAreFiled
  <2>8. SpawnedIsAlone'
    BY <2>1 DEF SpawnedIsAlone
  <2>9. BlockedOnlyByItsWorker'
    BY <2>2, <2>3, <2>5 DEF SInv, BlockedOnlyByItsWorker, Reported
  <2>10. CompletionsAreOfFinishedTasks'
    BY <2>2 DEF CompletionsAreOfFinishedTasks
  <2> QED
    BY <1>0, <2>6, <2>7, <2>8, <2>9, <2>10 DEF SInv
<1>4. CASE StartMessage
  <2> DEFINE c == Update.chat
             open == CollectedOf(completed)
  <2>1. /\ sessions' = open
        /\ completed' = << >>
        /\ main = Loop
        /\ IF open[c] = NoTask
           THEN /\ tasks' = Append(tasks, NewTask(c))
                /\ main' = [at |-> "spawned", task |-> Len(tasks) + 1]
           ELSE UNCHANGED <<tasks, main>>
    BY <1>4 DEF StartMessage, MayStart, Handling
  <2>2. c \in Chats
    <3>1. batch # << >> /\ Take
      BY <1>4 DEF StartMessage, Handling
    <3> QED
      BY <1>0, <3>1, TakeTypes DEF Updates
  <2>3. \A d \in Chats : /\ Reported(d) => sessions'[d] = NoTask
                         /\ ~Reported(d) => sessions'[d] = sessions[d]
    BY <2>1 DEF CollectedOf, Reported
  <2>4. sessions'[c] = open[c] /\ DOMAIN completed' = {}
    BY <2>1
  <2> HIDE DEF open, c
  <2>5. \A t \in TaskIds : Chat(t) \in Chats /\ ~BeingInserted(t)
                           /\ t # NoTask /\ t # Len(tasks) + 1
    BY <1>0, <2>1, ATask DEF BeingInserted, Loop, NoTask
  <2>6. \A d \in Chats : sessions[d] \in TaskIds \cup {NoTask}
    BY <1>0 DEF TypeOK
  <2>7. ASSUME NEW t \in TaskIds, Live(t) PROVE sessions'[Chat(t)] = t
    <3>1. sessions[Chat(t)] = t
      BY <2>5, <2>7 DEF SInv, WorkersAreReachable
    <3>2. ~Reported(Chat(t))
      BY <2>7 DEF SInv, CompletionsAreOfFinishedTasks, Reported
    <3> QED
      BY <2>3, <2>5, <3>1, <3>2
  <2>8. ASSUME NEW d \in Chats, sessions'[d] # NoTask
        PROVE  sessions'[d] \in TaskIds /\ Chat(sessions'[d]) = d
               /\ Live(sessions'[d])
    BY <2>3, <2>6, <2>8
       DEF SInv, SessionsAreFiled, BlockedOnlyByItsWorker, Reported
  <2>9. CASE open[c] # NoTask
    <3>1. tasks' = tasks /\ main' = Loop
      BY <2>1, <2>9
    <3>2. /\ TaskIds' = TaskIds
          /\ \A t \in TaskIds : (Live(t)' <=> Live(t)) /\ Chat(t)' = Chat(t)
      BY <3>1 DEF TaskIds, Live, Chat
    <3>3. WorkersAreReachable'
      BY <2>7, <3>2 DEF WorkersAreReachable
    <3>4. SessionsAreFiled' /\ BlockedOnlyByItsWorker'
      BY <2>8, <3>2 DEF SessionsAreFiled, BlockedOnlyByItsWorker
    <3>5. SpawnedIsAlone' /\ CompletionsAreOfFinishedTasks'
      BY <2>4, <3>1 DEF SpawnedIsAlone, CompletionsAreOfFinishedTasks, Loop
    <3> QED
      BY <1>0, <3>3, <3>4, <3>5 DEF SInv
  <2>10. CASE open[c] = NoTask
    <3>0. PICK n \in Nat : n = Len(tasks) + 1
      BY <1>0
    <3>1. /\ tasks' = Append(tasks, NewTask(c))
          /\ main' = [at |-> "spawned", task |-> n]
      BY <2>1, <2>10, <3>0
    <3>2. NewTask(c) \in Task /\ NewTask(c).chat = c
          /\ NewTask(c).stage = "running"
      BY <2>2, SessionAssumption, EmptySeq DEF NewTask, Task, Stages
    <3>3. /\ TaskIds' = TaskIds \cup {n}
          /\ tasks'[n] = NewTask(c)
          /\ \A t \in TaskIds : tasks'[t] = tasks[t]
      <4>1. /\ DOMAIN tasks' = 1 .. Len(tasks) + 1
            /\ \A i \in DOMAIN tasks : tasks'[i] = tasks[i]
            /\ tasks'[Len(tasks) + 1] = NewTask(c)
        BY <1>0, <3>1, <3>2, AppendTo
      <4> QED
        BY <1>0, <3>0, <4>1 DEF TaskIds
    <3>4. /\ Chat(n)' = c /\ Live(n)' /\ BeingInserted(n)'
          /\ \A t \in TaskIds : (Live(t)' <=> Live(t)) /\ Chat(t)' = Chat(t)
      BY <3>1, <3>2, <3>3 DEF Chat, Live, BeingInserted
    <3>5. WorkersAreReachable'
      BY <2>7, <3>3, <3>4 DEF WorkersAreReachable
    <3>6. SessionsAreFiled' /\ BlockedOnlyByItsWorker'
      BY <2>8, <3>3 DEF SessionsAreFiled, BlockedOnlyByItsWorker, Live, Chat
    <3>7. CompletionsAreOfFinishedTasks'
      BY <2>4 DEF CompletionsAreOfFinishedTasks
    <3>8. SpawnedIsAlone'
      BY <2>4, <2>10, <3>1, <3>3, <3>4 DEF SpawnedIsAlone
    <3> QED
      BY <1>0, <3>5, <3>6, <3>7, <3>8 DEF SInv
  <2> QED
    BY <2>9, <2>10
<1>5. CASE InsertSession
  <2> DEFINE t == main.task
             c == Chat(t)
  <2>1. /\ t \in TaskIds /\ sessions[c] = NoTask /\ c \in Chats
        /\ Live(t) \/ Reported(c)
        /\ t # NoTask
    BY <1>0, <1>5, ATask DEF InsertSession, SInv, SpawnedIsAlone, NoTask
  <2>2. /\ sessions' = [sessions EXCEPT ![c] = t]
        /\ main' = Loop
        /\ UNCHANGED <<tasks, completed>>
    BY <1>5 DEF InsertSession, Chat
  <2>3. /\ TaskIds' = TaskIds
        /\ \A u \in TaskIds : (Live(u)' <=> Live(u)) /\ Chat(u)' = Chat(u)
        /\ \A d \in Chats : Reported(d)' <=> Reported(d)
    BY <2>2 DEF TaskIds, Live, Chat, Reported
  <2>4. \A u \in TaskIds : BeingInserted(u) => u = t
    BY DEF BeingInserted
  <2> HIDE DEF t, c
  <2>5. \A d \in Chats : sessions[d] \in TaskIds \cup {NoTask}
    BY <1>0 DEF TypeOK
  <2>6. \A d \in Chats : sessions'[d] = IF d = c THEN t ELSE sessions[d]
    BY <1>0, <2>2 DEF TypeOK
  <2>7. \A u \in TaskIds : Chat(u) \in Chats /\ u # NoTask
    BY <1>0, ATask DEF NoTask
  <2>8. c = Chat(t)
    BY DEF c
  <2>9. WorkersAreReachable'
    BY <2>1, <2>3, <2>4, <2>6, <2>7, <2>8 DEF SInv, WorkersAreReachable
  <2>10. SessionsAreFiled'
    BY <2>1, <2>2, <2>5, <2>6, <2>8 DEF SInv, SessionsAreFiled, Chat
  <2>11. BlockedOnlyByItsWorker'
    <3>1. ASSUME NEW d \in Chats, sessions'[d] # NoTask
          PROVE  Live(sessions[d])' \/ Reported(d)
      BY <2>1, <2>2, <2>5, <2>6, <3>1
         DEF SInv, BlockedOnlyByItsWorker, Reported, Live
    <3> QED
      BY <2>2, <3>1 DEF BlockedOnlyByItsWorker, Reported
  <2>12. SpawnedIsAlone'
    BY <2>2 DEF SpawnedIsAlone, Loop
  <2>13. CompletionsAreOfFinishedTasks'
    BY <2>2, <2>3 DEF SInv, CompletionsAreOfFinishedTasks
  <2> QED
    BY <1>0, <2>9, <2>10, <2>11, <2>12, <2>13 DEF SInv
<1>7. CASE StopExpires \/ StopCancels \/ AnswerApproval
  <2>1. /\ UNCHANGED <<sessions, completed>>
        /\ main' = main \/ (main.at # "spawned" /\ main'.at # "spawned")
    BY <1>7 DEF StopExpires, StopCancels, AnswerApproval, Handling, Loop
  <2>2. \/ tasks' = tasks
        \/ \E t, p : tasks' = [tasks EXCEPT ![t].pending = p]
        \/ \E t, p : tasks' = [tasks EXCEPT ![t].cancelled = p]
    BY <1>7 DEF StopExpires, StopCancels, AnswerApproval
  <2>3. ASSUME TaskIds' = TaskIds,
               \A u \in TaskIds : tasks'[u].chat = tasks[u].chat
                                  /\ tasks'[u].stage = tasks[u].stage
        PROVE  SInv'
    BY <1>0, <2>1, <2>3, SessionsUntouched DEF Live
  <2>4. CASE tasks' = tasks
    BY <2>3, <2>4 DEF TaskIds
  <2>5. ASSUME NEW u \in TaskIds PROVE tasks[u] \in Task
    BY <1>0, ATask
  <2>6. ASSUME NEW t, NEW p, tasks' = [tasks EXCEPT ![t].pending = p]
        PROVE  SInv'
    BY <2>3, <2>5, <2>6 DEF TaskIds, Task
  <2>7. ASSUME NEW t, NEW p, tasks' = [tasks EXCEPT ![t].cancelled = p]
        PROVE  SInv'
    BY <2>3, <2>5, <2>7 DEF TaskIds, Task
  <2> QED
    BY <2>2, <2>4, <2>6, <2>7
<1>8. CASE ResetChat
  <2> DEFINE c == Update.chat
  <2>1. UNCHANGED <<tasks, completed, main>>
    BY <1>8 DEF ResetChat
  <2>2. sessions' = sessions
    <3>1. batch # << >> /\ Take
      BY <1>8 DEF ResetChat, Handling
    <3>2. c \in Chats
      BY <1>0, <3>1, TakeTypes DEF Updates
    <3>3. sessions \in [Chats -> TaskIds \cup {NoTask}]
      BY <1>0 DEF TypeOK
    <3>4. \/ sessions' = sessions
          \/ sessions[c] = NoTask
             /\ sessions' = [sessions EXCEPT ![c] = NoTask]
      BY <1>8 DEF ResetChat, MayReset
    <3> HIDE DEF c
    <3> QED
      BY <3>2, <3>3, <3>4
  <2> QED
    BY <1>1, <2>1, <2>2
<1>9. ASSUME NEW t \in TaskIds, Worker(t) PROVE SInv'
  BY <1>0, <1>9, WorkerSessions
<1>10. CASE Restart
  <2>1. /\ sessions' = [c \in Chats |-> NoTask]
        /\ completed' = << >> /\ main' = Loop
        /\ tasks' = [t \in TaskIds |->
                       IF Live(t)
                       THEN [tasks[t] EXCEPT !.stage = "dead", !.pending = 0,
                                             !.loaded = << >>]
                       ELSE tasks[t]]
    BY <1>10 DEF Restart
  <2>2. TaskIds' = TaskIds
    BY <2>1 DEF TaskIds
  <2>3. ASSUME NEW t \in TaskIds PROVE ~Live(t)'
    <3>1. tasks[t] \in Task
      BY <1>0, ATask
    <3>2. [tasks[t] EXCEPT !.stage = "dead", !.pending = 0,
                           !.loaded = << >>].stage = "dead"
      BY <3>1 DEF Task
    <3> QED
      BY <2>1, <3>2 DEF Live
  <2> QED
    BY <1>0, <2>1, <2>2, <2>3
       DEF SInv, SessionsAreFiled, SpawnedIsAlone, WorkersAreReachable,
           BlockedOnlyByItsWorker, CompletionsAreOfFinishedTasks, Loop
<1>11. ASSUME NEW u, Send(u) PROVE SInv'
  BY <1>1, <1>11 DEF Send
<1>12. CASE UNCHANGED vars
  BY <1>1, <1>12 DEF vars
<1> QED
  BY <1>2, <1>3, <1>4, <1>5, <1>7, <1>8, <1>9, <1>10, <1>11, <1>12
     DEF Next, MainStep, Say, Tap, Type

\* In every reachable state sessions, workers and completions agree.
THEOREM SessionsCorrect == Spec => []SInv
  BY SessionsInit, SessionsNext, PTL DEF Spec

\* A worker that is still going is the session of its chat, or about to be:
\* /stop, /reset and answers reach it.
THEOREM WorkersReachable == Spec => []WorkersAreReachable
<1>1. SInv => WorkersAreReachable
  BY DEF SInv
<1> QED
  BY <1>1, SessionsCorrect, PTL

\* A session without a worker has its completion in the channel.
THEOREM NoChatBlockedForever == Spec => []BlockedOnlyByItsWorker
<1>1. SInv => BlockedOnlyByItsWorker
  BY DEF SInv
<1> QED
  BY <1>1, SessionsCorrect, PTL

\* Both at once: the session map says which chats have a worker.
THEOREM SessionsAreWorkers == Spec => []SessionsMatchWorkers
<1>1. SInv => SessionsMatchWorkers
  BY DEF SInv, SessionsMatchWorkers
<1> QED
  BY <1>1, SessionsCorrect, PTL

\* Collecting a completion never removes the session of a going task.
THEOREM CompletionsAreFinished == Spec => []CompletionsAreOfFinishedTasks
<1>1. SInv => CompletionsAreOfFinishedTasks
  BY DEF SInv
<1> QED
  BY <1>1, SessionsCorrect, PTL

-----------------------------------------------------------------------------
(* Updates.  The Bot API is told to forget only what lies below the        *)
(* offset, so the invariant is about the offset: all below it is handled,  *)
(* and the batch goes on where the offset is, without a gap.               *)

HandledBelowOffset == 1 .. BeforeOffset \subseteq handled

BatchFollowsOffset ==
    \A i \in DOMAIN batch : batch[i] = BeforeOffset + i

UInv == TypeOK /\ HandledBelowOffset /\ BatchFollowsOffset

\* The offset and what the Bot API dropped are numbers.
LEMMA OffsetTypes ==
    ASSUME TypeOK
    PROVE  /\ dropped \in Nat /\ offset \in Nat /\ BeforeOffset \in Nat
           /\ dropped <= BeforeOffset /\ BeforeOffset <= Len(sent)
           /\ offset <= BeforeOffset + 1 /\ Len(sent) \in Nat
           /\ DOMAIN batch = 1 .. Len(batch) /\ Len(batch) \in Nat
<1>1. /\ sent \in Seq(Updates) /\ dropped \in 0 .. Len(sent)
      /\ offset \in 0 .. Len(sent) + 1 /\ batch \in Seq(DOMAIN sent)
  BY DEF TypeOK
<1>2. /\ Len(sent) \in Nat
      /\ DOMAIN batch = 1 .. Len(batch) /\ Len(batch) \in Nat
  BY <1>1, LenProperties
<1> QED
  BY <1>1, <1>2 DEF BeforeOffset

\* Nothing is sent and nothing dropped at first.
LEMMA UpdatesInit == Init => UInv
<1> SUFFICES ASSUME Init PROVE UInv
  OBVIOUS
<1>1. TypeOK
  BY TypeInit
<1>2. BeforeOffset = 0 /\ DOMAIN batch = {}
  BY DEF Init, BeforeOffset
<1>3. 1 .. BeforeOffset = {}
  BY <1>2
<1> QED
  BY <1>1, <1>2, <1>3 DEF UInv, HandledBelowOffset, BatchFollowsOffset

\* Handling the head of the batch moves the offset past it.
LEMMA TakeUpdates ==
    ASSUME UInv, TypeOK', batch # << >>, Take, Handled, dropped' = dropped
    PROVE  UInv'
<1>1. TypeOK
  BY DEF UInv
<1>2. /\ batch \in Seq(DOMAIN sent) /\ Len(batch) \in Nat
      /\ DOMAIN batch = 1 .. Len(batch) /\ Len(batch) # 0
      /\ Head(batch) = batch[1]
  BY <1>1, OffsetTypes, EmptySeq, LenProperties, HeadTailProperties DEF TypeOK
<1>3. Head(batch) = BeforeOffset + 1
  BY <1>2 DEF UInv, BatchFollowsOffset
<1>4. /\ offset' = BeforeOffset + 2
      /\ handled' = handled \cup {BeforeOffset + 1}
  BY <1>1, <1>3, OffsetTypes DEF Take, OffsetAfter, Handled
<1>5. BeforeOffset' = BeforeOffset + 1
  BY <1>1, <1>4, OffsetTypes DEF BeforeOffset
<1>6. HandledBelowOffset'
  <2>1. 1 .. BeforeOffset + 1 = 1 .. BeforeOffset \cup {BeforeOffset + 1}
    BY <1>1, OffsetTypes
  <2> QED
    BY <1>4, <1>5, <2>1 DEF UInv, HandledBelowOffset
<1>7. BatchFollowsOffset'
  <2>1. /\ DOMAIN batch' = 1 .. Len(batch) - 1
        /\ \A i \in 1 .. Len(batch) - 1 : batch'[i] = batch[i + 1]
    BY <1>2, HeadTailProperties, LenProperties DEF Take
  <2>2. ASSUME NEW i \in DOMAIN batch' PROVE batch'[i] = BeforeOffset + 1 + i
    <3>1. i + 1 \in DOMAIN batch /\ batch'[i] = batch[i + 1] /\ i \in Nat
      BY <1>2, <2>1
    <3>2. batch[i + 1] = BeforeOffset + (i + 1)
      BY <3>1 DEF UInv, BatchFollowsOffset
    <3> QED
      BY <1>1, <3>1, <3>2, OffsetTypes
  <2> QED
    BY <1>5, <2>2 DEF BatchFollowsOffset
<1> QED
  BY <1>6, <1>7 DEF UInv

\* Every step keeps the invariant.
LEMMA UpdatesNext == UInv /\ [Next]_vars => UInv'
<1> SUFFICES ASSUME UInv, [Next]_vars PROVE UInv'
  OBVIOUS
<1>0. TypeOK /\ TypeOK'
  BY TypeNext DEF UInv
<1>1. CASE UNCHANGED <<dropped, offset, batch, handled>>
  <2>1. BeforeOffset' = BeforeOffset
    BY <1>1 DEF BeforeOffset
  <2> QED
    BY <1>0, <1>1, <2>1 DEF UInv, HandledBelowOffset, BatchFollowsOffset
<1>2. CASE StartMessage \/ StopExpires \/ ResetChat \/ AnswerApproval
  <2>1. batch # << >> /\ Take /\ Handled /\ dropped' = dropped
    BY <1>2 DEF StartMessage, StopExpires, ResetChat, AnswerApproval,
                Handling, server
  <2> QED
    BY <1>0, <2>1, TakeUpdates
<1>3. CASE GetUpdates \/ PollingFails
  <2>1. /\ dropped' = dropped \/ dropped' = BeforeOffset
        /\ offset' = offset /\ handled' = handled
        /\ batch' = batch \/ batch' = UpdatesAfter(BeforeOffset)
    BY <1>3 DEF GetUpdates, PollingFails, Confirmed, history
  <2>2. BeforeOffset' = BeforeOffset
    <3>1. dropped \in Nat /\ offset \in Nat
      BY <1>0, OffsetTypes
    <3>2. CASE offset > dropped
      BY <2>1, <3>1, <3>2 DEF BeforeOffset
    <3>3. CASE ~(offset > dropped)
      BY <2>1, <3>1, <3>3 DEF BeforeOffset
    <3> QED
      BY <3>2, <3>3
  <2>3. \A i \in DOMAIN UpdatesAfter(BeforeOffset) :
           UpdatesAfter(BeforeOffset)[i] = BeforeOffset + i
    BY DEF UpdatesAfter
  <2> QED
    BY <1>0, <2>1, <2>2, <2>3
       DEF UInv, HandledBelowOffset, BatchFollowsOffset
<1>4. CASE Restart
  <2>1. /\ offset' = 0 /\ batch' = << >>
        /\ dropped' = dropped /\ handled' = handled
    BY <1>4 DEF Restart, server
  <2>2. BeforeOffset' = dropped
    <3>1. dropped \in Nat
      BY <1>0, OffsetTypes
    <3> QED
      BY <2>1, <3>1 DEF BeforeOffset
  <2>3. 1 .. dropped \subseteq 1 .. BeforeOffset
    BY <1>0, OffsetTypes
  <2> QED
    BY <1>0, <2>1, <2>2, <2>3 DEF UInv, HandledBelowOffset, BatchFollowsOffset
<1>5. ASSUME NEW u, Send(u) PROVE UInv'
  BY <1>1, <1>5 DEF Send, history
<1>6. ASSUME NEW t \in TaskIds, Worker(t) PROVE UInv'
  BY <1>1, <1>6
     DEF Worker, Proceed, AskApproval, EndRun, WakeResolved, WakeCancelled,
         LoadTranscript, TruncateTranscript, WriteTranscript,
         ReportCompletion, MainUnchanged, server, history
<1>7. CASE CollectFinishedTasks \/ InsertSession \/ StopCancels
  BY <1>1, <1>7
     DEF CollectFinishedTasks, InsertSession, StopCancels, server, history
<1>8. CASE UNCHANGED vars
  BY <1>1, <1>8 DEF vars
<1> QED
  BY <1>2, <1>3, <1>4, <1>5, <1>6, <1>7, <1>8
     DEF Next, MainStep, Say, Tap, Type

\* The Bot API forgets only handled updates, restarts and lost polling
\* answers notwithstanding.
THEOREM UpdatesKept == Spec => []NoUpdateIsLost
<1>1. UInv => NoUpdateIsLost
  <2> SUFFICES ASSUME UInv PROVE NoUpdateIsLost
    OBVIOUS
  <2>1. 1 .. dropped \subseteq 1 .. BeforeOffset
    BY OffsetTypes DEF UInv
  <2> QED
    BY <2>1 DEF UInv, HandledBelowOffset, NoUpdateIsLost
<1> QED
  BY <1>1, UpdatesInit, UpdatesNext, PTL DEF Spec

-----------------------------------------------------------------------------
(* Resets.  A reset is refused while the chat has a session, so no worker  *)
(* of the chat is going then: those going later are of newer tasks, and so *)
(* is all they loaded and will write.                                      *)

LiveAreNew == \A t \in TaskIds : Live(t) => t > cleared[Chat(t)]

LoadedAreNew ==
    \A t \in TaskIds : Live(t) =>
        \A i \in DOMAIN tasks[t].loaded :
            tasks[t].loaded[i].task > cleared[Chat(t)]

CInv == SInv /\ LiveAreNew /\ LoadedAreNew /\ ResetIsClean

\* An empty service is clean.
LEMMA ResetInit == Init => CInv
<1> SUFFICES ASSUME Init PROVE CInv
  OBVIOUS
<1>1. SInv
  BY SessionsInit
<1>2. TaskIds = {} /\ \A c \in Chats : DOMAIN transcript[c] = {}
  BY DEF Init, TaskIds
<1> QED
  BY <1>1, <1>2 DEF CInv, LiveAreNew, LoadedAreNew, ResetIsClean

\* A step that revives no worker and keeps what was loaded, the transcripts
\* and the resets keeps the invariant.
LEMMA ResetUntouched ==
    ASSUME CInv, SInv',
           TaskIds' = TaskIds,
           \A t \in TaskIds : /\ tasks'[t].chat = tasks[t].chat
                              /\ tasks'[t].loaded = tasks[t].loaded
                              /\ Live(t)' => Live(t),
           UNCHANGED <<transcript, cleared>>
    PROVE  CInv'
<1>1. LiveAreNew'
  BY DEF CInv, LiveAreNew, Chat
<1>2. LoadedAreNew'
  BY DEF CInv, LoadedAreNew, Chat
<1>3. ResetIsClean'
  BY DEF CInv, ResetIsClean
<1> QED
  BY <1>1, <1>2, <1>3 DEF CInv

\* A step of worker `t` that leaves newer messages loaded and clean
\* transcripts keeps the invariant.
LEMMA ResetStep ==
    ASSUME CInv, SInv', NEW t \in TaskIds, NEW e,
           tasks' = [tasks EXCEPT ![t] = e],
           e.chat = tasks[t].chat,
           Live(t),
           \A i \in DOMAIN e.loaded : e.loaded[i].task > cleared[Chat(t)],
           cleared' = cleared,
           ResetIsClean'
    PROVE  CInv'
<1>1. /\ TaskIds' = TaskIds /\ tasks'[t] = e
      /\ \A u \in TaskIds : u # t => tasks'[u] = tasks[u]
  BY DEF TaskIds
<1>2. \A u \in TaskIds : Live(u)' => Live(u) /\ tasks'[u].chat = tasks[u].chat
  BY <1>1 DEF Live
<1>3. LiveAreNew'
  BY <1>1, <1>2 DEF CInv, LiveAreNew, Chat
<1>4. LoadedAreNew'
  BY <1>1, <1>2 DEF CInv, LoadedAreNew, Chat
<1> QED
  BY <1>3, <1>4 DEF CInv

\* What is written is newer than the reset when what was loaded is.
LEMMA WrittenAreNew ==
    ASSUME NEW n \in Nat, NEW t \in Nat, t > n,
           NEW ms \in Seq(Messages), \A i \in DOMAIN ms : ms[i].task > n,
           NEW d \in BOOLEAN
    PROVE  \A i \in DOMAIN Recent(ms \o Exchange(t, d)) :
              Recent(ms \o Exchange(t, d))[i].task > n
<1> DEFINE x == Exchange(t, d)
           all == ms \o x
<1>1. x \in Seq(Messages) /\ \A i \in DOMAIN x : x[i].task = t
  <2>1. /\ [task |-> t, by |-> "user"] \in Messages
        /\ [task |-> t, by |-> "assistant"] \in Messages
    BY DEF Messages
  <2> QED
    BY <2>1 DEF Exchange
<1> HIDE DEF x
<1>2. /\ all \in Seq(Messages) /\ Len(all) = Len(ms) + Len(x)
      /\ DOMAIN all = 1 .. Len(all)
      /\ DOMAIN ms = 1 .. Len(ms) /\ DOMAIN x = 1 .. Len(x)
      /\ Len(ms) \in Nat /\ Len(x) \in Nat
  BY <1>1, ConcatProperties, LenProperties
<1>3. \A i \in 1 .. Len(ms) + Len(x) :
         all[i] = IF i <= Len(ms) THEN ms[i] ELSE x[i - Len(ms)]
  BY <1>1, ConcatProperties
<1>4. ASSUME NEW i \in DOMAIN all PROVE all[i].task > n
  <2>1. CASE i <= Len(ms)
    BY <1>2, <1>3, <2>1
  <2>2. CASE i > Len(ms)
    <3>1. all[i] = x[i - Len(ms)] /\ i - Len(ms) \in DOMAIN x
      BY <1>2, <1>3, <2>2
    <3> QED
      BY <1>1, <3>1
  <2> QED
    BY <1>2, <2>1, <2>2
<1> HIDE DEF all
<1>5. \A i \in DOMAIN Recent(all) : Recent(all)[i].task > n
  BY <1>2, <1>4, RecentMessages
<1> QED
  BY <1>5 DEF all, x

\* The steps of a worker keep the invariant.
LEMMA WorkerResets ==
    ASSUME CInv, SInv', NEW t \in TaskIds, Worker(t)
    PROVE  CInv'
<1>0. /\ TypeOK /\ tasks \in Seq(Task) /\ tasks[t] \in Task
      /\ Chat(t) \in Chats /\ t \in Nat
      /\ tasks[t].loaded \in Seq(Messages)
      /\ cleared[Chat(t)] \in Nat
  <2>1. TypeOK /\ tasks \in Seq(Task)
    BY DEF CInv, SInv, TypeOK
  <2>2. tasks[t] \in Task /\ Chat(t) \in Chats /\ t \in Nat
    BY <2>1, ATask
  <2>3. cleared[Chat(t)] \in 0 .. Len(tasks)
    BY <2>1, <2>2 DEF TypeOK
  <2> QED
    BY <2>1, <2>2, <2>3 DEF Task
<1>1. ASSUME NEW e, tasks' = [tasks EXCEPT ![t] = e],
             e.chat = tasks[t].chat, e.loaded = tasks[t].loaded, Live(t),
             UNCHANGED <<transcript, cleared>>
      PROVE  CInv'
  <2>1. ResetIsClean'
    BY <1>1 DEF CInv, ResetIsClean
  <2>2. \A i \in DOMAIN e.loaded : e.loaded[i].task > cleared[Chat(t)]
    BY <1>1 DEF CInv, LoadedAreNew
  <2> QED
    BY <1>1, <2>1, <2>2, ResetStep
<1>2. CASE AskApproval(t)
  <2> DEFINE e == [tasks[t] EXCEPT !.asked = tasks[t].asked + 1,
                                   !.pending = tasks[t].asked + 1,
                                   !.stage = "waiting"]
  <2>1. tasks' = [tasks EXCEPT ![t] = e]
    BY <1>2 DEF AskApproval
  <2>2. e.chat = tasks[t].chat /\ e.loaded = tasks[t].loaded
    BY <1>0 DEF Task
  <2>3. Live(t) /\ UNCHANGED <<transcript, cleared>>
    BY <1>2 DEF AskApproval, Live, At, history
  <2> HIDE DEF e
  <2> QED
    BY <1>1, <2>1, <2>2, <2>3
<1>3. CASE WakeResolved(t)
  <2> DEFINE e == [tasks[t] EXCEPT !.stage = "running"]
  <2>1. tasks' = [tasks EXCEPT ![t] = e]
    BY <1>3 DEF WakeResolved, Move
  <2>2. e.chat = tasks[t].chat /\ e.loaded = tasks[t].loaded
    BY <1>0 DEF Task
  <2>3. Live(t) /\ UNCHANGED <<transcript, cleared>>
    BY <1>3 DEF WakeResolved, Live, At, history
  <2> HIDE DEF e
  <2> QED
    BY <1>1, <2>1, <2>2, <2>3
<1>4. CASE WakeCancelled(t)
  <2> DEFINE e == [tasks[t] EXCEPT !.stage = "running", !.pending = 0]
  <2>1. tasks' = [tasks EXCEPT ![t] = e]
    BY <1>4 DEF WakeCancelled
  <2>2. e.chat = tasks[t].chat /\ e.loaded = tasks[t].loaded
    BY <1>0 DEF Task
  <2>3. Live(t) /\ UNCHANGED <<transcript, cleared>>
    BY <1>4 DEF WakeCancelled, Live, At, history
  <2> HIDE DEF e
  <2> QED
    BY <1>1, <2>1, <2>2, <2>3
<1>5. CASE EndRun(t)
  <2> DEFINE e == [tasks[t] EXCEPT !.stage = "ended"]
  <2>1. tasks' = [tasks EXCEPT ![t] = e]
    BY <1>5 DEF EndRun, Move
  <2>2. e.chat = tasks[t].chat /\ e.loaded = tasks[t].loaded
    BY <1>0 DEF Task
  <2>3. Live(t) /\ UNCHANGED <<transcript, cleared>>
    BY <1>5 DEF EndRun, Live, At, history
  <2> HIDE DEF e
  <2> QED
    BY <1>1, <2>1, <2>2, <2>3
<1>6. CASE ReportCompletion(t)
  <2> DEFINE e == [tasks[t] EXCEPT !.stage = "done"]
  <2>1. tasks' = [tasks EXCEPT ![t] = e]
    BY <1>6 DEF ReportCompletion, Move
  <2>2. e.chat = tasks[t].chat /\ e.loaded = tasks[t].loaded
    BY <1>0 DEF Task
  <2>3. Live(t) /\ UNCHANGED <<transcript, cleared>>
    BY <1>6 DEF ReportCompletion, Live, At, history
  <2> HIDE DEF e
  <2> QED
    BY <1>1, <2>1, <2>2, <2>3
<1>7. CASE LoadTranscript(t)
  <2> DEFINE ms == IF transcript[Chat(t)] = Torn
                   THEN << >> ELSE transcript[Chat(t)]
             e == [tasks[t] EXCEPT !.stage = "loaded", !.loaded = ms]
  <2>1. tasks' = [tasks EXCEPT ![t] = e]
    BY <1>7 DEF LoadTranscript
  <2>2. e.chat = tasks[t].chat /\ e.loaded = ms
    BY <1>0 DEF Task
  <2>3. Live(t) /\ UNCHANGED <<transcript, cleared>>
    BY <1>7 DEF LoadTranscript, Live, At, history
  <2>4. \A i \in DOMAIN ms : ms[i].task > cleared[Chat(t)]
    <3>1. CASE transcript[Chat(t)] = Torn
      BY <3>1
    <3>2. CASE transcript[Chat(t)] # Torn
      BY <1>0, <3>2 DEF CInv, ResetIsClean
    <3> QED
      BY <3>1, <3>2
  <2>5. ResetIsClean'
    BY <2>3 DEF CInv, ResetIsClean
  <2> HIDE DEF ms, e
  <2> QED
    BY <2>1, <2>2, <2>3, <2>4, <2>5, ResetStep
<1>8. CASE TruncateTranscript(t)
  <2> DEFINE e == [tasks[t] EXCEPT !.stage = "writing"]
  <2>1. tasks' = [tasks EXCEPT ![t] = e]
    BY <1>8 DEF TruncateTranscript, Move
  <2>2. e.chat = tasks[t].chat /\ e.loaded = tasks[t].loaded
    BY <1>0 DEF Task
  <2>3. /\ Live(t) /\ cleared' = cleared
        /\ transcript' = [transcript EXCEPT ![Chat(t)] = Torn]
    BY <1>8 DEF TruncateTranscript, Live, At, history
  <2>4. \A i \in DOMAIN e.loaded : e.loaded[i].task > cleared[Chat(t)]
    BY <2>2, <2>3 DEF CInv, LoadedAreNew
  <2>5. DOMAIN transcript = Chats
    BY <1>0 DEF TypeOK
  <2>6. ResetIsClean'
    BY <2>3, <2>5 DEF CInv, ResetIsClean
  <2> HIDE DEF e
  <2> QED
    BY <2>1, <2>2, <2>3, <2>4, <2>6, ResetStep
<1>9. CASE WriteTranscript(t)
  <2> DEFINE e == [tasks[t] EXCEPT !.stage = "saved", !.loaded = << >>]
  <2>1. tasks' = [tasks EXCEPT ![t] = e]
    BY <1>9 DEF WriteTranscript
  <2>2. e.chat = tasks[t].chat /\ e.loaded = << >>
    BY <1>0 DEF Task
  <2>3. Live(t) /\ cleared' = cleared
    BY <1>9 DEF WriteTranscript, Live, At
  <2>4. PICK d \in BOOLEAN :
           transcript' = [transcript EXCEPT ![Chat(t)] =
                             Recent(tasks[t].loaded \o Exchange(t, d))]
    BY <1>9 DEF WriteTranscript
  <2>5. DOMAIN transcript = Chats
    BY <1>0 DEF TypeOK
  <2>6. t > cleared[Chat(t)]
        /\ \A i \in DOMAIN tasks[t].loaded :
              tasks[t].loaded[i].task > cleared[Chat(t)]
    BY <2>3 DEF CInv, LiveAreNew, LoadedAreNew
  <2> DEFINE ms == Recent(tasks[t].loaded \o Exchange(t, d))
  <2>7. \A i \in DOMAIN ms : ms[i].task > cleared[Chat(t)]
    BY <1>0, <2>6, WrittenAreNew
  <2> HIDE DEF ms
  <2>8. \A c \in Chats : transcript'[c] = IF c = Chat(t) THEN ms
                                          ELSE transcript[c]
    BY <2>4, <2>5 DEF ms
  <2>9. ResetIsClean'
    BY <2>3, <2>7, <2>8 DEF CInv, ResetIsClean
  <2> HIDE DEF e
  <2>10. \A i \in DOMAIN e.loaded : e.loaded[i].task > cleared[Chat(t)]
    BY <2>2
  <2> QED
    BY <2>1, <2>2, <2>3, <2>9, <2>10, ResetStep
<1> QED
  BY <1>2, <1>3, <1>4, <1>5, <1>6, <1>7, <1>8, <1>9 DEF Worker, Proceed

\* Every step keeps the invariant.
LEMMA ResetNext == CInv /\ [Next]_vars => CInv'
<1> SUFFICES ASSUME CInv, [Next]_vars PROVE CInv'
  OBVIOUS
<1>0. /\ TypeOK /\ SInv' /\ tasks \in Seq(Task)
      /\ TaskIds = 1 .. Len(tasks) /\ Len(tasks) \in Nat
      /\ cleared \in [Chats -> 0 .. Len(tasks)]
      /\ \A t \in TaskIds : tasks[t] \in Task /\ Chat(t) \in Chats
  <2>1. TypeOK /\ SInv' /\ tasks \in Seq(Task)
    BY SessionsNext DEF CInv, SInv, TypeOK
  <2>2. \A t \in TaskIds : tasks[t] \in Task /\ Chat(t) \in Chats
    BY <2>1, ATask
  <2> QED
    BY <2>1, <2>2, LenProperties DEF TypeOK, TaskIds
<1>1. CASE UNCHANGED <<tasks, transcript, cleared>>
  <2>1. TaskIds' = TaskIds /\ \A t \in TaskIds : Live(t)' => Live(t)
    BY <1>1 DEF TaskIds, Live
  <2> QED
    BY <1>0, <1>1, <2>1, ResetUntouched
<1>2. CASE StopExpires \/ StopCancels \/ AnswerApproval
  <2>1. UNCHANGED <<transcript, cleared>>
    BY <1>2 DEF StopExpires, StopCancels, AnswerApproval, history
  <2>2. \/ tasks' = tasks
        \/ \E t, p : tasks' = [tasks EXCEPT ![t].pending = p]
        \/ \E t, p : tasks' = [tasks EXCEPT ![t].cancelled = p]
    BY <1>2 DEF StopExpires, StopCancels, AnswerApproval
  <2>3. ASSUME TaskIds' = TaskIds,
               \A u \in TaskIds : /\ tasks'[u].chat = tasks[u].chat
                                  /\ tasks'[u].loaded = tasks[u].loaded
                                  /\ tasks'[u].stage = tasks[u].stage
        PROVE  CInv'
    BY <1>0, <2>1, <2>3, ResetUntouched DEF Live
  <2>4. CASE tasks' = tasks
    BY <2>3, <2>4 DEF TaskIds
  <2>5. ASSUME NEW t, NEW p, tasks' = [tasks EXCEPT ![t].pending = p]
        PROVE  CInv'
    BY <1>0, <2>3, <2>5 DEF TaskIds, Task
  <2>6. ASSUME NEW t, NEW p, tasks' = [tasks EXCEPT ![t].cancelled = p]
        PROVE  CInv'
    BY <1>0, <2>3, <2>6 DEF TaskIds, Task
  <2> QED
    BY <2>2, <2>4, <2>5, <2>6
<1>3. CASE StartMessage
  <2>1. UNCHANGED <<transcript, cleared>>
    BY <1>3 DEF StartMessage
  <2>2. CASE tasks' = tasks
    BY <1>1, <2>1, <2>2
  <2>3. CASE tasks' # tasks
    <3> DEFINE c == Update.chat
    <3>1. batch # << >> /\ Take /\ tasks' = Append(tasks, NewTask(c))
      BY <1>3, <2>3 DEF StartMessage, Handling
    <3>2. c \in Chats
      BY <1>0, <3>1, TakeTypes DEF Updates
    <3> HIDE DEF c
    <3>3. NewTask(c) \in Task /\ NewTask(c).chat = c
          /\ NewTask(c).loaded = << >>
      BY <3>2, SessionAssumption, EmptySeq DEF NewTask, Task, Stages
    <3>4. PICK n \in Nat : n = Len(tasks) + 1
      BY <1>0
    <3>5. /\ TaskIds' = TaskIds \cup {n}
          /\ tasks'[n] = NewTask(c)
          /\ \A t \in TaskIds : tasks'[t] = tasks[t]
      <4>1. /\ DOMAIN tasks' = 1 .. Len(tasks) + 1
            /\ \A i \in DOMAIN tasks : tasks'[i] = tasks[i]
            /\ tasks'[Len(tasks) + 1] = NewTask(c)
        BY <1>0, <3>1, <3>3, AppendTo
      <4> QED
        BY <1>0, <3>4, <4>1 DEF TaskIds
    <3>6. n > cleared[c]
      BY <1>0, <3>2, <3>4
    <3>7. LiveAreNew'
      BY <2>1, <3>3, <3>5, <3>6 DEF CInv, LiveAreNew, Live, Chat
    <3>8. LoadedAreNew'
      BY <2>1, <3>3, <3>5 DEF CInv, LoadedAreNew, Live, Chat
    <3>9. ResetIsClean'
      BY <2>1 DEF CInv, ResetIsClean
    <3> QED
      BY <1>0, <3>7, <3>8, <3>9 DEF CInv
  <2> QED
    BY <2>2, <2>3
<1>4. CASE ResetChat
  <2> DEFINE c == Update.chat
  <2>1. /\ main = Loop /\ tasks' = tasks
        /\ batch # << >> /\ Take
    BY <1>4 DEF ResetChat, Handling
  <2>2. c \in Chats
    BY <1>0, <2>1, TakeTypes DEF Updates
  <2>3. CASE ~MayReset(c)
    BY <1>1, <1>4, <2>1, <2>3 DEF ResetChat
  <2>4. CASE MayReset(c)
    <3>1. /\ sessions[c] = NoTask
          /\ transcript' = [transcript EXCEPT ![c] = << >>]
          /\ cleared' = [cleared EXCEPT ![c] = Len(tasks)]
      BY <1>4, <2>4 DEF ResetChat, MayReset
    <3> HIDE DEF c
    <3>2. \A t \in TaskIds : Live(t) => Chat(t) # c
      <4>1. \A t \in TaskIds : ~BeingInserted(t) /\ t # NoTask
        BY <1>0, <2>1 DEF BeingInserted, Loop, NoTask
      <4> QED
        BY <3>1, <4>1 DEF CInv, SInv, WorkersAreReachable
    <3>3. \A d \in Chats : d # c => cleared'[d] = cleared[d]
                                    /\ transcript'[d] = transcript[d]
      BY <1>0, <3>1 DEF TypeOK
    <3>4. TaskIds' = TaskIds
          /\ \A t \in TaskIds : (Live(t)' => Live(t)) /\ Chat(t)' = Chat(t)
      BY <2>1 DEF TaskIds, Live, Chat
    <3>5. \A t \in TaskIds : Live(t) => cleared'[Chat(t)] = cleared[Chat(t)]
      BY <1>0, <3>2, <3>3
    <3>6. LiveAreNew'
      BY <2>1, <3>5 DEF CInv, LiveAreNew, TaskIds, Live, Chat
    <3>7. LoadedAreNew'
      BY <2>1, <3>5 DEF CInv, LoadedAreNew, TaskIds, Live, Chat
    <3>8. DOMAIN transcript'[c] = {}
      BY <1>0, <2>2, <3>1 DEF TypeOK
    <3>9. ResetIsClean'
      BY <3>3, <3>8 DEF CInv, ResetIsClean
    <3> QED
      BY <1>0, <3>6, <3>7, <3>9 DEF CInv
  <2> QED
    BY <2>3, <2>4
<1>5. ASSUME NEW t \in TaskIds, Worker(t) PROVE CInv'
  BY <1>0, <1>5, WorkerResets
<1>6. CASE Restart
  <2>1. /\ UNCHANGED <<transcript, cleared>>
        /\ tasks' = [t \in TaskIds |->
                       IF Live(t)
                       THEN [tasks[t] EXCEPT !.stage = "dead", !.pending = 0,
                                             !.loaded = << >>]
                       ELSE tasks[t]]
    BY <1>6 DEF Restart
  <2>2. TaskIds' = TaskIds
    BY <2>1 DEF TaskIds
  <2>3. ASSUME NEW t \in TaskIds PROVE ~Live(t)'
    <3>1. [tasks[t] EXCEPT !.stage = "dead", !.pending = 0,
                           !.loaded = << >>].stage = "dead"
      BY <1>0 DEF Task
    <3> QED
      BY <2>1, <3>1 DEF Live
  <2>4. ResetIsClean'
    BY <2>1 DEF CInv, ResetIsClean
  <2> QED
    BY <1>0, <2>2, <2>3, <2>4 DEF CInv, LiveAreNew, LoadedAreNew
<1>7. ASSUME NEW u, Send(u) PROVE CInv'
  BY <1>1, <1>7 DEF Send, history
<1>8. CASE CollectFinishedTasks \/ GetUpdates \/ PollingFails
           \/ InsertSession \/ UNCHANGED vars
  BY <1>1, <1>8
     DEF CollectFinishedTasks, GetUpdates, PollingFails, InsertSession, vars,
         history
<1> QED
  BY <1>2, <1>3, <1>4, <1>5, <1>6, <1>7, <1>8
     DEF Next, MainStep, Say, Tap, Type

\* No task begun before an accepted /reset is in the chat's transcript.
THEOREM ResetsAreClean == Spec => []ResetIsClean
<1>1. CInv => ResetIsClean
  BY DEF CInv
<1> QED
  BY <1>1, ResetInit, ResetNext, PTL DEF Spec

-----------------------------------------------------------------------------
(* Exchanges.  Cutting the transcript to its newest messages before the    *)
(* next exchange is appended loses nothing that cutting it afterwards      *)
(* would keep; and between loading the transcript and writing it nobody    *)
(* else writes to it, since a chat has one worker.                         *)

\* Where the newest messages of a long list come from.
LEMMA RecentElements ==
    ASSUME NEW S, NEW ms \in Seq(S), Len(ms) >= MaxTranscript
    PROVE  /\ Recent(ms) \in Seq(S) /\ Len(Recent(ms)) = MaxTranscript
           /\ \A i \in 1 .. MaxTranscript :
                 Recent(ms)[i] = ms[Len(ms) - MaxTranscript + i]
<1>1. /\ Len(ms) \in Nat /\ MaxTranscript \in Nat \ {0}
      /\ DOMAIN ms = 1 .. Len(ms) /\ \A i \in 1 .. Len(ms) : ms[i] \in S
  BY SessionAssumption, LenProperties
<1>2. CASE Len(ms) = MaxTranscript
  <2>1. Recent(ms) = ms
    BY <1>1, <1>2 DEF Recent
  <2> QED
    BY <1>1, <1>2, <2>1
<1>3. CASE Len(ms) > MaxTranscript
  <2> DEFINE m == Len(ms) - MaxTranscript + 1
             r == SubSeq(ms, m, Len(ms))
  <2>1. m \in Nat /\ m >= 1 /\ m <= Len(ms) /\ Recent(ms) = r
    BY <1>1, <1>3 DEF Recent
  <2>2. Len(ms) - m + 1 = MaxTranscript
        /\ \A i \in 1 .. MaxTranscript :
              m + i - 1 = Len(ms) - MaxTranscript + i
    BY <1>1
  <2>3. \A i \in m .. Len(ms) : ms[i] \in S
    BY <1>1, <2>1
  <2> HIDE DEF m
  <2>4. /\ r \in Seq(S)
        /\ Len(r) = IF m <= Len(ms) THEN Len(ms) - m + 1 ELSE 0
        /\ \A i \in 1 .. Len(ms) - m + 1 : r[i] = ms[m + i - 1]
    BY <1>1, <2>1, <2>3, SubSeqProperties
  <2> HIDE DEF r
  <2> QED
    BY <2>1, <2>2, <2>4
<1>4. Len(ms) = MaxTranscript \/ Len(ms) > MaxTranscript
  <2>1. Len(ms) \in Nat /\ MaxTranscript \in Nat
    BY <1>1
  <2> QED
    BY <2>1
<1> QED
  BY <1>2, <1>3, <1>4, Zenon

\* Cutting before appending changes nothing that is kept.
LEMMA RecentOfRecent ==
    ASSUME NEW S, NEW s \in Seq(S), NEW ms \in Seq(S)
    PROVE  Recent(Recent(s) \o ms) = Recent(s \o ms)
<1>1. /\ Len(s) \in Nat /\ Len(ms) \in Nat
      /\ MaxTranscript \in Nat \ {0}
      /\ s \o ms \in Seq(S) /\ Len(s \o ms) = Len(s) + Len(ms)
  BY SessionAssumption, LenProperties, ConcatProperties
<1>2. CASE Len(s) <= MaxTranscript
  <2>1. Recent(s) = s
    BY <1>1, <1>2 DEF Recent
  <2> QED
    BY <2>1
<1>3. CASE Len(s) > MaxTranscript
  <2> DEFINE r == Recent(s)
             a == Recent(r \o ms)
             all == s \o ms
             b == Recent(all)
  <2>1. /\ r \in Seq(S) /\ Len(r) = MaxTranscript
        /\ \A i \in 1 .. MaxTranscript :
              r[i] = s[Len(s) - MaxTranscript + i]
    BY <1>1, <1>3, RecentElements
  <2> HIDE DEF r
  <2>2. /\ r \o ms \in Seq(S) /\ Len(r \o ms) = MaxTranscript + Len(ms)
        /\ \A i \in 1 .. MaxTranscript + Len(ms) :
              (r \o ms)[i] = IF i <= MaxTranscript THEN r[i]
                             ELSE ms[i - MaxTranscript]
    BY <2>1, ConcatProperties
  <2>3. /\ all \in Seq(S) /\ Len(all) = Len(s) + Len(ms)
        /\ \A i \in 1 .. Len(s) + Len(ms) :
              all[i] = IF i <= Len(s) THEN s[i] ELSE ms[i - Len(s)]
    BY ConcatProperties
  <2> HIDE DEF all
  <2>4. /\ a \in Seq(S) /\ Len(a) = MaxTranscript
        /\ \A i \in 1 .. MaxTranscript : a[i] = (r \o ms)[Len(ms) + i]
    <3>1. Len(r \o ms) >= MaxTranscript
          /\ Len(r \o ms) - MaxTranscript = Len(ms)
      BY <1>1, <2>2
    <3>2. /\ a \in Seq(S) /\ Len(a) = MaxTranscript
          /\ \A i \in 1 .. MaxTranscript :
                a[i] = (r \o ms)[Len(r \o ms) - MaxTranscript + i]
      <4>1. r \o ms \in Seq(S) /\ Len(r \o ms) >= MaxTranscript
        BY <2>2, <3>1
      <4> HIDE DEF r
      <4> QED
        BY <4>1, RecentElements
    <3> QED
      BY <3>1, <3>2
  <2>5. /\ b \in Seq(S) /\ Len(b) = MaxTranscript
        /\ \A i \in 1 .. MaxTranscript :
              b[i] = all[Len(s) + Len(ms) - MaxTranscript + i]
    <3>1. Len(all) >= MaxTranscript
      BY <1>1, <1>3, <2>3
    <3>2. /\ b \in Seq(S) /\ Len(b) = MaxTranscript
          /\ \A i \in 1 .. MaxTranscript :
                b[i] = all[Len(all) - MaxTranscript + i]
      BY <2>3, <3>1, RecentElements
    <3>3. Len(all) = Len(s) + Len(ms)
      BY <2>3
    <3> HIDE DEF b
    <3> QED
      BY <3>2, <3>3
  <2> HIDE DEF a, b
  <2>6. ASSUME NEW i \in 1 .. MaxTranscript PROVE a[i] = b[i]
    <3> DEFINE j == Len(ms) + i
               k == Len(s) + Len(ms) - MaxTranscript + i
    <3>1. /\ j \in 1 .. MaxTranscript + Len(ms)
          /\ k \in 1 .. Len(s) + Len(ms)
          /\ k - Len(s) = j - MaxTranscript
          /\ (j <= MaxTranscript) <=> (k <= Len(s))
          /\ k = Len(s) - MaxTranscript + j
      BY <1>1, <1>3
    <3>2. a[i] = (r \o ms)[j] /\ b[i] = all[k]
      BY <2>4, <2>5
    <3>3. j \in Nat \ {0}
      BY <1>1
    <3> HIDE DEF j, k
    <3>4. CASE j <= MaxTranscript
      <4>1. (r \o ms)[j] = r[j] /\ all[k] = s[k]
        BY <2>2, <2>3, <3>1, <3>4
      <4>2. j \in 1 .. MaxTranscript
        BY <1>1, <3>3, <3>4
      <4> QED
        BY <2>1, <3>1, <3>2, <4>1, <4>2
    <3>5. CASE ~(j <= MaxTranscript)
      BY <2>2, <2>3, <3>1, <3>2, <3>5
    <3> QED
      BY <3>4, <3>5
  <2>7. a = b
    BY <2>4, <2>5, <2>6, SeqEqual
  <2> QED
    BY <2>7 DEF a, b, r, all
<1> QED
  BY <1>1, <1>2, <1>3

Writing(t) == At(t, "writing")
Holding(t) == At(t, "loaded") \/ At(t, "writing")

\* What a worker holds between loading and writing is up to date.
LoadedIsCurrent ==
    \A t \in TaskIds :
        Holding(t) /\ Chat(t) \notin torn
            => tasks[t].loaded = Recent(said[Chat(t)])

KInv == SInv /\ TranscriptKeepsExchanges /\ LoadedIsCurrent

\* Nothing is said, and nothing is kept, at first.
LEMMA ExchangesInit == Init => KInv
<1> SUFFICES ASSUME Init PROVE KInv
  OBVIOUS
<1>1. SInv
  BY SessionsInit
<1>2. Recent(<< >>) = << >>
  BY SessionAssumption DEF Recent
<1>3. \A c \in Chats : transcript[c] = << >> /\ said[c] = << >>
  BY DEF Init
<1>4. TaskIds = {}
  BY DEF Init, TaskIds
<1> QED
  BY <1>1, <1>2, <1>3, <1>4
     DEF KInv, TranscriptKeepsExchanges, LoadedIsCurrent

\* A step that loads, writes and clears nothing keeps the invariant.
LEMMA ExchangesUntouched ==
    ASSUME KInv, SInv',
           TaskIds \subseteq TaskIds',
           \A t \in TaskIds : /\ tasks'[t].chat = tasks[t].chat
                              /\ tasks'[t].loaded = tasks[t].loaded
                              /\ Writing(t)' <=> Writing(t)
                              /\ Holding(t)' => Holding(t),
           \A t \in TaskIds' \ TaskIds : ~Holding(t)',
           UNCHANGED <<transcript, said, torn>>
    PROVE  KInv'
<1>1. TranscriptKeepsExchanges'
  BY DEF KInv, TranscriptKeepsExchanges, Chat, Writing
<1>2. LoadedIsCurrent'
  BY DEF KInv, LoadedIsCurrent, Chat
<1> QED
  BY <1>1, <1>2 DEF KInv

\* What a chat has said can be kept, and is not a truncated file.
LEMMA SaidIsKept ==
    ASSUME TypeOK, NEW c \in Chats
    PROVE  said[c] \in Seq(Messages) /\ Recent(said[c]) # Torn
<1>1. said[c] \in Seq(Messages)
  BY DEF TypeOK
<1>2. Recent(said[c]) \in Seq(Messages)
  BY <1>1, RecentMessages
<1>3. Torn \notin Seq(Messages)
  <2>1. Torn[1].by = "nobody" /\ Len(Torn) = 1
    BY DEF Torn
  <2>2. ASSUME Torn \in Seq(Messages) PROVE FALSE
    <3>1. Torn[1] \in Messages
      BY <2>1, <2>2, LenProperties
    <3> QED
      BY <2>1, <3>1 DEF Messages
  <2> QED
    BY <2>2
<1> QED
  BY <1>1, <1>2, <1>3

\* The steps of a worker keep the invariant.
LEMMA WorkerExchanges ==
    ASSUME KInv, SInv', NEW t \in TaskIds, Worker(t)
    PROVE  KInv'
<1>0. /\ TypeOK /\ SInv /\ tasks \in Seq(Task) /\ tasks[t] \in Task
      /\ Chat(t) \in Chats /\ t \in Nat
      /\ DOMAIN transcript = Chats
      /\ said \in [Chats -> Seq(Messages)]
  <2>1. TypeOK /\ SInv /\ tasks \in Seq(Task)
    BY DEF KInv, SInv, TypeOK
  <2>2. tasks[t] \in Task /\ Chat(t) \in Chats /\ t \in Nat
    BY <2>1, ATask
  <2> QED
    BY <2>1, <2>2 DEF TypeOK
<1>1. ASSUME NEW e, tasks' = [tasks EXCEPT ![t] = e],
             e.chat = tasks[t].chat, e.loaded = tasks[t].loaded,
             e.stage \notin {"loaded", "writing"},
             tasks[t].stage # "writing",
             UNCHANGED <<transcript, said, torn>>
      PROVE  KInv'
  <2>1. /\ TaskIds' = TaskIds /\ tasks'[t] = e
        /\ \A u \in TaskIds : u # t => tasks'[u] = tasks[u]
    BY <1>1 DEF TaskIds
  <2>2. \A u \in TaskIds : /\ tasks'[u].chat = tasks[u].chat
                           /\ tasks'[u].loaded = tasks[u].loaded
                           /\ Writing(u)' <=> Writing(u)
                           /\ Holding(u)' => Holding(u)
    BY <1>1, <2>1 DEF Writing, Holding, At
  <2> QED
    BY <1>0, <1>1, <2>1, <2>2, ExchangesUntouched
<1>2. \A u \in TaskIds : Holding(u) /\ Live(t) /\ Chat(u) = Chat(t) => u = t
  BY <1>0, OneWorkerPerChat DEF Holding, At, Live
<1>3. CASE AskApproval(t)
  <2> DEFINE e == [tasks[t] EXCEPT !.asked = tasks[t].asked + 1,
                                   !.pending = tasks[t].asked + 1,
                                   !.stage = "waiting"]
  <2>1. tasks' = [tasks EXCEPT ![t] = e]
    BY <1>3 DEF AskApproval
  <2>2. /\ e.chat = tasks[t].chat /\ e.loaded = tasks[t].loaded
        /\ e.stage \notin {"loaded", "writing"}
    BY <1>0 DEF Task
  <2>3. /\ tasks[t].stage # "writing"
        /\ UNCHANGED <<transcript, said, torn>>
    BY <1>3 DEF AskApproval, At, history
  <2> HIDE DEF e
  <2> QED
    BY <1>1, <2>1, <2>2, <2>3
<1>4. CASE WakeResolved(t)
  <2> DEFINE e == [tasks[t] EXCEPT !.stage = "running"]
  <2>1. tasks' = [tasks EXCEPT ![t] = e]
    BY <1>4 DEF WakeResolved, Move
  <2>2. /\ e.chat = tasks[t].chat /\ e.loaded = tasks[t].loaded
        /\ e.stage \notin {"loaded", "writing"}
    BY <1>0 DEF Task
  <2>3. /\ tasks[t].stage # "writing"
        /\ UNCHANGED <<transcript, said, torn>>
    BY <1>4 DEF WakeResolved, At, history
  <2> HIDE DEF e
  <2> QED
    BY <1>1, <2>1, <2>2, <2>3
<1>5. CASE WakeCancelled(t)
  <2> DEFINE e == [tasks[t] EXCEPT !.stage = "running", !.pending = 0]
  <2>1. tasks' = [tasks EXCEPT ![t] = e]
    BY <1>5 DEF WakeCancelled
  <2>2. /\ e.chat = tasks[t].chat /\ e.loaded = tasks[t].loaded
        /\ e.stage \notin {"loaded", "writing"}
    BY <1>0 DEF Task
  <2>3. /\ tasks[t].stage # "writing"
        /\ UNCHANGED <<transcript, said, torn>>
    BY <1>5 DEF WakeCancelled, At, history
  <2> HIDE DEF e
  <2> QED
    BY <1>1, <2>1, <2>2, <2>3
<1>6. CASE EndRun(t)
  <2> DEFINE e == [tasks[t] EXCEPT !.stage = "ended"]
  <2>1. tasks' = [tasks EXCEPT ![t] = e]
    BY <1>6 DEF EndRun, Move
  <2>2. /\ e.chat = tasks[t].chat /\ e.loaded = tasks[t].loaded
        /\ e.stage \notin {"loaded", "writing"}
    BY <1>0 DEF Task
  <2>3. /\ tasks[t].stage # "writing"
        /\ UNCHANGED <<transcript, said, torn>>
    BY <1>6 DEF EndRun, At, history
  <2> HIDE DEF e
  <2> QED
    BY <1>1, <2>1, <2>2, <2>3
<1>7. CASE ReportCompletion(t)
  <2> DEFINE e == [tasks[t] EXCEPT !.stage = "done"]
  <2>1. tasks' = [tasks EXCEPT ![t] = e]
    BY <1>7 DEF ReportCompletion, Move
  <2>2. /\ e.chat = tasks[t].chat /\ e.loaded = tasks[t].loaded
        /\ e.stage \notin {"loaded", "writing"}
    BY <1>0 DEF Task
  <2>3. /\ tasks[t].stage # "writing"
        /\ UNCHANGED <<transcript, said, torn>>
    BY <1>7 DEF ReportCompletion, At, history
  <2> HIDE DEF e
  <2> QED
    BY <1>1, <2>1, <2>2, <2>3
<1>8. CASE LoadTranscript(t)
  <2> DEFINE ms == IF transcript[Chat(t)] = Torn
                   THEN << >> ELSE transcript[Chat(t)]
             e == [tasks[t] EXCEPT !.stage = "loaded", !.loaded = ms]
  <2>1. tasks' = [tasks EXCEPT ![t] = e]
    BY <1>8 DEF LoadTranscript
  <2>2. e.chat = tasks[t].chat /\ e.loaded = ms /\ e.stage = "loaded"
    BY <1>0 DEF Task
  <2>3. /\ tasks[t].stage = "ended" /\ Live(t)
        /\ UNCHANGED <<transcript, said, torn>>
    BY <1>8 DEF LoadTranscript, Live, At, history
  <2>4. Chat(t) \notin torn => ms = Recent(said[Chat(t)])
    <3> SUFFICES ASSUME Chat(t) \notin torn
                 PROVE  ms = Recent(said[Chat(t)])
      OBVIOUS
    <3>1. ~ \E u \in TaskIds : Chat(u) = Chat(t) /\ Writing(u)
      BY <1>2, <2>3 DEF Writing, Holding, At
    <3>2. transcript[Chat(t)] = Recent(said[Chat(t)])
      BY <1>0, <3>1 DEF KInv, TranscriptKeepsExchanges, Writing
    <3> QED
      BY <1>0, <3>2, SaidIsKept
  <2> HIDE DEF ms, e
  <2>5. /\ TaskIds' = TaskIds /\ tasks'[t] = e
        /\ \A u \in TaskIds : u # t => tasks'[u] = tasks[u]
    BY <2>1 DEF TaskIds
  <2>6. TranscriptKeepsExchanges'
    BY <2>2, <2>3, <2>5 DEF KInv, TranscriptKeepsExchanges, Chat, At
  <2>7. LoadedIsCurrent'
    BY <2>2, <2>3, <2>4, <2>5 DEF KInv, LoadedIsCurrent, Holding, Chat, At
  <2> QED
    BY <2>6, <2>7 DEF KInv
<1>9. CASE TruncateTranscript(t)
  <2> DEFINE e == [tasks[t] EXCEPT !.stage = "writing"]
  <2>1. tasks' = [tasks EXCEPT ![t] = e]
    BY <1>9 DEF TruncateTranscript, Move
  <2>2. e.chat = tasks[t].chat /\ e.loaded = tasks[t].loaded
        /\ e.stage = "writing"
    BY <1>0 DEF Task
  <2>3. /\ tasks[t].stage = "loaded" /\ UNCHANGED <<said, torn>>
        /\ transcript' = [transcript EXCEPT ![Chat(t)] = Torn]
    BY <1>9 DEF TruncateTranscript, At, history
  <2> HIDE DEF e
  <2>4. /\ TaskIds' = TaskIds /\ tasks'[t] = e
        /\ \A u \in TaskIds : u # t => tasks'[u] = tasks[u]
    BY <2>1 DEF TaskIds
  <2>5. TranscriptKeepsExchanges'
    <3>1. ASSUME NEW c \in Chats \ torn
          PROVE  \/ transcript'[c] = Recent(said[c])
                 \/ \E u \in TaskIds :
                       tasks'[u].chat = c /\ tasks'[u].stage = "writing"
      <4>1. CASE c = Chat(t)
        BY <2>2, <2>4, <4>1 DEF Chat
      <4>2. CASE c # Chat(t)
        <5>1. transcript'[c] = transcript[c]
          BY <1>0, <2>3, <4>2
        <5>2. \A u \in TaskIds : At(u, "writing") =>
                 tasks'[u].stage = "writing" /\ tasks'[u].chat = Chat(u)
          BY <2>2, <2>4 DEF At, Chat
        <5> QED
          BY <5>1, <5>2 DEF KInv, TranscriptKeepsExchanges
      <4> QED
        BY <4>1, <4>2
    <3> QED
      BY <2>3, <2>4, <3>1 DEF TranscriptKeepsExchanges, Recent, Chat, At
  <2>6. LoadedIsCurrent'
    BY <2>2, <2>3, <2>4 DEF KInv, LoadedIsCurrent, Holding, Chat, At
  <2> QED
    BY <2>5, <2>6 DEF KInv
<1>10. CASE WriteTranscript(t)
  <2> DEFINE e == [tasks[t] EXCEPT !.stage = "saved", !.loaded = << >>]
  <2>1. tasks' = [tasks EXCEPT ![t] = e]
    BY <1>10 DEF WriteTranscript
  <2>2. e.chat = tasks[t].chat /\ e.stage = "saved"
    BY <1>0 DEF Task
  <2>3. Writing(t) /\ Holding(t) /\ Live(t) /\ torn' = torn
    BY <1>10 DEF WriteTranscript, Writing, Holding, Live, At
  <2>4. PICK d \in BOOLEAN :
           /\ transcript' = [transcript EXCEPT ![Chat(t)] =
                                Recent(tasks[t].loaded \o Exchange(t, d))]
           /\ said' = [said EXCEPT ![Chat(t)] = @ \o Exchange(t, d)]
    BY <1>10 DEF WriteTranscript
  <2>5. Exchange(t, d) \in Seq(Messages)
    <3>1. /\ [task |-> t, by |-> "user"] \in Messages
          /\ [task |-> t, by |-> "assistant"] \in Messages
      BY <1>0 DEF Messages
    <3> QED
      BY <3>1 DEF Exchange
  <2> HIDE DEF e
  <2>6. /\ TaskIds' = TaskIds /\ tasks'[t] = e
        /\ \A u \in TaskIds : u # t => tasks'[u] = tasks[u]
    BY <2>1 DEF TaskIds
  <2>7. PICK c \in Chats : c = Chat(t)
    BY <1>0
  <2>8. /\ transcript'[c] = Recent(tasks[t].loaded \o Exchange(t, d))
        /\ said'[c] = said[c] \o Exchange(t, d)
        /\ \A b \in Chats : b # c => transcript'[b] = transcript[b]
                                     /\ said'[b] = said[b]
    BY <1>0, <2>4, <2>7
  <2>9. c \notin torn => transcript'[c] = Recent(said'[c])
    <3> SUFFICES ASSUME c \notin torn PROVE transcript'[c] = Recent(said'[c])
      OBVIOUS
    <3>1. tasks[t].loaded = Recent(said[c])
      BY <2>3, <2>7 DEF KInv, LoadedIsCurrent
    <3>2. said[c] \in Seq(Messages)
      BY <1>0
    <3> QED
      BY <2>5, <2>8, <3>1, <3>2, RecentOfRecent
  <2>10. \A u \in TaskIds : Holding(u) /\ Chat(u) = c => u = t
    BY <1>2, <2>3, <2>7
  <2>11. TranscriptKeepsExchanges'
    <3>1. ASSUME NEW b \in Chats \ torn, b # c
          PROVE  \/ transcript'[b] = Recent(said'[b])
                 \/ \E u \in TaskIds :
                       tasks'[u].chat = b /\ tasks'[u].stage = "writing"
      <4>1. \A u \in TaskIds : At(u, "writing") /\ Chat(u) = b =>
               tasks'[u].stage = "writing" /\ tasks'[u].chat = b
        BY <2>6, <2>7, <3>1 DEF At, Chat
      <4>2. transcript'[b] = transcript[b] /\ said'[b] = said[b]
        BY <2>8, <3>1
      <4> QED
        BY <4>1, <4>2 DEF KInv, TranscriptKeepsExchanges
    <3> QED
      BY <2>3, <2>6, <2>9, <3>1
         DEF TranscriptKeepsExchanges, Recent, Chat, At
  <2>12. LoadedIsCurrent'
    <3>1. ASSUME NEW u \in TaskIds, Holding(u)', Chat(u)' \notin torn
          PROVE  tasks'[u].loaded = Recent(said'[tasks'[u].chat])
      <4>1. u # t /\ tasks'[u] = tasks[u]
        BY <2>2, <2>6, <3>1 DEF Holding, At
      <4>2. Holding(u) /\ Chat(u) \notin torn
        BY <3>1, <4>1 DEF Holding, At, Chat
      <4>3. Chat(u) \in Chats /\ Chat(u) # c
        BY <1>0, <2>10, <4>1, <4>2, ATask
      <4> QED
        BY <2>8, <4>1, <4>2, <4>3 DEF KInv, LoadedIsCurrent, Chat
    <3> QED
      BY <2>3, <2>6, <3>1 DEF LoadedIsCurrent, Recent, Chat
  <2> QED
    BY <2>11, <2>12 DEF KInv
<1> QED
  BY <1>3, <1>4, <1>5, <1>6, <1>7, <1>8, <1>9, <1>10 DEF Worker, Proceed

\* Every step keeps the invariant.
LEMMA ExchangesNext == KInv /\ [Next]_vars => KInv'
<1> SUFFICES ASSUME KInv, [Next]_vars PROVE KInv'
  OBVIOUS
<1>0. /\ TypeOK /\ SInv /\ SInv' /\ tasks \in Seq(Task)
      /\ TaskIds = 1 .. Len(tasks) /\ Len(tasks) \in Nat
      /\ DOMAIN transcript = Chats
      /\ said \in [Chats -> Seq(Messages)]
      /\ \A t \in TaskIds : tasks[t] \in Task /\ Chat(t) \in Chats
  <2>1. TypeOK /\ SInv /\ SInv' /\ tasks \in Seq(Task)
    BY SessionsNext DEF KInv, SInv, TypeOK
  <2>2. \A t \in TaskIds : tasks[t] \in Task /\ Chat(t) \in Chats
    BY <2>1, ATask
  <2> QED
    BY <2>1, <2>2, LenProperties DEF TypeOK, TaskIds
<1>1. CASE UNCHANGED <<tasks, transcript, said, torn>>
  <2>1. TaskIds' = TaskIds
        /\ \A t \in TaskIds : (Writing(t)' <=> Writing(t))
                              /\ (Holding(t)' => Holding(t))
    BY <1>1 DEF TaskIds, Writing, Holding, At
  <2> QED
    BY <1>0, <1>1, <2>1, ExchangesUntouched
<1>2. CASE StopExpires \/ StopCancels \/ AnswerApproval
  <2>1. UNCHANGED <<transcript, said, torn>>
    BY <1>2 DEF StopExpires, StopCancels, AnswerApproval, history
  <2>2. \/ tasks' = tasks
        \/ \E t, p : tasks' = [tasks EXCEPT ![t].pending = p]
        \/ \E t, p : tasks' = [tasks EXCEPT ![t].cancelled = p]
    BY <1>2 DEF StopExpires, StopCancels, AnswerApproval
  <2>3. ASSUME TaskIds' = TaskIds,
               \A u \in TaskIds : /\ tasks'[u].chat = tasks[u].chat
                                  /\ tasks'[u].loaded = tasks[u].loaded
                                  /\ tasks'[u].stage = tasks[u].stage
        PROVE  KInv'
    BY <1>0, <2>1, <2>3, ExchangesUntouched DEF Writing, Holding, At
  <2>4. CASE tasks' = tasks
    BY <2>3, <2>4 DEF TaskIds
  <2>5. ASSUME NEW t, NEW p, tasks' = [tasks EXCEPT ![t].pending = p]
        PROVE  KInv'
    BY <1>0, <2>3, <2>5 DEF TaskIds, Task
  <2>6. ASSUME NEW t, NEW p, tasks' = [tasks EXCEPT ![t].cancelled = p]
        PROVE  KInv'
    BY <1>0, <2>3, <2>6 DEF TaskIds, Task
  <2> QED
    BY <2>2, <2>4, <2>5, <2>6
<1>3. CASE StartMessage
  <2>1. UNCHANGED <<transcript, said, torn>>
    BY <1>3 DEF StartMessage
  <2>2. CASE tasks' = tasks
    BY <1>1, <2>1, <2>2
  <2>3. CASE tasks' # tasks
    <3> DEFINE c == Update.chat
    <3>1. batch # << >> /\ Take /\ tasks' = Append(tasks, NewTask(c))
      BY <1>3, <2>3 DEF StartMessage, Handling
    <3>2. c \in Chats
      BY <1>0, <3>1, TakeTypes DEF Updates
    <3> HIDE DEF c
    <3>3. NewTask(c) \in Task /\ NewTask(c).stage = "running"
      BY <3>2, SessionAssumption, EmptySeq DEF NewTask, Task, Stages
    <3>4. PICK n \in Nat : n = Len(tasks) + 1
      BY <1>0
    <3>5. /\ TaskIds' = TaskIds \cup {n}
          /\ tasks'[n] = NewTask(c)
          /\ \A t \in TaskIds : tasks'[t] = tasks[t]
      <4>1. /\ DOMAIN tasks' = 1 .. Len(tasks) + 1
            /\ \A i \in DOMAIN tasks : tasks'[i] = tasks[i]
            /\ tasks'[Len(tasks) + 1] = NewTask(c)
        BY <1>0, <3>1, <3>3, AppendTo
      <4> QED
        BY <1>0, <3>4, <4>1 DEF TaskIds
    <3>6. \A t \in TaskIds : (Writing(t)' <=> Writing(t))
                             /\ (Holding(t)' => Holding(t))
      BY <3>5 DEF Writing, Holding, At
    <3>7. \A t \in TaskIds' \ TaskIds : ~Holding(t)'
      BY <3>3, <3>5 DEF Holding, At
    <3> QED
      BY <1>0, <2>1, <3>5, <3>6, <3>7, ExchangesUntouched
  <2> QED
    BY <2>2, <2>3
<1>4. CASE ResetChat
  <2> DEFINE d == Update.chat
  <2>1. main = Loop /\ tasks' = tasks /\ batch # << >> /\ Take
    BY <1>4 DEF ResetChat, Handling
  <2>2. PICK c \in Chats : c = d
    BY <1>0, <2>1, TakeTypes DEF Updates
  <2>3. CASE ~MayReset(d)
    BY <1>1, <1>4, <2>1, <2>3 DEF ResetChat
  <2>4. CASE MayReset(d)
    <3>1. /\ sessions[c] = NoTask
          /\ transcript' = [transcript EXCEPT ![c] = << >>]
          /\ said' = [said EXCEPT ![c] = << >>]
          /\ torn' = torn \ {c}
      BY <1>4, <2>2, <2>4 DEF ResetChat, MayReset
    <3> HIDE DEF d
    <3>2. \A t \in TaskIds : Holding(t) => Chat(t) # c
      <4>1. \A t \in TaskIds : ~BeingInserted(t) /\ t # NoTask
        BY <1>0, <2>1 DEF BeingInserted, Loop, NoTask
      <4>2. \A t \in TaskIds : Holding(t) => Live(t)
        BY DEF Holding, At, Live
      <4> QED
        BY <1>0, <3>1, <4>1, <4>2 DEF SInv, WorkersAreReachable
    <3>3. \A b \in Chats : b # c => said'[b] = said[b]
                                    /\ transcript'[b] = transcript[b]
      BY <1>0, <3>1
    <3>4. transcript'[c] = << >> /\ said'[c] = << >>
      BY <1>0, <3>1
    <3>5. Recent(<< >>) = << >>
      BY SessionAssumption DEF Recent
    <3>6. TranscriptKeepsExchanges'
      <4>1. ASSUME NEW b \in Chats \ torn', b # c
            PROVE  \/ transcript'[b] = Recent(said'[b])
                   \/ \E u \in TaskIds : Chat(u) = b /\ At(u, "writing")
        BY <3>1, <3>3, <4>1 DEF KInv, TranscriptKeepsExchanges
      <4> QED
        BY <2>1, <3>4, <3>5, <4>1
           DEF TranscriptKeepsExchanges, Recent, TaskIds, Chat, At
    <3>7. LoadedIsCurrent'
      <4>1. ASSUME NEW u \in TaskIds, Holding(u), Chat(u) \notin torn'
            PROVE  tasks[u].loaded = Recent(said'[Chat(u)])
        <5>1. Chat(u) # c /\ Chat(u) \in Chats /\ Chat(u) \notin torn
          BY <1>0, <3>1, <3>2, <4>1
        <5> QED
          BY <3>3, <4>1, <5>1 DEF KInv, LoadedIsCurrent
      <4> QED
        BY <2>1, <4>1 DEF LoadedIsCurrent, Recent, TaskIds, Holding, Chat, At
    <3> QED
      BY <1>0, <3>6, <3>7 DEF KInv
  <2> QED
    BY <2>3, <2>4
<1>5. ASSUME NEW t \in TaskIds, Worker(t) PROVE KInv'
  BY <1>0, <1>5, WorkerExchanges
<1>6. CASE Restart
  <2>1. /\ UNCHANGED <<transcript, said>>
        /\ torn' = torn \cup {Chat(t) : t \in {x \in TaskIds :
                                                  At(x, "writing")}}
        /\ tasks' = [t \in TaskIds |->
                       IF Live(t)
                       THEN [tasks[t] EXCEPT !.stage = "dead", !.pending = 0,
                                             !.loaded = << >>]
                       ELSE tasks[t]]
    BY <1>6 DEF Restart
  <2>2. TaskIds' = TaskIds
    BY <2>1 DEF TaskIds
  <2>3. ASSUME NEW t \in TaskIds PROVE ~Holding(t)'
    <3>1. [tasks[t] EXCEPT !.stage = "dead", !.pending = 0,
                           !.loaded = << >>].stage = "dead"
      BY <1>0 DEF Task
    <3> QED
      BY <2>1, <3>1 DEF Holding, At, Live
  <2>4. LoadedIsCurrent'
    BY <2>2, <2>3 DEF LoadedIsCurrent
  <2>5. \A c \in Chats \ torn' : transcript'[c] = Recent(said[c])
    BY <2>1 DEF KInv, TranscriptKeepsExchanges
  <2>6. TranscriptKeepsExchanges'
    BY <2>1, <2>5 DEF TranscriptKeepsExchanges, Recent
  <2> QED
    BY <1>0, <2>4, <2>6 DEF KInv
<1>7. ASSUME NEW u, Send(u) PROVE KInv'
  BY <1>1, <1>7 DEF Send, history
<1>8. CASE CollectFinishedTasks \/ GetUpdates \/ PollingFails
           \/ InsertSession \/ UNCHANGED vars
  BY <1>1, <1>8
     DEF CollectFinishedTasks, GetUpdates, PollingFails, InsertSession, vars,
         history
<1> QED
  BY <1>2, <1>3, <1>4, <1>5, <1>6, <1>7, <1>8
     DEF Next, MainStep, Say, Tap, Type

\* A transcript no restart has torn holds the newest messages of all that the
\* chat's tasks wrote since its last reset.
THEOREM ExchangesKept == Spec => []TranscriptKeepsExchanges
<1>1. KInv => TranscriptKeepsExchanges
  BY DEF KInv
<1> QED
  BY <1>1, ExchangesInit, ExchangesNext, PTL DEF Spec

-----------------------------------------------------------------------------
(* Sessions with status messages and replies are sessions.                 *)

\* Every step of the composed system is one of TelegramSession or changes
\* nothing of it.
LEMMA Steps == [ReplyNext]_replyVars => [Next]_vars
<1> SUFFICES ASSUME [ReplyNext]_replyVars PROVE [Next]_vars
  OBVIOUS
<1>1. CASE \E c \in Chats, kind \in {"text", "stop", "reset"} : Say(c, kind)
  BY <1>1 DEF Next
<1>2. CASE (\E b \in buttons : Tap(b)) \/ (\E c \in Chats, n \in 1 .. MaxAsks : Type(c, n))
  BY <1>2 DEF Next
<1>3. CASE MainMoves
  <2>1. MainMoves => MainStep \/ UNCHANGED vars
    BY DEF MainMoves, TellStopping, Start, Cancel, Poll, MainStep
  <2> QED
    BY <1>3, <2>1 DEF Next
<1>4. CASE PollFails
  BY <1>4 DEF PollFails, Next
<1>5. ASSUME NEW t \in TaskIds, WorkerMoves(t)
      PROVE  Worker(t) \/ UNCHANGED vars
  BY <1>5 DEF WorkerMoves, Reports, Ask, Return, WorkerProceeds, Join, SendChunk,
              Load, Write, Finish, Worker, Proceed
<1>6. ASSUME NEW t \in TaskIds, Receive(t) \/ Heartbeat(t)
      PROVE  UNCHANGED vars
  BY <1>6 DEF Receive, Heartbeat
<1>7. CASE Reboot
  BY <1>7 DEF Reboot, Next
<1>8. CASE UNCHANGED replyVars
  BY <1>8 DEF replyVars
<1> QED
  BY <1>1, <1>2, <1>3, <1>4, <1>5, <1>6, <1>7, <1>8 DEF ReplyNext, Next

\* The composed system is a session of its own.
THEOREM Implementation == ReplySpec => Spec
<1>1. ReplyInit => Init
  BY DEF ReplyInit
<1> QED
  BY <1>1, Steps, PTL DEF ReplySpec, Spec

\* So what holds of sessions holds with progress threads, lost chunks and
\* unsent replies: sessions match workers, resets are clean, and no exchange
\* is overwritten.
THEOREM SessionsCarryOver ==
    ReplySpec => [](SessionsMatchWorkers /\ ResetIsClean /\ TranscriptKeepsExchanges)
<1> QED
  BY Implementation, SessionsAreWorkers, ResetsAreClean, ExchangesKept, PTL

-----------------------------------------------------------------------------
(* The status message and the reply.  A task's message, its progress       *)
(* thread, its reply and the stage of its worker go together: no outcome   *)
(* is in the channel before the run ends, none but its own after it, and   *)
(* the worker does not go on before the thread has shown it.               *)

Kinds == Outcomes \cup {"working", "stopping"}

Statuses == [shown : BOOLEAN, on : BOOLEAN, queue : Seq(Kinds),
             latest : Kinds, rendered : Kinds, missed : BOOLEAN]

Replies == [step : {"running", "joining", "told", "sending", "panicked"},
            outcome : Outcomes \cup {"working"},
            text : Texts \cup {ErrorText, << >>},
            sent : Nat, lost : BOOLEAN, seen : BOOLEAN]

ReplyTypes ==
    /\ status \in Seq(Statuses) /\ Len(status) = Len(tasks)
    /\ reply \in Seq(Replies) /\ Len(reply) = Len(tasks)

Tells(stage, s, r) ==
    /\ s.on => s.shown
    /\ stage \in {"running", "waiting"} => r.step = "running"
    /\ r.step = "running" => \A i \in DOMAIN s.queue : s.queue[i] \notin Outcomes
    /\ r.step # "running" =>
          \A i \in DOMAIN s.queue : s.queue[i] \in Outcomes => s.queue[i] = r.outcome
    /\ s.shown /\ ~s.on =>
          r.step # "running" /\ (s.missed \/ s.rendered = r.outcome)
    /\ r.step \in {"told", "sending", "panicked"} => ~s.on

\* What the worker knows of what arrived is true, and it goes on to the
\* transcript with all chunks attempted.
Delivers(stage, r) ==
    /\ ~r.lost => r.seen
    /\ r.step # "sending" => r.sent = 0
    /\ r.step # "running" => r.text \in Texts \cup {ErrorText}
    /\ stage \in {"loaded", "writing", "saved"} =>
          \/ r.step = "told"
          \/ r.step = "sending" /\ r.sent = Len(ChunksOf[r.text])

Agrees(t) ==
    /\ Tells(tasks[t].stage, status[t], reply[t])
    /\ Delivers(tasks[t].stage, reply[t])

RInv == TypeOK /\ ReplyTypes /\ \A t \in TaskIds : Agrees(t)

\* An update is taken up at the end of the channel, if at all.
LEMMA ToldQueue ==
    ASSUME NEW s \in Statuses, NEW u \in Kinds
    PROVE  /\ Told(s, u) \in Statuses
           /\ Told(s, u).shown = s.shown /\ Told(s, u).on = s.on
           /\ Told(s, u).rendered = s.rendered
           /\ Told(s, u).missed = s.missed
           /\ \A i \in DOMAIN Told(s, u).queue :
                 \/ s.on /\ Told(s, u).queue[i] = u
                 \/ \E j \in DOMAIN s.queue : s.queue[j] = Told(s, u).queue[i]
<1>1. /\ Append(s.queue, u) \in Seq(Kinds)
      /\ DOMAIN s.queue = 1 .. Len(s.queue) /\ Len(s.queue) \in Nat
      /\ DOMAIN Append(s.queue, u) = 1 .. Len(s.queue) + 1
      /\ \A i \in 1 .. Len(s.queue) : Append(s.queue, u)[i] = s.queue[i]
      /\ Append(s.queue, u)[Len(s.queue) + 1] = u
  BY AppendProperties, LenProperties DEF Statuses
<1>2. CASE ~s.on \/ (s.queue # << >> /\ Last(s.queue) = u)
  BY <1>2 DEF Told
<1>3. CASE ~(~s.on \/ (s.queue # << >> /\ Last(s.queue) = u))
  <2>1. Told(s, u) = [s EXCEPT !.queue = Append(s.queue, u)]
    BY <1>3 DEF Told
  <2>2. /\ Told(s, u) \in Statuses /\ Told(s, u).queue = Append(s.queue, u)
        /\ Told(s, u).shown = s.shown /\ Told(s, u).on = s.on
        /\ Told(s, u).rendered = s.rendered
        /\ Told(s, u).missed = s.missed
    BY <1>1, <2>1 DEF Statuses
  <2>3. \A i \in 1 .. Len(s.queue) + 1 : i \in 1 .. Len(s.queue) \/ i = Len(s.queue) + 1
    BY <1>1
  <2> QED
    BY <1>1, <1>3, <2>2, <2>3
<1> QED
  BY <1>2, <1>3

\* An update that is not an outcome disturbs nothing.
LEMMA ToldAgrees ==
    ASSUME NEW s \in Statuses, NEW u \in {"working", "stopping"},
           NEW stage, NEW r, Tells(stage, s, r)
    PROVE  Tells(stage, Told(s, u), r)
<1>1. u \in Kinds /\ u \notin Outcomes
  BY DEF Kinds, Outcomes
<1> QED
  BY <1>1, ToldQueue DEF Tells

\* The steps of a task that keep what it tells and delivers.
Follows(stage, next) ==
    \/ next = stage
    \/ stage \in {"running", "waiting"} /\ next \in {"running", "waiting"}
    \/ stage \in {"loaded", "writing"} /\ next \in {"loaded", "writing", "saved"}

\* Tasks that move on, told at most of work or of a stop, keep the invariant.
LEMMA TasksMoveOn ==
    ASSUME RInv, TypeOK', TaskIds' = TaskIds, reply' = reply,
           status' \in Seq(Statuses), Len(status') = Len(status),
           NEW u \in {"working", "stopping"},
           \A t \in TaskIds : status'[t] \in {status[t], Told(status[t], u)},
           \A t \in TaskIds : Follows(tasks[t].stage, tasks'[t].stage)
    PROVE  RInv'
<1>1. Len(tasks') = Len(tasks)
  BY LenProperties DEF RInv, TypeOK, TaskIds
<1>2. ReplyTypes'
  BY <1>1 DEF RInv, ReplyTypes
<1>3. ASSUME NEW t \in TaskIds PROVE Agrees(t)'
  <2>1. status[t] \in Statuses
    BY LenProperties DEF RInv, TypeOK, ReplyTypes, TaskIds
  <2>2. Tells(tasks[t].stage, status'[t], reply[t])
    BY <2>1, ToldAgrees DEF RInv, Agrees
  <2>3. Tells(tasks'[t].stage, status'[t], reply'[t])
    BY <2>2 DEF Tells, Follows
  <2>4. Delivers(tasks'[t].stage, reply'[t])
    BY DEF RInv, Agrees, Delivers, Follows
  <2> QED
    BY <2>3, <2>4 DEF Agrees
<1> QED
  BY <1>2, <1>3 DEF RInv

\* A step of one task that keeps it in agreement keeps the invariant.
LEMMA OneTaskMoves ==
    ASSUME RInv, TypeOK', TaskIds' = TaskIds, NEW t \in TaskIds,
           \A u \in TaskIds \ {t} : tasks'[u] = tasks[u],
           NEW s \in Statuses, status' = [status EXCEPT ![t] = s],
           NEW r \in Replies, reply' = [reply EXCEPT ![t] = r],
           Tells(tasks'[t].stage, s, r), Delivers(tasks'[t].stage, r)
    PROVE  RInv'
<1>1. /\ Len(tasks') = Len(tasks)
      /\ t \in 1 .. Len(status) /\ t \in 1 .. Len(reply)
      /\ TaskIds = 1 .. Len(status) /\ TaskIds = 1 .. Len(reply)
      /\ status \in Seq(Statuses) /\ reply \in Seq(Replies)
  BY LenProperties DEF RInv, TypeOK, ReplyTypes, TaskIds
<1>2. /\ status' \in Seq(Statuses) /\ Len(status') = Len(status)
      /\ \A u \in TaskIds : status'[u] = IF u = t THEN s ELSE status[u]
  BY <1>1, ExceptSeq
<1>3. /\ reply' \in Seq(Replies) /\ Len(reply') = Len(reply)
      /\ \A u \in TaskIds : reply'[u] = IF u = t THEN r ELSE reply[u]
  BY <1>1, ExceptSeq
<1>4. ReplyTypes'
  BY <1>1, <1>2, <1>3 DEF RInv, ReplyTypes
<1>5. ASSUME NEW u \in TaskIds PROVE Agrees(u)'
  <2>1. CASE u = t
    BY <2>1, <1>2, <1>3 DEF Agrees
  <2>2. CASE u # t
    BY <2>2, <1>2, <1>3 DEF Agrees, RInv
  <2> QED
    BY <2>1, <2>2
<1> QED
  BY <1>4, <1>5 DEF RInv

\* Telling one task, or all that have a session.
LEMMA TellTypes ==
    ASSUME RInv, NEW t, NEW u \in Kinds, Tell(t, u)
    PROVE  /\ status' \in Seq(Statuses) /\ Len(status') = Len(status)
           /\ \A x \in TaskIds :
                 status'[x] = IF x = t THEN Told(status[x], u) ELSE status[x]
<1>1. status \in Seq(Statuses) /\ TaskIds = 1 .. Len(status) /\ DOMAIN status = TaskIds
  BY LenProperties DEF RInv, TypeOK, ReplyTypes, TaskIds
<1>2. CASE t \in TaskIds
  <2>1. Told(status[t], u) \in Statuses
    BY <1>1, <1>2, LenProperties, ToldQueue
  <2> QED
    BY <1>1, <1>2, <2>1, ExceptSeq DEF Tell
<1>3. CASE t \notin TaskIds
  <2>1. status' = status
    BY <1>1, <1>3, LenProperties DEF Tell
  <2> QED
    BY <1>1, <1>3, <2>1
<1> QED
  BY <1>2, <1>3

\* The broadcast after polling trouble.
LEMMA TellAllTypes ==
    ASSUME RInv, NEW u \in Kinds, TellAll(u)
    PROVE  /\ status' \in Seq(Statuses) /\ Len(status') = Len(status)
           /\ \A x \in TaskIds : status'[x] \in {status[x], Told(status[x], u)}
<1>1. /\ status \in Seq(Statuses) /\ Len(status) \in Nat
      /\ TaskIds = 1 .. Len(status)
      /\ \A x \in TaskIds : status[x] \in Statuses
  BY LenProperties DEF RInv, TypeOK, ReplyTypes, TaskIds
<1>2. \A x \in TaskIds : Told(status[x], u) \in Statuses
  BY <1>1, ToldQueue
<1>3. /\ \A x \in TaskIds : status'[x] \in {status[x], Told(status[x], u)}
      /\ status' \in [1 .. Len(status) -> Statuses]
  BY <1>1, <1>2 DEF TellAll
<1>4. status' \in Seq(Statuses)
  BY <1>1, <1>3, SeqDef
<1> QED
  BY <1>1, <1>3, <1>4, LenProperties

\* What the users and the main thread do.
LEMMA MainMovesOn ==
    ASSUME RInv, TypeOK', UNCHANGED <<status, reply>>, TaskIds' = TaskIds,
           \A t \in TaskIds : Follows(tasks[t].stage, tasks'[t].stage)
    PROVE  RInv'
BY TasksMoveOn DEF RInv, ReplyTypes

\* A new task has said nothing and has no outcome in its channel.
LEMMA StartAgrees == ASSUME RInv, TypeOK', Start PROVE RInv'
<1>1. CASE Len(tasks') = Len(tasks)
  <2>1. tasks' = tasks
    <3>1. \A e : Len(Append(tasks, e)) = Len(tasks) + 1 /\ Len(tasks) \in Nat
      BY LenProperties DEF RInv, TypeOK
    <3> QED
      BY <1>1, <3>1 DEF Start, StartMessage
  <2> QED
    BY <1>1, <2>1, MainMovesOn DEF Start, TaskIds, Follows
<1>2. CASE Len(tasks') # Len(tasks)
  <2>1. PICK shown \in BOOLEAN : status' = Append(status, Status(shown))
    BY <1>2 DEF Start
  <2>2. reply' = Append(reply, NoReply)
    BY <1>2 DEF Start
  <2>3. PICK c \in Chats : tasks' = Append(tasks, NewTask(c))
    <3>1. batch # << >> /\ sent \in Seq(Updates) /\ batch \in Seq(DOMAIN sent)
      BY DEF Start, StartMessage, Handling, RInv, TypeOK
    <3>2. Update \in Updates
      BY <3>1, HeadTailProperties, LenProperties DEF Update
    <3>3. Update.chat \in Chats
      BY <3>2 DEF Updates
    <3> QED
      BY <1>2, <3>3 DEF Start, StartMessage
  <2>4. Status(shown) \in Statuses /\ Status(shown).queue = << >>
        /\ Status(shown).on = Status(shown).shown
    BY DEF Status, Statuses, Kinds
  <2>5. NoReply \in Replies
    BY DEF NoReply, Replies
  <2>6. NewTask(c) \in Task
    BY SessionAssumption DEF NewTask, Task, Stages
  <2>7. /\ tasks \in Seq(Task) /\ status \in Seq(Statuses) /\ reply \in Seq(Replies)
        /\ Len(status) = Len(tasks) /\ Len(reply) = Len(tasks) /\ Len(tasks) \in Nat
    BY LenProperties DEF RInv, TypeOK, ReplyTypes
  <2>8. /\ TaskIds = 1 .. Len(tasks) /\ TaskIds' = 1 .. Len(tasks) + 1
        /\ \A t \in TaskIds : tasks'[t] = tasks[t] /\ status'[t] = status[t]
                              /\ reply'[t] = reply[t]
        /\ tasks'[Len(tasks) + 1] = NewTask(c)
        /\ status'[Len(tasks) + 1] = Status(shown)
        /\ reply'[Len(tasks) + 1] = NoReply
    BY <2>1, <2>2, <2>3, <2>4, <2>5, <2>6, <2>7, AppendTo DEF TaskIds
  <2>9. ReplyTypes'
    BY <2>1, <2>2, <2>3, <2>4, <2>5, <2>6, <2>7, AppendTo DEF ReplyTypes
  <2>10. ASSUME NEW t \in TaskIds' PROVE Agrees(t)'
    <3>1. CASE t \in TaskIds
      BY <2>8, <3>1 DEF RInv, Agrees
    <3>2. CASE t = Len(tasks) + 1
      <4>1. Tells("running", Status(shown), NoReply)
        BY <2>4 DEF Tells, NoReply
      <4>2. Delivers("running", NoReply)
        BY DEF Delivers, NoReply
      <4>3. NewTask(c).stage = "running"
        BY DEF NewTask
      <4> QED
        BY <2>8, <3>2, <4>1, <4>2, <4>3 DEF Agrees
    <3> QED
      BY <2>7, <2>8, <3>1, <3>2
  <2> QED
    BY <2>9, <2>10 DEF RInv
<1> QED
  BY <1>1, <1>2

\* A step that leaves the tasks alone moves nothing.
LEMMA SameTasks ==
    tasks' = tasks => /\ TaskIds' = TaskIds
                      /\ \A t \in TaskIds : Follows(tasks[t].stage, tasks'[t].stage)
BY DEF TaskIds, Follows

\* The steps of the main thread.
LEMMA MainAgrees == ASSUME RInv, TypeOK', MainMoves \/ PollFails PROVE RInv'
<1>1. CASE TellStopping
  <2>1. "stopping" \in Kinds
    BY DEF Kinds
  <2>2. Tell(telling, "stopping") /\ reply' = reply /\ tasks' = tasks
    BY <1>1 DEF TellStopping, vars
  <2> QED
    BY <2>1, <2>2, TellTypes, TasksMoveOn, SameTasks
<1>2. CASE Start
  BY <1>2, StartAgrees
<1>3. CASE Cancel
  <2>1. TaskIds' = TaskIds /\ \A t \in TaskIds : tasks'[t].stage = tasks[t].stage
    BY <1>3 DEF Cancel, StopCancels, TaskIds
  <2> QED
    BY <1>3, <2>1, MainMovesOn DEF Cancel, Follows
<1>4. CASE Poll \/ PollFails
  <2>1. "working" \in Kinds
    BY DEF Kinds
  <2>2. reply' = reply /\ tasks' = tasks
    BY <1>4 DEF Poll, PollFails, GetUpdates, PollingFails
  <2>3. CASE TellAll("working")
    BY <2>1, <2>2, <2>3, TellAllTypes, TasksMoveOn, SameTasks
  <2>4. CASE UNCHANGED status
    BY <2>2, <2>4, MainMovesOn, SameTasks
  <2> QED
    BY <1>4, <2>3, <2>4 DEF Poll, PollFails
<1>5. CASE /\ \/ CollectFinishedTasks \/ InsertSession \/ StopExpires
              \/ ResetChat \/ AnswerApproval
           /\ UNCHANGED own
  <2>1. \/ tasks' = tasks
        \/ \E t : tasks' = [tasks EXCEPT ![t].pending = 0]
    BY <1>5 DEF CollectFinishedTasks, InsertSession, StopExpires, ResetChat,
                AnswerApproval
  <2>2. \A t \in TaskIds : tasks[t] \in Task
    BY ATask DEF RInv, TypeOK
  <2>3. TaskIds' = TaskIds /\ \A t \in TaskIds : tasks'[t].stage = tasks[t].stage
    BY <2>1, <2>2 DEF TaskIds, Task
  <2> QED
    BY <1>5, <2>3, MainMovesOn DEF own, Follows
<1> QED
  BY <1>1, <1>2, <1>3, <1>4, <1>5 DEF MainMoves

\* Putting an entry of a list in its own place changes nothing.
LEMMA OwnPlace ==
    ASSUME NEW S, NEW x \in Seq(S), NEW i \in DOMAIN x
    PROVE  x = [x EXCEPT ![i] = x[i]]
<1>1. x \in [1 .. Len(x) -> S]
  BY LenProperties
<1> QED
  BY <1>1

\* What the invariant says of one task.
LEMMA TheTask ==
    ASSUME RInv, NEW t \in TaskIds
    PROVE  /\ status[t] \in Statuses /\ reply[t] \in Replies
           /\ Tells(tasks[t].stage, status[t], reply[t])
           /\ Delivers(tasks[t].stage, reply[t])
           /\ DOMAIN status = TaskIds /\ DOMAIN reply = TaskIds
           /\ status = [status EXCEPT ![t] = status[t]]
           /\ reply = [reply EXCEPT ![t] = reply[t]]
<1>1. DOMAIN status = TaskIds /\ DOMAIN reply = TaskIds
  BY LenProperties DEF RInv, TypeOK, ReplyTypes, TaskIds
<1>2. status[t] \in Statuses /\ reply[t] \in Replies
  BY LenProperties DEF RInv, TypeOK, ReplyTypes, TaskIds
<1>3. /\ status = [status EXCEPT ![t] = status[t]]
      /\ reply = [reply EXCEPT ![t] = reply[t]]
  BY <1>1, OwnPlace DEF RInv, ReplyTypes
<1> QED
  BY <1>1, <1>2, <1>3 DEF RInv, Agrees

\* An edit shows its update or misses it, and touches nothing else.
LEMMA EditedIs ==
    ASSUME NEW s \in Statuses, NEW u \in Kinds, NEW x \in Edited(s, u)
    PROVE  /\ x \in Statuses /\ x.shown = s.shown /\ x.queue = s.queue
           /\ x.on = s.on
           /\ u \in Outcomes => x.missed \/ x.rendered = u
<1>1. PICK b \in BOOLEAN : b = IsTerminal(u) /\ (u \in Outcomes => b)
  <2>1. IsTerminal(u) \in BOOLEAN /\ (u \in Outcomes => IsTerminal(u))
    BY DEF IsTerminal
  <2> QED
    BY <2>1, Zenon
<1>2. x = [s EXCEPT !.rendered = u] \/ x = [s EXCEPT !.missed = b]
  BY <1>1 DEF Edited
<1>3. CASE x = [s EXCEPT !.rendered = u]
  BY <1>3 DEF Statuses
<1>4. CASE x = [s EXCEPT !.missed = b]
  BY <1>1, <1>4 DEF Statuses
<1> QED
  BY <1>2, <1>3, <1>4

\* The progress thread.
LEMMA ThreadAgrees ==
    ASSUME RInv, TypeOK', NEW t \in TaskIds, Receive(t) \/ Heartbeat(t)
    PROVE  RInv'
<1> DEFINE s == status[t]
           r == reply[t]
<1>0. /\ s \in Statuses /\ r \in Replies /\ Tells(tasks[t].stage, s, r)
      /\ Delivers(tasks[t].stage, r) /\ reply = [reply EXCEPT ![t] = r]
  BY TheTask
<1>1. tasks' = tasks /\ reply' = [reply EXCEPT ![t] = r]
  BY <1>0 DEF Receive, Heartbeat, vars
<1>2. CASE Receive(t)
  <2> DEFINE u == Head(s.queue)
  <2>1. PICK x \in Rendered(s, u) : status' = [status EXCEPT ![t] = TakenUp(x, u)]
    BY <1>2 DEF Receive
  <2> DEFINE next == TakenUp(x, u)
  <2>2. /\ s.on /\ s.queue # << >> /\ s.queue \in Seq(Kinds)
        /\ u \in Kinds /\ u = s.queue[1]
        /\ Tail(s.queue) \in Seq(Kinds)
        /\ \A i \in DOMAIN Tail(s.queue) : \E j \in DOMAIN s.queue :
              Tail(s.queue)[i] = s.queue[j]
        /\ 1 \in DOMAIN s.queue
    <3>1. s.on /\ s.queue # << >> /\ s.queue \in Seq(Kinds)
      BY <1>0, <1>2 DEF Receive, Statuses
    <3>2. /\ Len(s.queue) \in Nat \ {0} /\ DOMAIN s.queue = 1 .. Len(s.queue)
          /\ Tail(s.queue) \in Seq(Kinds) /\ Len(Tail(s.queue)) = Len(s.queue) - 1
          /\ DOMAIN Tail(s.queue) = 1 .. Len(Tail(s.queue))
          /\ \A i \in 1 .. Len(Tail(s.queue)) : Tail(s.queue)[i] = s.queue[i + 1]
      BY <3>1, HeadTailProperties, LenProperties, EmptySeq
    <3>3. \A i \in DOMAIN Tail(s.queue) : i + 1 \in DOMAIN s.queue
      BY <3>2
    <3>4. u = s.queue[1] /\ 1 \in DOMAIN s.queue /\ s.queue[1] \in Kinds
      BY <3>1, <3>2, LenProperties
    <3> QED
      BY <3>1, <3>2, <3>3, <3>4
  <2>3. /\ x \in Statuses /\ x.shown = s.shown /\ x.queue = s.queue
        /\ u \in Outcomes => x.missed \/ x.rendered = u
    BY <1>0, <2>2, EditedIs DEF Rendered, IsTerminal
  <2>4. next \in Statuses
    BY <2>2, <2>3 DEF Statuses, IsTerminal, TakenUp
  <2>5. /\ next.shown = s.shown /\ next.queue = Tail(s.queue)
        /\ next.on = (u \notin Outcomes)
        /\ next.rendered = x.rendered /\ next.missed = x.missed
    BY <2>3 DEF Statuses, IsTerminal, TakenUp
  <2>6. u \in Outcomes => next.missed \/ next.rendered = u
    BY <2>3, <2>5
  <2> HIDE DEF next, u, s, r
  <2>7. Tells(tasks[t].stage, next, r)
    <3>1. \A i \in DOMAIN next.queue : \E j \in DOMAIN s.queue :
             next.queue[i] = s.queue[j]
      BY <2>2, <2>5
    <3>2. u \in Outcomes => r.step # "running" /\ u = r.outcome
      BY <1>0, <2>2 DEF Tells
    <3>3. next.on => next.shown
      BY <1>0, <2>2, <2>5 DEF Tells
    <3>4. r.step \notin {"told", "sending", "panicked"}
      BY <1>0, <2>2 DEF Tells
    <3> QED
      BY <1>0, <2>5, <2>6, <3>1, <3>2, <3>3, <3>4 DEF Tells
  <2> QED
    BY <1>0, <1>1, <2>1, <2>4, <2>7, OneTaskMoves DEF next, TaskIds
<1>3. CASE Heartbeat(t)
  <2>1. PICK next \in Edited(s, s.latest) :
           status' = [status EXCEPT ![t] = next] /\ s.on
    BY <1>3 DEF Heartbeat
  <2>2. /\ next \in Statuses /\ next.shown = s.shown /\ next.queue = s.queue
        /\ next.on = s.on
    BY <1>0, EditedIs DEF Statuses
  <2>3. Tells(tasks[t].stage, next, r)
    BY <1>0, <2>1, <2>2 DEF Tells
  <2> HIDE DEF s, r
  <2> QED
    BY <1>0, <1>1, <2>1, <2>2, <2>3, OneTaskMoves DEF TaskIds
<1> QED
  BY <1>2, <1>3

\* The steps of a worker up to the transcript.
LEMMA ReturnAgrees ==
    ASSUME RInv, TypeOK', NEW t \in TaskIds, Return(t) PROVE RInv'
<1> DEFINE s == status[t]
           r == reply[t]
<1>0. /\ s \in Statuses /\ r \in Replies /\ Tells(tasks[t].stage, s, r)
      /\ Delivers(tasks[t].stage, r)
  BY TheTask
<1>1. PICK outcome \in Outcomes, text \in Texts :
         /\ Tell(t, outcome)
         /\ reply' = [reply EXCEPT ![t] =
               [r EXCEPT !.step = "joining", !.outcome = outcome,
                         !.text = IF outcome = "completed" THEN text ELSE ErrorText]]
  BY DEF Return
<1> DEFINE next == [r EXCEPT !.step = "joining", !.outcome = outcome,
                             !.text = IF outcome = "completed" THEN text
                                      ELSE ErrorText]
           told == Told(s, outcome)
<1>2. /\ next \in Replies /\ next.step = "joining" /\ next.outcome = outcome
      /\ next.sent = r.sent /\ next.lost = r.lost /\ next.seen = r.seen
      /\ next.text \in Texts \cup {ErrorText}
  BY <1>0 DEF Replies
<1>3. outcome \in Kinds
  BY DEF Kinds
<1>4. /\ told \in Statuses
      /\ told.shown = s.shown /\ told.on = s.on /\ told.rendered = s.rendered
      /\ told.missed = s.missed
      /\ \A i \in DOMAIN told.queue :
            told.queue[i] = outcome \/ \E j \in DOMAIN s.queue : s.queue[j] = told.queue[i]
  BY <1>0, <1>3, ToldQueue
<1>5. r.step = "running" /\ tasks[t].stage = "running"
  BY <1>0 DEF Tells, Return, EndRun, At
<1>6. /\ TaskIds' = TaskIds /\ tasks'[t].stage = "ended"
      /\ \A u \in TaskIds \ {t} : tasks'[u] = tasks[u]
  <2>1. tasks[t] \in Task
    BY ATask DEF RInv, TypeOK
  <2>2. tasks' = [tasks EXCEPT ![t].stage = "ended"]
    BY DEF Return, EndRun, Move
  <2> QED
    BY <2>1, <2>2 DEF TaskIds, Task
<1> HIDE DEF next, told, s, r
<1>7. Tells(tasks'[t].stage, told, next)
  BY <1>0, <1>2, <1>4, <1>5, <1>6 DEF Tells
<1>8. Delivers(tasks'[t].stage, next)
  BY <1>0, <1>2, <1>5, <1>6 DEF Delivers
<1> QED
  BY <1>1, <1>2, <1>4, <1>6, <1>7, <1>8, OneTaskMoves DEF Tell, next, told, s, r

\* A chunk is sent, and its answer is there or lost.
LEMMA AttemptedReply ==
    ASSUME NEW r \in Replies, NEW a \in BOOLEAN, NEW b \in BOOLEAN
    PROVE  /\ Attempted(r, a, b) \in Replies
           /\ Attempted(r, a, b).step = r.step
           /\ Attempted(r, a, b).outcome = r.outcome
           /\ Attempted(r, a, b).text = r.text
           /\ Attempted(r, a, b).lost = (r.lost \/ ~b)
           /\ Attempted(r, a, b).seen = (r.seen /\ a)
<1>1. Attempted(r, a, b) = [r EXCEPT !.sent = r.sent + 1, !.lost = r.lost \/ ~b,
                                     !.seen = r.seen /\ a]
  BY Zenon DEF Attempted, Lost
<1>2. ASSUME NEW l \in BOOLEAN, NEW v \in BOOLEAN
      PROVE  LET x == [r EXCEPT !.sent = r.sent + 1, !.lost = l, !.seen = v]
             IN  /\ x \in Replies /\ x.step = r.step /\ x.outcome = r.outcome
                 /\ x.lost = l /\ x.seen = v /\ x.text = r.text
  <2> DEFINE x == [r EXCEPT !.sent = r.sent + 1, !.lost = l, !.seen = v]
             y == [r EXCEPT !.sent = r.sent + 1]
             z == [y EXCEPT !.lost = l]
  <2>1. y \in Replies /\ y.step = r.step /\ y.outcome = r.outcome /\ y.text = r.text
    BY SMT DEF Replies
  <2> HIDE DEF y
  <2>2. z \in Replies /\ z.step = r.step /\ z.outcome = r.outcome /\ z.lost = l
        /\ z.text = r.text
    BY <2>1, Zenon DEF Replies
  <2> HIDE DEF z
  <2>3. LET w == [z EXCEPT !.seen = v]
        IN  /\ w \in Replies /\ w.step = r.step /\ w.outcome = r.outcome
            /\ w.lost = l /\ w.seen = v /\ w.text = r.text
    BY <2>2, Zenon DEF Replies
  <2>4. x = [z EXCEPT !.seen = v]
    BY Zenon DEF y, z
  <2> QED
    BY <2>3, <2>4, Zenon
<1>3. (r.lost \/ ~b) \in BOOLEAN /\ (r.seen /\ a) \in BOOLEAN
  OBVIOUS
<1>4. PICK l \in BOOLEAN, v \in BOOLEAN :
          l = (r.lost \/ ~b) /\ v = (r.seen /\ a)
  BY <1>3, Zenon
<1>5. Attempted(r, a, b) = [r EXCEPT !.sent = r.sent + 1, !.lost = l, !.seen = v]
  BY <1>1, <1>4, Zenon
<1> HIDE DEF Attempted
<1> QED
  BY <1>2, <1>4, <1>5

\* Joining the progress thread, and a chunk.
LEMMA DeliveryAgrees ==
    ASSUME RInv, TypeOK', NEW t \in TaskIds, Join(t) \/ SendChunk(t)
    PROVE  RInv'
<1> DEFINE s == status[t]
           r == reply[t]
<1>0. /\ s \in Statuses /\ r \in Replies /\ Tells(tasks[t].stage, s, r)
      /\ Delivers(tasks[t].stage, r)
      /\ tasks[t].stage = "ended"
      /\ tasks' = tasks /\ TaskIds' = TaskIds
      /\ status' = [status EXCEPT ![t] = s]
  BY TheTask DEF Join, SendChunk, vars, At, TaskIds
<1>1. CASE Join(t)
  <2> DEFINE step == CASE ~IsSent(t) -> "told"
                       [] reply[t].text \in Splittable -> "sending"
                       [] OTHER -> "panicked"
             next == [r EXCEPT !.step = step]
  <2>1. reply' = [reply EXCEPT ![t] = next]
    BY <1>1, TheTask DEF Join
  <2>0. step \in {"told", "sending", "panicked"}
    OBVIOUS
  <2> HIDE DEF step
  <2>2. /\ next \in Replies /\ next.step = step /\ next.outcome = r.outcome
        /\ next.sent = r.sent /\ next.lost = r.lost /\ next.seen = r.seen
        /\ next.text = r.text
    BY <1>0, <2>0 DEF Replies
  <2>3. r.step = "joining" /\ ~s.on
    BY <1>1 DEF Join
  <2> HIDE DEF next, s, r
  <2>4. Tells(tasks'[t].stage, s, next)
    BY <1>0, <2>0, <2>2, <2>3 DEF Tells
  <2>5. Delivers(tasks'[t].stage, next)
    BY <1>0, <2>0, <2>2, <2>3 DEF Delivers
  <2> QED
    BY <1>0, <2>1, <2>2, <2>4, <2>5, OneTaskMoves DEF s
<1>2. CASE SendChunk(t)
  <2>1. PICK arrived \in BOOLEAN, answered \in BOOLEAN :
           /\ answered => arrived
           /\ reply' = [reply EXCEPT ![t] = Attempted(r, arrived, answered)]
    BY <1>2 DEF SendChunk
  <2> DEFINE next == Attempted(r, arrived, answered)
  <2>2. /\ next \in Replies /\ next.step = r.step /\ next.outcome = r.outcome
        /\ next.lost = (r.lost \/ ~answered) /\ next.seen = (r.seen /\ arrived)
        /\ next.text = r.text
    BY <1>0, AttemptedReply
  <2>3. r.step = "sending"
    BY <1>2 DEF SendChunk
  <2> HIDE DEF next, s, r
  <2>4. Tells(tasks'[t].stage, s, next)
    BY <1>0, <2>2 DEF Tells
  <2>5. Delivers(tasks'[t].stage, next)
    BY <1>0, <2>1, <2>2, <2>3 DEF Delivers
  <2> QED
    BY <1>0, <2>1, <2>2, <2>4, <2>5, OneTaskMoves DEF next
<1> QED
  BY <1>1, <1>2

\* The last steps of a worker, and those in which it waits.
LEMMA WorkerAgrees ==
    ASSUME RInv, TypeOK', NEW t \in TaskIds, WorkerMoves(t) PROVE RInv'
<1> DEFINE s == status[t]
           r == reply[t]
<1>0. /\ s \in Statuses /\ r \in Replies /\ Tells(tasks[t].stage, s, r)
      /\ Delivers(tasks[t].stage, r) /\ tasks[t] \in Task
      /\ status = [status EXCEPT ![t] = s] /\ reply = [reply EXCEPT ![t] = r]
  <2>1. tasks[t] \in Task
    BY ATask DEF RInv, TypeOK
  <2> QED
    BY <2>1, TheTask
<1>1. CASE Reports(t)
  <2>1. "working" \in Kinds
    BY DEF Kinds
  <2>2. Tell(t, "working") /\ reply' = reply /\ tasks' = tasks
    BY <1>1 DEF Reports, vars
  <2> QED
    BY <2>1, <2>2, TellTypes, TasksMoveOn, SameTasks
<1>2. CASE Ask(t)
  <2>1. "working" \in Kinds
    BY DEF Kinds
  <2>2. /\ Tell(t, "working") /\ reply' = reply /\ TaskIds' = TaskIds
        /\ \A u \in TaskIds : Follows(tasks[u].stage, tasks'[u].stage)
    BY <1>0, <1>2 DEF Ask, AskApproval, At, Follows, TaskIds, Task
  <2> QED
    BY <2>1, <2>2, TellTypes, TasksMoveOn
<1>3. CASE Return(t)
  BY <1>3, ReturnAgrees
<1>4. CASE Join(t) \/ SendChunk(t)
  BY <1>4, DeliveryAgrees
<1>5. CASE Load(t)
  <2>1. /\ TaskIds' = TaskIds /\ tasks'[t].stage = "loaded"
        /\ \A u \in TaskIds \ {t} : tasks'[u] = tasks[u]
        /\ status' = status /\ reply' = reply
        /\ r.step = "told" \/ (r.step = "sending" /\ r.sent = Len(ChunksOf[r.text]))
    BY <1>0, <1>5 DEF Load, LoadTranscript, TaskIds, Task, own
  <2> HIDE DEF s, r
  <2>2. Tells("loaded", s, r) /\ Delivers("loaded", r)
    BY <1>0, <2>1 DEF Tells, Delivers
  <2> QED
    BY <1>0, <2>1, <2>2, OneTaskMoves
<1>6. CASE /\ \/ WakeResolved(t) \/ WakeCancelled(t) \/ TruncateTranscript(t)
           /\ UNCHANGED own
  <2>1. /\ TaskIds' = TaskIds
        /\ \A u \in TaskIds : Follows(tasks[u].stage, tasks'[u].stage)
    BY <1>0, <1>6 DEF WakeResolved, WakeCancelled, TruncateTranscript, Move, At,
                      Follows, TaskIds, Task
  <2> QED
    BY <1>6, <2>1, MainMovesOn DEF own
<1>7. CASE Write(t)
  <2>1. /\ TaskIds' = TaskIds
        /\ \A u \in TaskIds : Follows(tasks[u].stage, tasks'[u].stage)
    BY <1>0, <1>7 DEF Write, WriteTranscript, At, Follows, TaskIds, Task
  <2> QED
    BY <1>7, <2>1, MainMovesOn DEF Write, own
<1>8. CASE Finish(t)
  <2>1. /\ TaskIds' = TaskIds /\ tasks'[t].stage = "done"
        /\ \A u \in TaskIds \ {t} : tasks'[u] = tasks[u]
    BY <1>0, <1>8 DEF Finish, ReportCompletion, Move, TaskIds, Task
  <2>2. Status(FALSE) \in Statuses /\ NoReply \in Replies
    BY DEF Status, Statuses, Kinds, NoReply, Replies
  <2>3. Tells("done", Status(FALSE), NoReply) /\ Delivers("done", NoReply)
    BY DEF Status, NoReply, Tells, Delivers
  <2> QED
    BY <1>8, <2>1, <2>2, <2>3, OneTaskMoves DEF Finish
<1> QED
  BY <1>1, <1>2, <1>3, <1>4, <1>5, <1>6, <1>7, <1>8
     DEF WorkerMoves, WorkerProceeds

\* A restart forgets all of it.
LEMMA RebootAgrees == ASSUME RInv, TypeOK', Reboot PROVE RInv'
<1>1. /\ TaskIds = 1 .. Len(tasks) /\ TaskIds' = TaskIds /\ Len(tasks) \in Nat
      /\ Len(tasks') = Len(tasks)
  <2>1. /\ TaskIds = 1 .. Len(tasks) /\ TaskIds' = 1 .. Len(tasks')
        /\ Len(tasks) \in Nat /\ Len(tasks') \in Nat
    BY LenProperties DEF RInv, TypeOK, TaskIds
  <2>2. TaskIds' = TaskIds
    BY DEF Reboot, Restart, TaskIds
  <2> QED
    BY <2>1, <2>2
<1>2. Status(FALSE) \in Statuses /\ NoReply \in Replies
  BY DEF Status, Statuses, Kinds, NoReply, Replies
<1>3. /\ status' \in [1 .. Len(tasks) -> Statuses]
      /\ reply' \in [1 .. Len(tasks) -> Replies]
  BY <1>1, <1>2 DEF Reboot
<1>4. ReplyTypes'
  BY <1>1, <1>3, SeqDef, LenProperties DEF ReplyTypes
<1>5. ASSUME NEW t \in TaskIds PROVE Agrees(t)'
  <2>1. /\ status'[t] = Status(FALSE) /\ reply'[t] = NoReply
        /\ tasks'[t].stage \in {"done", "dead"}
    <3>1. tasks[t] \in Task
      BY ATask DEF RInv, TypeOK
    <3>2. tasks'[t] = IF Live(t)
                      THEN [tasks[t] EXCEPT !.stage = "dead", !.pending = 0,
                                            !.loaded = << >>]
                      ELSE tasks[t]
      BY DEF Reboot, Restart
    <3>3. tasks'[t].stage \in {"done", "dead"}
      BY <3>1, <3>2 DEF Live, Task
    <3> QED
      BY <3>3 DEF Reboot
  <2> QED
    BY <2>1 DEF Agrees, Tells, Delivers, Status, NoReply
<1> QED
  BY <1>1, <1>4, <1>5 DEF RInv

\* Nothing is told before there is a task.
LEMMA RepliesInit == ReplyInit => RInv
<1> SUFFICES ASSUME ReplyInit PROVE RInv
  OBVIOUS
<1>1. TypeOK /\ TaskIds = {} /\ tasks = << >>
  BY TypeInit DEF ReplyInit, Init, TaskIds
<1>2. ReplyTypes
  BY <1>1, EmptySeq DEF ReplyInit, ReplyTypes
<1> QED
  BY <1>1, <1>2 DEF RInv

\* Each step keeps status, reply and worker in agreement.
LEMMA RepliesNext == RInv /\ [ReplyNext]_replyVars => RInv'
<1> SUFFICES ASSUME RInv, [ReplyNext]_replyVars PROVE RInv'
  OBVIOUS
<1>0. TypeOK'
  BY Steps, TypeNext DEF RInv
<1>1. CASE /\ \/ \E c \in Chats, kind \in {"text", "stop", "reset"} : Say(c, kind)
              \/ \E b \in buttons : Tap(b)
              \/ \E c \in Chats, n \in 1 .. MaxAsks : Type(c, n)
           /\ UNCHANGED own
  <2>1. tasks' = tasks
    BY <1>1 DEF Say, Tap, Type, Send
  <2> QED
    BY <1>0, <1>1, <2>1, MainMovesOn, SameTasks DEF own
<1>2. CASE MainMoves \/ PollFails
  BY <1>0, <1>2, MainAgrees
<1>3. ASSUME NEW t \in TaskIds, WorkerMoves(t) PROVE RInv'
  BY <1>0, <1>3, WorkerAgrees
<1>4. ASSUME NEW t \in TaskIds, Receive(t) \/ Heartbeat(t) PROVE RInv'
  BY <1>0, <1>4, ThreadAgrees
<1>5. CASE Reboot
  BY <1>0, <1>5, RebootAgrees
<1>6. CASE UNCHANGED replyVars
  BY <1>0, <1>6, MainMovesOn, SameTasks DEF replyVars, vars, own
<1> QED
  BY <1>1, <1>2, <1>3, <1>4, <1>5, <1>6 DEF ReplyNext

\* The status, the reply and the worker of every task agree.
THEOREM RepliesAgree == ReplySpec => []RInv
BY RepliesInit, RepliesNext, PTL DEF ReplySpec

\* A message whose thread has been joined tells the outcome, whatever else was
\* queued before and after it, or the edit that was to tell it failed
\* (LiveProgress::new, wait, stop_chat).
THEOREM OutcomesAreTold == ReplySpec => []StatusTellsTheOutcome
<1>1. RInv => StatusTellsTheOutcome
  BY DEF RInv, Agrees, Tells, StatusTellsTheOutcome
<1> QED
  BY <1>1, RepliesAgree, PTL

-----------------------------------------------------------------------------
(* The transcript and what the chat has seen.                              *)

ReplyKept(t) == [task |-> t, by |-> "assistant"]

\* A reply is at the end of the transcript of its worker's chat only when all
\* of it was delivered.
SavedAreDelivered ==
    \A t \in TaskIds :
        At(t, "saved") /\ Last(transcript[Chat(t)]) = ReplyKept(t)
            => FullyDelivered(t)

DInv == SInv /\ RInv /\ SavedAreDelivered

\* A piece of a list that reaches to its j-th element ends with that.
LEMMA LastOfSubSeq ==
    ASSUME NEW S, NEW s, NEW i \in Int, NEW j \in Int, i <= j,
           \A k \in i .. j : s[k] \in S
    PROVE  Len(SubSeq(s, i, j)) = j - i + 1 /\ Last(SubSeq(s, i, j)) = s[j]
<1>1. j - i + 1 \in 1 .. j - i + 1 /\ i + (j - i + 1) - 1 = j
  OBVIOUS
<1>2. /\ Len(SubSeq(s, i, j)) = j - i + 1
      /\ SubSeq(s, i, j)[j - i + 1] = s[i + (j - i + 1) - 1]
  BY <1>1, SubSeqProperties
<1> QED
  BY <1>1, <1>2 DEF Last

\* The last message that is kept is the last that was written.
LEMMA LastWritten ==
    ASSUME NEW ms \in Seq(Messages), NEW t \in Nat, NEW d \in BOOLEAN
    PROVE  Last(Recent(ms \o Exchange(t, d))) = IF d THEN ReplyKept(t)
                                               ELSE [task |-> t, by |-> "user"]
<1> DEFINE user == [task |-> t, by |-> "user"]
           x == Exchange(t, d)
           all == ms \o x
           n == Len(all)
           rest == SubSeq(all, n - MaxTranscript + 1, n)
<1>0. user \in Messages /\ ReplyKept(t) \in Messages
  BY DEF Messages, ReplyKept
<1>1. x = IF d THEN <<user, ReplyKept(t)>> ELSE <<user>>
  BY DEF Exchange, ReplyKept
<1>2. /\ x \in Seq(Messages) /\ Len(x) \in Nat \ {0}
      /\ x[Len(x)] = IF d THEN ReplyKept(t) ELSE user
  BY <1>0, <1>1
<1> HIDE DEF x
<1>3. all \in Seq(Messages) /\ n = Len(ms) + Len(x) /\ n \in Nat \ {0}
      /\ Len(ms) \in Nat
      /\ \A i \in 1 .. n : all[i] = IF i <= Len(ms) THEN ms[i] ELSE x[i - Len(ms)]
  BY <1>2, ConcatProperties, LenProperties
<1>4. all[n] = x[Len(x)]
  <2>1. n \in 1 .. n /\ ~(n <= Len(ms)) /\ n - Len(ms) = Len(x)
    BY <1>2, <1>3
  <2> QED
    BY <1>3, <2>1
<1> HIDE DEF all
<1>5. MaxTranscript \in Nat \ {0}
  BY SessionAssumption
<1>6. CASE n > MaxTranscript
  <2>1. /\ Len(rest) = MaxTranscript
        /\ Last(rest) = all[n]
    <3>0. \A i \in 1 .. n : all[i] \in Messages
      BY <1>3, ElementOfSeq
    <3>1. \A i \in n - MaxTranscript + 1 .. n : all[i] \in Messages
      <4>1. ASSUME NEW i \in n - MaxTranscript + 1 .. n PROVE i \in 1 .. n
        BY <1>3, <1>5, <1>6
      <4> QED
        BY <3>0, <4>1
    <3>2. MaxTranscript \in 1 .. n - (n - MaxTranscript + 1) + 1
          /\ n - MaxTranscript + 1 + MaxTranscript - 1 = n
          /\ n - (n - MaxTranscript + 1) + 1 = MaxTranscript
          /\ n - MaxTranscript + 1 <= n
          /\ n - MaxTranscript + 1 \in Int /\ n \in Int
      BY <1>3, <1>5
    <3> QED
      <4>1. ASSUME NEW i \in Int, NEW j \in Int, i <= j,
                   \A k \in i .. j : all[k] \in Messages
            PROVE  /\ Len(SubSeq(all, i, j)) = j - i + 1
                   /\ Last(SubSeq(all, i, j)) = all[j]
        BY <4>1, LastOfSubSeq
      <4> HIDE DEF n
      <4> QED
        BY <3>1, <3>2, <4>1
  <2>2. Recent(all) = rest
    BY <1>6 DEF Recent
  <2> QED
    BY <1>2, <1>4, <2>1, <2>2 DEF Last, all, x
<1>7. CASE ~(n > MaxTranscript)
  <2>1. Recent(all) = all
    BY <1>7 DEF Recent
  <2> QED
    BY <1>2, <1>4, <2>1 DEF Last, all, x
<1> QED
  BY <1>6, <1>7

\* Nothing is saved and replied to before it is written: the steps that write
\* no transcript and save nothing.
LEMMA SavedUntouched ==
    ASSUME DInv, SInv', RInv', TaskIds \subseteq TaskIds',
           \A t \in TaskIds :
               /\ tasks'[t].chat = tasks[t].chat
               /\ At(t, "saved")' => /\ At(t, "saved") /\ reply'[t] = reply[t]
                                     /\ transcript'[Chat(t)] = transcript[Chat(t)],
           \A t \in TaskIds' \ TaskIds : ~At(t, "saved")'
    PROVE  DInv'
<1>1. ASSUME NEW t \in TaskIds', At(t, "saved")',
             Last(transcript'[Chat(t)']) = ReplyKept(t)
      PROVE  FullyDelivered(t)'
  <2>1. t \in TaskIds /\ At(t, "saved") /\ Chat(t)' = Chat(t)
    BY <1>1 DEF Chat
  <2>2. reply'[t] = reply[t] /\ transcript'[Chat(t)] = transcript[Chat(t)]
    BY <1>1, <2>1
  <2> QED
    BY <1>1, <2>1, <2>2 DEF DInv, SavedAreDelivered, FullyDelivered
<1> QED
  BY <1>1 DEF DInv, SavedAreDelivered, ReplyKept

\* A saved task is live, so it is its chat's session once the main thread is
\* in its loop, and no other worker of the chat is going.
LEMMA SavedIsAlone ==
    ASSUME DInv, NEW t \in TaskIds, At(t, "saved")
    PROVE  /\ main = Loop => sessions[Chat(t)] = t
           /\ \A u \in TaskIds : u # t /\ Live(u) => Chat(u) # Chat(t)
           /\ t # NoTask
<1>1. Live(t)
  BY DEF At, Live
<1>2. t # NoTask
  BY LenProperties DEF DInv, SInv, TypeOK, TaskIds, NoTask
<1>3. main = Loop => sessions[Chat(t)] = t
  <2>1. ~(Loop.at = "spawned")
    BY DEF Loop
  <2> QED
    BY <1>1, <2>1 DEF DInv, SInv, WorkersAreReachable, BeingInserted
<1> QED
  BY <1>1, <1>2, <1>3, OneWorkerPerChat DEF DInv

\* Steps that keep the tasks, the replies and the transcripts keep it.
LEMMA NothingSaved ==
    ASSUME DInv, SInv', RInv', TaskIds' = TaskIds, UNCHANGED <<reply, transcript>>,
           \A t \in TaskIds : /\ tasks'[t].chat = tasks[t].chat
                              /\ tasks'[t].stage = tasks[t].stage
    PROVE  DInv'
<1>1. \A t \in TaskIds : At(t, "saved")' => At(t, "saved")
  BY DEF At
<1> QED
  BY <1>1, SavedUntouched

\* A worker that leaves the transcripts alone, and is not saved after it.
LEMMA OneUnsaved ==
    ASSUME DInv, SInv', RInv', TaskIds' = TaskIds, NEW t \in TaskIds,
           \A u \in TaskIds \ {t} : tasks'[u] = tasks[u] /\ reply'[u] = reply[u],
           tasks'[t].chat = tasks[t].chat, tasks'[t].stage # "saved",
           transcript' = transcript
    PROVE  DInv'
<1>1. \A u \in TaskIds : At(u, "saved")' => At(u, "saved") /\ u # t
  BY DEF At
<1>2. \A u \in TaskIds : tasks'[u].chat = tasks[u].chat
  OBVIOUS
<1> QED
  BY <1>1, <1>2, SavedUntouched

\* The main thread: a new task is not saved, and a reset finds no saved task
\* in its chat, for that is its chat's session still.
LEMMA MainSaves ==
    ASSUME DInv, SInv', RInv', MainMoves \/ PollFails PROVE DInv'
<1>0. /\ tasks \in Seq(Task) /\ TaskIds = 1 .. Len(tasks) /\ Len(tasks) \in Nat
      /\ reply \in Seq(Replies) /\ Len(reply) = Len(tasks)
      /\ \A t \in TaskIds : tasks[t] \in Task
  BY LenProperties DEF DInv, RInv, ReplyTypes, TypeOK, TaskIds
<1>1. CASE TellStopping \/ Poll \/ PollFails
  <2>1. tasks' = tasks /\ UNCHANGED <<reply, transcript>>
    BY <1>1 DEF TellStopping, Poll, PollFails, GetUpdates, PollingFails, vars
  <2> QED
    BY <2>1, NothingSaved DEF TaskIds
<1>2. CASE Start
  <2>1. CASE Len(tasks') = Len(tasks)
    <3>1. tasks' = tasks
      <4>1. \A e : Len(Append(tasks, e)) = Len(tasks) + 1
        BY <1>0
      <4> QED
        BY <1>0, <1>2, <2>1, <4>1 DEF Start, StartMessage
    <3> QED
      BY <1>2, <2>1, <3>1, NothingSaved DEF Start, StartMessage, TaskIds
  <2>2. CASE Len(tasks') # Len(tasks)
    <3>1. reply' = Append(reply, NoReply) /\ transcript' = transcript
      BY <1>2, <2>2 DEF Start, StartMessage
    <3>2. tasks' = Append(tasks, NewTask(Update.chat))
      BY <1>2, <2>2 DEF Start, StartMessage
    <3>3. NewTask(Update.chat).stage = "running"
      BY DEF NewTask
    <3> HIDE DEF NewTask
    <3>4. /\ TaskIds' = 1 .. Len(tasks) + 1
          /\ \A t \in TaskIds : tasks'[t] = tasks[t] /\ reply'[t] = reply[t]
          /\ tasks'[Len(tasks) + 1] = NewTask(Update.chat)
      BY <1>0, <3>1, <3>2 DEF TaskIds
    <3>5. TaskIds \subseteq TaskIds'
      BY <1>0, <3>4
    <3>6. \A t \in TaskIds' \ TaskIds : ~At(t, "saved")'
      BY <1>0, <3>3, <3>4 DEF At
    <3>7. \A t \in TaskIds : At(t, "saved")' => At(t, "saved")
      BY <3>4 DEF At
    <3> QED
      BY <3>1, <3>4, <3>5, <3>6, <3>7, SavedUntouched
  <2> QED
    BY <2>1, <2>2
<1>3. CASE \/ Cancel
           \/ /\ CollectFinishedTasks \/ InsertSession \/ StopExpires \/ AnswerApproval
              /\ UNCHANGED own
  <2>1. \/ tasks' = tasks
        \/ \E t : tasks' = [tasks EXCEPT ![t].pending = 0]
        \/ \E t : tasks' = [tasks EXCEPT ![t].cancelled = TRUE]
    BY <1>3 DEF CollectFinishedTasks, InsertSession, StopExpires, AnswerApproval,
                Cancel, StopCancels
  <2>2. /\ TaskIds' = TaskIds
        /\ \A t \in TaskIds : /\ tasks'[t].chat = tasks[t].chat
                              /\ tasks'[t].stage = tasks[t].stage
    <3>1. CASE tasks' = tasks
      BY <3>1 DEF TaskIds
    <3>2. CASE \E t : tasks' = [tasks EXCEPT ![t].pending = 0]
      BY <1>0, <3>2 DEF TaskIds, Task
    <3>3. CASE \E t : tasks' = [tasks EXCEPT ![t].cancelled = TRUE]
      BY <1>0, <3>3 DEF TaskIds, Task
    <3> QED
      BY <2>1, <3>1, <3>2, <3>3
  <2>3. UNCHANGED <<reply, transcript>>
    BY <1>3 DEF CollectFinishedTasks, InsertSession, StopExpires, AnswerApproval,
                Cancel, StopCancels, own
  <2> QED
    BY <2>2, <2>3, NothingSaved
<1>4. CASE ResetChat /\ UNCHANGED own
  <2>1. /\ tasks' = tasks /\ reply' = reply /\ main = Loop
        /\ \A c \in Chats : sessions[c] # NoTask => transcript'[c] = transcript[c]
    <3>1. DOMAIN transcript = Chats
      BY DEF DInv, RInv, TypeOK
    <3> QED
      BY <1>4, <3>1 DEF ResetChat, MayReset, Handling, own
  <2>2. \A t \in TaskIds : At(t, "saved") => transcript'[Chat(t)] = transcript[Chat(t)]
    BY <1>0, <2>1, SavedIsAlone, ATask
  <2>3. TaskIds' = TaskIds /\ \A t \in TaskIds : At(t, "saved")' = At(t, "saved")
    BY <2>1 DEF TaskIds, At
  <2> QED
    BY <2>1, <2>2, <2>3, SavedUntouched
<1> QED
  BY <1>1, <1>2, <1>3, <1>4 DEF MainMoves

\* The worker writes what it knows to have been delivered, and no other
\* worker of its chat is there to have saved anything.
LEMMA WriteSaves ==
    ASSUME DInv, SInv', RInv', NEW t \in TaskIds, Write(t) PROVE DInv'
<1> DEFINE c == Chat(t)
<1>1. /\ tasks \in Seq(Task) /\ tasks[t] \in Task /\ c \in Chats /\ t \in Nat
      /\ DOMAIN transcript = Chats /\ DOMAIN said = Chats
      /\ said[c] \in Seq(Messages) /\ tasks[t].loaded \in Seq(Messages)
      /\ FullyDelivered(t) \in BOOLEAN
  <2>1. /\ tasks \in Seq(Task) /\ DOMAIN transcript = Chats
        /\ said \in [Chats -> Seq(Messages)]
    BY DEF DInv, RInv, TypeOK
  <2>2. tasks[t] \in Task /\ c \in Chats /\ t \in Nat
    BY <2>1, ATask
  <2> QED
    BY <2>1, <2>2 DEF Task, FullyDelivered
<1>2. PICK d \in BOOLEAN :
         /\ transcript' = [transcript EXCEPT ![c] = Recent(tasks[t].loaded \o Exchange(t, d))]
         /\ said' = [said EXCEPT ![c] = said[c] \o Exchange(t, d)]
  BY <1>1 DEF Write, WriteTranscript
<1>3. said' = [said EXCEPT ![c] = said[c] \o Exchange(t, FullyDelivered(t))]
  BY <1>1 DEF Write
<1>4. /\ Live(t) /\ TaskIds' = TaskIds /\ reply' = reply
      /\ \A u \in TaskIds : Chat(u)' = Chat(u)
      /\ \A u \in TaskIds \ {t} : At(u, "saved")' => At(u, "saved")
  BY <1>1 DEF Write, WriteTranscript, Live, At, Chat, TaskIds, own
<1>5. d => FullyDelivered(t)
  <2> SUFFICES ASSUME d, ~FullyDelivered(t) PROVE FALSE
    OBVIOUS
  <2> DEFINE user == [task |-> t, by |-> "user"]
  <2>1. Exchange(t, d) = <<user, ReplyKept(t)>> /\ Exchange(t, FullyDelivered(t)) = <<user>>
    BY DEF Exchange, ReplyKept
  <2>2. said[c] \o <<user, ReplyKept(t)>> = said[c] \o <<user>>
    BY <1>1, <1>2, <1>3, <2>1
  <2>3. user \in Messages /\ ReplyKept(t) \in Messages
    BY <1>1 DEF Messages, ReplyKept
  <2>4. /\ Len(said[c] \o <<user, ReplyKept(t)>>) = Len(said[c]) + 2
        /\ Len(said[c] \o <<user>>) = Len(said[c]) + 1
        /\ Len(said[c]) \in Nat
    BY <1>1, <2>3
  <2> QED
    BY <2>2, <2>4
<1>6. ASSUME NEW u \in TaskIds', At(u, "saved")',
             Last(transcript'[Chat(u)']) = ReplyKept(u)
      PROVE  FullyDelivered(u)'
  <2>1. CASE u = t
    <3>1. transcript'[c] = Recent(tasks[t].loaded \o Exchange(t, d))
      BY <1>1, <1>2
    <3>2. Last(transcript'[c]) = IF d THEN ReplyKept(t) ELSE [task |-> t, by |-> "user"]
      BY <1>1, <3>1, LastWritten
    <3>3. Last(transcript'[c]) = ReplyKept(t)
      BY <1>4, <1>6, <2>1
    <3>4. d
      BY <3>2, <3>3 DEF ReplyKept
    <3> QED
      BY <1>4, <1>5, <2>1, <3>4 DEF FullyDelivered
  <2>2. CASE u # t
    <3>1. u \in TaskIds /\ At(u, "saved") /\ Chat(u)' = Chat(u)
      BY <1>4, <1>6, <2>2
    <3>2. Chat(u) # c /\ Chat(u) \in Chats
      BY <1>1, <1>4, <2>2, <3>1, SavedIsAlone, ATask
    <3>3. transcript'[Chat(u)] = transcript[Chat(u)]
      BY <1>1, <1>2, <3>2
    <3> QED
      BY <1>4, <1>6, <3>1, <3>3 DEF DInv, SavedAreDelivered, FullyDelivered
  <2> QED
    BY <2>1, <2>2
<1> QED
  BY <1>6 DEF DInv, SavedAreDelivered, ReplyKept

\* Every other step of a worker.
LEMMA WorkerSaves ==
    ASSUME DInv, SInv', RInv', NEW t \in TaskIds, WorkerMoves(t) PROVE DInv'
<1>0. /\ tasks \in Seq(Task) /\ tasks[t] \in Task /\ Chat(t) \in Chats
      /\ DOMAIN transcript = Chats /\ DOMAIN reply = TaskIds
  BY ATask, TheTask DEF DInv, RInv, TypeOK
<1>1. CASE Reports(t)
  BY <1>1, NothingSaved DEF Reports, vars, TaskIds
<1>2. CASE \/ Ask(t) \/ Return(t) \/ Load(t) \/ Finish(t)
           \/ /\ WakeResolved(t) \/ WakeCancelled(t)
              /\ UNCHANGED own
  <2>1. /\ \A u \in TaskIds \ {t} : reply'[u] = reply[u]
        /\ transcript' = transcript
    BY <1>0, <1>2 DEF Ask, Return, Load, Finish, AskApproval, EndRun, LoadTranscript,
                      ReportCompletion, WakeResolved, WakeCancelled, own
  <2>2. /\ TaskIds' = TaskIds
        /\ \A u \in TaskIds \ {t} : tasks'[u] = tasks[u]
        /\ tasks'[t].chat = tasks[t].chat
        /\ tasks'[t].stage # "saved"
    <3>1. CASE Ask(t)
      BY <1>0, <3>1 DEF Ask, AskApproval, Task, TaskIds
    <3>2. CASE Return(t) \/ Finish(t)
      <4>1. PICK st \in {"ended", "done"} : tasks' = [tasks EXCEPT ![t].stage = st]
        BY <3>2 DEF Return, EndRun, Finish, ReportCompletion, Move
      <4> QED
        BY <1>0, <4>1 DEF Task, TaskIds
    <3>3. CASE Load(t)
      BY <1>0, <3>3 DEF Load, LoadTranscript, Task, TaskIds
    <3>4. CASE WakeResolved(t) \/ WakeCancelled(t)
      BY <1>0, <3>4 DEF WakeResolved, WakeCancelled, Move, Task, TaskIds
    <3> QED
      BY <1>2, <3>1, <3>2, <3>3, <3>4
  <2> QED
    BY <2>1, <2>2, OneUnsaved
<1>3. CASE Join(t) \/ SendChunk(t)
  <2>1. /\ tasks' = tasks /\ transcript' = transcript /\ ~At(t, "saved")
        /\ \A u \in TaskIds \ {t} : reply'[u] = reply[u]
    BY <1>0, <1>3 DEF Join, SendChunk, vars, At
  <2> QED
    BY <2>1, OneUnsaved DEF TaskIds, At
<1>4. CASE Write(t)
  BY <1>4, WriteSaves
<1>5. CASE TruncateTranscript(t) /\ UNCHANGED own
  <2>1. /\ TaskIds' = TaskIds /\ reply' = reply
        /\ \A u \in TaskIds : /\ tasks'[u].chat = tasks[u].chat
                              /\ At(u, "saved")' => At(u, "saved") /\ u # t
        /\ \A x \in Chats : x # Chat(t) => transcript'[x] = transcript[x]
        /\ Live(t) /\ ~At(t, "saved")
    BY <1>0, <1>5 DEF TruncateTranscript, Move, At, Live, own, Task, TaskIds
  <2>2. \A u \in TaskIds : At(u, "saved") => transcript'[Chat(u)] = transcript[Chat(u)]
    <3>1. ASSUME NEW u \in TaskIds, At(u, "saved")
          PROVE  Chat(u) \in Chats /\ Chat(u) # Chat(t)
      BY <1>0, <2>1, <3>1, SavedIsAlone, ATask
    <3> QED
      BY <2>1, <3>1
  <2> QED
    BY <2>1, <2>2, SavedUntouched
<1> QED
  BY <1>1, <1>2, <1>3, <1>4, <1>5 DEF WorkerMoves, WorkerProceeds

\* Nothing is saved before there is a task.
LEMMA SavedInit == ReplyInit => DInv
<1> SUFFICES ASSUME ReplyInit PROVE DInv
  OBVIOUS
<1>1. SInv /\ RInv /\ TaskIds = {}
  BY SessionsInit, RepliesInit DEF ReplyInit, Init, TaskIds
<1> QED
  BY <1>1 DEF DInv, SavedAreDelivered

\* Each step keeps what is saved to what was delivered.
LEMMA SavedNext == DInv /\ [ReplyNext]_replyVars => DInv'
<1> SUFFICES ASSUME DInv, [ReplyNext]_replyVars PROVE DInv'
  OBVIOUS
<1>0. SInv' /\ RInv'
  BY Steps, SessionsNext, RepliesNext DEF DInv
<1>1. CASE /\ \/ \E c \in Chats, kind \in {"text", "stop", "reset"} : Say(c, kind)
              \/ \E b \in buttons : Tap(b)
              \/ \E c \in Chats, n \in 1 .. MaxAsks : Type(c, n)
           /\ UNCHANGED own
  <2>1. tasks' = tasks /\ UNCHANGED <<reply, transcript>>
    BY <1>1 DEF Say, Tap, Type, Send, own
  <2> QED
    BY <1>0, <2>1, NothingSaved DEF TaskIds
<1>2. CASE MainMoves \/ PollFails
  BY <1>0, <1>2, MainSaves
<1>3. ASSUME NEW t \in TaskIds, WorkerMoves(t) PROVE DInv'
  BY <1>0, <1>3, WorkerSaves
<1>4. ASSUME NEW t \in TaskIds, Receive(t) \/ Heartbeat(t) PROVE DInv'
  BY <1>0, <1>4, NothingSaved DEF Receive, Heartbeat, vars, TaskIds
<1>5. CASE Reboot
  <2>1. /\ TaskIds' = TaskIds
        /\ \A t \in TaskIds : ~At(t, "saved")'
    <3>1. \A t \in TaskIds : tasks[t] \in Task
      BY ATask DEF DInv, RInv, TypeOK
    <3> QED
      BY <1>5, <3>1 DEF Reboot, Restart, Live, TaskIds, At, Task
  <2> QED
    BY <1>0, <2>1 DEF DInv, SavedAreDelivered
<1>6. CASE UNCHANGED replyVars
  <2>1. tasks' = tasks /\ UNCHANGED <<reply, transcript>>
    BY <1>6 DEF replyVars, vars, own
  <2> QED
    BY <1>0, <2>1, NothingSaved DEF TaskIds
<1> QED
  BY <1>1, <1>2, <1>3, <1>4, <1>5, <1>6 DEF ReplyNext

\* The transcript takes up the agent's part of an exchange only after every
\* chunk of it was sent and the chat has seen them all
\* (handle_telegram_run_outcome, send_chunks).
THEOREM SavedRepliesWereSeen == ReplySpec => []TranscriptIsWhatWasSeen
<1>1. DInv => TranscriptIsWhatWasSeen
  <2> SUFFICES ASSUME DInv, NEW t \in TaskIds, At(t, "saved"),
                      Last(transcript[Chat(t)]) = ReplyKept(t)
               PROVE  reply[t].seen /\ reply[t].sent = Len(ChunksOf[reply[t].text])
    BY DEF TranscriptIsWhatWasSeen, ReplyKept
  <2>1. reply[t].sent > 0 /\ ~reply[t].lost
    BY DEF DInv, SavedAreDelivered, FullyDelivered
  <2>2. Delivers("saved", reply[t])
    BY TheTask DEF DInv, At
  <2> QED
    BY <2>1, <2>2 DEF Delivers
<1> QED
  BY <1>1, SavedInit, SavedNext, PTL DEF ReplySpec

-----------------------------------------------------------------------------
(* Lists step by step.  Induction takes the set of what is shown so far    *)
(* instead of an operator, and a fold is the last value of a run.          *)

\* What holds of 0 and, with a number, of the next one, holds of every number.
LEMMA NumberByNumber ==
    ASSUME NEW P, 0 \in P, \A n \in Nat : n \in P => n + 1 \in P
    PROVE  Nat \subseteq P
<1> DEFINE R == OpToRel(<, Nat)
           Rest == Nat \ P
<1>1. IsWellFoundedOn(R, Nat)
  BY NatLessThanWellFounded
<1>2. \A x, y \in Nat : x < y => <<x, y>> \in R
  BY DEF OpToRel
<1> HIDE DEF R
<1> SUFFICES ASSUME Rest # {} PROVE FALSE
  OBVIOUS
<1>3. PICK n \in Rest : \A m \in Rest : ~ (<<m, n>> \in R)
  BY <1>1, WFMin, Zenon
<1>4. n \in Nat /\ n # 0
  OBVIOUS
<1>5. n - 1 \in Nat /\ n - 1 < n /\ (n - 1) + 1 = n
  BY <1>4
<1>6. n - 1 \in Rest
  BY <1>3, <1>5
<1> QED
  BY <1>2, <1>3, <1>4, <1>5, <1>6, Zenon

\* What holds of the empty list and, with a list, of the list and one more
\* element, holds of every list.
LEMMA ListByList ==
    ASSUME NEW T, NEW P, << >> \in P,
           \A s \in Seq(T) : s \in P => \A e \in T : Append(s, e) \in P
    PROVE  Seq(T) \subseteq P
<1> DEFINE N == {n \in Nat : \A s \in Seq(T) : Len(s) = n => s \in P}
<1>1. 0 \in N
  <2>1. \A s \in Seq(T) : Len(s) = 0 => s = << >>
    BY EmptySeq, LenProperties
  <2> QED
    BY <2>1
<1>2. ASSUME NEW n \in Nat, n \in N PROVE n + 1 \in N
  <2> SUFFICES ASSUME NEW s \in Seq(T), Len(s) = n + 1 PROVE s \in P
    OBVIOUS
  <2>1. s # << >>
    BY <1>2, EmptySeq
  <2>2. PICK front \in Seq(T), e \in T : s = Append(front, e)
    BY <2>1, SequenceEmptyOrAppend
  <2>3. Len(front) \in Nat /\ Len(s) = Len(front) + 1
    BY <2>2, AppendProperties, LenProperties
  <2>4. front \in P
    BY <1>2, <2>3
  <2> QED
    BY <2>2, <2>4
<1> HIDE DEF N
<1>3. Nat \subseteq N
  BY <1>1, <1>2, NumberByNumber
<1> QED
  BY <1>3, LenProperties DEF N

\* f goes along s from base, with op between one value of V and the next.
Goes(f, s, base, op, V) ==
    /\ f[0] = base
    /\ \A i \in 1 .. Len(s) : f[i - 1] \in V => f[i] = op[<<f[i - 1], s[i]>>]

\* One can go along any list.
LEMMA OneGoes ==
    ASSUME NEW V, NEW T, NEW base \in V, NEW op \in [V \X T -> V],
           NEW s \in Seq(T)
    PROVE  \E f \in [0 .. Len(s) -> V] : Goes(f, s, base, op, V)
<1> DEFINE P == {r \in Seq(T) : \E f \in [0 .. Len(r) -> V] : Goes(f, r, base, op, V)}
<1>1. << >> \in P
  <2>1. << >> \in Seq(T) /\ Len(<< >>) = 0
    BY EmptySeq
  <2> DEFINE f == [i \in 0 .. 0 |-> base]
  <2>2. f \in [0 .. 0 -> V] /\ f[0] = base
    OBVIOUS
  <2> HIDE DEF f
  <2> QED
    BY <2>1, <2>2 DEF Goes
<1>2. ASSUME NEW r \in Seq(T), r \in P, NEW e \in T PROVE Append(r, e) \in P
  <2> DEFINE n == Len(r)
             q == Append(r, e)
  <2>1. PICK f \in [0 .. n -> V] : Goes(f, r, base, op, V)
    BY <1>2
  <2>2. /\ n \in Nat /\ q \in Seq(T) /\ Len(q) = n + 1
        /\ \A i \in 1 .. n : q[i] = r[i] /\ r[i] \in T
        /\ q[n + 1] = e
    BY AppendProperties, LenProperties
  <2> DEFINE g == [i \in 0 .. n + 1 |-> IF i = n + 1 THEN op[<<f[n], e>>] ELSE f[i]]
  <2> HIDE DEF n, q
  <2>3. /\ g \in [0 .. n + 1 -> V]
        /\ \A i \in 0 .. n : g[i] = f[i]
        /\ g[n + 1] = op[<<f[n], e>>]
    <3>1. f[n] \in V /\ op[<<f[n], e>>] \in V
      BY <2>1, <2>2
    <3> QED
      BY <2>1, <2>2, <3>1
  <2> HIDE DEF g
  <2>4. Goes(g, q, base, op, V)
    <3>1. g[0] = base
      BY <2>1, <2>2, <2>3 DEF Goes
    <3>2. ASSUME NEW i \in 1 .. n + 1
          PROVE  g[i] = op[<<g[i - 1], q[i]>>]
      <4>1. CASE i \in 1 .. n
        <5>1. i - 1 \in 0 .. n /\ i \in 0 .. n /\ f[i - 1] \in V
          BY <2>1, <2>2, <4>1
        <5>2. f[i] = op[<<f[i - 1], r[i]>>]
          BY <2>1, <4>1, <5>1 DEF Goes, n
        <5> QED
          BY <2>2, <2>3, <4>1, <5>1, <5>2
      <4>2. CASE i = n + 1
        <5>1. i - 1 = n /\ n \in 0 .. n
          BY <2>2, <4>2
        <5>2. g[i - 1] = f[n] /\ q[i] = e
          BY <2>2, <2>3, <4>2, <5>1
        <5> QED
          BY <2>3, <4>2, <5>2
      <4> QED
        BY <2>2, <4>1, <4>2
    <3> QED
      BY <2>2, <3>1, <3>2 DEF Goes
  <2> QED
    BY <2>2, <2>3, <2>4 DEF q
<1> HIDE DEF P
<1>3. Seq(T) \subseteq P
  BY <1>1, <1>2, ListByList
<1> QED
  BY <1>3 DEF P

\* And in one way only, also along a longer list.
LEMMA GoesOneWay ==
    ASSUME NEW V, NEW T, NEW base \in V, NEW op \in [V \X T -> V],
           NEW s \in Seq(T), NEW q, Len(q) \in Nat, Len(s) <= Len(q),
           \A i \in 1 .. Len(s) : q[i] = s[i],
           NEW f, Goes(f, s, base, op, V), NEW g, Goes(g, q, base, op, V)
    PROVE  \A i \in 0 .. Len(s) : f[i] = g[i] /\ f[i] \in V
<1> DEFINE P == {i \in Nat : i <= Len(s) => f[i] = g[i] /\ f[i] \in V}
<1>0. Len(s) \in Nat /\ \A i \in 1 .. Len(s) : s[i] \in T
  BY LenProperties
<1>1. 0 \in P
  BY DEF Goes
<1>2. ASSUME NEW i \in Nat, i \in P PROVE i + 1 \in P
  <2> SUFFICES ASSUME i + 1 <= Len(s) PROVE f[i + 1] = g[i + 1] /\ f[i + 1] \in V
    OBVIOUS
  <2>1. i + 1 \in 1 .. Len(s) /\ i + 1 \in 1 .. Len(q) /\ (i + 1) - 1 = i
    BY <1>0
  <2>2. f[i] = g[i] /\ f[i] \in V
    BY <1>0, <1>2
  <2>3. f[i + 1] = op[<<f[i], s[i + 1]>>] /\ g[i + 1] = op[<<g[i], q[i + 1]>>]
    BY <2>1, <2>2 DEF Goes
  <2> QED
    BY <1>0, <2>1, <2>2, <2>3
<1> HIDE DEF P
<1>3. Nat \subseteq P
  BY <1>1, <1>2, NumberByNumber
<1> QED
  BY <1>0, <1>3 DEF P

\* x is the value at the end of every list over T, as one can go along it.
EndsAt(x, T, base, op, V) ==
    \A s \in Seq(T) : \A f \in [0 .. Len(s) -> V] :
        Goes(f, s, base, op, V)
            => \E g : Goes(g, s, base, op, V) /\ x[s] = g[Len(s)]

KeepsUp(x, T, base, op, V) ==
    /\ x[<< >>] = base
    /\ \A s \in Seq(T) : /\ x[s] \in V
                         /\ \A e \in T : x[Append(s, e)] = op[<<x[s], e>>]

\* What the last value of going along a list is, for all lists.
LEMMA GoingAlong ==
    ASSUME NEW V, NEW T, NEW base \in V, NEW op \in [V \X T -> V], NEW x,
           EndsAt(x, T, base, op, V)
    PROVE  KeepsUp(x, T, base, op, V)
<1>1. ASSUME NEW s \in Seq(T)
      PROVE  \E g : Goes(g, s, base, op, V) /\ x[s] = g[Len(s)]
  BY OneGoes DEF EndsAt
<1>2. x[<< >>] = base
  <2>1. << >> \in Seq(T) /\ Len(<< >>) = 0
    BY EmptySeq
  <2> QED
    BY <1>1, <2>1 DEF Goes
<1>3. ASSUME NEW s \in Seq(T)
      PROVE  /\ x[s] \in V
             /\ \A e \in T : x[Append(s, e)] = op[<<x[s], e>>]
  <2>1. PICK f : Goes(f, s, base, op, V) /\ x[s] = f[Len(s)]
    BY <1>1
  <2>2. Len(s) \in Nat
    BY LenProperties
  <2>3. \A i \in 0 .. Len(s) : f[i] \in V
    <3>1. Len(s) <= Len(s) /\ \A i \in 1 .. Len(s) : s[i] = s[i]
      BY <2>2
    <3>2. \A i \in 0 .. Len(s) : f[i] = f[i] /\ f[i] \in V
      BY <2>1, <2>2, <3>1, GoesOneWay, Zenon
    <3> QED
      BY <3>2
  <2>4. x[s] \in V
    BY <2>1, <2>2, <2>3
  <2>5. ASSUME NEW e \in T PROVE x[Append(s, e)] = op[<<x[s], e>>]
    <3> DEFINE q == Append(s, e)
    <3>1. /\ q \in Seq(T) /\ Len(q) = Len(s) + 1
          /\ \A i \in 1 .. Len(s) : q[i] = s[i]
          /\ q[Len(s) + 1] = e
      BY AppendProperties
    <3> HIDE DEF q
    <3>2. PICK g : Goes(g, q, base, op, V) /\ x[q] = g[Len(q)]
      BY <1>1, <3>1
    <3>3. f[Len(s)] = g[Len(s)] /\ g[Len(s)] \in V
      <4>1. Len(q) \in Nat /\ Len(s) <= Len(q) /\ Len(s) \in 0 .. Len(s)
        BY <2>2, <3>1
      <4>2. \A i \in 0 .. Len(s) : f[i] = g[i] /\ f[i] \in V
        BY <2>1, <3>1, <3>2, <4>1, GoesOneWay
      <4> QED
        BY <4>1, <4>2
    <3>4. g[Len(s) + 1] = op[<<g[Len(s)], q[Len(s) + 1]>>]
      <4>1. Len(s) + 1 \in 1 .. Len(q) /\ (Len(s) + 1) - 1 = Len(s)
        BY <2>2, <3>1
      <4> QED
        BY <3>2, <3>3, <4>1 DEF Goes
    <3> QED
      BY <2>1, <3>1, <3>2, <3>3, <3>4 DEF q
  <2> QED
    BY <2>4, <2>5
<1> QED
  BY <1>2, <1>3 DEF KeepsUp

\* Appending to two lists is appending to the second.
LEMMA AppendToTwo ==
    ASSUME NEW T, NEW s \in Seq(T), NEW t \in Seq(T), NEW e \in T
    PROVE  s \o Append(t, e) = Append(s \o t, e)
  OBVIOUS

\* The characters of a chunk, by their widths, and the newline.
Characters == 0 .. 4

\* The length of a chunk counts every character.
LEMMA BytesAre ==
    /\ Bytes(<< >>) = 0
    /\ \A s \in Seq(Characters) :
          /\ Bytes(s) \in Nat
          /\ \A e \in Characters : Bytes(Append(s, e)) = Bytes(s) + Width(e)
<1> DEFINE op == [p \in Nat \X Characters |-> p[1] + Width(p[2])]
           x == [s \in Seq(Characters) |-> Bytes(s)]
<1>1. /\ 0 \in Nat
      /\ op \in [Nat \X Characters -> Nat]
      /\ \A v \in Nat, e \in Characters : op[<<v, e>>] = v + Width(e)
  BY DEF Width, Newline, Characters
<1>2. ASSUME NEW s \in Seq(Characters), NEW f \in [0 .. Len(s) -> Nat],
             Goes(f, s, 0, op, Nat)
      PROVE  \E g : Goes(g, s, 0, op, Nat) /\ x[s] = g[Len(s)]
  <2>0. Len(s) \in Nat /\ \A i \in 1 .. Len(s) : s[i] \in Characters
    BY LenProperties
  <2> DEFINE P(h) == h = [i \in 0 .. Len(s) |-> IF i = 0 THEN 0
                                              ELSE h[i - 1] + Width(s[i])]
             g == CHOOSE h : P(h)
  <2>1. P(f)
    <3>1. \A i \in 1 .. Len(s) : f[i] = f[i - 1] + Width(s[i])
      <4>1. ASSUME NEW i \in 1 .. Len(s) PROVE f[i] = f[i - 1] + Width(s[i])
        <5>1. i - 1 \in 0 .. Len(s)
          BY <2>0
        <5>2. f[i - 1] \in Nat /\ s[i] \in Characters
          BY <2>0, <5>1
        <5>3. f[i] = op[<<f[i - 1], s[i]>>]
          BY <1>2, <5>2 DEF Goes
        <5> HIDE DEF op
        <5> QED
          BY <1>1, <5>2, <5>3
      <4> QED
        BY <4>1
    <3>2. f[0] = 0
      BY <1>2 DEF Goes
    <3>3. \A i \in 0 .. Len(s) : i = 0 \/ i \in 1 .. Len(s)
      BY <2>0
    <3>4. f = [i \in 0 .. Len(s) |-> f[i]]
      OBVIOUS
    <3>5. \A i \in 0 .. Len(s) : f[i] = IF i = 0 THEN 0 ELSE f[i - 1] + Width(s[i])
      BY <3>1, <3>2, <3>3
    <3> QED
      BY <3>4, <3>5
  <2>2. x[s] = g[Len(s)]
    BY DEF Bytes, Along
  <2> HIDE DEF g
  <2>3. P(g)
    <3> HIDE DEF P
    <3> QED
      BY <2>1, Zenon DEF g
  <2> HIDE DEF op, x
  <2>4. Goes(g, s, 0, op, Nat)
    <3>1. g[0] = 0
      BY <2>0, <2>3
    <3>2. ASSUME NEW i \in 1 .. Len(s), g[i - 1] \in Nat
          PROVE  g[i] = op[<<g[i - 1], s[i]>>]
      <4>1. i \in 0 .. Len(s) /\ i # 0
        BY <2>0
      <4>2. g[i] = g[i - 1] + Width(s[i])
        BY <2>3, <4>1
      <4> QED
        BY <1>1, <2>0, <3>2, <4>2
    <3> HIDE DEF P
    <3> QED
      BY <3>1, <3>2 DEF Goes
  <2> HIDE DEF P
  <2> QED
    BY <2>2, <2>4
<1> HIDE DEF op
<1>3. KeepsUp(x, Characters, 0, op, Nat)
  <2> HIDE DEF x
  <2>1. EndsAt(x, Characters, 0, op, Nat)
    BY <1>2 DEF EndsAt
  <2> QED
    BY <1>1, <2>1, GoingAlong
<1>4. << >> \in Seq(Characters)
      /\ \A s \in Seq(Characters), e \in Characters : Append(s, e) \in Seq(Characters)
  BY EmptySeq, AppendProperties
<1>5. \A s \in Seq(Characters) : x[s] = Bytes(s)
  OBVIOUS
<1> HIDE DEF x
<1>6. Bytes(<< >>) = 0
  BY <1>3, <1>4, <1>5 DEF KeepsUp
<1>7. ASSUME NEW s \in Seq(Characters)
      PROVE  /\ Bytes(s) \in Nat
             /\ \A e \in Characters : Bytes(Append(s, e)) = Bytes(s) + Width(e)
  <2>1. Bytes(s) \in Nat /\ x[s] = Bytes(s)
    BY <1>3, <1>5 DEF KeepsUp
  <2>2. ASSUME NEW e \in Characters PROVE Bytes(Append(s, e)) = Bytes(s) + Width(e)
    <3>1. x[Append(s, e)] = Bytes(Append(s, e))
      BY <1>4, <1>5
    <3>2. x[Append(s, e)] = op[<<x[s], e>>]
      BY <1>3 DEF KeepsUp
    <3> QED
      BY <1>1, <2>1, <3>1, <3>2
  <2> QED
    BY <2>1, <2>2
<1> QED
  BY <1>6, <1>7

\* What several lists hold one after the other.
LEMMA FlatAre ==
    ASSUME NEW S
    PROVE
    /\ Flat(<< >>) = << >>
    /\ \A s \in Seq(Seq(S)) :
          /\ Flat(s) \in Seq(S)
          /\ \A e \in Seq(S) : Flat(Append(s, e)) = Flat(s) \o e
<1> DEFINE op == [p \in Seq(S) \X Seq(S) |-> p[1] \o p[2]]
           x == [s \in Seq(Seq(S)) |-> Flat(s)]
<1>1. /\ << >> \in Seq(S)
      /\ op \in [Seq(S) \X Seq(S) -> Seq(S)]
      /\ \A v \in Seq(S), e \in Seq(S) : op[<<v, e>>] = v \o e
  BY EmptySeq, ConcatProperties
<1>2. ASSUME NEW s \in Seq(Seq(S)), NEW f \in [0 .. Len(s) -> Seq(S)],
             Goes(f, s, << >>, op, Seq(S))
      PROVE  \E g : Goes(g, s, << >>, op, Seq(S)) /\ x[s] = g[Len(s)]
  <2>0. Len(s) \in Nat /\ \A i \in 1 .. Len(s) : s[i] \in Seq(S)
    BY LenProperties
  <2> DEFINE P(h) == h = [i \in 0 .. Len(s) |-> IF i = 0 THEN << >>
                                              ELSE h[i - 1] \o s[i]]
             g == CHOOSE h : P(h)
  <2>1. P(f)
    <3>1. \A i \in 1 .. Len(s) : f[i] = f[i - 1] \o s[i]
      <4>1. ASSUME NEW i \in 1 .. Len(s) PROVE f[i] = f[i - 1] \o s[i]
        <5>1. i - 1 \in 0 .. Len(s)
          BY <2>0
        <5>2. f[i - 1] \in Seq(S) /\ s[i] \in Seq(S)
          BY <2>0, <5>1
        <5>3. f[i] = op[<<f[i - 1], s[i]>>]
          BY <1>2, <5>2 DEF Goes
        <5> HIDE DEF op
        <5> QED
          BY <1>1, <5>2, <5>3
      <4> QED
        BY <4>1
    <3>2. f[0] = << >>
      BY <1>2 DEF Goes
    <3>3. \A i \in 0 .. Len(s) : i = 0 \/ i \in 1 .. Len(s)
      BY <2>0
    <3>4. f = [i \in 0 .. Len(s) |-> f[i]]
      OBVIOUS
    <3>5. \A i \in 0 .. Len(s) : f[i] = IF i = 0 THEN << >> ELSE f[i - 1] \o s[i]
      BY <3>1, <3>2, <3>3
    <3> QED
      BY <3>4, <3>5
  <2>2. x[s] = g[Len(s)]
    BY DEF Flat, Along
  <2> HIDE DEF g
  <2>3. P(g)
    <3> HIDE DEF P
    <3> QED
      BY <2>1, Zenon DEF g
  <2> HIDE DEF op, x
  <2>4. Goes(g, s, << >>, op, Seq(S))
    <3>1. g[0] = << >>
      BY <2>0, <2>3
    <3>2. ASSUME NEW i \in 1 .. Len(s), g[i - 1] \in Seq(S)
          PROVE  g[i] = op[<<g[i - 1], s[i]>>]
      <4>1. i \in 0 .. Len(s) /\ i # 0
        BY <2>0
      <4>2. g[i] = g[i - 1] \o s[i]
        BY <2>3, <4>1
      <4> QED
        BY <1>1, <2>0, <3>2, <4>2
    <3> HIDE DEF P
    <3> QED
      BY <3>1, <3>2 DEF Goes
  <2> HIDE DEF P
  <2> QED
    BY <2>2, <2>4
<1> HIDE DEF op
<1>3. KeepsUp(x, Seq(S), << >>, op, Seq(S))
  <2> HIDE DEF x
  <2>1. EndsAt(x, Seq(S), << >>, op, Seq(S))
    BY <1>2 DEF EndsAt
  <2> QED
    BY <1>1, <2>1, GoingAlong
<1>4. << >> \in Seq(Seq(S))
      /\ \A s \in Seq(Seq(S)), e \in Seq(S) : Append(s, e) \in Seq(Seq(S))
  BY EmptySeq, AppendProperties
<1>5. \A s \in Seq(Seq(S)) : x[s] = Flat(s)
  OBVIOUS
<1> HIDE DEF x
<1>6. Flat(<< >>) = << >>
  BY <1>3, <1>4, <1>5 DEF KeepsUp
<1>7. ASSUME NEW s \in Seq(Seq(S))
      PROVE  /\ Flat(s) \in Seq(S)
             /\ \A e \in Seq(S) : Flat(Append(s, e)) = Flat(s) \o e
  <2>1. Flat(s) \in Seq(S) /\ x[s] = Flat(s)
    BY <1>3, <1>5 DEF KeepsUp
  <2>2. ASSUME NEW e \in Seq(S) PROVE Flat(Append(s, e)) = Flat(s) \o e
    <3>1. x[Append(s, e)] = Flat(Append(s, e))
      BY <1>4, <1>5
    <3>2. x[Append(s, e)] = op[<<x[s], e>>]
      BY <1>3 DEF KeepsUp
    <3> QED
      BY <1>1, <2>1, <3>1, <3>2
  <2> QED
    BY <2>1, <2>2
<1> QED
  BY <1>6, <1>7

\* What is left without the newlines.
LEMMA LettersAre ==
    /\ Letters(<< >>) = << >>
    /\ \A s \in Seq(Characters) :
          /\ Letters(s) \in Seq(1 .. 4)
          /\ \A e \in Characters : Letters(Append(s, e)) = AddLetter(Letters(s), e)
<1> DEFINE op == [p \in Seq(1 .. 4) \X Characters |-> AddLetter(p[1], p[2])]
           x == [s \in Seq(Characters) |-> Letters(s)]
<1>1. /\ << >> \in Seq(1 .. 4)
      /\ op \in [Seq(1 .. 4) \X Characters -> Seq(1 .. 4)]
      /\ \A v \in Seq(1 .. 4), e \in Characters : op[<<v, e>>] = AddLetter(v, e)
  <2>1. \A v \in Seq(1 .. 4), e \in Characters :
           AddLetter(v, e) \in Seq(1 .. 4)
    <3>1. \A e \in Characters : e # Newline => e \in 1 .. 4
      BY DEF Characters, Newline
    <3> QED
      BY <3>1, AppendProperties DEF AddLetter
  <2> QED
    BY <2>1, EmptySeq
<1>2. ASSUME NEW s \in Seq(Characters), NEW f \in [0 .. Len(s) -> Seq(1 .. 4)],
             Goes(f, s, << >>, op, Seq(1 .. 4))
      PROVE  \E g : Goes(g, s, << >>, op, Seq(1 .. 4)) /\ x[s] = g[Len(s)]
  <2>0. Len(s) \in Nat /\ \A i \in 1 .. Len(s) : s[i] \in Characters
    BY LenProperties
  <2> DEFINE P(h) == h = [i \in 0 .. Len(s) |-> IF i = 0 THEN << >>
                                              ELSE AddLetter(h[i - 1], s[i])]
             g == CHOOSE h : P(h)
  <2>1. P(f)
    <3>1. \A i \in 1 .. Len(s) : f[i] = AddLetter(f[i - 1], s[i])
      <4>1. ASSUME NEW i \in 1 .. Len(s) PROVE f[i] = AddLetter(f[i - 1], s[i])
        <5>1. i - 1 \in 0 .. Len(s)
          BY <2>0
        <5>2. f[i - 1] \in Seq(1 .. 4) /\ s[i] \in Characters
          BY <2>0, <5>1
        <5>3. f[i] = op[<<f[i - 1], s[i]>>]
          BY <1>2, <5>2 DEF Goes
        <5> HIDE DEF op
        <5> QED
          BY <1>1, <5>2, <5>3
      <4> QED
        BY <4>1
    <3>2. f[0] = << >>
      BY <1>2 DEF Goes
    <3>3. \A i \in 0 .. Len(s) : i = 0 \/ i \in 1 .. Len(s)
      BY <2>0
    <3>4. f = [i \in 0 .. Len(s) |-> f[i]]
      OBVIOUS
    <3>5. \A i \in 0 .. Len(s) : f[i] = IF i = 0 THEN << >> ELSE AddLetter(f[i - 1], s[i])
      BY <3>1, <3>2, <3>3
    <3> QED
      BY <3>4, <3>5
  <2>2. x[s] = g[Len(s)]
    BY DEF Letters, Along
  <2> HIDE DEF g
  <2>3. P(g)
    <3> HIDE DEF P
    <3> QED
      BY <2>1, Zenon DEF g
  <2> HIDE DEF op, x
  <2>4. Goes(g, s, << >>, op, Seq(1 .. 4))
    <3>1. g[0] = << >>
      BY <2>0, <2>3
    <3>2. ASSUME NEW i \in 1 .. Len(s), g[i - 1] \in Seq(1 .. 4)
          PROVE  g[i] = op[<<g[i - 1], s[i]>>]
      <4>1. i \in 0 .. Len(s) /\ i # 0
        BY <2>0
      <4>2. g[i] = AddLetter(g[i - 1], s[i])
        BY <2>3, <4>1
      <4> QED
        BY <1>1, <2>0, <3>2, <4>2
    <3> HIDE DEF P
    <3> QED
      BY <3>1, <3>2 DEF Goes
  <2> HIDE DEF P
  <2> QED
    BY <2>2, <2>4
<1> HIDE DEF op
<1>3. KeepsUp(x, Characters, << >>, op, Seq(1 .. 4))
  <2> HIDE DEF x
  <2>1. EndsAt(x, Characters, << >>, op, Seq(1 .. 4))
    BY <1>2 DEF EndsAt
  <2> QED
    BY <1>1, <2>1, GoingAlong
<1>4. << >> \in Seq(Characters)
      /\ \A s \in Seq(Characters), e \in Characters : Append(s, e) \in Seq(Characters)
  BY EmptySeq, AppendProperties
<1>5. \A s \in Seq(Characters) : x[s] = Letters(s)
  OBVIOUS
<1> HIDE DEF x
<1>6. Letters(<< >>) = << >>
  BY <1>3, <1>4, <1>5 DEF KeepsUp
<1>7. ASSUME NEW s \in Seq(Characters)
      PROVE  /\ Letters(s) \in Seq(1 .. 4)
             /\ \A e \in Characters : Letters(Append(s, e)) = AddLetter(Letters(s), e)
  <2>1. Letters(s) \in Seq(1 .. 4) /\ x[s] = Letters(s)
    BY <1>3, <1>5 DEF KeepsUp
  <2>2. ASSUME NEW e \in Characters PROVE Letters(Append(s, e)) = AddLetter(Letters(s), e)
    <3>1. x[Append(s, e)] = Letters(Append(s, e))
      BY <1>4, <1>5
    <3>2. x[Append(s, e)] = op[<<x[s], e>>]
      BY <1>3 DEF KeepsUp
    <3> QED
      BY <1>1, <2>1, <3>1, <3>2
  <2> QED
    BY <2>1, <2>2
<1> QED
  BY <1>6, <1>7

\* The lengths of two chunks add up.
LEMMA BytesAddUp ==
    \A s \in Seq(Characters), t \in Seq(Characters) :
        Bytes(s \o t) = Bytes(s) + Bytes(t)
<1> SUFFICES ASSUME NEW s \in Seq(Characters)
             PROVE  \A t \in Seq(Characters) : Bytes(s \o t) = Bytes(s) + Bytes(t)
  OBVIOUS
<1> DEFINE P == {t \in Seq(Characters) : Bytes(s \o t) = Bytes(s) + Bytes(t)}
<1>1. << >> \in P
  <2>1. s \o << >> = s /\ << >> \in Seq(Characters)
    BY EmptySeq, ConcatEmptySeq
  <2> QED
    BY <2>1, BytesAre
<1>2. ASSUME NEW t \in Seq(Characters), t \in P, NEW e \in Characters
      PROVE  Append(t, e) \in P
  <2>1. s \o Append(t, e) = Append(s \o t, e) /\ s \o t \in Seq(Characters)
        /\ Append(t, e) \in Seq(Characters)
    BY AppendToTwo, ConcatProperties, AppendProperties
  <2>2. Width(e) \in Nat
    BY DEF Width, Newline, Characters
  <2>3. /\ Bytes(Append(s \o t, e)) = Bytes(s \o t) + Width(e)
        /\ Bytes(Append(t, e)) = Bytes(t) + Width(e)
        /\ Bytes(t) \in Nat /\ Bytes(s) \in Nat
    BY <2>1, BytesAre
  <2>4. Bytes(s \o t) = Bytes(s) + Bytes(t)
    BY <1>2
  <2>5. Bytes(s \o Append(t, e)) = Bytes(s) + Bytes(Append(t, e))
    BY <2>1, <2>2, <2>3, <2>4
  <2> QED
    BY <2>1, <2>5
<1> HIDE DEF P
<1>3. Seq(Characters) \subseteq P
  BY <1>1, <1>2, ListByList
<1> QED
  BY <1>3 DEF P

\* The contents of two lists of lists follow each other.
LEMMA FlatAddsUp ==
    ASSUME NEW S
    PROVE  \A ss \in Seq(Seq(S)), tt \in Seq(Seq(S)) :
              Flat(ss \o tt) = Flat(ss) \o Flat(tt)
<1> SUFFICES ASSUME NEW ss \in Seq(Seq(S))
             PROVE  \A tt \in Seq(Seq(S)) : Flat(ss \o tt) = Flat(ss) \o Flat(tt)
  OBVIOUS
<1> DEFINE P == {tt \in Seq(Seq(S)) : Flat(ss \o tt) = Flat(ss) \o Flat(tt)}
<1>0. Flat(ss) \in Seq(S) /\ Flat(<< >>) = << >>
  BY FlatAre
<1>1. << >> \in P
  <2>1. ss \o << >> = ss /\ << >> \in Seq(Seq(S)) /\ Flat(ss) \o << >> = Flat(ss)
    BY <1>0, EmptySeq, ConcatEmptySeq
  <2> QED
    BY <1>0, <2>1
<1>2. ASSUME NEW tt \in Seq(Seq(S)), tt \in P, NEW e \in Seq(S)
      PROVE  Append(tt, e) \in P
  <2>1. ss \o Append(tt, e) = Append(ss \o tt, e) /\ ss \o tt \in Seq(Seq(S))
        /\ Append(tt, e) \in Seq(Seq(S))
    BY AppendToTwo, ConcatProperties, AppendProperties
  <2>2. /\ Flat(Append(ss \o tt, e)) = Flat(ss \o tt) \o e
        /\ Flat(Append(tt, e)) = Flat(tt) \o e
        /\ Flat(tt) \in Seq(S)
    BY <2>1, FlatAre
  <2>3. (Flat(ss) \o Flat(tt)) \o e = Flat(ss) \o (Flat(tt) \o e)
    BY <1>0, <2>2, ConcatAssociative
  <2> QED
    BY <1>2, <2>1, <2>2, <2>3
<1> HIDE DEF P
<1>3. Seq(Seq(S)) \subseteq P
  <2> DEFINE T == Seq(S)
  <2>1. << >> \in P /\ \A tt \in Seq(T) : tt \in P => \A e \in T : Append(tt, e) \in P
    BY <1>1, <1>2
  <2> HIDE DEF T
  <2>2. Seq(T) \subseteq P
    BY <2>1, ListByList
  <2> QED
    BY <2>2 DEF T
<1> QED
  BY <1>3 DEF P

\* The letters of two chunks follow each other.
LEMMA LettersAddUp ==
    \A s \in Seq(Characters), t \in Seq(Characters) :
        Letters(s \o t) = Letters(s) \o Letters(t)
<1> SUFFICES ASSUME NEW s \in Seq(Characters)
             PROVE  \A t \in Seq(Characters) : Letters(s \o t) = Letters(s) \o Letters(t)
  OBVIOUS
<1> DEFINE P == {t \in Seq(Characters) : Letters(s \o t) = Letters(s) \o Letters(t)}
<1>0. Letters(s) \in Seq(1 .. 4) /\ Letters(<< >>) = << >>
  BY LettersAre
<1>1. << >> \in P
  <2>1. /\ s \o << >> = s /\ << >> \in Seq(Characters)
        /\ Letters(s) \o << >> = Letters(s)
    BY <1>0, EmptySeq, ConcatEmptySeq
  <2> QED
    BY <1>0, <2>1
<1>2. ASSUME NEW t \in Seq(Characters), t \in P, NEW e \in Characters
      PROVE  Append(t, e) \in P
  <2>1. s \o Append(t, e) = Append(s \o t, e) /\ s \o t \in Seq(Characters)
        /\ Append(t, e) \in Seq(Characters)
    BY AppendToTwo, ConcatProperties, AppendProperties
  <2>2. /\ Letters(Append(s \o t, e))
              = IF e = Newline THEN Letters(s \o t) ELSE Append(Letters(s \o t), e)
        /\ Letters(Append(t, e))
              = IF e = Newline THEN Letters(t) ELSE Append(Letters(t), e)
        /\ Letters(t) \in Seq(1 .. 4)
    BY <2>1, LettersAre DEF AddLetter
  <2>3. e # Newline => Letters(s) \o Append(Letters(t), e)
                         = Append(Letters(s) \o Letters(t), e)
    <3>1. e # Newline => e \in 1 .. 4
      BY DEF Characters, Newline
    <3> QED
      BY <1>0, <2>2, <3>1, AppendToTwo
  <2> QED
    BY <1>2, <2>1, <2>2, <2>3
<1> HIDE DEF P
<1>3. Seq(Characters) \subseteq P
  BY <1>1, <1>2, ListByList
<1> QED
  BY <1>3 DEF P

\* A line of a text has no newline.
Lines == Seq(1 .. 4)

LEMMA LettersOfALine ==
    ASSUME NEW line \in Lines
    PROVE  line \in Seq(Characters) /\ Letters(line) = line
<1> DEFINE P == {s \in Seq(1 .. 4) : s \in Seq(Characters) /\ Letters(s) = s}
<1>1. << >> \in P
  BY EmptySeq, LettersAre
<1>2. ASSUME NEW s \in Seq(1 .. 4), s \in P, NEW e \in 1 .. 4
      PROVE  Append(s, e) \in P
  <2>1. e \in Characters /\ e # Newline
    BY DEF Characters, Newline
  <2>2. Append(s, e) \in Seq(1 .. 4) /\ Append(s, e) \in Seq(Characters)
    BY <1>2, <2>1, AppendProperties
  <2>3. Letters(Append(s, e)) = Append(Letters(s), e)
    BY <1>2, <2>1, LettersAre DEF AddLetter
  <2> QED
    BY <1>2, <2>2, <2>3
<1> HIDE DEF P
<1>3. Seq(1 .. 4) \subseteq P
  BY <1>1, <1>2, ListByList
<1> QED
  BY <1>3 DEF P, Lines

\* Letters may be taken list by list.
LEMMA LettersListByList ==
    \A ss \in Seq(Seq(Characters)) :
        \A tt \in Seq(Lines) :
            (Len(tt) = Len(ss) /\ \A i \in 1 .. Len(ss) : Letters(ss[i]) = tt[i])
                => Letters(Flat(ss)) = Flat(tt)
<1> DEFINE T == Seq(Characters)
           Same(ss, tt) == Len(tt) = Len(ss) /\ \A i \in 1 .. Len(ss) : Letters(ss[i]) = tt[i]
           P == {ss \in Seq(T) : \A tt \in Seq(Lines) :
                    Same(ss, tt) => Letters(Flat(ss)) = Flat(tt)}
<1>1. << >> \in P
  <2>1. << >> \in Seq(T) /\ Len(<< >>) = 0
    BY EmptySeq
  <2>2. ASSUME NEW tt \in Seq(Lines), Same(<< >>, tt)
        PROVE  Letters(Flat(<< >>)) = Flat(tt)
    <3>1. tt = << >>
      BY <2>1, <2>2, EmptySeq
    <3>2. Flat(<< >>) = << >> /\ Letters(<< >>) = << >>
      BY FlatAre, LettersAre
    <3> QED
      BY <3>1, <3>2
  <2> QED
    BY <2>1, <2>2
<1>2. ASSUME NEW ss \in Seq(T), ss \in P, NEW e \in T
      PROVE  Append(ss, e) \in P
  <2> DEFINE n == Len(ss)
  <2>0. /\ n \in Nat /\ Append(ss, e) \in Seq(T)
        /\ Len(Append(ss, e)) = n + 1
        /\ \A i \in 1 .. n : Append(ss, e)[i] = ss[i]
        /\ Append(ss, e)[n + 1] = e
    BY AppendProperties, LenProperties
  <2>1. ASSUME NEW tt \in Seq(Lines), Same(Append(ss, e), tt)
        PROVE  Letters(Flat(Append(ss, e))) = Flat(tt)
    <3>1. Len(tt) = n + 1 /\ tt # << >>
      BY <2>0, <2>1, EmptySeq
    <3>2. PICK uu \in Seq(Lines), line \in Lines : tt = Append(uu, line)
      BY <3>1, SequenceEmptyOrAppend
    <3>3. /\ Len(uu) = n /\ \A i \in 1 .. n : tt[i] = uu[i]
          /\ tt[n + 1] = line
      <4>1. /\ Len(tt) = Len(uu) + 1 /\ \A i \in 1 .. Len(uu) : tt[i] = uu[i]
            /\ tt[Len(uu) + 1] = line /\ Len(uu) \in Nat
        BY <3>2, AppendProperties, LenProperties
      <4> QED
        BY <2>0, <3>1, <4>1
    <3>4. Same(ss, uu) /\ Letters(e) = line
      <4>1. \A i \in 1 .. n : Letters(ss[i]) = uu[i]
        BY <2>0, <2>1, <3>3
      <4>2. Letters(e) = line
        BY <2>0, <2>1, <3>3
      <4> QED
        BY <3>3, <4>1, <4>2
    <3>5. Letters(Flat(ss)) = Flat(uu)
      BY <1>2, <3>4
    <3>6. Flat(Append(ss, e)) = Flat(ss) \o e /\ Flat(ss) \in Seq(Characters)
      BY FlatAre
    <3>7. Letters(Flat(ss) \o e) = Letters(Flat(ss)) \o Letters(e)
      BY <3>6, LettersAddUp
    <3>8. Flat(Append(uu, line)) = Flat(uu) \o line
      BY FlatAre DEF Lines
    <3> QED
      BY <3>2, <3>4, <3>5, <3>6, <3>7, <3>8
  <2> QED
    BY <2>0, <2>1
<1> HIDE DEF P, T
<1>3. Seq(T) \subseteq P
  BY <1>1, <1>2, ListByList
<1> QED
  BY <1>3 DEF P, T

-----------------------------------------------------------------------------
(* The chunks of a text.                                                   *)

\* A message, and what chunk_text has at any time.
Fitting == {c \in Seq(Characters) : Bytes(c) <= MaxBytes}

Partly == [chunks : Seq(Seq(Characters)), chunk : Seq(Characters)]

\* Every chunk so far fits into a message.
Fits(acc) == acc.chunks \in Seq(Fitting) /\ acc.chunk \in Fitting

Content(acc) == Flat(acc.chunks) \o acc.chunk

Gathered(line) == Along(line, Nothing, AddCharacter)
Divided(text) == Along(text, Nothing, AddLine)

LEMMA NothingTyped ==
    Nothing \in Partly /\ Fits(Nothing) /\ Content(Nothing) = << >>
<1>1. << >> \in Seq(Characters) /\ << >> \in Seq(Seq(Characters)) /\ << >> \in Seq(Fitting)
  BY EmptySeq
<1>2. << >> \in Fitting
  BY <1>1, BytesAre, ReplyAssumption DEF Fitting
<1>3. Flat(<< >>) = << >> /\ << >> \o << >> = << >>
  BY <1>1, FlatAre, ConcatEmptySeq
<1> QED
  BY <1>1, <1>2, <1>3 DEF Nothing, Partly, Fits, Content

\* A list of one element.
LEMMA OneElement ==
    ASSUME NEW T, NEW e \in T
    PROVE  <<e>> \in Seq(T) /\ <<e>> = Append(<< >>, e)
  OBVIOUS

\* A chunk of one character fits.
LEMMA OneCharacterFits ==
    ASSUME NEW ch \in Characters
    PROVE  /\ <<ch>> \in Fitting /\ Width(ch) \in Nat
           /\ Bytes(<<ch>>) = Width(ch)
<1>1. <<ch>> \in Seq(Characters) /\ <<ch>> = Append(<< >>, ch) /\ << >> \in Seq(Characters)
  BY OneElement, EmptySeq
<1>2. Bytes(Append(<< >>, ch)) = Bytes(<< >>) + Width(ch) /\ Bytes(<< >>) = 0
  BY <1>1, BytesAre
<1>3. Width(ch) \in Nat /\ Width(ch) <= 4
  BY DEF Width, Newline, Characters
<1>4. Bytes(<<ch>>) = Width(ch)
  BY <1>1, <1>2, <1>3
<1> QED
  BY <1>1, <1>3, <1>4, ReplyAssumption DEF Fitting

\* Flushing keeps the content.
LEMMA FlushedKeeps ==
    ASSUME NEW acc \in Partly
    PROVE  /\ Flushed(acc) \in Seq(Seq(Characters))
           /\ Flat(Flushed(acc)) = Content(acc)
           /\ Fits(acc) => Flushed(acc) \in Seq(Fitting)
<1>1. acc.chunks \in Seq(Seq(Characters)) /\ acc.chunk \in Seq(Characters)
  BY DEF Partly
<1>2. Flat(acc.chunks) \in Seq(Characters)
  BY <1>1, FlatAre
<1>3. CASE acc.chunk = << >>
  <2>1. Content(acc) = Flat(acc.chunks)
    BY <1>2, <1>3, ConcatEmptySeq DEF Content
  <2> QED
    BY <1>1, <1>3, <2>1 DEF Flushed, Fits
<1>4. CASE acc.chunk # << >>
  <2>1. Flushed(acc) = Append(acc.chunks, acc.chunk)
    BY <1>4 DEF Flushed
  <2>2. Append(acc.chunks, acc.chunk) \in Seq(Seq(Characters))
    BY <1>1, AppendProperties
  <2>3. Flat(Append(acc.chunks, acc.chunk)) = Flat(acc.chunks) \o acc.chunk
    BY <1>1, FlatAre
  <2>4. Fits(acc) => Append(acc.chunks, acc.chunk) \in Seq(Fitting)
    BY AppendProperties DEF Fits
  <2> QED
    BY <2>1, <2>2, <2>3, <2>4 DEF Content
<1> QED
  BY <1>3, <1>4

\* A character goes to the end of the content; it begins a chunk where the
\* chunk at hand would not fit any more.
LEMMA CharacterAdds ==
    \A acc \in Partly, ch \in Characters :
        /\ AddCharacter(acc, ch) \in Partly
        /\ Content(AddCharacter(acc, ch)) = Append(Content(acc), ch)
        /\ Fits(acc) => Fits(AddCharacter(acc, ch))
<1> SUFFICES ASSUME NEW acc \in Partly, NEW ch \in Characters
             PROVE  /\ AddCharacter(acc, ch) \in Partly
                    /\ Content(AddCharacter(acc, ch)) = Append(Content(acc), ch)
                    /\ Fits(acc) => Fits(AddCharacter(acc, ch))
  OBVIOUS
<1> DEFINE next == AddCharacter(acc, ch)
<1>1. acc.chunks \in Seq(Seq(Characters)) /\ acc.chunk \in Seq(Characters)
  BY DEF Partly
<1>2. Flat(acc.chunks) \in Seq(Characters)
  BY <1>1, FlatAre
<1>3. CASE Bytes(acc.chunk) + Width(ch) <= MaxBytes
  <2>1. next.chunks = acc.chunks /\ next.chunk = Append(acc.chunk, ch)
    BY <1>3 DEF AddCharacter, Partly
  <2>2. Append(acc.chunk, ch) \in Seq(Characters)
    BY <1>1, AppendProperties
  <2>3. next \in Partly
    BY <1>1, <1>3, <2>2 DEF AddCharacter, Partly
  <2>4. Content(next) = Append(Content(acc), ch)
    <3> HIDE DEF next
    <3>1. Flat(acc.chunks) \o Append(acc.chunk, ch) = Append(Flat(acc.chunks) \o acc.chunk, ch)
      <4> DEFINE done == Flat(acc.chunks)
                 last == acc.chunk
      <4>1. done \in Seq(Characters) /\ last \in Seq(Characters) /\ ch \in Characters
        BY <1>1, <1>2
      <4> HIDE DEF done, last
      <4>2. done \o Append(last, ch) = Append(done \o last, ch)
        BY <4>1, AppendToTwo
      <4> QED
        BY <4>2 DEF done, last
    <3>2. Content(next) = Flat(next.chunks) \o next.chunk
      BY DEF Content
    <3>3. Append(Content(acc), ch) = Append(Flat(acc.chunks) \o acc.chunk, ch)
      BY DEF Content
    <3> QED
      BY <2>1, <3>1, <3>2, <3>3, Zenon
  <2>5. Append(acc.chunk, ch) \in Fitting
    BY <1>1, <1>3, <2>2, BytesAre DEF Fitting
  <2> QED
    BY <2>1, <2>3, <2>4, <2>5 DEF Fits
<1>4. CASE ~ (Bytes(acc.chunk) + Width(ch) <= MaxBytes)
  <2>1. next = [chunks |-> Append(acc.chunks, acc.chunk), chunk |-> <<ch>>]
    BY <1>4 DEF AddCharacter
  <2>2. Append(acc.chunks, acc.chunk) \in Seq(Seq(Characters))
    BY <1>1, AppendProperties
  <2>3. <<ch>> \in Seq(Characters) /\ <<ch>> \in Fitting
    BY OneCharacterFits DEF Fitting
  <2>4. next \in Partly
    BY <2>1, <2>2, <2>3 DEF Partly
  <2>5. Flat(Append(acc.chunks, acc.chunk)) = Flat(acc.chunks) \o acc.chunk
    BY <1>1, FlatAre
  <2>6. Flat(acc.chunks) \o acc.chunk \in Seq(Characters)
    BY <1>1, <1>2, ConcatProperties
  <2>7. Content(next) = Append(Content(acc), ch)
    <3>1. Append(Content(acc), ch) = Content(acc) \o <<ch>>
      BY <2>6, AppendIsConcat DEF Content
    <3>2. Content(next) = Flat(Append(acc.chunks, acc.chunk)) \o <<ch>>
      BY <2>1 DEF Content
    <3> QED
      BY <2>5, <3>1, <3>2 DEF Content
  <2>8. Fits(acc) => Append(acc.chunks, acc.chunk) \in Seq(Fitting)
    BY AppendProperties DEF Fits
  <2>9. next.chunks = Append(acc.chunks, acc.chunk) /\ next.chunk = <<ch>>
    BY <2>1
  <2> HIDE DEF next
  <2>10. Fits(acc) => Fits(next)
    BY <2>3, <2>8, <2>9 DEF Fits
  <2> QED
    BY <2>4, <2>7, <2>10 DEF next
<1> QED
  BY <1>3, <1>4

\* The fold of chunk_text over the characters of a line too long.
LEMMA GatheredAre ==
    /\ Gathered(<< >>) = Nothing
    /\ \A s \in Seq(Characters) :
          /\ Gathered(s) \in Partly
          /\ \A e \in Characters : Gathered(Append(s, e)) = AddCharacter(Gathered(s), e)
<1> DEFINE op == [p \in Partly \X Characters |-> AddCharacter(p[1], p[2])]
           x == [s \in Seq(Characters) |-> Gathered(s)]
<1>1. /\ Nothing \in Partly
      /\ op \in [Partly \X Characters -> Partly]
      /\ \A v \in Partly, e \in Characters : op[<<v, e>>] = AddCharacter(v, e)
  BY NothingTyped, CharacterAdds
<1>2. ASSUME NEW s \in Seq(Characters), NEW f \in [0 .. Len(s) -> Partly],
             Goes(f, s, Nothing, op, Partly)
      PROVE  \E g : Goes(g, s, Nothing, op, Partly) /\ x[s] = g[Len(s)]
  <2>0. Len(s) \in Nat /\ \A i \in 1 .. Len(s) : s[i] \in Characters
    BY LenProperties
  <2> DEFINE P(h) == h = [i \in 0 .. Len(s) |-> IF i = 0 THEN Nothing
                                              ELSE AddCharacter(h[i - 1], s[i])]
             g == CHOOSE h : P(h)
  <2>1. P(f)
    <3>1. \A i \in 1 .. Len(s) : f[i] = AddCharacter(f[i - 1], s[i])
      <4>1. ASSUME NEW i \in 1 .. Len(s) PROVE f[i] = AddCharacter(f[i - 1], s[i])
        <5>1. i - 1 \in 0 .. Len(s)
          BY <2>0
        <5>2. f[i - 1] \in Partly /\ s[i] \in Characters
          BY <2>0, <5>1
        <5>3. f[i] = op[<<f[i - 1], s[i]>>]
          BY <1>2, <5>2 DEF Goes
        <5> HIDE DEF op
        <5> QED
          BY <1>1, <5>2, <5>3
      <4> QED
        BY <4>1
    <3>2. f[0] = Nothing
      BY <1>2 DEF Goes
    <3>3. \A i \in 0 .. Len(s) : i = 0 \/ i \in 1 .. Len(s)
      BY <2>0
    <3>4. f = [i \in 0 .. Len(s) |-> f[i]]
      OBVIOUS
    <3>5. \A i \in 0 .. Len(s) : f[i] = IF i = 0 THEN Nothing ELSE AddCharacter(f[i - 1], s[i])
      BY <3>1, <3>2, <3>3
    <3> QED
      BY <3>4, <3>5
  <2>2. x[s] = g[Len(s)]
    BY DEF Gathered, Along
  <2> HIDE DEF g
  <2>3. P(g)
    <3> HIDE DEF P
    <3> QED
      BY <2>1, Zenon DEF g
  <2> HIDE DEF op, x
  <2>4. Goes(g, s, Nothing, op, Partly)
    <3>1. g[0] = Nothing
      BY <2>0, <2>3
    <3>2. ASSUME NEW i \in 1 .. Len(s), g[i - 1] \in Partly
          PROVE  g[i] = op[<<g[i - 1], s[i]>>]
      <4>1. i \in 0 .. Len(s) /\ i # 0
        BY <2>0
      <4>2. g[i] = AddCharacter(g[i - 1], s[i])
        BY <2>3, <4>1
      <4> QED
        BY <1>1, <2>0, <3>2, <4>2
    <3> HIDE DEF P
    <3> QED
      BY <3>1, <3>2 DEF Goes
  <2> HIDE DEF P
  <2> QED
    BY <2>2, <2>4
<1> HIDE DEF op
<1>3. KeepsUp(x, Characters, Nothing, op, Partly)
  <2> HIDE DEF x
  <2>1. EndsAt(x, Characters, Nothing, op, Partly)
    BY <1>2 DEF EndsAt
  <2> QED
    BY <1>1, <2>1, GoingAlong
<1>4. << >> \in Seq(Characters)
      /\ \A s \in Seq(Characters), e \in Characters : Append(s, e) \in Seq(Characters)
  BY EmptySeq, AppendProperties
<1>5. \A s \in Seq(Characters) : x[s] = Gathered(s)
  OBVIOUS
<1> HIDE DEF x
<1>6. Gathered(<< >>) = Nothing
  BY <1>3, <1>4, <1>5 DEF KeepsUp
<1>7. ASSUME NEW s \in Seq(Characters)
      PROVE  /\ Gathered(s) \in Partly
             /\ \A e \in Characters : Gathered(Append(s, e)) = AddCharacter(Gathered(s), e)
  <2>1. Gathered(s) \in Partly /\ x[s] = Gathered(s)
    BY <1>3, <1>5 DEF KeepsUp
  <2>2. ASSUME NEW e \in Characters PROVE Gathered(Append(s, e)) = AddCharacter(Gathered(s), e)
    <3>1. x[Append(s, e)] = Gathered(Append(s, e))
      BY <1>4, <1>5
    <3>2. x[Append(s, e)] = op[<<x[s], e>>]
      BY <1>3 DEF KeepsUp
    <3> QED
      BY <1>1, <2>1, <3>1, <3>2
  <2> QED
    BY <2>1, <2>2
<1> QED
  BY <1>6, <1>7

\* The pieces of a line too long are the line.
LEMMA PiecesAreTheLine ==
    ASSUME NEW line \in Seq(Characters)
    PROVE  Pieces(line) \in Seq(Fitting) /\ Flat(Pieces(line)) = line
           /\ Pieces(line) \in Seq(Seq(Characters))
<1> DEFINE P == {s \in Seq(Characters) : Fits(Gathered(s)) /\ Content(Gathered(s)) = s}
<1>1. << >> \in P
  BY EmptySeq, GatheredAre, NothingTyped
<1>2. ASSUME NEW s \in Seq(Characters), s \in P, NEW ch \in Characters
      PROVE  Append(s, ch) \in P
  <2>1. /\ Gathered(s) \in Partly
        /\ Gathered(Append(s, ch)) = AddCharacter(Gathered(s), ch)
    BY GatheredAre
  <2>2. Append(s, ch) \in Seq(Characters)
    BY AppendProperties
  <2> QED
    BY <1>2, <2>1, <2>2, CharacterAdds
<1> HIDE DEF P
<1>3. Seq(Characters) \subseteq P
  BY <1>1, <1>2, ListByList
<1>4. Fits(Gathered(line)) /\ Content(Gathered(line)) = line /\ Gathered(line) \in Partly
  BY <1>3, GatheredAre DEF P
<1>5. Pieces(line) = Flushed(Gathered(line))
  BY DEF Pieces, Gathered
<1> QED
  BY <1>4, <1>5, FlushedKeeps

\* A line goes to the end of the content, but for the newline before it.
LEMMA LineAdds ==
    \A acc \in Partly, line \in Lines :
        /\ AddLine(acc, line) \in Partly
        /\ Letters(Content(AddLine(acc, line))) = Letters(Content(acc)) \o line
        /\ Fits(acc) => Fits(AddLine(acc, line))
<1> SUFFICES ASSUME NEW acc \in Partly, NEW line \in Lines
             PROVE  /\ AddLine(acc, line) \in Partly
                    /\ Letters(Content(AddLine(acc, line))) = Letters(Content(acc)) \o line
                    /\ Fits(acc) => Fits(AddLine(acc, line))
  OBVIOUS
<1> DEFINE next == AddLine(acc, line)
           done == Flat(acc.chunks)
<1>1. acc.chunks \in Seq(Seq(Characters)) /\ acc.chunk \in Seq(Characters)
  BY DEF Partly
<1>2. done \in Seq(Characters) /\ Content(acc) = done \o acc.chunk
      /\ Content(acc) \in Seq(Characters)
  <2>1. done \in Seq(Characters)
    BY <1>1, FlatAre
  <2> QED
    BY <1>1, <2>1, ConcatProperties DEF Content
<1>3. line \in Seq(Characters) /\ Letters(line) = line /\ Bytes(line) \in Nat
      /\ Bytes(acc.chunk) \in Nat
  BY <1>1, LettersOfALine, BytesAre
<1>4. Letters(Content(acc) \o line) = Letters(Content(acc)) \o line
  BY <1>2, <1>3, LettersAddUp
<1>5. CASE Bytes(acc.chunk) + Bytes(line) + 1 <= MaxBytes
  <2> DEFINE j == Joined(acc.chunk, line)
  <2>1. next = [acc EXCEPT !.chunk = j]
    BY <1>5 DEF AddLine
  <2>2. /\ j \in Seq(Characters)
        /\ Bytes(j) <= Bytes(acc.chunk) + Bytes(line) + 1
        /\ Letters(j) = Letters(acc.chunk) \o line
    <3>1. CASE acc.chunk = << >> \/ line = << >>
      <4>1. j = acc.chunk \o line
        BY <3>1 DEF Joined
      <4>2. /\ acc.chunk \o line \in Seq(Characters)
            /\ Bytes(acc.chunk \o line) = Bytes(acc.chunk) + Bytes(line)
            /\ Letters(acc.chunk \o line) = Letters(acc.chunk) \o Letters(line)
        BY <1>1, <1>3, ConcatProperties, BytesAddUp, LettersAddUp
      <4> HIDE DEF j
      <4> QED
        BY <1>3, <4>1, <4>2
    <3>2. CASE ~ (acc.chunk = << >> \/ line = << >>)
      <4> DEFINE c == acc.chunk \o <<Newline>>
      <4>1. j = c \o line
        BY <3>2 DEF Joined
      <4>2. Newline \in Characters /\ <<Newline>> \in Seq(Characters)
            /\ Bytes(<<Newline>>) = 1 /\ Letters(<<Newline>>) = << >>
        <5>1. Newline \in Characters /\ Width(Newline) = 1
          BY DEF Newline, Characters, Width
        <5>2. <<Newline>> = Append(<< >>, Newline) /\ << >> \in Seq(Characters)
          BY <5>1, OneElement, EmptySeq
        <5>3. Letters(Append(<< >>, Newline)) = Letters(<< >>)
          BY <5>1, <5>2, LettersAre DEF AddLetter
        <5> QED
          BY <5>1, <5>2, <5>3, OneCharacterFits, LettersAre DEF Fitting
      <4>3. /\ c \in Seq(Characters) /\ Bytes(c) = Bytes(acc.chunk) + 1
            /\ Letters(c) = Letters(acc.chunk)
        <5>1. /\ c \in Seq(Characters) /\ Bytes(c) = Bytes(acc.chunk) + Bytes(<<Newline>>)
              /\ Letters(c) = Letters(acc.chunk) \o Letters(<<Newline>>)
          BY <1>1, <4>2, ConcatProperties, BytesAddUp, LettersAddUp
        <5>2. Letters(acc.chunk) \in Seq(1 .. 4)
          BY <1>1, LettersAre
        <5>3. Letters(acc.chunk) \o << >> = Letters(acc.chunk)
          BY <5>2, ConcatEmptySeq
        <5> HIDE DEF c
        <5> QED
          BY <4>2, <5>1, <5>3
      <4> HIDE DEF c, j
      <4>4. /\ c \o line \in Seq(Characters)
            /\ Bytes(c \o line) = Bytes(c) + Bytes(line)
            /\ Letters(c \o line) = Letters(c) \o Letters(line)
        BY <1>3, <4>3, ConcatProperties, BytesAddUp, LettersAddUp
      <4> QED
        BY <1>3, <4>1, <4>3, <4>4
    <3> QED
      BY <3>1, <3>2
  <2> HIDE DEF j
  <2>3. next \in Partly /\ next.chunks = acc.chunks /\ next.chunk = j
    BY <2>1, <2>2 DEF Partly
  <2>4. j \in Fitting
    <3>1. Bytes(j) \in Nat /\ MaxBytes \in Nat
      BY <2>2, BytesAre, ReplyAssumption
    <3> QED
      BY <1>3, <1>5, <2>2, <3>1 DEF Fitting
  <2>5. Letters(Content(next)) = Letters(Content(acc)) \o line
    <3>1. Content(next) = done \o j
      BY <2>3 DEF Content
    <3>2. /\ Letters(done \o j) = Letters(done) \o Letters(j)
          /\ Letters(Content(acc)) = Letters(done) \o Letters(acc.chunk)
      BY <1>1, <1>2, <2>2, LettersAddUp
    <3>3. /\ Letters(done) \in Seq(1 .. 4) /\ Letters(acc.chunk) \in Seq(1 .. 4)
          /\ line \in Seq(1 .. 4)
      BY <1>1, <1>2, LettersAre DEF Lines
    <3>4. (Letters(done) \o Letters(acc.chunk)) \o line
             = Letters(done) \o (Letters(acc.chunk) \o line)
      BY <3>3, ConcatAssociative
    <3> QED
      BY <2>2, <3>1, <3>2, <3>4
  <2> QED
    BY <2>3, <2>4, <2>5 DEF Fits
<1>6. CASE ~ (Bytes(acc.chunk) + Bytes(line) + 1 <= MaxBytes) /\ Bytes(line) > MaxBytes
  <2> DEFINE parts == Flushed(acc) \o Pieces(line)
  <2>1. next = [chunks |-> parts, chunk |-> << >>]
    BY <1>6 DEF AddLine
  <2>2. /\ Flushed(acc) \in Seq(Seq(Characters)) /\ Flat(Flushed(acc)) = Content(acc)
        /\ Pieces(line) \in Seq(Seq(Characters)) /\ Pieces(line) \in Seq(Fitting)
        /\ Flat(Pieces(line)) = line
    BY <1>3, FlushedKeeps, PiecesAreTheLine
  <2>3. parts \in Seq(Seq(Characters)) /\ Flat(parts) = Content(acc) \o line
    <3>1. parts \in Seq(Seq(Characters))
      BY <2>2, ConcatProperties
    <3>2. Flat(parts) = Flat(Flushed(acc)) \o Flat(Pieces(line))
      BY <2>2, FlatAddsUp
    <3> QED
      BY <2>2, <3>1, <3>2
  <2>4. Fits(acc) => parts \in Seq(Fitting)
    BY <2>2, FlushedKeeps, ConcatProperties
  <2> HIDE DEF parts
  <2>5. << >> \in Seq(Characters) /\ << >> \in Fitting
    BY NothingTyped, EmptySeq DEF Nothing, Fits
  <2>6. next \in Partly /\ next.chunks = parts /\ next.chunk = << >>
    BY <2>1, <2>3, <2>5 DEF Partly
  <2>7. Content(next) = Content(acc) \o line
    <3>1. Content(next) = (Content(acc) \o line) \o << >>
      BY <2>3, <2>6 DEF Content
    <3>2. Content(acc) \o line \in Seq(Characters)
      BY <1>2, <1>3, ConcatProperties
    <3> QED
      BY <3>1, <3>2, ConcatEmptySeq
  <2> QED
    BY <1>4, <2>4, <2>5, <2>6, <2>7 DEF Fits
<1>7. CASE ~ (Bytes(acc.chunk) + Bytes(line) + 1 <= MaxBytes) /\ ~ (Bytes(line) > MaxBytes)
  <2>1. next = [chunks |-> Flushed(acc), chunk |-> line]
    BY <1>7 DEF AddLine
  <2>2. /\ Flushed(acc) \in Seq(Seq(Characters)) /\ Flat(Flushed(acc)) = Content(acc)
        /\ Fits(acc) => Flushed(acc) \in Seq(Fitting)
    BY FlushedKeeps
  <2>3. next \in Partly /\ next.chunks = Flushed(acc) /\ next.chunk = line
    BY <1>3, <2>1, <2>2 DEF Partly
  <2>4. line \in Fitting
    BY <1>3, <1>7, ReplyAssumption DEF Fitting
  <2>5. Content(next) = Content(acc) \o line
    BY <2>2, <2>3 DEF Content
  <2> QED
    BY <1>4, <2>2, <2>3, <2>4, <2>5 DEF Fits
<1> QED
  BY <1>5, <1>6, <1>7

\* The fold of chunk_text over the lines.
LEMMA DividedAre ==
    /\ Divided(<< >>) = Nothing
    /\ \A s \in Seq(Lines) :
          /\ Divided(s) \in Partly
          /\ \A e \in Lines : Divided(Append(s, e)) = AddLine(Divided(s), e)
<1> DEFINE op == [p \in Partly \X Lines |-> AddLine(p[1], p[2])]
           x == [s \in Seq(Lines) |-> Divided(s)]
<1>1. /\ Nothing \in Partly
      /\ op \in [Partly \X Lines -> Partly]
      /\ \A v \in Partly, e \in Lines : op[<<v, e>>] = AddLine(v, e)
  BY NothingTyped, LineAdds
<1>2. ASSUME NEW s \in Seq(Lines), NEW f \in [0 .. Len(s) -> Partly],
             Goes(f, s, Nothing, op, Partly)
      PROVE  \E g : Goes(g, s, Nothing, op, Partly) /\ x[s] = g[Len(s)]
  <2>0. Len(s) \in Nat /\ \A i \in 1 .. Len(s) : s[i] \in Lines
    BY LenProperties
  <2> DEFINE P(h) == h = [i \in 0 .. Len(s) |-> IF i = 0 THEN Nothing
                                              ELSE AddLine(h[i - 1], s[i])]
             g == CHOOSE h : P(h)
  <2>1. P(f)
    <3>1. \A i \in 1 .. Len(s) : f[i] = AddLine(f[i - 1], s[i])
      <4>1. ASSUME NEW i \in 1 .. Len(s) PROVE f[i] = AddLine(f[i - 1], s[i])
        <5>1. i - 1 \in 0 .. Len(s)
          BY <2>0
        <5>2. f[i - 1] \in Partly /\ s[i] \in Lines
          BY <2>0, <5>1
        <5>3. f[i] = op[<<f[i - 1], s[i]>>]
          BY <1>2, <5>2 DEF Goes
        <5> HIDE DEF op
        <5> QED
          BY <1>1, <5>2, <5>3
      <4> QED
        BY <4>1
    <3>2. f[0] = Nothing
      BY <1>2 DEF Goes
    <3>3. \A i \in 0 .. Len(s) : i = 0 \/ i \in 1 .. Len(s)
      BY <2>0
    <3>4. f = [i \in 0 .. Len(s) |-> f[i]]
      OBVIOUS
    <3>5. \A i \in 0 .. Len(s) : f[i] = IF i = 0 THEN Nothing ELSE AddLine(f[i - 1], s[i])
      BY <3>1, <3>2, <3>3
    <3> QED
      BY <3>4, <3>5
  <2>2. x[s] = g[Len(s)]
    BY DEF Divided, Along
  <2> HIDE DEF g
  <2>3. P(g)
    <3> HIDE DEF P
    <3> QED
      BY <2>1, Zenon DEF g
  <2> HIDE DEF op, x
  <2>4. Goes(g, s, Nothing, op, Partly)
    <3>1. g[0] = Nothing
      BY <2>0, <2>3
    <3>2. ASSUME NEW i \in 1 .. Len(s), g[i - 1] \in Partly
          PROVE  g[i] = op[<<g[i - 1], s[i]>>]
      <4>1. i \in 0 .. Len(s) /\ i # 0
        BY <2>0
      <4>2. g[i] = AddLine(g[i - 1], s[i])
        BY <2>3, <4>1
      <4> QED
        BY <1>1, <2>0, <3>2, <4>2
    <3> HIDE DEF P
    <3> QED
      BY <3>1, <3>2 DEF Goes
  <2> HIDE DEF P
  <2> QED
    BY <2>2, <2>4
<1> HIDE DEF op
<1>3. KeepsUp(x, Lines, Nothing, op, Partly)
  <2> HIDE DEF x
  <2>1. EndsAt(x, Lines, Nothing, op, Partly)
    BY <1>2 DEF EndsAt
  <2> QED
    BY <1>1, <2>1, GoingAlong
<1>4. << >> \in Seq(Lines)
      /\ \A s \in Seq(Lines), e \in Lines : Append(s, e) \in Seq(Lines)
  BY EmptySeq, AppendProperties
<1>5. \A s \in Seq(Lines) : x[s] = Divided(s)
  OBVIOUS
<1> HIDE DEF x
<1>6. Divided(<< >>) = Nothing
  BY <1>3, <1>4, <1>5 DEF KeepsUp
<1>7. ASSUME NEW s \in Seq(Lines)
      PROVE  /\ Divided(s) \in Partly
             /\ \A e \in Lines : Divided(Append(s, e)) = AddLine(Divided(s), e)
  <2>1. Divided(s) \in Partly /\ x[s] = Divided(s)
    BY <1>3, <1>5 DEF KeepsUp
  <2>2. ASSUME NEW e \in Lines PROVE Divided(Append(s, e)) = AddLine(Divided(s), e)
    <3>1. x[Append(s, e)] = Divided(Append(s, e))
      BY <1>4, <1>5
    <3>2. x[Append(s, e)] = op[<<x[s], e>>]
      BY <1>3 DEF KeepsUp
    <3> QED
      BY <1>1, <2>1, <3>1, <3>2
  <2> QED
    BY <2>1, <2>2
<1> QED
  BY <1>6, <1>7

\* What is divided so far is the lines so far.
LEMMA DividedIsTheText ==
    ASSUME NEW text \in Seq(Lines)
    PROVE  /\ Divided(text) \in Partly /\ Fits(Divided(text))
           /\ Letters(Content(Divided(text))) = Flat(text)
<1> DEFINE P == {s \in Seq(Lines) : /\ Fits(Divided(s))
                                  /\ Letters(Content(Divided(s))) = Flat(s)}
<1>1. << >> \in P
  <2>1. Flat(<< >>) = << >> /\ Letters(<< >>) = << >>
    BY FlatAre, LettersAre
  <2> QED
    BY <2>1, EmptySeq, DividedAre, NothingTyped
<1>2. ASSUME NEW s \in Seq(Lines), s \in P, NEW line \in Lines
      PROVE  Append(s, line) \in P
  <2>1. /\ Divided(s) \in Partly
        /\ Divided(Append(s, line)) = AddLine(Divided(s), line)
    BY DividedAre
  <2>2. Append(s, line) \in Seq(Lines)
    BY AppendProperties
  <2>3. Flat(Append(s, line)) = Flat(s) \o line
    BY FlatAre DEF Lines
  <2> QED
    BY <1>2, <2>1, <2>2, <2>3, LineAdds
<1> HIDE DEF P
<1>3. Seq(Lines) \subseteq P
  BY <1>1, <1>2, ListByList
<1> QED
  BY <1>3, DividedAre DEF P

\* The text before it is divided has the letters of its lines.
LEMMA WholeIsTheText ==
    ASSUME NEW text \in Seq(Lines)
    PROVE  Whole(text) \in Seq(Characters) /\ Letters(Whole(text)) = Flat(text)
<1> DEFINE part(i) == IF i = 1 THEN text[i] ELSE <<Newline>> \o text[i]
           parts == [i \in DOMAIN text |-> part(i)]
<1>1. Len(text) \in Nat /\ DOMAIN text = 1 .. Len(text)
      /\ \A i \in 1 .. Len(text) : text[i] \in Lines
  BY LenProperties
<1>2. ASSUME NEW i \in 1 .. Len(text)
      PROVE  part(i) \in Seq(Characters) /\ Letters(part(i)) = text[i]
  <2>1. text[i] \in Seq(Characters) /\ Letters(text[i]) = text[i]
    BY <1>1, LettersOfALine
  <2>2. Newline \in Characters /\ <<Newline>> \in Seq(Characters)
        /\ <<Newline>> = Append(<< >>, Newline) /\ << >> \in Seq(Characters)
    <3>1. Newline \in Characters
      BY DEF Newline, Characters
    <3> QED
      BY <3>1, OneElement, EmptySeq
  <2>3. Letters(<<Newline>>) = << >>
    BY <2>2, LettersAre DEF AddLetter
  <2>4. /\ <<Newline>> \o text[i] \in Seq(Characters)
        /\ Letters(<<Newline>> \o text[i]) = Letters(<<Newline>>) \o Letters(text[i])
    BY <2>1, <2>2, ConcatProperties, LettersAddUp
  <2>5. << >> \o text[i] = text[i]
    BY <2>1, ConcatEmptySeq
  <2> QED
    BY <2>1, <2>3, <2>4, <2>5
<1>3. /\ parts \in Seq(Seq(Characters)) /\ Len(parts) = Len(text)
      /\ \A i \in 1 .. Len(parts) : Letters(parts[i]) = text[i]
  <2>1. \A i \in 1 .. Len(text) : parts[i] = part(i)
    BY <1>1
  <2> HIDE DEF part
  <2>2. parts \in [1 .. Len(text) -> Seq(Characters)]
    BY <1>1, <1>2
  <2> HIDE DEF parts
  <2>3. parts \in Seq(Seq(Characters)) /\ Len(parts) = Len(text)
    BY <1>1, <2>2, IsASeq, LenProperties
  <2> QED
    BY <1>2, <2>1, <2>3
<1>4. Whole(text) = Flat(parts)
  BY DEF Whole
<1> HIDE DEF parts
<1> QED
  BY <1>3, <1>4, LettersListByList, FlatAre

\* The chunks of a text hold every character of it but newlines, in its order,
\* and each fits into a message.
LEMMA ChunksOfAText ==
    ASSUME NEW text \in Seq(Lines)
    PROVE  /\ Chunks(text) \in Seq(Fitting)
           /\ Letters(Flat(Chunks(text))) = Flat(text)
<1>1. CASE Bytes(Whole(text)) <= MaxBytes
  <2> DEFINE w == Whole(text)
  <2>1. w \in Seq(Characters) /\ Letters(w) = Flat(text)
    BY WholeIsTheText
  <2>2. Chunks(text) = <<w>>
    BY <1>1 DEF Chunks
  <2>3. w \in Fitting
    BY <1>1, <2>1 DEF Fitting
  <2> HIDE DEF w
  <2>4. <<w>> \in Seq(Fitting) /\ <<w>> = Append(<< >>, w) /\ << >> \in Seq(Seq(Characters))
    BY <2>3, OneElement, EmptySeq
  <2>5. Flat(<<w>>) = w
    <3>1. Flat(Append(<< >>, w)) = Flat(<< >>) \o w /\ Flat(<< >>) = << >>
      BY <2>1, <2>4, FlatAre
    <3> QED
      BY <2>1, <2>4, <3>1, ConcatEmptySeq
  <2> QED
    BY <2>1, <2>2, <2>4, <2>5
<1>2. CASE ~ (Bytes(Whole(text)) <= MaxBytes)
  <2>1. Chunks(text) = Flushed(Divided(text))
    BY <1>2 DEF Chunks, Divided
  <2> QED
    BY <2>1, DividedIsTheText, FlushedKeeps
<1> QED
  BY <1>1, <1>2

\* What is sent of a reply is its text: the chunks hold every character of it
\* but newlines, in its order, and each fits into a message, for any replies
\* and any length of a message (chunk_text, handle_telegram_run_outcome).
THEOREM ChunksAreAlwaysTheText == ReplySpec => []ChunksAreTheText
<1>1. RInv => ChunksAreTheText
  <2> SUFFICES ASSUME RInv, NEW t \in TaskIds, reply[t].step = "sending"
               PROVE  LET chunks == ChunksOf[reply[t].text]
                      IN  /\ Letters(Flat(chunks)) = Flat(reply[t].text)
                          /\ \A n \in DOMAIN chunks : Bytes(chunks[n]) <= MaxBytes
    BY DEF ChunksAreTheText
  <2> DEFINE text == reply[t].text
  <2>1. text \in Texts \cup {ErrorText}
    BY TheTask DEF Delivers
  <2>2. text \in Seq(Lines)
    <3>1. ErrorText \in Seq(Seq(1 .. 4))
      <4>1. <<1>> \in Seq(1 .. 4)
        BY OneElement
      <4> QED
        BY <4>1, OneElement DEF ErrorText
    <3> QED
      BY <2>1, <3>1, ReplyAssumption DEF Lines
  <2>3. ChunksOf[text] = Chunks(text)
    BY <2>1 DEF ChunksOf
  <2> HIDE DEF text
  <2>4. /\ Chunks(text) \in Seq(Fitting)
        /\ Letters(Flat(Chunks(text))) = Flat(text)
    BY <2>2, ChunksOfAText
  <2>5. \A n \in DOMAIN Chunks(text) : Bytes(Chunks(text)[n]) <= MaxBytes
    <3>1. \A n \in DOMAIN Chunks(text) : Chunks(text)[n] \in Fitting
      BY <2>4, LenProperties
    <3> QED
      BY <3>1 DEF Fitting
  <2> QED
    BY <2>3, <2>4, <2>5 DEF text
<1> QED
  BY <1>1, RepliesAgree, PTL
=============================================================================
