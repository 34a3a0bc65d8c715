--------------------------- MODULE ApprovalMailbox ---------------------------
(***************************************************************************)
(* The approval mailbox of one task (topagent-core/src/approval.rs): a     *)
(* list of requests behind a Mutex, a Condvar the requesting threads sleep *)
(* on, and an operator who approves, denies, expires or supersedes from    *)
(* another thread.  One action is one critical section of the lock.        *)
(*                                                                         *)
(* A request's id "apr-<n>" is its index in `entries`: next_id is bumped   *)
(* exactly when an entry is pushed, and no entry is ever removed.          *)
(***************************************************************************)
EXTENDS Naturals, Sequences

CONSTANTS
    Requesters,  \* threads that call request_decision on this mailbox
    Actions,     \* the (action_kind, exact_action) pairs requests are keyed by
    Skills,      \* blocked skill calls recorded with a request
    Scopes,      \* grant scopes an approval can carry
    NoSkill,     \* request_decision: no pending skill (None)
    NoScope,     \* capability_scope: None
    MaxEntries   \* bound on the requests pushed in one task

ASSUME MailboxAssumption ==
    /\ MaxEntries \in Nat
    /\ NoSkill \notin Skills
    /\ NoScope \notin Scopes

VARIABLES
    mode,           \* ApprovalMailboxMode, fixed when the mailbox is made
    entries,        \* the entries, oldest first
    pendingSkills,  \* pending_skill_executions, in the order recorded
    cancelled,      \* the task's cancellation token
    pc,             \* where each requester is
    waitId,         \* the id the requester's call is about (0: no call)
    announced,      \* history: the ids the notifier was called with
    acked,          \* history: decisions acknowledged to the operator
    answer          \* what each requester's last call returned

vars == <<mode, entries, pendingSkills, cancelled, pc, waitId, announced,
          acked, answer>>

Decisions == {"Approved", "Denied", "Expired", "Superseded"}
ApprovalState == {"Pending"} \cup Decisions
Entry == [action : Actions, state : ApprovalState,
          scope : Scopes \cup {NoScope}]

NoAnswer == [id |-> 0, state |-> "Pending", scope |-> NoScope]

Ids == DOMAIN entries
Pending == {i \in Ids : entries[i].state = "Pending"}

Init ==
    /\ mode \in {"Wait", "Immediate"}
    /\ entries = << >>
    /\ pendingSkills = << >>
    /\ cancelled = FALSE
    /\ pc = [t \in Requesters |-> "idle"]
    /\ waitId = [t \in Requesters |-> 0]
    /\ announced = {}
    /\ acked = {}
    /\ answer = [t \in Requesters |-> NoAnswer]

Answer == [id : Ids, state : ApprovalState, scope : Scopes \cup {NoScope}]

-----------------------------------------------------------------------------
(* The requester's side.                                                   *)

\* Among the pending entries with the same key, the most recent one: the
\* search runs over the entries in reverse.
Joins(a, i) ==
    /\ i \in Pending
    /\ entries[i].action = a
    /\ \A j \in Pending : entries[j].action = a => j <= i

\* The blocked skill call is kept for the first caller that brings one.
RecordPendingSkill(i, s) ==
    IF s = NoSkill \/ \E k \in DOMAIN pendingSkills : pendingSkills[k].id = i
    THEN pendingSkills
    ELSE Append(pendingSkills, [id |-> i, skill |-> s])

\* request_decision_internal, under the lock, when an identical request is
\* already pending: the call attaches to it and notifies nobody.
JoinRequest(t, a, s) ==
    /\ pc[t] = "idle"
    /\ \E i \in Ids :
        /\ Joins(a, i)
        /\ pendingSkills' = RecordPendingSkill(i, s)
        /\ waitId' = [waitId EXCEPT ![t] = i]
    /\ pc' = [pc EXCEPT ![t] = "check"]
    /\ UNCHANGED <<mode, entries, cancelled, announced, acked, answer>>

\* Mutant of NewRequest: the search ran in an earlier critical section.
NewRequestUnsearched(t, a, s) ==
    /\ pc[t] = "idle"
    /\ Len(entries) < MaxEntries
    /\ entries' = Append(entries,
                    [action |-> a, state |-> "Pending", scope |-> NoScope])
    /\ pendingSkills' = RecordPendingSkill(Len(entries) + 1, s)
    /\ waitId' = [waitId EXCEPT ![t] = Len(entries) + 1]
    /\ pc' = [pc EXCEPT ![t] = "notify"]
    /\ UNCHANGED <<mode, cancelled, announced, acked, answer>>

\* request_decision_internal, under the lock, otherwise: a new pending entry.
NewRequest(t, a, s) ==
    /\ pc[t] = "idle"
    /\ \A i \in Pending : entries[i].action # a
    /\ Len(entries) < MaxEntries
    /\ entries' = Append(entries,
                    [action |-> a, state |-> "Pending", scope |-> NoScope])
    /\ pendingSkills' = RecordPendingSkill(Len(entries) + 1, s)
    /\ waitId' = [waitId EXCEPT ![t] = Len(entries) + 1]
    /\ pc' = [pc EXCEPT ![t] = "notify"]
    /\ UNCHANGED <<mode, cancelled, announced, acked, answer>>

\* Mutant of Notify: the requester starts to wait without the notifier call.
NotifyNobody(t) ==
    /\ pc[t] = "notify"
    /\ pc' = [pc EXCEPT ![t] = "check"]
    /\ UNCHANGED <<mode, entries, pendingSkills, cancelled, waitId, announced,
                   acked, answer>>

\* The notifier runs after the lock was released: the operator may have
\* decided already, and other threads may have joined.
Notify(t) ==
    /\ pc[t] = "notify"
    /\ announced' = announced \cup {waitId[t]}
    /\ pc' = [pc EXCEPT ![t] = "check"]
    /\ UNCHANGED <<mode, entries, pendingSkills, cancelled, waitId, acked,
                   answer>>

Return(t, st, sc) ==
    /\ answer' = [answer EXCEPT ![t] =
                     [id |-> waitId[t], state |-> st, scope |-> sc]]
    /\ waitId' = [waitId EXCEPT ![t] = 0]

\* wait_for_resolution finds the entry decided, or an Immediate mailbox
\* reports whatever the entry's state is.
ReturnDecision(t) ==
    /\ pc[t] = "check"
    /\ mode = "Immediate" \/ waitId[t] \notin Pending
    /\ Return(t, entries[waitId[t]].state, entries[waitId[t]].scope)
    /\ pc' = [pc EXCEPT ![t] = "idle"]
    /\ UNCHANGED <<mode, entries, pendingSkills, cancelled, announced, acked>>

\* notify_all: every sleeping requester goes back to look at its entry.
WakeAll == [t \in Requesters |-> IF pc[t] = "asleep" THEN "check" ELSE pc[t]]

\* Mutant of ReturnCancelled: the waiter reports Expired and leaves the entry.
ReturnCancelledLeaving(t) ==
    /\ pc[t] = "check"
    /\ mode = "Wait"
    /\ waitId[t] \in Pending
    /\ cancelled
    /\ Return(t, "Expired", entries[waitId[t]].scope)
    /\ pc' = [WakeAll EXCEPT ![t] = "idle"]
    /\ UNCHANGED <<mode, entries, pendingSkills, cancelled, announced, acked>>

\* wait_for_resolution finds the entry pending and the token cancelled: it
\* expires the entry itself, wakes the others and returns.
ReturnCancelled(t) ==
    /\ pc[t] = "check"
    /\ mode = "Wait"
    /\ waitId[t] \in Pending
    /\ cancelled
    /\ entries' = [entries EXCEPT ![waitId[t]].state = "Expired"]
    /\ Return(t, "Expired", entries[waitId[t]].scope)
    /\ pc' = [WakeAll EXCEPT ![t] = "idle"]
    /\ UNCHANGED <<mode, pendingSkills, cancelled, announced, acked>>

\* Nothing to report yet: wait_timeout releases the lock and sleeps.
Sleep(t) ==
    /\ pc[t] = "check"
    /\ mode = "Wait"
    /\ waitId[t] \in Pending
    /\ ~cancelled
    /\ pc' = [pc EXCEPT ![t] = "asleep"]
    /\ UNCHANGED <<mode, entries, pendingSkills, cancelled, waitId, announced,
                   acked, answer>>

\* Mutant of WakeByTimeout: wait instead of wait_timeout.
NeverWakeByTimeout(t) == FALSE /\ UNCHANGED vars

\* The 100 ms timeout of wait_timeout (or a spurious wake-up).
WakeByTimeout(t) ==
    /\ pc[t] = "asleep"
    /\ pc' = [pc EXCEPT ![t] = "check"]
    /\ UNCHANGED <<mode, entries, pendingSkills, cancelled, waitId, announced,
                   acked, answer>>

-----------------------------------------------------------------------------
(* The operator's side: the polling thread, or the CLI prompt.             *)

\* resolve_locked: the scope is stored with an approval only.
Decided(e, st, sc) ==
    [e EXCEPT !.state = st, !.scope = IF st = "Approved" THEN sc ELSE @]

\* approve, approve_with_scope and deny.  Ids that do not exist and entries
\* already decided are refused (NotFound, NotPending) and change nothing.
Resolve(i, st, sc) ==
    /\ i \in Pending
    /\ entries' = [entries EXCEPT ![i] = Decided(entries[i], st, sc)]
    /\ pc' = WakeAll
    /\ acked' = acked \cup {[id |-> i, state |-> st,
                             scope |-> Decided(entries[i], st, sc).scope]}
    /\ UNCHANGED <<mode, pendingSkills, cancelled, waitId, announced, answer>>

Approve(i) == \E sc \in Scopes \cup {NoScope} : Resolve(i, "Approved", sc)

Deny(i) == Resolve(i, "Denied", NoScope)

\* expire_pending (the task is stopped) and supersede_pending (the chat is
\* reset).  With nothing pending nobody is woken.
ResolveAllPending(st) ==
    /\ Pending # {}
    /\ entries' = [i \in Ids |->
                     IF i \in Pending
                     THEN [entries[i] EXCEPT !.state = st, !.scope = NoScope]
                     ELSE entries[i]]
    /\ pc' = WakeAll
    /\ UNCHANGED <<mode, pendingSkills, cancelled, waitId, announced, acked,
                   answer>>

\* CancellationToken::cancel, from another thread.  It knows nothing of the
\* mailbox's Condvar: a sleeping requester sees it at its next timeout.
Cancel ==
    /\ ~cancelled
    /\ cancelled' = TRUE
    /\ UNCHANGED <<mode, entries, pendingSkills, pc, waitId, announced, acked,
                   answer>>

-----------------------------------------------------------------------------
RequesterStep(t) ==
    \/ \E a \in Actions, s \in Skills \cup {NoSkill} :
          JoinRequest(t, a, s) \/ NewRequest(t, a, s)
    \/ Notify(t)
    \/ ReturnDecision(t)
    \/ ReturnCancelled(t)
    \/ Sleep(t)
    \/ WakeByTimeout(t)

OperatorStep ==
    \/ \E i \in Ids : Approve(i) \/ Deny(i)
    \/ ResolveAllPending("Expired")
    \/ ResolveAllPending("Superseded")
    \/ Cancel

Next == (\E t \in Requesters : RequesterStep(t)) \/ OperatorStep

Spec == Init /\ [][Next]_vars

\* A thread inside a call keeps running, the notifier returns, and timeouts
\* expire.  The operator and the arrival of new requests are not fair.
Fairness ==
    \A t \in Requesters :
        /\ WF_vars(Notify(t))
        /\ WF_vars(ReturnDecision(t))
        /\ WF_vars(ReturnCancelled(t))
        /\ WF_vars(Sleep(t))
        /\ WF_vars(WakeByTimeout(t))

FairSpec == Spec /\ Fairness

-----------------------------------------------------------------------------
\* Every variable has its type; a requester inside a call has an entry.
TypeOK ==
    /\ mode \in {"Wait", "Immediate"}
    /\ entries \in Seq(Entry)
    /\ pendingSkills \in Seq([id : Nat, skill : Skills])
    /\ cancelled \in BOOLEAN
    /\ pc \in [Requesters -> {"idle", "notify", "check", "asleep"}]
    /\ waitId \in [Requesters -> Nat]
    /\ \A t \in Requesters : IF pc[t] = "idle" THEN waitId[t] = 0
                                               ELSE waitId[t] \in Ids
    /\ announced \subseteq Ids
    /\ acked \subseteq {d \in Answer : d.state \in {"Approved", "Denied"}}
    /\ answer \in [Requesters -> Answer \cup {NoAnswer}]

\* Two requests for the same action are never pending at once, however the
\* requesters' calls and the operator's decisions interleave: the search and
\* the push of request_decision_internal are one critical section.
OnePendingPerAction ==
    \A i, j \in Pending : entries[i].action = entries[j].action => i = j

\* The operator and the requesters agree: a decision the operator was told
\* succeeded is the one the entry keeps, and the decision a requester's call
\* answer, with its scope, is the one the entry keeps.  No race between an
\* approval, a stop and a cancelled waiter makes two parties believe
\* different things.
DecisionsAgree ==
    /\ \A d \in acked :
          entries[d.id].state = d.state /\ entries[d.id].scope = d.scope
    /\ \A t \in Requesters :
          answer[t] # NoAnswer /\ answer[t].state # "Pending" =>
            /\ entries[answer[t].id].state = answer[t].state
            /\ entries[answer[t].id].scope = answer[t].scope

\* No lost wake-up: a requester sleeps on the Condvar only while its entry is
\* pending, so that a decision never waits for the 100 ms timeout.
SleepsOnlyWhilePending ==
    \A t \in Requesters : pc[t] = "asleep" => waitId[t] \in Pending

\* Whoever waits for a request waits for one the notifier was called with, or
\* is about to be called with by the thread that pushed it: a joining caller
\* never waits on a request the operator will not hear of.
WaitersAreAnnounced ==
    \A t \in Requesters : pc[t] \in {"check", "asleep"} =>
        \/ waitId[t] \in announced
        \/ \E u \in Requesters : pc[u] = "notify" /\ waitId[u] = waitId[t]

\* A decided entry never changes again, an entry never disappears, and the
\* action an id stands for is never replaced.
DecisionsAreFinal ==
    [][/\ Len(entries') >= Len(entries)
       /\ \A i \in Ids :
            /\ entries'[i].action = entries[i].action
            /\ entries[i].state # "Pending" => entries'[i] = entries[i]]_vars

\* A Wait-mode call returns after its entry is decided or the task stopped.
EveryDecisionIsDelivered ==
    \A t \in Requesters :
        (pc[t] # "idle" /\ (waitId[t] \notin Pending \/ cancelled))
            ~> (pc[t] = "idle")

-----------------------------------------------------------------------------
\* The mailbox implements the abstract decision protocol.
Abstract == INSTANCE ApprovalDecision WITH
    verdict <- [i \in 1 .. MaxEntries |->
                  IF i \in Ids THEN entries[i].state ELSE "Unasked"],
    told <- [t \in Requesters |->
               IF answer[t] = NoAnswer THEN [id |-> 0, state |-> "Unasked"]
               ELSE [id |-> answer[t].id, state |-> answer[t].state]]

\* Every behaviour of the mailbox is one of ApprovalDecision.
ImplementsDecision == Abstract!Spec
=============================================================================
