------------------------ MODULE ApprovalMailboxProofs ------------------------
(***************************************************************************)
(* Proofs about ApprovalMailbox, for every number of requesters, actions,  *)
(* scopes and requests.  The inductive invariant adds to the checked       *)
(* invariants one fact: every entry was announced or has its creator about *)
(* to announce it.  It is what a later caller that joins relies on.        *)
(***************************************************************************)
EXTENDS ApprovalMailbox, SequenceTheorems, TLAPS

\* The notifier hears of every entry, from the thread that pushed it.
EntriesAreAnnounced ==
    \A i \in Ids : \/ i \in announced
                   \/ \E u \in Requesters : pc[u] = "notify" /\ waitId[u] = i

IInv ==
    /\ TypeOK
    /\ OnePendingPerAction
    /\ DecisionsAgree
    /\ SleepsOnlyWhilePending
    /\ EntriesAreAnnounced

-----------------------------------------------------------------------------
(* What the actions do to the list of entries.                             *)

\* Pushing an entry keeps the others.
LEMMA PushEntry ==
    ASSUME entries \in Seq(Entry), NEW e \in Entry,
           entries' = Append(entries, e)
    PROVE  /\ entries' \in Seq(Entry)
           /\ Len(entries') = Len(entries) + 1
           /\ Ids = 1 .. Len(entries)
           /\ Ids' = 1 .. (Len(entries) + 1)
           /\ \A j \in Ids : entries'[j] = entries[j]
           /\ entries'[Len(entries) + 1] = e
  BY DEF Ids

\* Replacing one entry keeps the others.
LEMMA ReplaceEntry ==
    ASSUME entries \in Seq(Entry), NEW i \in Ids, NEW e \in Entry,
           entries' = [entries EXCEPT ![i] = e]
    PROVE  /\ entries' \in Seq(Entry)
           /\ Ids' = Ids
           /\ \A j \in Ids : entries'[j] = IF j = i THEN e ELSE entries[j]
  BY ExceptSeq DEF Ids

\* What every action leaves true of the entries: none disappears, none
\* changes its action, and a decided one does not change.
Evolves ==
    /\ entries' \in Seq(Entry)
    /\ Ids \subseteq Ids'
    /\ \A i \in Ids :
         /\ entries'[i].action = entries[i].action
         /\ entries[i].state # "Pending" => entries'[i] = entries[i]

\* resolve_all_pending rewrites the list in place.
LEMMA SweepEntries ==
    ASSUME entries \in Seq(Entry), NEW st \in Decisions,
           entries' = [i \in Ids |->
                         IF i \in Pending
                         THEN [entries[i] EXCEPT !.state = st, !.scope = NoScope]
                         ELSE entries[i]]
    PROVE  /\ Evolves
           /\ Ids' = Ids
           /\ Pending' = {}
<1>1. \A i \in Ids : entries[i] \in Entry
  BY LenProperties DEF Ids
<1>2. \A i \in Ids : [entries[i] EXCEPT !.state = st, !.scope = NoScope] \in Entry
  BY <1>1 DEF Entry, ApprovalState
<1>3. Ids' = Ids
  BY DEF Ids
<1>4. \A i \in Ids : entries'[i] \in Entry
  BY <1>1, <1>2
<1>5. entries' \in Seq(Entry)
  <2>1. Len(entries) \in Nat /\ Ids = 1 .. Len(entries)
    BY LenProperties DEF Ids
  <2>2. entries' \in [1 .. Len(entries) -> Entry]
    BY <1>4, <2>1
  <2> QED
    BY <2>1, <2>2, SeqDef
<1>6. \A i \in Ids : /\ entries'[i].action = entries[i].action
                     /\ entries'[i].state # "Pending"
                     /\ entries[i].state # "Pending" => entries'[i] = entries[i]
  BY <1>1 DEF Entry, Pending, Decisions
<1> QED
  BY <1>3, <1>5, <1>6 DEF Evolves, Pending

-----------------------------------------------------------------------------
(* The inductive invariant.                                                *)

\* A new mailbox, with every thread idle, satisfies the invariant.
THEOREM InitInvariant == Init => IInv
<1> SUFFICES ASSUME Init PROVE IInv
  OBVIOUS
<1>1. Ids = {} /\ Pending = {}
  BY DEF Init, Ids, Pending
<1>2. TypeOK
  <2>1. entries \in Seq(Entry) /\ pendingSkills \in Seq([id : Nat, skill : Skills])
    BY EmptySeq DEF Init
  <2>2. /\ pc \in [Requesters -> {"idle", "notify", "check", "asleep"}]
        /\ waitId \in [Requesters -> Nat]
        /\ \A t \in Requesters : pc[t] = "idle" /\ waitId[t] = 0
    BY DEF Init
  <2>3. answer \in [Requesters -> Answer \cup {NoAnswer}]
    BY DEF Init
  <2> QED
    BY <2>1, <2>2, <2>3 DEF Init, TypeOK
<1>3. DecisionsAgree
  BY DEF Init, DecisionsAgree, NoAnswer
<1> QED
  BY <1>1, <1>2, <1>3 DEF Init, IInv, OnePendingPerAction,
     SleepsOnlyWhilePending, EntriesAreAnnounced

\* A decision someone was told of stays what the entry says, as long as the
\* entries only evolve and what is told anew is true when told.
LEMMA AgreementKept ==
    ASSUME TypeOK, DecisionsAgree, Evolves,
           \A d \in acked' \ acked : d.id \in Ids' /\
               entries'[d.id].state = d.state /\ entries'[d.id].scope = d.scope,
           \A t \in Requesters :
               \/ answer'[t] = answer[t]
               \/ answer'[t].state = "Pending"
               \/ /\ entries'[answer'[t].id].state = answer'[t].state
                  /\ entries'[answer'[t].id].scope = answer'[t].scope
    PROVE  DecisionsAgree'
<1>1. ASSUME NEW d \in acked'
      PROVE  entries'[d.id].state = d.state /\ entries'[d.id].scope = d.scope
  <2>1. CASE d \in acked
    <3>1. d.id \in Ids /\ d.state # "Pending"
      BY <2>1 DEF TypeOK, Answer
    <3>2. entries[d.id].state = d.state /\ entries[d.id].scope = d.scope
      BY <2>1 DEF DecisionsAgree
    <3> QED
      BY <3>1, <3>2 DEF Evolves
  <2>2. CASE d \notin acked
    BY <2>2
  <2> QED
    BY <2>1, <2>2
<1>2. ASSUME NEW t \in Requesters, answer'[t] # NoAnswer,
             answer'[t].state # "Pending"
      PROVE  /\ entries'[answer'[t].id].state = answer'[t].state
             /\ entries'[answer'[t].id].scope = answer'[t].scope
  <2>1. CASE answer'[t] = answer[t]
    <3>1. answer[t].id \in Ids
      BY <2>1, <1>2 DEF TypeOK, Answer
    <3> QED
      BY <2>1, <3>1, <1>2 DEF DecisionsAgree, Evolves
  <2>2. CASE answer'[t] # answer[t]
    BY <2>2, <1>2
  <2> QED
    BY <2>1, <2>2
<1> QED
  BY <1>1, <1>2 DEF DecisionsAgree, NoAnswer

\* Steps that leave the entries and what was told of them alone: the list
\* evolves, and what the parties were told stays true.
LEMMA EntriesUntouched ==
    ASSUME IInv, UNCHANGED <<entries, acked, answer>>
    PROVE  Ids' = Ids /\ Pending' = Pending /\ OnePendingPerAction'
           /\ DecisionsAgree'
  BY DEF IInv, Ids, Pending, OnePendingPerAction, DecisionsAgree, NoAnswer

\* A recorded skill call keeps the list of skill calls well-typed.
LEMMA SkillsTyped ==
    ASSUME TypeOK, NEW i \in Nat, NEW s \in Skills \cup {NoSkill}
    PROVE  RecordPendingSkill(i, s) \in Seq([id : Nat, skill : Skills])
<1>1. pendingSkills \in Seq([id : Nat, skill : Skills])
  BY DEF TypeOK
<1>2. CASE s = NoSkill
  BY <1>1, <1>2 DEF RecordPendingSkill
<1>3. CASE s # NoSkill
  <2>1. Append(pendingSkills, [id |-> i, skill |-> s])
          \in Seq([id : Nat, skill : Skills])
    <3>1. [id |-> i, skill |-> s] \in [id : Nat, skill : Skills]
      BY <1>3
    <3> QED
      BY <1>1, <3>1, AppendProperties
  <2> QED
    BY <1>1, <2>1 DEF RecordPendingSkill
<1> QED
  BY <1>2, <1>3

\* Every step of a caller, of the operator and of the sweeps keeps it.
THEOREM NextInvariant == IInv /\ [Next]_vars => IInv'
<1> SUFFICES ASSUME IInv, [Next]_vars PROVE IInv'
  OBVIOUS
<1> USE DEF IInv
<1>0. /\ \A i \in Ids : i \in Nat
      /\ Pending \subseteq Ids
      /\ \A i \in Ids : entries[i] \in Entry
  BY LenProperties DEF TypeOK, Ids, Pending
<1>1. ASSUME NEW t \in Requesters, NEW a \in Actions,
             NEW s \in Skills \cup {NoSkill}, JoinRequest(t, a, s)
      PROVE  IInv'
  <2>1. UNCHANGED <<mode, entries, cancelled, announced, acked, answer>>
    BY <1>1 DEF JoinRequest
  <2>2. PICK i \in Ids : /\ pendingSkills' = RecordPendingSkill(i, s)
                         /\ waitId' = [waitId EXCEPT ![t] = i]
                         /\ pc' = [pc EXCEPT ![t] = "check"]
                         /\ pc[t] = "idle"
    BY <1>1 DEF JoinRequest
  <2>3. Ids' = Ids /\ Pending' = Pending /\ OnePendingPerAction'
        /\ DecisionsAgree'
    BY <2>1, EntriesUntouched
  <2>4. TypeOK'
    <3>1. pendingSkills' \in Seq([id : Nat, skill : Skills])
      BY <1>0, <2>2, SkillsTyped
    <3> QED
      BY <1>0, <2>1, <2>2, <2>3, <3>1 DEF TypeOK, Answer
  <2>5. SleepsOnlyWhilePending'
    BY <2>2, <2>3 DEF TypeOK, SleepsOnlyWhilePending
  <2>6. EntriesAreAnnounced'
    BY <2>1, <2>2, <2>3 DEF TypeOK, EntriesAreAnnounced
  <2> QED
    BY <2>3, <2>4, <2>5, <2>6
<1>2. ASSUME NEW t \in Requesters, NEW a \in Actions,
             NEW s \in Skills \cup {NoSkill}, NewRequest(t, a, s)
      PROVE  IInv'
  <2> DEFINE n == Len(entries) + 1
             e == [action |-> a, state |-> "Pending", scope |-> NoScope]
  <2>1. /\ entries' = Append(entries, e)
        /\ pendingSkills' = RecordPendingSkill(n, s)
        /\ waitId' = [waitId EXCEPT ![t] = n]
        /\ pc' = [pc EXCEPT ![t] = "notify"]
        /\ pc[t] = "idle"
        /\ \A i \in Pending : entries[i].action # a
        /\ UNCHANGED <<mode, cancelled, announced, acked, answer>>
    BY <1>2 DEF NewRequest
  <2>2. /\ entries' \in Seq(Entry)
        /\ n \in Nat
        /\ Ids = 1 .. Len(entries)
        /\ Ids' = 1 .. n
        /\ \A j \in Ids : entries'[j] = entries[j]
        /\ entries'[n] = e
    <3>1. e \in Entry
      BY DEF Entry, ApprovalState
    <3>2. entries \in Seq(Entry)
      BY DEF TypeOK
    <3> QED
      BY <2>1, <3>1, <3>2, PushEntry
  <2>3. Ids' = Ids \cup {n} /\ n \notin Ids
    BY <2>2
  <2>4. Pending' = Pending \cup {n}
    BY <2>2, <2>3 DEF Pending
  <2>5. TypeOK'
    <3>1. pendingSkills' \in Seq([id : Nat, skill : Skills])
      BY <2>1, <2>2, SkillsTyped
    <3>2. /\ waitId' \in [Requesters -> Nat]
          /\ pc' \in [Requesters -> {"idle", "notify", "check", "asleep"}]
          /\ \A u \in Requesters : IF pc'[u] = "idle" THEN waitId'[u] = 0
                                                      ELSE waitId'[u] \in Ids'
      BY <2>1, <2>2, <2>3 DEF TypeOK
    <3>3. answer' \in [Requesters -> Answer' \cup {NoAnswer}]
      <4>1. Answer \subseteq Answer'
        BY <2>3 DEF Answer
      <4> QED
        BY <4>1, <2>1 DEF TypeOK
    <3> QED
      BY <2>1, <2>2, <2>3, <3>1, <3>2, <3>3 DEF TypeOK, Answer, NoAnswer
  <2>6. OnePendingPerAction'
    BY <1>0, <2>1, <2>2, <2>3, <2>4 DEF OnePendingPerAction
  <2>7. DecisionsAgree'
    <3>1. Evolves
      BY <1>0, <2>2, <2>3 DEF Evolves
    <3> QED
      BY <3>1, <2>1, AgreementKept
  <2>8. SleepsOnlyWhilePending'
    BY <2>1, <2>4 DEF TypeOK, SleepsOnlyWhilePending
  <2>9. EntriesAreAnnounced'
    BY <2>1, <2>3 DEF TypeOK, EntriesAreAnnounced
  <2> QED
    BY <2>5, <2>6, <2>7, <2>8, <2>9
<1>3. ASSUME NEW t \in Requesters, Notify(t)
      PROVE  IInv'
  <2>1. /\ UNCHANGED <<mode, entries, pendingSkills, cancelled, waitId, acked,
                       answer>>
        /\ announced' = announced \cup {waitId[t]}
        /\ pc' = [pc EXCEPT ![t] = "check"]
        /\ pc[t] = "notify"
    BY <1>3 DEF Notify
  <2>2. Ids' = Ids /\ Pending' = Pending /\ OnePendingPerAction'
        /\ DecisionsAgree'
    BY <2>1, EntriesUntouched
  <2>3. TypeOK'
    BY <2>1, <2>2 DEF TypeOK, Answer
  <2>4. SleepsOnlyWhilePending'
    BY <2>1, <2>2 DEF TypeOK, SleepsOnlyWhilePending
  <2>5. EntriesAreAnnounced'
    BY <2>1, <2>2 DEF TypeOK, EntriesAreAnnounced
  <2> QED
    BY <2>2, <2>3, <2>4, <2>5
<1>4. ASSUME NEW t \in Requesters, ReturnDecision(t)
      PROVE  IInv'
  <2> DEFINE w == waitId[t]
  <2>1. /\ UNCHANGED <<mode, entries, pendingSkills, cancelled, announced,
                       acked>>
        /\ answer' = [answer EXCEPT ![t] = [id |-> w,
                        state |-> entries[w].state, scope |-> entries[w].scope]]
        /\ waitId' = [waitId EXCEPT ![t] = 0]
        /\ pc' = [pc EXCEPT ![t] = "idle"]
        /\ pc[t] = "check"
    BY <1>4 DEF ReturnDecision, Return
  <2>2. Ids' = Ids /\ Pending' = Pending /\ w \in Ids
    BY <2>1 DEF Ids, Pending, TypeOK
  <2>3. TypeOK'
    <3>1. [id |-> w, state |-> entries[w].state, scope |-> entries[w].scope]
            \in Answer
      BY <1>0, <2>2 DEF Answer, Entry
    <3> QED
      BY <2>1, <2>2, <3>1 DEF TypeOK, Answer
  <2>4. OnePendingPerAction'
    BY <2>1, <2>2 DEF OnePendingPerAction
  <2>5. DecisionsAgree'
    <3>1. Evolves
      BY <2>1, <2>2 DEF Evolves, TypeOK
    <3>2. \A u \in Requesters :
            \/ answer'[u] = answer[u]
            \/ /\ entries'[answer'[u].id].state = answer'[u].state
               /\ entries'[answer'[u].id].scope = answer'[u].scope
      BY <2>1 DEF TypeOK
    <3> QED
      BY <2>1, <3>1, <3>2, AgreementKept
  <2>6. SleepsOnlyWhilePending'
    BY <2>1, <2>2 DEF TypeOK, SleepsOnlyWhilePending
  <2>7. EntriesAreAnnounced'
    BY <2>1, <2>2 DEF TypeOK, EntriesAreAnnounced
  <2> QED
    BY <2>3, <2>4, <2>5, <2>6, <2>7
<1>5. ASSUME NEW t \in Requesters, ReturnCancelled(t)
      PROVE  IInv'
  <2> DEFINE w == waitId[t]
             e == [entries[w] EXCEPT !.state = "Expired"]
  <2>1. /\ UNCHANGED <<mode, pendingSkills, cancelled, announced, acked>>
        /\ entries' = [entries EXCEPT ![w].state = "Expired"]
        /\ answer' = [answer EXCEPT ![t] = [id |-> w, state |-> "Expired",
                                            scope |-> entries[w].scope]]
        /\ waitId' = [waitId EXCEPT ![t] = 0]
        /\ pc' = [WakeAll EXCEPT ![t] = "idle"]
        /\ pc[t] = "check"
        /\ w \in Pending
    BY <1>5 DEF ReturnCancelled, Return
  <2>2. e \in Entry /\ e.action = entries[w].action /\ e.scope = entries[w].scope
        /\ e.state = "Expired"
    BY <1>0, <2>1 DEF Entry, ApprovalState, Decisions
  <2>3. /\ entries' \in Seq(Entry)
        /\ Ids' = Ids
        /\ \A j \in Ids : entries'[j] = IF j = w THEN e ELSE entries[j]
    <3>1. entries \in Seq(Entry) /\ w \in Ids /\ entries' = [entries EXCEPT ![w] = e]
      BY <1>0, <2>1 DEF TypeOK
    <3> QED
      BY <2>2, <3>1, ReplaceEntry
  <2>4. Pending' = Pending \ {w}
    BY <1>0, <2>1, <2>2, <2>3 DEF Pending
  <2>5. TypeOK'
    <3>1. [id |-> w, state |-> "Expired", scope |-> entries[w].scope] \in Answer
      BY <1>0, <2>1 DEF Answer, Entry, ApprovalState, Decisions
    <3> QED
      BY <2>1, <2>3, <3>1 DEF TypeOK, Answer, WakeAll
  <2>6. OnePendingPerAction'
    BY <1>0, <2>3, <2>4 DEF OnePendingPerAction
  <2>7. DecisionsAgree'
    <3>1. Evolves
      BY <2>1, <2>2, <2>3 DEF Evolves, Pending
    <3>2. \A u \in Requesters :
            \/ answer'[u] = answer[u]
            \/ /\ entries'[answer'[u].id].state = answer'[u].state
               /\ entries'[answer'[u].id].scope = answer'[u].scope
      BY <1>0, <2>1, <2>2, <2>3 DEF TypeOK
    <3> QED
      BY <2>1, <3>1, <3>2, AgreementKept
  <2>8. SleepsOnlyWhilePending'
    BY <2>1 DEF TypeOK, SleepsOnlyWhilePending, WakeAll
  <2>9. EntriesAreAnnounced'
    BY <2>1, <2>3 DEF TypeOK, EntriesAreAnnounced, WakeAll
  <2> QED
    BY <2>5, <2>6, <2>7, <2>8, <2>9
<1>6. ASSUME NEW t \in Requesters, Sleep(t) \/ WakeByTimeout(t)
      PROVE  IInv'
  <2>1. /\ UNCHANGED <<mode, entries, pendingSkills, cancelled, waitId,
                       announced, acked, answer>>
        /\ \/ pc' = [pc EXCEPT ![t] = "asleep"] /\ waitId[t] \in Pending
           \/ pc' = [pc EXCEPT ![t] = "check"]
        /\ pc[t] \in {"check", "asleep"}
    BY <1>6 DEF Sleep, WakeByTimeout
  <2>2. Ids' = Ids /\ Pending' = Pending /\ OnePendingPerAction'
        /\ DecisionsAgree'
    BY <2>1, EntriesUntouched
  <2>3. TypeOK'
    BY <2>1, <2>2 DEF TypeOK, Answer
  <2>4. SleepsOnlyWhilePending'
    BY <2>1, <2>2 DEF TypeOK, SleepsOnlyWhilePending
  <2>5. EntriesAreAnnounced'
    BY <2>1, <2>2 DEF TypeOK, EntriesAreAnnounced
  <2> QED
    BY <2>2, <2>3, <2>4, <2>5
<1>7. ASSUME NEW i \in Ids, NEW st \in {"Approved", "Denied"},
             NEW sc \in Scopes \cup {NoScope}, Resolve(i, st, sc)
      PROVE  IInv'
  <2> DEFINE e == Decided(entries[i], st, sc)
             d == [id |-> i, state |-> st, scope |-> e.scope]
  <2>1. /\ UNCHANGED <<mode, pendingSkills, cancelled, waitId, announced,
                       answer>>
        /\ entries' = [entries EXCEPT ![i] = e]
        /\ acked' = acked \cup {d}
        /\ pc' = WakeAll
        /\ i \in Pending
    BY <1>7 DEF Resolve
  <2>2. e \in Entry /\ e.action = entries[i].action /\ e.state = st
    BY <1>0 DEF Entry, ApprovalState, Decisions, Decided
  <2>3. /\ entries' \in Seq(Entry)
        /\ Ids' = Ids
        /\ \A j \in Ids : entries'[j] = IF j = i THEN e ELSE entries[j]
    <3>1. entries \in Seq(Entry)
      BY DEF TypeOK
    <3> QED
      BY <2>1, <2>2, <3>1, ReplaceEntry
  <2>4. Pending' = Pending \ {i}
    BY <2>1, <2>2, <2>3 DEF Pending
  <2>5. TypeOK'
    <3>1. d \in Answer
      BY <2>2 DEF Answer, Entry, ApprovalState, Decisions
    <3>2. pc' \in [Requesters -> {"idle", "notify", "check", "asleep"}]
          /\ \A u \in Requesters : pc'[u] = "idle" <=> pc[u] = "idle"
      BY <2>1 DEF TypeOK, WakeAll
    <3>3. Answer' = Answer
      BY <2>3 DEF Answer
    <3>4. acked' \subseteq {x \in Answer' : x.state \in {"Approved", "Denied"}}
      BY <2>1, <3>1, <3>3 DEF TypeOK
    <3> QED
      BY <2>1, <2>3, <3>2, <3>3, <3>4 DEF TypeOK
  <2>6. OnePendingPerAction'
    BY <1>0, <2>3, <2>4 DEF OnePendingPerAction
  <2>7. DecisionsAgree'
    <3>1. Evolves
      BY <2>1, <2>2, <2>3 DEF Evolves, Pending
    <3>2. entries'[i].state = d.state /\ entries'[i].scope = d.scope
      BY <2>2, <2>3
    <3>3. \A x \in acked' \ acked : x.id \in Ids' /\
            entries'[x.id].state = x.state /\ entries'[x.id].scope = x.scope
      BY <2>1, <2>3, <3>2
    <3> QED
      BY <2>1, <3>1, <3>3, AgreementKept
  <2>8. SleepsOnlyWhilePending'
    BY <2>1 DEF TypeOK, SleepsOnlyWhilePending, WakeAll
  <2>9. EntriesAreAnnounced'
    BY <2>1, <2>3 DEF TypeOK, EntriesAreAnnounced, WakeAll
  <2> QED
    BY <2>5, <2>6, <2>7, <2>8, <2>9
<1>8. ASSUME NEW st \in Decisions, ResolveAllPending(st)
      PROVE  IInv'
  <2>1. /\ UNCHANGED <<mode, pendingSkills, cancelled, waitId, announced,
                       acked, answer>>
        /\ pc' = WakeAll
    BY <1>8 DEF ResolveAllPending
  <2>2. Evolves /\ Ids' = Ids /\ Pending' = {}
    BY <1>8, SweepEntries DEF ResolveAllPending, TypeOK
  <2>3. TypeOK'
    <3>1. pc' \in [Requesters -> {"idle", "notify", "check", "asleep"}]
          /\ \A u \in Requesters : pc'[u] = "idle" <=> pc[u] = "idle"
      BY <2>1 DEF TypeOK, WakeAll
    <3> QED
      BY <2>1, <2>2, <3>1 DEF TypeOK, Answer, Evolves
  <2>4. OnePendingPerAction'
    BY <2>2 DEF OnePendingPerAction
  <2>5. DecisionsAgree'
    BY <2>1, <2>2, AgreementKept
  <2>6. SleepsOnlyWhilePending'
    BY <2>1 DEF TypeOK, SleepsOnlyWhilePending, WakeAll
  <2>7. EntriesAreAnnounced'
    BY <2>1, <2>2 DEF TypeOK, EntriesAreAnnounced, WakeAll
  <2> QED
    BY <2>3, <2>4, <2>5, <2>6, <2>7
<1>9. ASSUME Cancel \/ UNCHANGED vars
      PROVE  IInv'
  <2>1. /\ UNCHANGED <<mode, entries, pendingSkills, pc, waitId, announced,
                       acked, answer>>
        /\ cancelled' \in BOOLEAN
    BY <1>9 DEF Cancel, vars, TypeOK
  <2>2. Ids' = Ids /\ Pending' = Pending /\ OnePendingPerAction'
        /\ DecisionsAgree'
    BY <2>1, EntriesUntouched
  <2>3. TypeOK' /\ SleepsOnlyWhilePending' /\ EntriesAreAnnounced'
    BY <2>1, <2>2 DEF TypeOK, Answer, SleepsOnlyWhilePending,
       EntriesAreAnnounced
  <2> QED
    BY <2>2, <2>3
<1> QED
  BY <1>1, <1>2, <1>3, <1>4, <1>5, <1>6, <1>7, <1>8, <1>9
     DEF Next, RequesterStep, OperatorStep, Approve, Deny, Decisions

-----------------------------------------------------------------------------
(* The results.                                                            *)

\* The inductive invariant holds in every reachable state.
THEOREM Invariance == Spec => []IInv
<1>1. Init => IInv
  BY InitInvariant
<1>2. IInv /\ [Next]_vars => IInv'
  BY NextInvariant
<1> QED
  BY <1>1, <1>2, PTL DEF Spec

\* Type correctness.
THEOREM TypeCorrect == Spec => []TypeOK
<1>1. IInv => TypeOK
  BY DEF IInv
<1> QED
  BY <1>1, Invariance, PTL

\* Two requests for the same action are never pending together.
THEOREM NoDuplicateRequests == Spec => []OnePendingPerAction
<1>1. IInv => OnePendingPerAction
  BY DEF IInv
<1> QED
  BY <1>1, Invariance, PTL

\* What the operator was told, what the requesters were told and what the
\* entries say is one and the same decision.
THEOREM EveryoneAgrees == Spec => []DecisionsAgree
<1>1. IInv => DecisionsAgree
  BY DEF IInv
<1> QED
  BY <1>1, Invariance, PTL

\* No decision is ever missed by a sleeping requester.
THEOREM NoLostWakeUp == Spec => []SleepsOnlyWhilePending
<1>1. IInv => SleepsOnlyWhilePending
  BY DEF IInv
<1> QED
  BY <1>1, Invariance, PTL

\* Whoever waits, waits for a request the operator hears of.
THEOREM NobodyWaitsUnheard == Spec => []WaitersAreAnnounced
<1>1. IInv => WaitersAreAnnounced
  <2> SUFFICES ASSUME IInv, NEW t \in Requesters, pc[t] \in {"check", "asleep"}
               PROVE  \/ waitId[t] \in announced
                      \/ \E u \in Requesters :
                            pc[u] = "notify" /\ waitId[u] = waitId[t]
    BY DEF WaitersAreAnnounced
  <2>1. waitId[t] \in Ids
    BY DEF IInv, TypeOK
  <2> QED
    BY <2>1 DEF IInv, EntriesAreAnnounced
<1> QED
  BY <1>1, Invariance, PTL

-----------------------------------------------------------------------------
(* How the entries evolve, and the two results that follow.                *)

\* The entries an action leaves alone evolve trivially.
LEMMA StutterEvolves ==
    ASSUME TypeOK, UNCHANGED entries
    PROVE  Evolves
  BY DEF TypeOK, Evolves, Ids

\* A step only appends requests, decides pending ones or records a skill in
\* them, and stays within the bound on requests if it was within it.
LEMMA StepEvolves ==
    ASSUME TypeOK, [Next]_vars
    PROVE  Evolves /\ (Len(entries) <= MaxEntries => Len(entries') <= MaxEntries)
<1>0. /\ entries \in Seq(Entry)
      /\ Ids = 1 .. Len(entries)
      /\ Len(entries) \in Nat
      /\ \A i \in Ids : entries[i] \in Entry
  BY LenProperties DEF TypeOK, Ids
<1>1. ASSUME NEW t \in Requesters, NEW a \in Actions,
             NEW s \in Skills \cup {NoSkill}, NewRequest(t, a, s)
      PROVE  Evolves /\ Len(entries') <= MaxEntries
  <2> DEFINE e == [action |-> a, state |-> "Pending", scope |-> NoScope]
  <2>1. e \in Entry
    BY DEF Entry, ApprovalState
  <2>2. entries' = Append(entries, e) /\ Len(entries) < MaxEntries
    BY <1>1 DEF NewRequest
  <2>3. /\ entries' \in Seq(Entry)
        /\ Len(entries') = Len(entries) + 1
        /\ Ids' = 1 .. (Len(entries) + 1)
        /\ \A j \in Ids : entries'[j] = entries[j]
    BY <1>0, <2>1, <2>2, PushEntry
  <2> QED
    BY <1>0, <2>2, <2>3, MailboxAssumption DEF Evolves
<1>2. ASSUME NEW i \in Ids, NEW e \in Entry, i \in Pending,
             entries' = [entries EXCEPT ![i] = e],
             e.action = entries[i].action
      PROVE  Evolves /\ Len(entries') = Len(entries)
  <2>1. /\ entries' \in Seq(Entry)
        /\ Ids' = Ids
        /\ \A j \in Ids : entries'[j] = IF j = i THEN e ELSE entries[j]
    BY <1>0, <1>2, ReplaceEntry
  <2>2. Len(entries') = Len(entries)
    BY <1>0, <1>2, ExceptSeq
  <2> QED
    BY <1>2, <2>1, <2>2 DEF Evolves, Pending
<1>3. ASSUME NEW t \in Requesters, ReturnCancelled(t)
      PROVE  Evolves /\ Len(entries') = Len(entries)
  <2> DEFINE e == [entries[waitId[t]] EXCEPT !.state = "Expired"]
  <2>1. waitId[t] \in Pending /\ waitId[t] \in Ids
        /\ entries' = [entries EXCEPT ![waitId[t]] = e]
    BY <1>3 DEF ReturnCancelled, Pending
  <2>2. e \in Entry /\ e.action = entries[waitId[t]].action
    BY <1>0, <2>1 DEF Entry, ApprovalState, Decisions
  <2> QED
    BY <1>2, <2>1, <2>2
<1>4. ASSUME NEW i \in Ids, NEW st \in {"Approved", "Denied"},
             NEW sc \in Scopes \cup {NoScope}, Resolve(i, st, sc)
      PROVE  Evolves /\ Len(entries') = Len(entries)
  <2> DEFINE e == Decided(entries[i], st, sc)
  <2>1. i \in Pending /\ entries' = [entries EXCEPT ![i] = e]
    BY <1>4 DEF Resolve
  <2>2. e \in Entry /\ e.action = entries[i].action
    BY <1>0 DEF Entry, ApprovalState, Decisions, Decided
  <2> QED
    BY <1>2, <2>1, <2>2
<1>5. ASSUME NEW st \in Decisions, ResolveAllPending(st)
      PROVE  Evolves /\ Len(entries') = Len(entries)
  <2>1. Evolves /\ Ids' = Ids
    BY <1>0, <1>5, SweepEntries DEF ResolveAllPending
  <2>2. Len(entries') \in Nat /\ Ids' = 1 .. Len(entries')
    BY <2>1, LenProperties DEF Evolves, Ids
  <2> QED
    BY <1>0, <2>1, <2>2
<1>6. CASE UNCHANGED entries
  BY <1>6, StutterEvolves
<1> QED
  BY <1>1, <1>3, <1>4, <1>5, <1>6
     DEF Next, vars, RequesterStep, OperatorStep, Approve, Deny, Decisions,
         JoinRequest, Notify, ReturnDecision, Sleep, WakeByTimeout, Cancel

\* A decided entry never changes, no entry disappears or changes its action.
THEOREM Finality == Spec => DecisionsAreFinal
<1> DEFINE Step == /\ Len(entries') >= Len(entries)
                   /\ \A i \in Ids :
                        /\ entries'[i].action = entries[i].action
                        /\ entries[i].state # "Pending" => entries'[i] = entries[i]
<1>1. ASSUME TypeOK, [Next]_vars PROVE Step
  <2>1. Evolves
    BY <1>1, StepEvolves
  <2>2. /\ Len(entries) \in Nat /\ Ids = 1 .. Len(entries)
        /\ Len(entries') \in Nat /\ Ids' = 1 .. Len(entries')
    BY <1>1, <2>1, LenProperties DEF Evolves, TypeOK, Ids
  <2> QED
    BY <2>1, <2>2 DEF Evolves
<1>2. TypeOK /\ [Next]_vars => [Step]_vars
  BY <1>1
<1> QED
  BY <1>2, TypeCorrect, PTL DEF Spec, DecisionsAreFinal

-----------------------------------------------------------------------------
(* The mailbox implements ApprovalDecision: the mapped variables are the   *)
(* state of each id, and the last thing each requester was told.           *)

Verdict == [i \in 1 .. MaxEntries |->
              IF i \in Ids THEN entries[i].state ELSE "Unasked"]
Told == [t \in Requesters |->
           IF answer[t] = NoAnswer THEN [id |-> 0, state |-> "Unasked"]
           ELSE [id |-> answer[t].id, state |-> answer[t].state]]

\* The refinement needs the bound too: the abstract ids are 1 .. MaxEntries.
Bounded == IInv /\ Len(entries) <= MaxEntries

\* The invariant and the bound hold in every reachable state.
THEOREM BoundedInvariance == Spec => []Bounded
<1>1. Init => Bounded
  <2> SUFFICES ASSUME Init PROVE Len(entries) <= MaxEntries
    BY InitInvariant DEF Bounded
  <2> QED
    BY MailboxAssumption, EmptySeq DEF Init
<1>2. Bounded /\ [Next]_vars => Bounded'
  BY NextInvariant, StepEvolves DEF Bounded, IInv
<1> QED
  BY <1>1, <1>2, PTL DEF Spec

\* A step that changes neither the entries nor the answers is a stutter.
LEMMA MappedStutter ==
    ASSUME UNCHANGED <<entries, answer>>
    PROVE  UNCHANGED <<Verdict, Told>>
  BY DEF Verdict, Told, Ids

\* A requester's return tells it what the mapping says of its request.
LEMMA MappedTell ==
    ASSUME Bounded, NEW t \in Requesters, waitId[t] \in Ids,
           NEW st, NEW sc,
           answer' = [answer EXCEPT ![t] =
                        [id |-> waitId[t], state |-> st, scope |-> sc]]
    PROVE  /\ waitId[t] \in 1 .. MaxEntries
           /\ Told' = [Told EXCEPT ![t] = [id |-> waitId[t], state |-> st]]
<1>1. waitId[t] \in 1 .. MaxEntries
  BY MailboxAssumption, LenProperties DEF Bounded, IInv, TypeOK, Ids
<1>2. [id |-> waitId[t], state |-> st, scope |-> sc] # NoAnswer
  BY <1>1 DEF NoAnswer
<1>3. \A u \in Requesters : answer'[u] =
         IF u = t THEN [id |-> waitId[t], state |-> st, scope |-> sc] ELSE answer[u]
  BY DEF Bounded, IInv, TypeOK
<1>4. \A u \in Requesters : Told'[u] =
         IF u = t THEN [id |-> waitId[t], state |-> st] ELSE Told[u]
  BY <1>2, <1>3 DEF Told
<1>5. Told' = [Told EXCEPT ![t] = [id |-> waitId[t], state |-> st]]
  BY <1>4 DEF Told
<1> QED
  BY <1>1, <1>5

\* A new mailbox maps to the abstract state where nothing was asked.
LEMMA InitRefines == Init => Abstract!Init
<1> SUFFICES ASSUME Init PROVE Abstract!Init
  OBVIOUS
<1>1. Ids = {} /\ answer = [t \in Requesters |-> NoAnswer]
  BY DEF Init, Ids
<1> QED
  BY <1>1 DEF Abstract!Init, Abstract!Ids

\* Every step of the mailbox maps to a step of the abstract decision protocol
\* (ask, decide, tell) or changes nothing in it.
LEMMA StepRefines == Bounded /\ [Next]_vars => [Abstract!Next]_(Abstract!vars)
<1> SUFFICES ASSUME Bounded, [Next]_vars
             PROVE  Abstract!Next \/ UNCHANGED <<Verdict, Told>>
  BY DEF Abstract!vars, Verdict, Told
<1>0. /\ entries \in Seq(Entry)
      /\ Ids = 1 .. Len(entries)
      /\ Ids \subseteq 1 .. MaxEntries
      /\ Len(entries) \in Nat
      /\ \A i \in Ids : entries[i] \in Entry
      /\ \A i \in Ids : entries[i].state # "Unasked"
      /\ \A t \in Requesters : pc[t] # "idle" => waitId[t] \in Ids
  <2>1. /\ entries \in Seq(Entry) /\ Ids = 1 .. Len(entries)
        /\ Len(entries) \in Nat /\ Len(entries) <= MaxEntries
        /\ \A i \in Ids : entries[i] \in Entry
    BY LenProperties DEF Bounded, IInv, TypeOK, Ids
  <2>2. \A i \in Ids : entries[i].state # "Unasked"
    BY <2>1 DEF Entry, ApprovalState, Decisions
  <2> QED
    BY <2>1, <2>2, MailboxAssumption DEF Bounded, IInv, TypeOK
<1>1. ASSUME NEW t \in Requesters, NEW a \in Actions,
             NEW s \in Skills \cup {NoSkill}, NewRequest(t, a, s)
      PROVE  Abstract!Ask
  <2> DEFINE n == Len(entries) + 1
             e == [action |-> a, state |-> "Pending", scope |-> NoScope]
  <2>1. entries' = Append(entries, e) /\ Len(entries) < MaxEntries
        /\ UNCHANGED answer
    BY <1>1 DEF NewRequest
  <2>2. /\ Ids' = 1 .. n
        /\ \A j \in Ids : entries'[j] = entries[j]
        /\ entries'[n] = e
    <3>1. e \in Entry
      BY DEF Entry, ApprovalState
    <3> QED
      BY <1>0, <2>1, <3>1, PushEntry
  <2>3. /\ n \in 1 .. MaxEntries
        /\ Verdict[n] = "Unasked"
        /\ \A j \in 1 .. MaxEntries : j < n => Verdict[j] # "Unasked"
    <3>1. n \in 1 .. MaxEntries /\ n \notin Ids
      BY <1>0, <2>1, MailboxAssumption
    <3>2. \A j \in 1 .. MaxEntries : j < n => j \in Ids
      BY <1>0
    <3> QED
      BY <1>0, <3>1, <3>2 DEF Verdict
  <2>4. Verdict' = [Verdict EXCEPT ![n] = "Pending"]
    <3>1. entries'[n].state = "Pending" /\ n \in Ids'
      BY <1>0, <2>2
    <3>2. \A j \in 1 .. MaxEntries : j # n =>
            (j \in Ids' <=> j \in Ids) /\ (j \in Ids => entries'[j] = entries[j])
      BY <1>0, <2>2
    <3> HIDE DEF n
    <3> QED
      BY <2>3, <3>1, <3>2 DEF Verdict
  <2>5. UNCHANGED Told
    BY <2>1 DEF Told
  <2> QED
    BY <2>3, <2>4, <2>5 DEF Abstract!Ask, Abstract!Ids, Verdict, Told
<1>2. ASSUME NEW t \in Requesters, ReturnDecision(t)
      PROVE  Abstract!Tell
  <2>1. /\ UNCHANGED entries
        /\ waitId[t] \in Ids
        /\ answer' = [answer EXCEPT ![t] =
                        [id |-> waitId[t], state |-> entries[waitId[t]].state,
                         scope |-> entries[waitId[t]].scope]]
    BY <1>0, <1>2 DEF ReturnDecision, Return
  <2>2. /\ waitId[t] \in 1 .. MaxEntries
        /\ Told' = [Told EXCEPT ![t] = [id |-> waitId[t],
                                        state |-> entries[waitId[t]].state]]
    BY <2>1, MappedTell
  <2>3. Verdict[waitId[t]] = entries[waitId[t]].state /\ UNCHANGED Verdict
    BY <2>1, <2>2 DEF Verdict, Ids
  <2> QED
    BY <1>0, <2>1, <2>2, <2>3 DEF Abstract!Tell, Abstract!Ids, Verdict, Told
<1>3. ASSUME NEW t \in Requesters, ReturnCancelled(t)
      PROVE  Abstract!GiveUp
  <2> DEFINE w == waitId[t]
             e == [entries[w] EXCEPT !.state = "Expired"]
  <2>1. /\ w \in Pending /\ w \in Ids
        /\ entries' = [entries EXCEPT ![w] = e]
        /\ answer' = [answer EXCEPT ![t] = [id |-> w, state |-> "Expired",
                                            scope |-> entries[w].scope]]
    BY <1>3 DEF ReturnCancelled, Return, Pending
  <2>2. w \in 1 .. MaxEntries
        /\ Told' = [Told EXCEPT ![t] = [id |-> w, state |-> "Expired"]]
    BY <2>1, MappedTell
  <2>3. Ids' = Ids /\ \A j \in Ids : entries'[j].state =
                         IF j = w THEN "Expired" ELSE entries[j].state
    <3>1. e \in Entry /\ e.state = "Expired"
      BY <1>0, <2>1 DEF Entry, ApprovalState, Decisions
    <3>2. Ids' = Ids
          /\ \A j \in Ids : entries'[j] = IF j = w THEN e ELSE entries[j]
      <4>1. entries \in Seq(Entry)
        BY <1>0
      <4> QED
        BY <2>1, <3>1, <4>1, ReplaceEntry
    <3> HIDE DEF e
    <3> QED
      BY <3>1, <3>2
  <2>4. Verdict[w] = "Pending" /\ Verdict' = [Verdict EXCEPT ![w] = "Expired"]
    BY <2>1, <2>2, <2>3 DEF Verdict, Pending
  <2> QED
    BY <2>2, <2>4 DEF Abstract!GiveUp, Abstract!Ids, Verdict, Told
<1>4. ASSUME NEW i \in Ids, NEW st \in {"Approved", "Denied"},
             NEW sc \in Scopes \cup {NoScope}, Resolve(i, st, sc)
      PROVE  Abstract!Decide
  <2> DEFINE e == Decided(entries[i], st, sc)
  <2>1. i \in Pending /\ entries' = [entries EXCEPT ![i] = e] /\ UNCHANGED answer
    BY <1>4 DEF Resolve
  <2>2. Ids' = Ids /\ \A j \in Ids : entries'[j].state =
                         IF j = i THEN st ELSE entries[j].state
    <3>1. e \in Entry /\ e.state = st
      BY <1>0 DEF Entry, ApprovalState, Decisions, Decided
    <3>2. Ids' = Ids
          /\ \A j \in Ids : entries'[j] = IF j = i THEN e ELSE entries[j]
      <4>1. entries \in Seq(Entry) /\ i \in Ids
        BY <1>0, <2>1 DEF Pending
      <4> QED
        BY <2>1, <3>1, <4>1, ReplaceEntry
    <3> HIDE DEF e
    <3> QED
      BY <3>1, <3>2
  <2>3. Verdict' = [j \in 1 .. MaxEntries |-> IF j \in {i} THEN st ELSE Verdict[j]]
    BY <1>0, <2>2 DEF Verdict
  <2>4. {i} \in SUBSET (1 .. MaxEntries) /\ \A j \in {i} : Verdict[j] = "Pending"
    BY <1>0, <2>1 DEF Verdict, Pending
  <2>5. UNCHANGED Told /\ st \in Abstract!Verdicts
    BY <2>1 DEF Told, Abstract!Verdicts
  <2> QED
    BY <2>3, <2>4, <2>5 DEF Abstract!Decide, Abstract!Ids, Verdict, Told
<1>5. ASSUME NEW st \in {"Expired", "Superseded"}, ResolveAllPending(st)
      PROVE  Abstract!Decide
  <2>1. /\ entries' = [i \in Ids |->
                         IF i \in Pending
                         THEN [entries[i] EXCEPT !.state = st, !.scope = NoScope]
                         ELSE entries[i]]
        /\ UNCHANGED answer
    BY <1>5 DEF ResolveAllPending
  <2>2. Ids' = Ids /\ \A j \in Ids : entries'[j].state =
                         IF j \in Pending THEN st ELSE entries[j].state
    BY <1>0, <2>1 DEF Ids, Entry
  <2>3. Verdict' = [j \in 1 .. MaxEntries |->
                      IF j \in Pending THEN st ELSE Verdict[j]]
    BY <1>0, <2>2 DEF Verdict, Pending
  <2>4. Pending \in SUBSET (1 .. MaxEntries)
        /\ \A j \in Pending : Verdict[j] = "Pending"
    BY <1>0 DEF Verdict, Pending
  <2>5. UNCHANGED Told /\ st \in Abstract!Verdicts
    BY <2>1 DEF Told, Abstract!Verdicts
  <2> QED
    BY <2>3, <2>4, <2>5 DEF Abstract!Decide, Abstract!Ids, Verdict, Told
<1>6. CASE UNCHANGED <<entries, answer>>
  BY <1>6, MappedStutter
<1> QED
  BY <1>1, <1>2, <1>3, <1>4, <1>5, <1>6
     DEF Next, vars, RequesterStep, OperatorStep, Approve, Deny, Abstract!Next,
         JoinRequest, Notify, Sleep, WakeByTimeout, Cancel

\* Every behaviour of the mailbox is a behaviour of ApprovalDecision.
THEOREM Implementation == Spec => ImplementsDecision
  BY InitRefines, StepRefines, BoundedInvariance, PTL
     DEF Spec, ImplementsDecision, Abstract!Spec
=============================================================================
