------------------------ MODULE AccessControlProofs ------------------------
(***************************************************************************)
(* Proofs about AccessControl, for any number of chats and tasks, any      *)
(* requests and grants, any number of commands by either way, and restarts *)
(* anywhere; and about AccessProfile, SkillAdmission and TurnExposure,     *)
(* for every configuration, any requests and any calls.                    *)
(***************************************************************************)
EXTENDS AccessControl, TurnExposure, WellFoundedInduction, TLAPS

-----------------------------------------------------------------------------
(* The inductive invariant.                                                *)

\* The first n grants are numbered in the order made, and one for a single use
\* has it left.
Orderly(d, n) ==
    /\ \A g \in d.grants : g.id <= n /\ (g.scope = "Once" => g.uses = 1)
    /\ \A g, h \in d.grants : g.id = h.id => g = h

\* A document for the file has no temporary grant but of `topagent access`.
Lasting(d) == \A g \in d.grants : MayBeRestored(g.reason) \/ ~Temporary(g)

\* The memory marks no other temporary grant as one to be kept.
Marked(d) ==
    \A g \in d.grants :
        g.persisted => MayBeRestored(g.reason) \/ ~Temporary(g)

\* What no step changes of a grant.
MarkOf(g) == [id |-> g.id, scope |-> g.scope, reason |-> g.reason]
MarksOf(d) == {MarkOf(g) : g \in d.grants}

\* The grants there are in any document and those that were used.
AllMarks ==
    MarksOf(memory) \cup MarksOf(store.doc)
        \cup (UNION {MarksOf(draft[th]) : th \in Threads})
        \cup {MarkOf(u) : u \in used}

\* However many documents list a grant, and long after it was used, its number
\* says what scope it has and who made it.
MarksHold == \A x, y \in AllMarks : x.id = y.id => x = y

MemoryHolds == Orderly(memory, made) /\ Marked(memory)

FilesHold ==
    /\ Orderly(store.doc, made) /\ Lasting(store.doc)
    /\ \A th \in Threads : Orderly(draft[th], made) /\ Lasting(draft[th])

\* A grant that was used in this life of the service and is there still is bound
\* to who used it.  One used in an earlier life was read from the file.
BoundTo(g, u) ==
    /\ g.scope = u.scope
    /\ u.scope = "ThisTask" => g.task = u.task
    /\ u.scope = "Session" => g.session = u.chat

UsesHold ==
    \A u \in used :
        /\ u.id <= made /\ u.life <= restarts
        /\ \A g \in memory.grants : g.id = u.id =>
              IF u.life = restarts THEN BoundTo(g, u)
              ELSE MayBeRestored(g.reason) \/ ~Temporary(g)

\* A worker has a task from its start to its end, also while it persists.
Persisting == {"snapshot", "open", "write"}

Busy(p, a) == IF p \in Persisting THEN a # "idle" ELSE p # "idle"

PlacesHold == \A c \in Chats : task[c] # NoId <=> Busy(pc[c], after[c])

IInv ==
    /\ TypeOK /\ MemoryHolds /\ FilesHold /\ MarksHold /\ UsesHold /\ PlacesHold
    /\ OnceMeansOnce /\ GrantsKeepTheirHolder /\ ApprovalsHaveTheirTask

-----------------------------------------------------------------------------
(* The constants.                                                          *)

LEMMA Constants ==
    /\ MaxGrants \in Nat /\ MaxTasks \in Nat
    /\ MaxCommands \in Nat /\ MaxRestarts \in Nat
    /\ Requests \subseteq Request /\ Requests # {}
    /\ Offers \subseteq [kind : Kinds, target : Targets, mode : Modes]
    /\ Switchable \subseteq Profiles /\ FirstAccess \in Config
    /\ NoId \notin Nat /\ NoId \notin Chats
    /\ NoLimit \notin Nat
  BY AccessAssumption, PolicyAssumption

\* A chat's worker is a thread, and not one of the two others.
LEMMA WorkerThread ==
    ASSUME NEW c \in Chats
    PROVE  c \in Threads /\ c # "telegram" /\ c # "cli"
  BY AccessAssumption DEF Threads

LEMMA OtherThreads == "telegram" \in Threads /\ "cli" \in Threads
  BY DEF Threads

LEMMA NoTaskIsNone == NoId \notin Tasks
  BY Constants DEF Tasks

-----------------------------------------------------------------------------
(* Documents and what is done to them.                                     *)

LEMMA DocumentParts ==
    ASSUME NEW d \in Document
    PROVE  /\ d.access \in Config
           /\ d.grants \subseteq Grant
  BY DEF Document

LEMMA DocumentOf ==
    ASSUME NEW a \in Config, NEW S, S \subseteq Grant,
           NEW d, d = [access |-> a, grants |-> S]
    PROVE  d \in Document /\ d.grants = S
  <1>1. S \in SUBSET Grant
    OBVIOUS
  <1> QED
    BY <1>1 DEF Document

LEMMA DefaultIsDocument ==
    /\ DefaultDocument \in Document
    /\ DefaultDocument.grants = {}
  <1>1. ForProfile("Developer") \in Config
    BY DEF ForProfile, Config, Profiles, DeveloperLike
  <1> QED
    BY <1>1 DEF DefaultDocument, Document

\* With no grants a document holds to all that is said of grants.
LEMMA NoGrants ==
    ASSUME NEW d, d.grants = {}, NEW n
    PROVE  Orderly(d, n) /\ Lasting(d) /\ Marked(d)
  BY DEF Orderly, Lasting, Marked

\* A grant the manager keeps in the file: its own grants, fewer of them.
LEMMA KeptIsLess ==
    ASSUME NEW d \in Document
    PROVE  /\ Kept(d) \in Document
           /\ Kept(d).grants \subseteq d.grants
           /\ \A g \in Kept(d).grants : g.persisted
  <1> DEFINE S == {g \in d.grants : g.persisted /\ ~Expired(g)}
  <1>1. Kept(d) = [access |-> d.access, grants |-> S]
    BY DEF Kept, Document
  <1>2. S \subseteq d.grants /\ \A g \in S : g.persisted
    OBVIOUS
  <1> HIDE DEF S
  <1>3. S \subseteq Grant
    BY <1>2, DocumentParts
  <1>4. Kept(d) \in Document /\ Kept(d).grants = S
    BY <1>1, <1>3, DocumentParts, DocumentOf
  <1> QED
    BY <1>2, <1>4

LEMMA SetIsDocument ==
    ASSUME NEW d \in Document, NEW p \in Profiles
    PROVE  AfterSet(d, p) \in Document /\ AfterSet(d, p).grants = d.grants
  <1>1. SetProfileDefaults(d.access, p) \in Config
    <2>1. /\ ForProfile(p).network_default \in BOOLEAN
          /\ ForProfile(p).web_search_default \in BOOLEAN
          /\ ForProfile(p).computer_use_default \in BOOLEAN
          /\ ForProfile(p).allow_workspace_write \in BOOLEAN
      BY DEF ForProfile
    <2>2. d.access \in Config
      BY DocumentParts
    <2> QED
      BY <2>1, <2>2 DEF SetProfileDefaults, Config
  <1>2. AfterSet(d, p) = [access |-> SetProfileDefaults(d.access, p),
                          grants |-> d.grants]
    BY DEF AfterSet, Document
  <1> QED
    BY <1>1, <1>2, DocumentParts, DocumentOf

LEMMA LockdownIsDocument ==
    ASSUME NEW d \in Document
    PROVE  AfterLockdown(d) \in Document /\ AfterLockdown(d).grants = {}
  <1>1. LockConfig(d.access) \in Config
    BY DocumentParts DEF LockConfig, Config, Profiles
  <1> QED
    BY <1>1, DocumentOf DEF AfterLockdown

LEMMA RevokeIsLess ==
    ASSUME NEW d \in Document, NEW gone
    PROVE  /\ AfterRevoke(d, gone) \in Document
           /\ AfterRevoke(d, gone).grants \subseteq d.grants
  <1> DEFINE S == d.grants \ gone
  <1>1. AfterRevoke(d, gone) = [d EXCEPT !.grants = S]
    BY Zenon DEF AfterRevoke
  <1>2. S \subseteq d.grants
    OBVIOUS
  <1> HIDE DEF S
  <1>3. AfterRevoke(d, gone) = [access |-> d.access, grants |-> S]
    BY <1>1 DEF Document
  <1>4. S \subseteq Grant
    BY <1>2, DocumentParts
  <1>5. AfterRevoke(d, gone) \in Document /\ AfterRevoke(d, gone).grants = S
    BY <1>3, <1>4, DocumentParts, DocumentOf
  <1> QED
    BY <1>2, <1>5

-----------------------------------------------------------------------------
(* Grants and what is done to them.                                        *)

\* A new grant has the next number and, for a single use, that use left.
Fresh(g, n) ==
    /\ g \in Grant /\ g.id = n + 1
    /\ g.scope = "Once" => g.uses = 1

LEMMA NewGrantIs ==
    ASSUME NEW n \in Nat, n < MaxGrants, NEW what,
           what.kind \in Kinds, what.target \in Targets, what.mode \in Modes,
           NEW s \in Scopes, NEW who \in {"approval", "telegram", "cli"},
           NEW g, g = NewGrant(n + 1, what, s, who)
    PROVE  /\ Fresh(g, n)
           /\ g.scope = s /\ g.reason = who
           /\ g.task = NoId /\ g.session = NoId
  <1>1. n + 1 \in 1 .. MaxGrants
    BY Constants
  <1>2. g \in Grant
    BY <1>1, Constants DEF NewGrant, Grant
  <1> QED
    BY <1>2 DEF NewGrant, Fresh

LEMMA MarkedGrantIs ==
    ASSUME NEW n, NEW f, Fresh(f, n), NEW b \in BOOLEAN,
           NEW g, g = [f EXCEPT !.persisted = b]
    PROVE  /\ Fresh(g, n) /\ g.persisted = b
           /\ g.scope = f.scope /\ g.reason = f.reason
           /\ g.task = f.task /\ g.session = f.session
  BY DEF Fresh, Grant

\* Binding a grant gives it a holder only where it lacks one.
LEMMA BoundGrantIs ==
    ASSUME NEW f \in Grant, NEW t \in Tasks, NEW c \in Chats,
           NEW g, g = BindScope(f, t, c)
    PROVE  /\ g \in Grant /\ g.id = f.id /\ g.scope = f.scope
           /\ g.uses = f.uses /\ g.persisted = f.persisted
           /\ g.reason = f.reason
           /\ g.scope = "ThisTask" /\ f.task = NoId => g.task = t
           /\ f.task # NoId => g.task = f.task
           /\ g.scope = "Session" /\ f.session = NoId => g.session = c
           /\ f.session # NoId => g.session = f.session
  <1> DEFINE x == IF f.scope = "ThisTask" /\ f.task = NoId THEN t ELSE f.task
             y == IF f.scope = "Session" /\ f.session = NoId
                  THEN c ELSE f.session
  <1>1. g = [f EXCEPT !.task = x, !.session = y]
    BY DEF BindScope
  <1>2. x \in Tasks \cup {NoId} /\ y \in Chats \cup {NoId}
    BY DEF Grant
  <1>3. /\ f.scope = "ThisTask" /\ f.task = NoId => x = t
        /\ f.task # NoId => x = f.task
        /\ f.scope = "Session" /\ f.session = NoId => y = c
        /\ f.session # NoId => y = f.session
    OBVIOUS
  <1> HIDE DEF x, y
  <1>4. /\ g \in Grant /\ g.id = f.id /\ g.scope = f.scope
        /\ g.uses = f.uses /\ g.persisted = f.persisted
        /\ g.reason = f.reason
        /\ g.task = x /\ g.session = y
    BY <1>1, <1>2 DEF Grant
  <1> QED
    BY <1>3, <1>4

\* Counting a use leaves everything else, and is the end of a grant for one.
LEMMA ConsumedGrantIs ==
    ASSUME NEW f \in Grant, NEW g, g = Consume(f)
    PROVE  /\ g \in Grant /\ g.id = f.id /\ g.scope = f.scope
           /\ g.task = f.task /\ g.session = f.session
           /\ g.persisted = f.persisted /\ g.reason = f.reason
           /\ f.uses = 1 => Expired(g)
           /\ Expired(g) \/ g.scope # "Once" \/ f.uses # 1
  <1> DEFINE x == IF f.uses \in Nat /\ f.uses > 0 THEN f.uses - 1 ELSE f.uses
  <1>1. g = [f EXCEPT !.uses = x]
    BY DEF Consume
  <1>2. x \in Nat \cup {NoLimit} /\ (f.uses = 1 => x = 0)
    <2>1. f.uses \in Nat \cup {NoLimit}
      BY DEF Grant
    <2> QED
      BY <2>1
  <1> HIDE DEF x
  <1>3. /\ g \in Grant /\ g.id = f.id /\ g.scope = f.scope
        /\ g.task = f.task /\ g.session = f.session
        /\ g.persisted = f.persisted /\ g.reason = f.reason
        /\ g.uses = x
    BY <1>1, <1>2 DEF Grant
  <1> QED
    BY <1>2, <1>3 DEF Expired

-----------------------------------------------------------------------------
(* What steps leave of the invariant.                                      *)

LEMMA TypeParts ==
    ASSUME TypeOK
    PROVE  /\ memory \in Document /\ memory.grants \subseteq Grant
           /\ store.doc \in Document /\ store.doc.grants \subseteq Grant
           /\ made \in Nat /\ made <= MaxGrants
           /\ \A th \in Threads : draft[th] \in Document
           /\ restarts \in Nat
           /\ \A u \in used : /\ u.id \in Nat /\ u.life \in Nat
                             /\ u.task \in Tasks /\ u.chat \in Chats
  BY Constants, DocumentParts DEF TypeOK

LEMMA IdsAreNumbers ==
    ASSUME NEW g \in Grant
    PROVE  g.id \in Nat
  BY Constants DEF Grant

\* Fewer grants, or more numbers given out, disturb no order.
LEMMA LessOrderly ==
    ASSUME NEW n \in Nat, NEW k \in Nat, n <= k, NEW d \in Document,
           Orderly(d, n), NEW e, e.grants \subseteq d.grants
    PROVE  Orderly(e, k)
  <1>1. \A g \in d.grants : g.id \in Nat
    BY IdsAreNumbers, DocumentParts
  <1>2. \A g \in e.grants : g.id <= k
    BY <1>1 DEF Orderly
  <1> QED
    BY <1>2 DEF Orderly

LEMMA MoreOrderly ==
    ASSUME NEW n \in Nat, NEW d \in Document, Orderly(d, n),
           NEW f, Fresh(f, n), NEW e, e.grants = d.grants \cup {f}
    PROVE  Orderly(e, n + 1)
  <1>1. \A g \in d.grants : g.id \in Nat /\ g.id <= n
    BY IdsAreNumbers, DocumentParts DEF Orderly
  <1>2. f.id = n + 1 /\ (f.scope = "Once" => f.uses = 1)
    BY DEF Fresh
  <1>3. \A g \in e.grants : g.id <= n + 1 /\ (g.scope = "Once" => g.uses = 1)
    <2>1. TAKE g \in e.grants
    <2>2. CASE g = f
      BY <1>2, <2>2
    <2>3. CASE g \in d.grants
      BY <1>1, <2>3 DEF Orderly
    <2> QED
      BY <2>2, <2>3
  <1>4. \A g, h \in e.grants : g.id = h.id => g = h
    <2>1. TAKE g, h \in e.grants
    <2>2. \A x \in d.grants : x.id # f.id
      BY <1>1, <1>2
    <2>3. CASE g \in d.grants /\ h \in d.grants
      BY <2>3 DEF Orderly
    <2> QED
      BY <2>2, <2>3
  <1> QED
    BY <1>3, <1>4 DEF Orderly

\* What a set has when all documents and uses are of it.
LEMMA MarksAreOf ==
    ASSUME NEW M, MarksOf(memory') \subseteq M, MarksOf(store'.doc) \subseteq M,
           \A th \in Threads : MarksOf(draft'[th]) \subseteq M,
           \A u \in used' : MarkOf(u) \in M
    PROVE  AllMarks' \subseteq M
  <1>1. AllMarks' = MarksOf(memory') \cup MarksOf(store'.doc)
                    \cup (UNION {MarksOf(draft'[th]) : th \in Threads})
                    \cup {MarkOf(u) : u \in used'}
    BY DEF AllMarks, MarksOf, MarkOf
  <1>2. UNION {MarksOf(draft'[th]) : th \in Threads} \subseteq M
    BY Zenon
  <1>3. {MarkOf(u) : u \in used'} \subseteq M
    BY Zenon
  <1> QED
    BY <1>1, <1>2, <1>3, Zenon

LEMMA PartsOfMarks ==
    /\ MarksOf(memory) \subseteq AllMarks /\ MarksOf(store.doc) \subseteq AllMarks
    /\ \A th \in Threads : MarksOf(draft[th]) \subseteq AllMarks
    /\ \A u \in used : MarkOf(u) \in AllMarks
  <1>1. \A th \in Threads :
            MarksOf(draft[th]) \subseteq UNION {MarksOf(draft[t]) : t \in Threads}
    BY Zenon
  <1>2. \A u \in used : MarkOf(u) \in {MarkOf(v) : v \in used}
    BY Zenon
  <1> QED
    BY <1>1, <1>2, Zenon DEF AllMarks

LEMMA NoGrantsNoMarks ==
    ASSUME NEW d, d.grants = {}
    PROVE  MarksOf(d) = {}
  BY DEF MarksOf

LEMMA MarksOfFewer ==
    ASSUME NEW d, NEW e, e.grants \subseteq d.grants
    PROVE  MarksOf(e) \subseteq MarksOf(d)
  BY DEF MarksOf

\* Where no new grant comes the marks stay told apart.
LEMMA MarksStay ==
    ASSUME IInv, AllMarks' \subseteq AllMarks
    PROVE  MarksHold'
  BY DEF IInv, MarksHold

\* A mark is of a number given out.
LEMMA MarksAreOld ==
    ASSUME IInv, NEW x \in AllMarks
    PROVE  x.id \in Nat /\ x.id <= made
  <1>1. ASSUME NEW d \in Document, Orderly(d, made), x \in MarksOf(d)
        PROVE  x.id \in Nat /\ x.id <= made
    BY <1>1, IdsAreNumbers, DocumentParts DEF MarksOf, MarkOf, Orderly
  <1>2. ASSUME NEW u \in used, x = MarkOf(u)
        PROVE  x.id \in Nat /\ x.id <= made
    BY <1>2, TypeParts DEF IInv, UsesHold, MarkOf
  <1>3. \/ x \in MarksOf(memory)
        \/ x \in MarksOf(store.doc)
        \/ \E th \in Threads : x \in MarksOf(draft[th])
        \/ \E u \in used : x = MarkOf(u)
    BY Zenon DEF AllMarks
  <1>4. CASE x \in MarksOf(memory)
    BY <1>1, <1>4, TypeParts DEF IInv, MemoryHolds
  <1>5. CASE x \in MarksOf(store.doc)
    BY <1>1, <1>5, TypeParts DEF IInv, FilesHold
  <1>6. CASE \E th \in Threads : x \in MarksOf(draft[th])
    BY <1>1, <1>6, TypeParts DEF IInv, FilesHold
  <1> QED
    BY <1>2, <1>3, <1>4, <1>5, <1>6

\* A new grant has a number of its own.
LEMMA MarksGrow ==
    ASSUME IInv, NEW f, Fresh(f, made), AllMarks' \subseteq AllMarks \cup {MarkOf(f)}
    PROVE  MarksHold'
  <1>1. \A x \in AllMarks : x.id # MarkOf(f).id
    BY MarksAreOld, TypeParts DEF IInv, Fresh, MarkOf
  <1> QED
    BY <1>1 DEF IInv, MarksHold

\* What memory lists has the scope and the maker it had when it was used.
LEMMA MemoryAgrees ==
    ASSUME IInv, NEW g \in memory.grants, NEW u \in used, g.id = u.id
    PROVE  g.scope = u.scope /\ g.reason = u.reason
  <1>1. MarkOf(g) \in AllMarks /\ MarkOf(u) \in AllMarks
    BY PartsOfMarks DEF MarksOf
  <1>2. MarkOf(g) = MarkOf(u)
    BY <1>1 DEF IInv, MarksHold, MarkOf
  <1> QED
    BY <1>2 DEF MarkOf

\* Where no grant is touched what is said of grants stays.
LEMMA SameGrants ==
    ASSUME IInv, UNCHANGED <<memory, store, draft, made, restarts, used>>
    PROVE  /\ MemoryHolds' /\ FilesHold' /\ MarksHold' /\ UsesHold'
           /\ OnceMeansOnce' /\ GrantsKeepTheirHolder'
  <1>1. MarksHold'
    BY PartsOfMarks, MarksAreOf, MarksStay
  <1> QED
    BY <1>1 DEF IInv, MemoryHolds, FilesHold, UsesHold, OnceMeansOnce,
         GrantsKeepTheirHolder, Orderly, Lasting, Marked, BoundTo

\* Where no document is touched the files stay in order.
LEMMA SameFiles ==
    ASSUME IInv, UNCHANGED <<store, draft>>, made' \in {made, made + 1}
    PROVE  FilesHold'
  <1>1. made \in Nat /\ made' \in Nat /\ made <= made'
    BY TypeParts DEF IInv
  <1>2. Orderly(store.doc, made')
    BY <1>1, LessOrderly, TypeParts DEF IInv, FilesHold
  <1>3. \A th \in Threads : Orderly(draft[th], made')
    BY <1>1, LessOrderly, TypeParts DEF IInv, FilesHold
  <1> QED
    BY <1>2, <1>3 DEF IInv, FilesHold, Lasting, Orderly

\* Where grants only go what is said of the others stays.
LEMMA FewerGrants ==
    ASSUME IInv, memory'.grants \subseteq memory.grants,
           made' \in {made, made + 1}, UNCHANGED <<restarts, used>>
    PROVE  MemoryHolds' /\ UsesHold' /\ OnceMeansOnce' /\ GrantsKeepTheirHolder'
  <1>1. made \in Nat /\ made' \in Nat /\ made <= made'
    BY TypeParts DEF IInv
  <1>2. Orderly(memory', made')
    BY <1>1, TypeParts, LessOrderly DEF IInv, MemoryHolds
  <1>3. Orderly(memory, made)' /\ Marked(memory)'
    BY <1>2 DEF Orderly, Marked, IInv, MemoryHolds
  <1>4. \A u \in used : u.id <= made'
    BY <1>1, TypeParts DEF IInv, UsesHold
  <1> QED
    BY <1>3, <1>4 DEF IInv, MemoryHolds, UsesHold, OnceMeansOnce,
                GrantsKeepTheirHolder, BoundTo

\* A new grant has a number nobody used.
LEMMA MoreGrants ==
    ASSUME IInv, NEW f, Fresh(f, made),
           memory'.grants = memory.grants \cup {f},
           f.persisted => MayBeRestored(f.reason) \/ ~Temporary(f),
           made' = made + 1, UNCHANGED <<restarts, used>>
    PROVE  MemoryHolds' /\ UsesHold' /\ OnceMeansOnce' /\ GrantsKeepTheirHolder'
  <1>1. Orderly(memory', made + 1)
    BY TypeParts, MoreOrderly DEF IInv, MemoryHolds
  <1>2. MemoryHolds'
    <2>1. Orderly(memory, made)'
      BY <1>1 DEF Orderly
    <2> QED
      BY <2>1 DEF Marked, IInv, MemoryHolds
  <1>3. \A u \in used : u.id # f.id /\ u.id <= made + 1
    <2>1. \A u \in used : u.id \in Nat /\ u.id <= made
      BY TypeParts DEF IInv, UsesHold
    <2> QED
      BY <2>1, TypeParts DEF IInv, Fresh
  <1>4. UsesHold'
    BY <1>3 DEF IInv, UsesHold, BoundTo
  <1>5. OnceMeansOnce'
    BY <1>3 DEF IInv, OnceMeansOnce
  <1> QED
    BY <1>2, <1>4, <1>5 DEF IInv, GrantsKeepTheirHolder

\* A thread that moves leaves the others where they are.
LEMMA PlaceOf ==
    ASSUME PlacesHold, NEW c \in Chats,
           \A d \in Chats \ {c} : /\ pc'[d] = pc[d] /\ after'[d] = after[d]
                                  /\ task'[d] = task[d],
           task'[c] # NoId <=> Busy(pc'[c], after'[c])
    PROVE  PlacesHold'
  BY DEF PlacesHold, Busy

-----------------------------------------------------------------------------
(* The steps of a worker that leave the grants alone.                      *)

LEMMA StartTaskHolds ==
    ASSUME IInv, NEW c \in Chats, StartTask(c)
    PROVE  IInv'
  <1> USE DEF StartTask, GoOn
  <1>1. c \in Threads /\ begun + 1 \in Tasks /\ begun + 1 # NoId
    BY WorkerThread, Constants DEF IInv, TypeOK, Tasks
  <1>2. TypeOK'
    <2>1. task' \in [Chats -> Tasks \cup {NoId}]
      BY <1>1 DEF IInv, TypeOK
    <2>2. begun' \in 0 .. MaxTasks
      BY Constants DEF IInv, TypeOK
    <2> QED
      BY <1>1, <2>1, <2>2 DEF IInv, TypeOK
  <1>3. task[c] = NoId
    BY DEF IInv, PlacesHold, Busy, Persisting
  <1>4. \A d \in Chats \ {c} : task'[d] = task[d]
    BY DEF IInv, TypeOK
  <1>5. ApprovalsHaveTheirTask'
    BY <1>3, <1>4 DEF IInv, ApprovalsHaveTheirTask
  <1>6. PlacesHold'
    <2>1. pc'[c] = "running" /\ task'[c] = begun + 1
      BY <1>1 DEF IInv, TypeOK
    <2>2. \A d \in Chats \ {c} : pc'[d] = pc[d] /\ after'[d] = after[d]
      BY WorkerThread DEF IInv, TypeOK
    <2> QED
      BY <1>1, <1>4, <2>1, <2>2, PlaceOf DEF IInv, Busy, Persisting
  <1> QED
    BY <1>2, <1>5, <1>6, SameGrants DEF IInv

\* A worker that stays in its task and touches no grant.
LEMMA StayingHolds ==
    ASSUME IInv, NEW c \in Chats, NEW p \in {"running", "authorize",
                "approval", "grant"},
           pc[c] \in {"running", "authorize", "approval", "grant", "resume"},
           GoOn(c, p),
           UNCHANGED <<memory, task, store, draft, counters, used>>,
           call' \in [Chats -> Requests], scope' \in [Chats -> Scopes]
    PROVE  IInv'
  <1>1. c \in Threads
    BY WorkerThread
  <1>2. TypeOK'
    BY DEF IInv, TypeOK, GoOn, counters
  <1>3. ApprovalsHaveTheirTask'
    BY DEF IInv, ApprovalsHaveTheirTask
  <1>4. PlacesHold'
    <2>1. pc'[c] = p /\ after'[c] = after[c] /\ task'[c] = task[c]
      BY <1>1 DEF IInv, TypeOK, GoOn
    <2>2. \A d \in Chats \ {c} : /\ pc'[d] = pc[d] /\ after'[d] = after[d]
                                 /\ task'[d] = task[d]
      BY WorkerThread DEF IInv, TypeOK, GoOn
    <2>3. task[c] # NoId
      BY DEF IInv, PlacesHold, Busy, Persisting
    <2> QED
      BY <2>1, <2>2, <2>3, PlaceOf DEF IInv, Busy, Persisting
  <1> QED
    BY <1>2, <1>3, <1>4, SameGrants DEF IInv, counters

LEMMA CheckHolds ==
    ASSUME IInv, NEW c \in Chats, NEW r \in Requests, Check(c, r)
    PROVE  IInv'
  <1>1. Decision(c, r) \in {"Allow", "NeedsApproval", "Deny"}
    BY DEF Decision, DecisionFromConfig
  <1>2. PICK p \in {"running", "authorize", "approval", "grant"} : GoOn(c, p)
    BY <1>1 DEF Check
  <1>3. call' \in [Chats -> Requests] /\ scope' \in [Chats -> Scopes]
    BY DEF IInv, TypeOK, Check
  <1> QED
    BY <1>2, <1>3, StayingHolds DEF Check

LEMMA ApproveHolds ==
    ASSUME IInv, NEW c \in Chats, NEW s \in Scopes, Approve(c, s)
    PROVE  IInv'
  <1>1. call' \in [Chats -> Requests] /\ scope' \in [Chats -> Scopes]
    BY DEF IInv, TypeOK, Approve
  <1> QED
    BY <1>1, StayingHolds DEF Approve

LEMMA RefuseHolds ==
    ASSUME IInv, NEW c \in Chats, Refuse(c)
    PROVE  IInv'
  <1>1. call' \in [Chats -> Requests] /\ scope' \in [Chats -> Scopes]
    BY DEF IInv, TypeOK, Refuse
  <1> QED
    BY <1>1, StayingHolds DEF Refuse

-----------------------------------------------------------------------------
(* The steps of a worker that change the grants.                           *)

LEMMA AddGrantHolds ==
    ASSUME IInv, NEW c \in Chats, AddGrant(c)
    PROVE  IInv'
  <1> DEFINE f == ApprovedGrant(c)
  <1>1. c \in Threads /\ made \in Nat /\ made < MaxGrants
    BY WorkerThread, TypeParts DEF IInv, AddGrant
  <1>2. task[c] \in Tasks /\ task[c] # NoId
    BY DEF IInv, PlacesHold, Busy, Persisting, AddGrant, TypeOK
  <1>3. /\ Fresh(f, made) /\ f.task = task[c] /\ f.reason = "approval"
        /\ f.persisted => MayBeRestored(f.reason) \/ ~Temporary(f)
    <2>1. PICK g : g = NewGrant(made + 1, call[c], scope[c], "approval")
      OBVIOUS
    <2>2. /\ call[c].kind \in Kinds /\ call[c].target \in Targets
          /\ call[c].mode \in Modes
      BY Constants DEF IInv, TypeOK, Request
    <2>3. Fresh(g, made) /\ g.scope = scope[c] /\ g.reason = "approval"
      BY <1>1, <2>1, <2>2, NewGrantIs DEF IInv, TypeOK
    <2>4. PICK b \in BOOLEAN : b = (scope[c] = "Permanent")
      OBVIOUS
    <2>5. PICK h : h = [g EXCEPT !.persisted = b]
      OBVIOUS
    <2>6. /\ Fresh(h, made) /\ h.persisted = b
          /\ h.scope = scope[c] /\ h.reason = "approval"
      BY <2>3, <2>5, MarkedGrantIs
    <2>7. PICK t \in Tasks : t = task[c]
      BY <1>2
    <2>8. PICK k : k = [h EXCEPT !.task = t, !.session = c]
      OBVIOUS
    <2>9. f = k
      BY <2>1, <2>4, <2>5, <2>3, <2>7, <2>8 DEF ApprovedGrant, Fresh, Grant
    <2>10. /\ Fresh(k, made) /\ k.task = t /\ k.reason = "approval"
           /\ k.persisted = b /\ k.scope = scope[c]
      BY <2>6, <2>8 DEF Fresh, Grant
    <2> QED
      BY <2>4, <2>7, <2>9, <2>10 DEF Temporary
  <1> HIDE DEF f
  <1>4. /\ memory' \in Document
        /\ memory'.grants = memory.grants \cup {f}
    <2>1. memory' = [memory EXCEPT !.grants = memory.grants \cup {f}]
      BY DEF AddGrant, f
    <2>2. memory \in Document /\ f \in Grant
      BY <1>3 DEF IInv, TypeOK, Fresh
    <2> QED
      BY <2>1, <2>2 DEF Document
  <1>5. MemoryHolds' /\ UsesHold' /\ OnceMeansOnce' /\ GrantsKeepTheirHolder'
    BY <1>3, <1>4, MoreGrants DEF AddGrant
  <1>6. FilesHold' /\ MarksHold'
    <2>1. FilesHold'
      BY SameFiles DEF AddGrant
    <2>2. MarksOf(memory') \subseteq AllMarks \cup {MarkOf(f)}
      BY <1>4, PartsOfMarks DEF MarksOf
    <2>3. AllMarks' \subseteq AllMarks \cup {MarkOf(f)}
      BY <2>2, PartsOfMarks, MarksAreOf DEF AddGrant
    <2> QED
      BY <1>3, <2>1, <2>3, MarksGrow
  <1>7. TypeOK'
    <2>1. made' \in 0 .. MaxGrants
      BY <1>1, Constants DEF AddGrant
    <2>2. scope' \in [Chats -> Scopes]
      BY DEF AddGrant, IInv, TypeOK, Scopes
    <2>3. \A g, h \in memory'.grants : g.id = h.id => g = h
      BY <1>5 DEF MemoryHolds, Orderly
    <2>4. /\ pc' \in [Threads -> {"idle", "running", "authorize", "approval",
                           "grant", "resume", "snapshot", "open", "write"}]
          /\ after' \in [Threads -> {"idle", "running", "resume"}]
      BY DEF AddGrant, GoPersist, IInv, TypeOK
    <2> QED
      BY <1>4, <2>1, <2>2, <2>3, <2>4 DEF AddGrant, IInv, TypeOK
  <1>8. ApprovalsHaveTheirTask'
    BY <1>2, <1>3, <1>4 DEF AddGrant, IInv, ApprovalsHaveTheirTask
  <1>9. PlacesHold'
    <2>1. pc'[c] = "snapshot" /\ after'[c] = "resume" /\ task' = task
      BY <1>1 DEF IInv, TypeOK, AddGrant, GoPersist
    <2>2. \A d \in Chats \ {c} : pc'[d] = pc[d] /\ after'[d] = after[d]
      BY WorkerThread DEF IInv, TypeOK, AddGrant, GoPersist
    <2> QED
      BY <1>2, <2>1, <2>2, PlaceOf DEF IInv, Busy, Persisting
  <1> QED
    BY <1>5, <1>6, <1>7, <1>8, <1>9 DEF IInv

-----------------------------------------------------------------------------
(* Using a grant.                                                          *)

LEMMA LeastNumber ==
    ASSUME NEW T, T \subseteq Nat, T # {}
    PROVE  \E x \in T : \A y \in T : x <= y
  <1> DEFINE R == OpToRel(<, Nat)
  <1>1. IsWellFoundedOn(R, Nat)
    BY NatLessThanWellFounded
  <1>2. \A x, y \in Nat : x < y => <<x, y>> \in R
    BY DEF OpToRel
  <1> HIDE DEF R
  <1>3. PICK x \in T : \A y \in T : ~ (<<y, x>> \in R)
    BY <1>1, WFMin, Zenon
  <1>4. ASSUME NEW y \in T PROVE x <= y
    <2>1. x \in Nat /\ y \in Nat
      OBVIOUS
    <2>2. ~ (y < x)
      BY <1>2, <1>3, <2>1, Zenon
    <2> QED
      BY <2>1, <2>2
  <1> QED
    BY <1>4

\* Where a grant fits there is an oldest that fits.
LEMMA OldestFits ==
    ASSUME NEW S, S \subseteq Grant, S # {}
    PROVE  Oldest(S) \in S
  <1> DEFINE T == {g.id : g \in S}
  <1>1. T \subseteq Nat /\ T # {}
    BY IdsAreNumbers
  <1>2. PICK n \in T : \A m \in T : n <= m
    BY <1>1, LeastNumber
  <1>3. PICK g \in S : \A h \in S : g.id <= h.id
    BY <1>2
  <1> QED
    BY <1>3 DEF Oldest

\* What using the grant `old` by the task t of chat c makes of the memory d.
Using(d, e, old, new, t, c) ==
    /\ new = Consume(BindScope(old, t, c))
    /\ e.access = d.access
    /\ e.grants = {g \in (d.grants \ {old}) \cup {new} : ~Expired(g)}

UseOf(old, t, c) ==
    [id |-> old.id, scope |-> old.scope, reason |-> old.reason, task |-> t,
     chat |-> c, life |-> restarts]

UseRecord ==
    [id : 1 .. MaxGrants, scope : Scopes,
     reason : {"approval", "telegram", "cli"}, task : Tasks, chat : Chats,
     life : 0 .. MaxRestarts]

\* What a use leaves of the grant: the one used, bound, and not for a single use.
UseLeaves(d, e, old, new, t, c) ==
    /\ new \in Grant /\ new.id = old.id /\ new.scope = old.scope
    /\ new.persisted = old.persisted /\ new.reason = old.reason
    /\ old.scope = "ThisTask" /\ old.task = NoId => new.task = t
    /\ old.task # NoId => new.task = old.task
    /\ old.scope = "Session" /\ old.session = NoId => new.session = c
    /\ old.session # NoId => new.session = old.session
    /\ new \in e.grants => new.scope # "Once"
    /\ \A g \in e.grants : g = new \/ (g \in d.grants /\ g.id # old.id)

\* A use leaves the grant so, and no other grant of its number.
LEMMA UsedGrantIs ==
    ASSUME NEW d \in Document, NEW n, Orderly(d, n), NEW e, NEW new,
           NEW old \in d.grants, NEW t \in Tasks, NEW c \in Chats,
           Using(d, e, old, new, t, c)
    PROVE  UseLeaves(d, e, old, new, t, c)
  <1>1. old \in Grant
    BY DocumentParts
  <1>2. PICK b : b = BindScope(old, t, c)
    OBVIOUS
  <1>3. new = Consume(b)
    BY <1>2 DEF Using
  <1>4. /\ b \in Grant /\ b.id = old.id /\ b.scope = old.scope
        /\ b.uses = old.uses /\ b.persisted = old.persisted
        /\ b.reason = old.reason
        /\ b.scope = "ThisTask" /\ old.task = NoId => b.task = t
        /\ old.task # NoId => b.task = old.task
        /\ b.scope = "Session" /\ old.session = NoId => b.session = c
        /\ old.session # NoId => b.session = old.session
    BY <1>1, <1>2, BoundGrantIs
  <1>5. /\ new \in Grant /\ new.id = b.id /\ new.scope = b.scope
        /\ new.task = b.task /\ new.session = b.session
        /\ new.persisted = b.persisted /\ new.reason = b.reason
        /\ b.uses = 1 => Expired(new)
    BY <1>3, <1>4, ConsumedGrantIs
  <1>6. \A g \in e.grants : (g = new \/ g \in d.grants \ {old}) /\ ~Expired(g)
    BY DEF Using
  <1>7. old.scope = "Once" => old.uses = 1
    BY DEF Orderly
  <1>8. \A g \in d.grants \ {old} : g.id # old.id
    BY DEF Orderly
  <1>9. new \in e.grants => new.scope # "Once"
    BY <1>4, <1>5, <1>6, <1>7
  <1>10. \A g \in e.grants : g = new \/ (g \in d.grants /\ g.id # old.id)
    BY <1>6, <1>8
  <1> QED
    BY <1>4, <1>5, <1>9, <1>10 DEF UseLeaves

\* A grant that fits a call is free or already held by who makes the call.
LEMMA FittingGrant ==
    ASSUME NEW g \in Grant, NEW r, NEW t \in Tasks, NEW c \in Chats,
           MatchesRequest(g, r, t, c)
    PROVE  /\ g.scope = "ThisTask" => g.task \in {NoId, t}
           /\ g.scope = "Session" => g.session \in {NoId, c}
  BY DEF MatchesRequest, ScopeMatches

\* One use keeps what is said of the memory and of the uses.
LEMMA UseKeepsOrder ==
    ASSUME IInv, NEW old \in memory.grants, NEW new, NEW r,
           NEW t \in Tasks, NEW c \in Chats,
           MatchesRequest(old, r, t, c),
           Using(memory, memory', old, new, t, c),
           UNCHANGED <<store, draft, made, restarts>>,
           used' = used \cup {UseOf(old, t, c)}
    PROVE  /\ MemoryHolds' /\ MarksHold' /\ UsesHold'
           /\ OnceMeansOnce' /\ GrantsKeepTheirHolder'
           /\ new.id = old.id /\ new.scope = old.scope /\ new.reason = old.reason
           /\ old.task # NoId => new.task = old.task
  <1> DEFINE u0 == UseOf(old, t, c)
  <1>1. /\ new \in Grant /\ new.id = old.id /\ new.scope = old.scope
        /\ new.persisted = old.persisted /\ new.reason = old.reason
        /\ old.scope = "ThisTask" /\ old.task = NoId => new.task = t
        /\ old.task # NoId => new.task = old.task
        /\ old.scope = "Session" /\ old.session = NoId => new.session = c
        /\ old.session # NoId => new.session = old.session
        /\ new \in memory'.grants => new.scope # "Once"
        /\ \A g \in memory'.grants :
              g = new \/ (g \in memory.grants /\ g.id # old.id)
    <2>1. memory \in Document /\ Orderly(memory, made)
      BY TypeParts DEF IInv, MemoryHolds
    <2>2. UseLeaves(memory, memory', old, new, t, c)
      BY <2>1, UsedGrantIs
    <2> QED
      BY <2>2 DEF UseLeaves
  <1>2. /\ old.scope = "ThisTask" => old.task \in {NoId, t}
        /\ old.scope = "Session" => old.session \in {NoId, c}
    BY TypeParts, FittingGrant DEF IInv
  <1>3. /\ u0.id = old.id /\ u0.scope = old.scope /\ u0.reason = old.reason
        /\ u0.task = t /\ u0.chat = c /\ u0.life = restarts
    BY DEF UseOf
  <1>4. t # NoId /\ c # NoId
    BY NoTaskIsNone, Constants
  <1>5. \A u \in used : u.id = old.id =>
            /\ old.scope = u.scope /\ old.reason = u.reason
            /\ \/ /\ u.life = restarts
                  /\ u.scope = "ThisTask" => u.task = t /\ old.task = t
                  /\ u.scope = "Session" => u.chat = c /\ old.session = c
               \/ /\ u.life # restarts
                  /\ MayBeRestored(old.reason) \/ ~Temporary(old)
    <2>1. \A u \in used : u.task # NoId /\ u.chat # NoId
      BY TypeParts, NoTaskIsNone, Constants DEF IInv
    <2>2. \A u \in used : u.id = old.id =>
             IF u.life = restarts THEN BoundTo(old, u)
             ELSE MayBeRestored(old.reason) \/ ~Temporary(old)
      BY DEF IInv, UsesHold
    <2>3. \A u \in used : u.id = old.id =>
             old.scope = u.scope /\ old.reason = u.reason
      BY MemoryAgrees
    <2> QED
      BY <1>2, <2>1, <2>2, <2>3 DEF BoundTo
  <1> HIDE DEF u0
  <1>6. MemoryHolds'
    <2>1. old.id <= made /\ (old.scope = "Once" => old.uses = 1)
      BY DEF IInv, MemoryHolds, Orderly
    <2>2. \A g \in memory'.grants :
              g.id <= made /\ (g.scope = "Once" => g.uses = 1)
      BY <1>1, <2>1 DEF IInv, MemoryHolds, Orderly
    <2>3. \A g, h \in memory'.grants : g.id = h.id => g = h
      BY <1>1 DEF IInv, MemoryHolds, Orderly
    <2>4. Orderly(memory, made)'
      BY <2>2, <2>3 DEF Orderly
    <2>5. \A g \in memory'.grants :
              g.persisted => MayBeRestored(g.reason) \/ ~Temporary(g)
      BY <1>1 DEF IInv, MemoryHolds, Marked, Temporary
    <2> QED
      BY <2>4, <2>5 DEF MemoryHolds, Marked
  <1>7. UsesHold'
    <2>0. restarts <= restarts
      BY TypeParts DEF IInv
    <2>1. \A u \in used' : u.id <= made /\ u.life <= restarts
      BY <1>3, <2>0 DEF IInv, UsesHold, MemoryHolds, Orderly, u0
    <2>2. ASSUME NEW u \in used', NEW g \in memory'.grants, g.id = u.id
          PROVE  IF u.life = restarts THEN BoundTo(g, u)
                 ELSE MayBeRestored(g.reason) \/ ~Temporary(g)
      <3>1. CASE g = new
        <4>1. new.scope = old.scope
          BY <1>1
        <4>2. CASE u = u0
          <5>1. /\ old.scope = "ThisTask" => new.task = t
                /\ old.scope = "Session" => new.session = c
            BY <1>1, <1>2, <1>4
          <5> QED
            BY <1>3, <3>1, <4>1, <4>2, <5>1 DEF BoundTo
        <4>3. CASE u \in used
          <5>1. u.id = old.id
            BY <1>1, <2>2, <3>1
          <5> QED
            BY <1>1, <1>4, <1>5, <3>1, <4>1, <4>3, <5>1 DEF BoundTo, Temporary
        <4> QED
          BY <4>2, <4>3 DEF u0
      <3>2. CASE g \in memory.grants /\ g.id # old.id
        <4>1. u \in used
          BY <1>3, <2>2, <3>2 DEF u0
        <4> QED
          BY <2>2, <3>2, <4>1 DEF IInv, UsesHold
      <3> QED
        BY <1>1, <3>1, <3>2
    <2> QED
      BY <2>1, <2>2 DEF UsesHold, BoundTo
  <1>8. OnceMeansOnce'
    <2>1. ASSUME NEW u \in used', u.scope = "Once", NEW g \in memory'.grants,
                 g.id = u.id
          PROVE  MayBeRestored(g.reason) /\ u.life # restarts
      <3>1. CASE u = u0
        BY <1>1, <1>3, <2>1, <3>1
      <3>2. CASE u \in used
        BY <1>1, <2>1, <3>2 DEF IInv, OnceMeansOnce
      <3> QED
        BY <3>1, <3>2 DEF u0
    <2> QED
      BY <2>1 DEF OnceMeansOnce
  <1>9. GrantsKeepTheirHolder'
    <2>1. ASSUME NEW u \in used', NEW v \in used', u.id = v.id
          PROVE  \/ MayBeRestored(u.reason) /\ u.life # v.life
                 \/ /\ u.scope = "ThisTask" => u.task = v.task
                    /\ u.scope = "Session" => u.chat = v.chat
      <3>1. CASE u \in used /\ v \in used
        BY <2>1, <3>1 DEF IInv, GrantsKeepTheirHolder
      <3>2. CASE u = u0 /\ v \in used
        BY <1>3, <1>5, <2>1, <3>2 DEF Temporary
      <3>3. CASE u \in used /\ v = u0
        BY <1>3, <1>5, <2>1, <3>3 DEF Temporary
      <3> QED
        BY <3>1, <3>2, <3>3 DEF u0
    <2> QED
      BY <2>1 DEF GrantsKeepTheirHolder
  <1>10. MarksHold'
    <2>1. MarksOf(memory') \subseteq AllMarks
      <3>1. MarkOf(new) = MarkOf(old)
        BY <1>1 DEF MarkOf
      <3>2. MarksOf(memory') \subseteq MarksOf(memory)
        BY <1>1, <3>1 DEF MarksOf
      <3> QED
        BY <3>2, PartsOfMarks
    <2>2. MarkOf(u0) \in AllMarks
      <3>1. MarkOf(u0) = MarkOf(old)
        BY <1>3 DEF MarkOf
      <3> QED
        BY <3>1, PartsOfMarks DEF MarksOf
    <2>3. \A u \in used' : MarkOf(u) \in AllMarks
      BY <2>2, PartsOfMarks DEF u0
    <2> QED
      BY <2>1, <2>3, PartsOfMarks, MarksAreOf, MarksStay
  <1> QED
    BY <1>1, <1>6, <1>7, <1>8, <1>9, <1>10

LEMMA UseGrantHolds ==
    ASSUME IInv, NEW c \in Chats, pc[c] \in {"authorize", "resume"},
           UseGrant(c), UNCHANGED <<task, call, scope, store, draft, counters>>
    PROVE  IInv'
  <1>1. c \in Threads
    BY WorkerThread
  <1>2. PICK t \in Tasks : t = task[c]
    BY DEF IInv, PlacesHold, Busy, Persisting, TypeOK
  <1>3. PICK r : r = call[c]
    OBVIOUS
  <1>4. PICK old : old = Oldest(Matching(c, call[c]))
    OBVIOUS
  <1>5. old \in memory.grants /\ MatchesRequest(old, r, t, c)
    <2>1. Matching(c, call[c]) \subseteq Grant
      BY TypeParts DEF Matching, IInv
    <2>2. old \in Matching(c, call[c])
      BY <1>4, <2>1, OldestFits DEF UseGrant
    <2> QED
      BY <1>2, <1>3, <2>2 DEF Matching
  <1>6. PICK new : new = Consume(BindScope(old, t, c))
    OBVIOUS
  <1>7. PICK left : left = {g \in (memory.grants \ {old}) \cup {new} : ~Expired(g)}
    OBVIOUS
  <1>8. /\ memory' = [memory EXCEPT !.grants = left]
        /\ used' = used \cup {UseOf(old, t, c)}
        /\ \/ GoPersist(c, "running")
           \/ GoOn(c, "running")
    BY <1>2, <1>4, <1>6, <1>7 DEF UseGrant, UseOf
  <1>9. new \in Grant
    <2>1. old \in Grant
      BY <1>5, TypeParts DEF IInv
    <2>2. PICK b \in Grant : b = BindScope(old, t, c)
      BY <2>1, BoundGrantIs
    <2> QED
      BY <1>6, <2>2, ConsumedGrantIs
  <1>10. memory' \in Document /\ memory'.grants = left
         /\ memory'.access = memory.access
    <2>1. left \subseteq Grant
      BY <1>7, <1>9, TypeParts DEF IInv
    <2>2. memory \in Document
      BY DEF IInv, TypeOK
    <2> QED
      BY <1>8, <2>1, <2>2 DEF Document
  <1>11. Using(memory, memory', old, new, t, c)
    BY <1>6, <1>7, <1>10 DEF Using
  <1>12. /\ MemoryHolds' /\ MarksHold' /\ UsesHold'
         /\ OnceMeansOnce' /\ GrantsKeepTheirHolder'
    BY <1>5, <1>8, <1>11, UseKeepsOrder DEF counters
  <1>13. FilesHold'
    BY SameFiles DEF counters
  <1>14. TypeOK'
    <2>1. \A g, h \in memory'.grants : g.id = h.id => g = h
      BY <1>12 DEF MemoryHolds, Orderly
    <2>2. /\ pc' \in [Threads -> {"idle", "running", "authorize", "approval",
                           "grant", "resume", "snapshot", "open", "write"}]
          /\ after' \in [Threads -> {"idle", "running", "resume"}]
      BY <1>8 DEF GoPersist, GoOn, IInv, TypeOK
    <2>3. UseOf(old, t, c) \in UseRecord
      <3>1. old \in Grant
        BY <1>5, TypeParts DEF IInv
      <3>2. old.id \in 1 .. MaxGrants /\ old.scope \in Scopes
        BY <3>1 DEF Grant
      <3>3. old.reason \in {"approval", "telegram", "cli"}
        BY <3>1 DEF Grant
      <3>4. restarts \in 0 .. MaxRestarts
        BY DEF IInv, TypeOK
      <3> QED
        BY <3>2, <3>3, <3>4 DEF UseOf, UseRecord
    <2>4. used' \subseteq UseRecord
      BY <1>8, <2>3 DEF IInv, TypeOK, UseRecord
    <2> QED
      BY <1>10, <2>1, <2>2, <2>4 DEF counters, IInv, TypeOK, UseRecord
  <1>15. ApprovalsHaveTheirTask'
    <2>1. /\ new.id = old.id /\ new.scope = old.scope /\ new.reason = old.reason
          /\ old.task # NoId => new.task = old.task
      BY <1>5, <1>8, <1>11, UseKeepsOrder DEF counters
    <2>2. ASSUME NEW g \in memory'.grants, g.reason = "approval", Temporary(g)
          PROVE  g.task # NoId /\ \E d \in Chats : task[d] = g.task
      <3>1. CASE g = new
        BY <1>5, <2>1, <2>2, <3>1 DEF IInv, ApprovalsHaveTheirTask, Temporary
      <3>2. CASE g \in memory.grants
        BY <2>2, <3>2 DEF IInv, ApprovalsHaveTheirTask
      <3> QED
        BY <1>7, <1>10, <3>1, <3>2
    <2> QED
      BY <2>2 DEF ApprovalsHaveTheirTask
  <1>16. PlacesHold'
    <2>1. \/ pc'[c] = "snapshot" /\ after'[c] = "running"
          \/ pc'[c] = "running"
      BY <1>1, <1>8 DEF IInv, TypeOK, GoPersist, GoOn
    <2>2. \A d \in Chats \ {c} : pc'[d] = pc[d] /\ after'[d] = after[d]
      BY <1>8, WorkerThread DEF IInv, TypeOK, GoPersist, GoOn
    <2>3. task[c] # NoId
      BY <1>2, NoTaskIsNone
    <2> QED
      BY <2>1, <2>2, <2>3, PlaceOf DEF IInv, Busy, Persisting
  <1> QED
    BY <1>12, <1>13, <1>14, <1>15, <1>16 DEF IInv

LEMMA AuthorizeHolds ==
    ASSUME IInv, NEW c \in Chats, Authorize(c)
    PROVE  IInv'
  <1>1. CASE UseGrant(c)
    BY <1>1, UseGrantHolds DEF Authorize
  <1>2. CASE UseConfig(c)
    <2>1. call' \in [Chats -> Requests] /\ scope' \in [Chats -> Scopes]
      BY DEF IInv, TypeOK, Authorize
    <2> QED
      BY <1>2, <2>1, StayingHolds DEF Authorize, UseConfig
  <1> QED
    BY <1>1, <1>2 DEF Authorize

\* The cleanup takes what was approved in the task that ends, and another chat's
\* approvals keep the task they are of.
LEMMA EndTaskHolds ==
    ASSUME IInv, NEW c \in Chats, EndTask(c)
    PROVE  IInv'
  <1>1. c \in Threads /\ pc[c] = "running"
    BY WorkerThread DEF EndTask
  <1>2. PICK left : left = {g \in memory.grants :
                                ~(Temporary(g) /\ g.task = task[c])}
    OBVIOUS
  <1>3. /\ memory' = [memory EXCEPT !.grants = left]
        /\ task' = [task EXCEPT ![c] = NoId]
        /\ GoPersist(c, "idle") \/ GoOn(c, "idle")
        /\ UNCHANGED <<call, scope, store, draft, counters, used>>
    BY <1>2 DEF EndTask
  <1>4. memory' \in Document /\ memory'.grants = left
    <2>1. left \subseteq Grant
      BY <1>2, TypeParts DEF IInv
    <2>2. memory \in Document
      BY DEF IInv, TypeOK
    <2> QED
      BY <1>3, <2>1, <2>2 DEF Document
  <1>5. MemoryHolds' /\ UsesHold' /\ OnceMeansOnce' /\ GrantsKeepTheirHolder'
    BY <1>2, <1>3, <1>4, FewerGrants DEF counters
  <1>6. FilesHold' /\ MarksHold'
    <2>1. MarksOf(memory') \subseteq AllMarks
      BY <1>2, <1>4, MarksOfFewer, PartsOfMarks
    <2> QED
      BY <1>3, <2>1, SameFiles, PartsOfMarks, MarksAreOf, MarksStay DEF counters
  <1>7. /\ task'[c] = NoId
        /\ \A d \in Chats \ {c} : task'[d] = task[d]
    BY <1>3 DEF IInv, TypeOK
  <1>8. TypeOK'
    <2>1. \A g, h \in memory'.grants : g.id = h.id => g = h
      BY <1>5 DEF MemoryHolds, Orderly
    <2>2. /\ pc' \in [Threads -> {"idle", "running", "authorize", "approval",
                           "grant", "resume", "snapshot", "open", "write"}]
          /\ after' \in [Threads -> {"idle", "running", "resume"}]
      BY <1>3 DEF GoPersist, GoOn, IInv, TypeOK
    <2>3. task' \in [Chats -> Tasks \cup {NoId}]
      BY <1>3 DEF IInv, TypeOK
    <2> QED
      BY <1>3, <1>4, <2>1, <2>2, <2>3 DEF counters, IInv, TypeOK
  <1>9. ApprovalsHaveTheirTask'
    <2>1. ASSUME NEW g \in memory'.grants, g.reason = "approval", Temporary(g)
          PROVE  g.task # NoId /\ \E d \in Chats : task'[d] = g.task
      <3>1. g \in memory.grants /\ g.task # task[c]
        BY <1>2, <1>4, <2>1
      <3>2. PICK d \in Chats : task[d] = g.task
        BY <2>1, <3>1 DEF IInv, ApprovalsHaveTheirTask
      <3> QED
        BY <1>7, <2>1, <3>1, <3>2 DEF IInv, ApprovalsHaveTheirTask
    <2> QED
      BY <2>1 DEF ApprovalsHaveTheirTask
  <1>10. PlacesHold'
    <2>1. \/ pc'[c] = "snapshot" /\ after'[c] = "idle"
          \/ pc'[c] = "idle"
      BY <1>1, <1>3 DEF IInv, TypeOK, GoPersist, GoOn
    <2>2. \A d \in Chats \ {c} : pc'[d] = pc[d] /\ after'[d] = after[d]
      BY <1>3, WorkerThread DEF IInv, TypeOK, GoPersist, GoOn
    <2> QED
      BY <1>7, <2>1, <2>2, PlaceOf DEF IInv, Busy, Persisting
  <1> QED
    BY <1>5, <1>6, <1>8, <1>9, <1>10 DEF IInv

-----------------------------------------------------------------------------
(* The operator's commands.                                                *)

LEMMA GrantIsMore ==
    ASSUME NEW d \in Document, made \in Nat, made < MaxGrants,
           NEW o \in Offers, NEW s \in Scopes, NEW b \in BOOLEAN,
           NEW who \in {"telegram", "cli"},
           NEW e, e = AfterGrant(d, o, s, b, who)
    PROVE  /\ e \in Document
           /\ \E f : /\ Fresh(f, made) /\ f.reason = who
                     /\ f.persisted = b /\ f.scope = s
                     /\ e.grants = d.grants \cup {f}
  <1>1. o.kind \in Kinds /\ o.target \in Targets /\ o.mode \in Modes
    BY Constants
  <1>2. PICK f : f = NewGrant(made + 1, o, s, who)
    OBVIOUS
  <1>3. Fresh(f, made) /\ f.reason = who /\ f.scope = s
    BY <1>1, <1>2, NewGrantIs
  <1>4. PICK g : g = [f EXCEPT !.persisted = b]
    OBVIOUS
  <1>5. /\ Fresh(g, made) /\ g.reason = who
        /\ g.persisted = b /\ g.scope = s
    BY <1>3, <1>4, MarkedGrantIs
  <1>6. PICK S : S = d.grants \cup {g}
    OBVIOUS
  <1>7. e = [d EXCEPT !.grants = S]
    BY <1>2, <1>4, <1>6, Zenon DEF AfterGrant
  <1>8. S \subseteq Grant
    BY <1>5, <1>6, DocumentParts DEF Fresh
  <1>9. e \in Document /\ e.grants = S
    BY <1>7, <1>8 DEF Document
  <1> QED
    BY <1>5, <1>6, <1>9

\* A command on the memory, given what it does to the grants.
LEMMA TelegramCommandHolds ==
    ASSUME IInv, NEW d \in Document, NEW n \in {0, 1},
           made + n <= MaxGrants, TelegramCommand(d, n),
           \A g \in d.grants : g \in memory.grants \/ g.reason # "approval",
           MemoryHolds', MarksHold', UsesHold', OnceMeansOnce',
           GrantsKeepTheirHolder'
    PROVE  IInv'
  <1>1. "telegram" \in Threads /\ made \in Nat /\ commands \in Nat
    BY OtherThreads, TypeParts, Constants DEF IInv, TypeOK
  <1>2. FilesHold'
    BY <1>1, SameFiles DEF TelegramCommand
  <1>3. TypeOK'
    <2>1. \A g, h \in memory'.grants : g.id = h.id => g = h
      BY DEF MemoryHolds, Orderly
    <2>2. /\ pc' \in [Threads -> {"idle", "running", "authorize", "approval",
                           "grant", "resume", "snapshot", "open", "write"}]
          /\ after' \in [Threads -> {"idle", "running", "resume"}]
      BY DEF TelegramCommand, GoPersist, IInv, TypeOK
    <2>3. made' \in 0 .. MaxGrants /\ commands' \in 0 .. MaxCommands
      BY <1>1, Constants DEF TelegramCommand
    <2> QED
      BY <2>1, <2>2, <2>3 DEF TelegramCommand, IInv, TypeOK
  <1>4. ApprovalsHaveTheirTask'
    BY DEF TelegramCommand, IInv, ApprovalsHaveTheirTask
  <1>5. PlacesHold'
    BY WorkerThread DEF TelegramCommand, GoPersist, IInv, TypeOK, PlacesHold, Busy
  <1> QED
    BY <1>2, <1>3, <1>4, <1>5 DEF IInv

LEMMA TelegramShrinks ==
    ASSUME IInv, NEW d \in Document, d.grants \subseteq memory.grants,
           TelegramCommand(d, 0)
    PROVE  IInv'
  <1>1. /\ memory' = d /\ made' = made
        /\ UNCHANGED <<store, draft, restarts, used>>
    BY TypeParts DEF TelegramCommand, IInv
  <1>2. /\ MemoryHolds' /\ MarksHold' /\ UsesHold'
        /\ OnceMeansOnce' /\ GrantsKeepTheirHolder'
    <2>1. MarksOf(memory') \subseteq AllMarks
      BY <1>1, MarksOfFewer, PartsOfMarks
    <2> QED
      BY <1>1, <2>1, FewerGrants, PartsOfMarks, MarksAreOf, MarksStay
  <1>3. made + 0 <= MaxGrants
    BY TypeParts DEF IInv
  <1> QED
    BY <1>2, <1>3, TelegramCommandHolds

LEMMA TelegramStepHolds ==
    ASSUME IInv, TelegramStep
    PROVE  IInv'
  <1>0. memory \in Document /\ made \in Nat
    BY TypeParts DEF IInv
  <1>1. CASE \E p \in Switchable : TelegramSet(p)
    <2>1. PICK p \in Switchable : TelegramSet(p)
      BY <1>1
    <2>2. PICK d : d = AfterSet(memory, p)
      OBVIOUS
    <2>3. d \in Document /\ d.grants = memory.grants
      BY <1>0, <2>2, SetIsDocument, Constants
    <2> QED
      BY <2>1, <2>2, <2>3, TelegramShrinks DEF TelegramSet
  <1>2. CASE \E o \in Offers, s \in Scopes : TelegramGrant(o, s)
    <2>1. PICK o \in Offers, s \in Scopes : TelegramGrant(o, s)
      BY <1>2
    <2>2. PICK d : d = AfterGrant(memory, o, s, s = "Permanent", "telegram")
      OBVIOUS
    <2>3. made < MaxGrants /\ TelegramCommand(d, 1)
      BY <2>1, <2>2 DEF TelegramGrant
    <2>4. /\ d \in Document
          /\ \E f : /\ Fresh(f, made) /\ f.reason = "telegram"
                    /\ f.persisted => ~Temporary(f)
                    /\ d.grants = memory.grants \cup {f}
      <3>1. PICK b \in BOOLEAN : b = (s = "Permanent")
        OBVIOUS
      <3>2. d = AfterGrant(memory, o, s, b, "telegram")
        BY <2>2, <3>1, Zenon
      <3>3. /\ d \in Document
            /\ \E f : /\ Fresh(f, made) /\ f.reason = "telegram"
                      /\ f.persisted = b /\ f.scope = s
                      /\ d.grants = memory.grants \cup {f}
        BY <1>0, <2>3, <3>2, GrantIsMore
      <3> QED
        BY <3>1, <3>3 DEF Temporary
    <2>5. PICK f : /\ Fresh(f, made) /\ f.reason = "telegram"
                   /\ f.persisted => ~Temporary(f)
                   /\ d.grants = memory.grants \cup {f}
      BY <2>4
    <2>6. /\ memory' = d /\ made' = made + 1
          /\ UNCHANGED <<store, draft, restarts, used>>
      BY <2>3 DEF TelegramCommand
    <2>8. MemoryHolds' /\ UsesHold' /\ OnceMeansOnce' /\ GrantsKeepTheirHolder'
      BY <2>5, <2>6, MoreGrants
    <2>9. MarksHold'
      <3>1. MarksOf(memory') \subseteq AllMarks \cup {MarkOf(f)}
        BY <2>5, <2>6, PartsOfMarks DEF MarksOf
      <3> QED
        BY <2>5, <2>6, <3>1, PartsOfMarks, MarksAreOf, MarksGrow
    <2>7. made + 1 <= MaxGrants
      BY <1>0, <2>3, Constants
    <2> QED
      BY <2>3, <2>4, <2>5, <2>7, <2>8, <2>9, TelegramCommandHolds
  <1>3. CASE \E gone \in Named(memory) : TelegramRevoke(gone)
    <2>1. PICK gone : TelegramRevoke(gone)
      BY <1>3
    <2>2. PICK d : d = AfterRevoke(memory, gone)
      OBVIOUS
    <2>3. d \in Document /\ d.grants \subseteq memory.grants
      BY <1>0, <2>2, RevokeIsLess
    <2> QED
      BY <2>1, <2>2, <2>3, TelegramShrinks DEF TelegramRevoke
  <1>4. CASE TelegramLockdown
    <2>1. PICK d : d = AfterLockdown(memory)
      OBVIOUS
    <2>2. d \in Document /\ d.grants \subseteq memory.grants
      BY <1>0, <2>1, LockdownIsDocument
    <2> QED
      BY <1>4, <2>1, <2>2, TelegramShrinks DEF TelegramLockdown
  <1> QED
    BY <1>1, <1>2, <1>3, <1>4 DEF TelegramStep

\* A command on the file, given what the document it makes holds.
LEMMA CliCommandHolds ==
    ASSUME IInv, NEW d \in Document, NEW n \in {0, 1},
           made + n <= MaxGrants, CliCommand(d, n),
           Orderly(d, made + n), Lasting(d), MarksHold'
    PROVE  IInv'
  <1>1. "cli" \in Threads /\ made \in Nat /\ commands \in Nat
    BY OtherThreads, TypeParts, Constants DEF IInv, TypeOK
  <1>2. made' = made + n /\ made' \in {made, made + 1} /\ memory' = memory
        /\ used' = used /\ store' = store /\ restarts' = restarts
    BY <1>1 DEF CliCommand, service
  <1>3. MemoryHolds' /\ UsesHold' /\ OnceMeansOnce' /\ GrantsKeepTheirHolder'
    BY <1>2, FewerGrants
  <1>4. FilesHold'
    <2>1. made' \in Nat /\ made <= made'
      BY <1>1, <1>2
    <2>2. Orderly(store.doc, made')
      BY <1>1, <2>1, LessOrderly, TypeParts DEF IInv, FilesHold
    <2>3. \A th \in Threads : draft'[th] = d \/ draft'[th] = draft[th]
      BY <1>1 DEF CliCommand, IInv, TypeOK
    <2>4. \A th \in Threads : Orderly(draft[th], made')
      BY <1>1, <2>1, LessOrderly, TypeParts DEF IInv, FilesHold
    <2>5. \A th \in Threads : Orderly(draft'[th], made') /\ Lasting(draft'[th])
      BY <1>2, <2>3, <2>4 DEF IInv, FilesHold
    <2> QED
      BY <1>2, <2>2, <2>5 DEF IInv, FilesHold, Orderly, Lasting
  <1>5. TypeOK'
    <2>1. /\ pc' \in [Threads -> {"idle", "running", "authorize", "approval",
                           "grant", "resume", "snapshot", "open", "write"}]
          /\ draft' \in [Threads -> Document]
      BY DEF CliCommand, GoOn, IInv, TypeOK
    <2>2. made' \in 0 .. MaxGrants /\ commands' \in 0 .. MaxCommands
      BY <1>1, Constants DEF CliCommand
    <2> QED
      BY <2>1, <2>2 DEF CliCommand, GoOn, service, IInv, TypeOK
  <1>6. ApprovalsHaveTheirTask'
    BY DEF CliCommand, service, IInv, ApprovalsHaveTheirTask
  <1>7. PlacesHold'
    BY WorkerThread DEF CliCommand, GoOn, service, IInv, TypeOK, PlacesHold, Busy
  <1> QED
    BY <1>3, <1>4, <1>5, <1>6, <1>7 DEF IInv

\* The marks of a command's document are all that it adds.
LEMMA CliMarks ==
    ASSUME IInv, NEW d, NEW n, CliCommand(d, n),
           NEW M, AllMarks \subseteq M, MarksOf(d) \subseteq M
    PROVE  AllMarks' \subseteq M
  <1>1. \A th \in Threads : draft'[th] = d \/ draft'[th] = draft[th]
    BY DEF CliCommand, IInv, TypeOK
  <1>2. \A th \in Threads : MarksOf(draft'[th]) \subseteq M
    BY <1>1, PartsOfMarks
  <1>3. memory' = memory /\ store' = store /\ used' = used
    BY DEF CliCommand, service
  <1> QED
    BY <1>2, <1>3, PartsOfMarks, MarksAreOf

LEMMA CliShrinks ==
    ASSUME IInv, NEW d \in Document, d.grants \subseteq store.doc.grants,
           CliCommand(d, 0)
    PROVE  IInv'
  <1>1. made \in Nat /\ made <= MaxGrants /\ store.doc \in Document
    BY TypeParts DEF IInv
  <1>2. Orderly(d, made + 0)
    BY <1>1, LessOrderly DEF IInv, FilesHold
  <1>3. Lasting(d)
    BY DEF Lasting, IInv, FilesHold
  <1>4. made + 0 <= MaxGrants
    BY <1>1
  <1>5. MarksHold'
    BY MarksOfFewer, PartsOfMarks, CliMarks, MarksStay
  <1> QED
    BY <1>2, <1>3, <1>4, <1>5, CliCommandHolds

LEMMA CliStepHolds ==
    ASSUME IInv, CliStep
    PROVE  IInv'
  <1>0. store.doc \in Document /\ made \in Nat
    BY TypeParts DEF IInv
  <1>1. CASE \E p \in Switchable : CliSet(p)
    <2>1. PICK p \in Switchable : CliSet(p)
      BY <1>1
    <2>2. PICK d : d = AfterSet(store.doc, p)
      OBVIOUS
    <2>3. d \in Document /\ d.grants = store.doc.grants
      BY <1>0, <2>2, SetIsDocument, Constants
    <2> QED
      BY <2>1, <2>2, <2>3, CliShrinks DEF CliSet
  <1>2. CASE \E o \in Offers, s \in Scopes : CliGrant(o, s)
    <2>1. PICK o \in Offers, s \in Scopes : CliGrant(o, s)
      BY <1>2
    <2>2. PICK d : d = AfterGrant(store.doc, o, s, TRUE, "cli")
      OBVIOUS
    <2>3. made < MaxGrants /\ CliCommand(d, 1)
      BY <2>1, <2>2 DEF CliGrant
    <2>4. /\ d \in Document
          /\ \E f : /\ Fresh(f, made) /\ f.reason = "cli"
                    /\ d.grants = store.doc.grants \cup {f}
      <3>1. PICK b \in BOOLEAN : b = TRUE
        OBVIOUS
      <3>2. d = AfterGrant(store.doc, o, s, b, "cli")
        BY <2>2, <3>1, Zenon
      <3> QED
        BY <1>0, <2>3, <3>2, GrantIsMore
    <2>5. PICK f : /\ Fresh(f, made) /\ f.reason = "cli"
                   /\ d.grants = store.doc.grants \cup {f}
      BY <2>4
    <2>6. Orderly(d, made + 1)
      BY <1>0, <2>5, MoreOrderly DEF IInv, FilesHold
    <2>7. Lasting(d)
      BY <2>5 DEF Lasting, MayBeRestored, IInv, FilesHold
    <2>8. made + 1 <= MaxGrants
      BY <1>0, <2>3, Constants
    <2>9. MarksHold'
      <3>1. MarksOf(d) \subseteq AllMarks \cup {MarkOf(f)}
        BY <2>5, PartsOfMarks DEF MarksOf
      <3>2. AllMarks' \subseteq AllMarks \cup {MarkOf(f)}
        BY <2>3, <3>1, CliMarks
      <3> QED
        BY <2>5, <3>2, MarksGrow
    <2> QED
      BY <2>3, <2>4, <2>6, <2>7, <2>8, <2>9, CliCommandHolds
  <1>3. CASE \E gone \in Named(store.doc) : CliRevoke(gone)
    <2>1. PICK gone : CliRevoke(gone)
      BY <1>3
    <2>2. PICK d : d = AfterRevoke(store.doc, gone)
      OBVIOUS
    <2>3. d \in Document /\ d.grants \subseteq store.doc.grants
      BY <1>0, <2>2, RevokeIsLess
    <2> QED
      BY <2>1, <2>2, <2>3, CliShrinks DEF CliRevoke
  <1>4. CASE CliLockdown
    <2>1. PICK d : d = AfterLockdown(store.doc)
      OBVIOUS
    <2>2. d \in Document /\ d.grants \subseteq store.doc.grants
      BY <1>0, <2>1, LockdownIsDocument
    <2> QED
      BY <1>4, <2>1, <2>2, CliShrinks DEF CliLockdown
  <1> QED
    BY <1>1, <1>2, <1>3, <1>4 DEF CliStep

-----------------------------------------------------------------------------
(* Writing the file, and the restart that reads it.                        *)

LEMMA SnapshotHolds ==
    ASSUME IInv, NEW th \in Threads, Snapshot(th)
    PROVE  IInv'
  <1>1. PICK d : d = Kept(memory)
    OBVIOUS
  <1>2. /\ d \in Document /\ d.grants \subseteq memory.grants
        /\ \A g \in d.grants : g.persisted
    BY <1>1, TypeParts, KeptIsLess DEF IInv
  <1>3. Orderly(d, made) /\ Lasting(d)
    <2>1. Orderly(d, made)
      BY <1>2, LessOrderly, TypeParts DEF IInv, MemoryHolds
    <2>2. Lasting(d)
      BY <1>2 DEF Lasting, Marked, IInv, MemoryHolds
    <2> QED
      BY <2>1, <2>2
  <1>4. /\ draft' = [draft EXCEPT ![th] = d] /\ pc' = [pc EXCEPT ![th] = "open"]
        /\ pc[th] = "snapshot"
        /\ UNCHANGED <<memory, task, call, scope, store, after, counters, used>>
    BY <1>1 DEF Snapshot, service
  <1>5. TypeOK'
    BY <1>2, <1>4 DEF counters, IInv, TypeOK
  <1>6. FilesHold'
    <2>1. \A x \in Threads : draft'[x] = d \/ draft'[x] = draft[x]
      BY <1>4 DEF IInv, TypeOK
    <2>2. \A x \in Threads : Orderly(draft'[x], made) /\ Lasting(draft'[x])
      BY <1>3, <2>1 DEF IInv, FilesHold
    <2> QED
      BY <1>4, <2>2 DEF counters, IInv, FilesHold, Orderly, Lasting
  <1>7. /\ MemoryHolds' /\ UsesHold' /\ OnceMeansOnce'
        /\ GrantsKeepTheirHolder' /\ ApprovalsHaveTheirTask'
    BY <1>4, FewerGrants DEF counters, IInv, ApprovalsHaveTheirTask
  <1>8. PlacesHold'
    BY <1>4, WorkerThread DEF IInv, TypeOK, PlacesHold, Busy, Persisting
  <1>9. MarksHold'
    <2>1. MarksOf(d) \subseteq AllMarks
      BY <1>2, MarksOfFewer, PartsOfMarks
    <2>2. \A x \in Threads : draft'[x] = d \/ draft'[x] = draft[x]
      BY <1>4 DEF IInv, TypeOK
    <2>3. \A x \in Threads : MarksOf(draft'[x]) \subseteq AllMarks
      BY <2>1, <2>2, PartsOfMarks
    <2> QED
      BY <1>4, <2>3, PartsOfMarks, MarksAreOf, MarksStay
  <1> QED
    BY <1>5, <1>6, <1>7, <1>8, <1>9 DEF IInv

LEMMA OpenHolds ==
    ASSUME IInv, NEW th \in Threads, Open(th)
    PROVE  IInv'
  <1>1. /\ store' = [state |-> "empty", doc |-> DefaultDocument]
        /\ pc' = [pc EXCEPT ![th] = "write"] /\ pc[th] = "open"
        /\ UNCHANGED <<memory, task, call, scope, after, draft, counters, used>>
    BY DEF Open, service
  <1>2. Orderly(DefaultDocument, made) /\ Lasting(DefaultDocument)
    BY DefaultIsDocument, NoGrants
  <1>3. TypeOK'
    BY <1>1, DefaultIsDocument DEF counters, IInv, TypeOK
  <1>4. FilesHold'
    <2>1. store'.doc = DefaultDocument
      BY <1>1
    <2> QED
      BY <1>1, <1>2, <2>1 DEF counters, IInv, FilesHold, Orderly, Lasting
  <1>5. /\ MemoryHolds' /\ UsesHold' /\ OnceMeansOnce'
        /\ GrantsKeepTheirHolder' /\ ApprovalsHaveTheirTask'
    BY <1>1, FewerGrants DEF counters, IInv, ApprovalsHaveTheirTask
  <1>6. PlacesHold'
    BY <1>1, WorkerThread DEF IInv, TypeOK, PlacesHold, Busy, Persisting
  <1>7. MarksHold'
    <2>1. MarksOf(store'.doc) \subseteq AllMarks
      BY <1>1, DefaultIsDocument, NoGrantsNoMarks
    <2> QED
      BY <1>1, <2>1, PartsOfMarks, MarksAreOf, MarksStay
  <1> QED
    BY <1>3, <1>4, <1>5, <1>6, <1>7 DEF IInv

\* Whatever the overwritten file holds, it is a document that was there, the one
\* written, or none.
LEMMA OverwrittenIs ==
    ASSUME NEW d \in Document, NEW s, s \in Overwritten(d), TypeOK
    PROVE  /\ s \in [state : {"whole", "empty", "garbled"}, doc : Document]
           /\ s.doc \in {d, store.doc, DefaultDocument}
  <1>1. \/ s = [state |-> "whole", doc |-> d]
        \/ s = store
        \/ s = [state |-> "garbled", doc |-> DefaultDocument]
    BY DEF Overwritten
  <1> QED
    BY <1>1, DefaultIsDocument DEF TypeOK

LEMMA WriteHolds ==
    ASSUME IInv, NEW th \in Threads, Write(th)
    PROVE  IInv'
  <1>1. /\ store' \in Overwritten(draft[th])
        /\ pc' = [pc EXCEPT ![th] = after[th]] /\ pc[th] = "write"
        /\ after' = [after EXCEPT ![th] = "idle"]
        /\ draft' = [draft EXCEPT ![th] = DefaultDocument]
        /\ UNCHANGED <<memory, task, call, scope, counters, used>>
    BY DEF Write, service
  <1>2. Orderly(DefaultDocument, made) /\ Lasting(DefaultDocument)
    BY DefaultIsDocument, NoGrants
  <1>3. /\ store' \in [state : {"whole", "empty", "garbled"}, doc : Document]
        /\ store'.doc \in {draft[th], store.doc, DefaultDocument}
    BY <1>1, TypeParts, OverwrittenIs DEF IInv
  <1>4. TypeOK'
    BY <1>1, <1>3, DefaultIsDocument DEF counters, IInv, TypeOK
  <1>5. FilesHold'
    <2>1. \A x \in Threads : draft'[x] \in {DefaultDocument, draft[x]}
      BY <1>1 DEF IInv, TypeOK
    <2>2. \A x \in Threads : Orderly(draft'[x], made) /\ Lasting(draft'[x])
      BY <1>2, <2>1 DEF IInv, FilesHold
    <2>3. Orderly(store'.doc, made) /\ Lasting(store'.doc)
      BY <1>2, <1>3 DEF IInv, FilesHold
    <2> QED
      BY <1>1, <2>2, <2>3 DEF counters, FilesHold, Orderly, Lasting
  <1>6. /\ MemoryHolds' /\ UsesHold' /\ OnceMeansOnce'
        /\ GrantsKeepTheirHolder' /\ ApprovalsHaveTheirTask'
    BY <1>1, FewerGrants DEF counters, IInv, ApprovalsHaveTheirTask
  <1>7. PlacesHold'
    <2>1. after[th] \in {"idle", "running", "resume"}
      BY DEF IInv, TypeOK
    <2>2. \A c \in Chats : Busy(pc'[c], after'[c]) <=> Busy(pc[c], after[c])
      <3>1. TAKE c \in Chats
      <3>2. CASE c = th
        BY <1>1, <2>1, <3>2 DEF IInv, TypeOK, Busy, Persisting
      <3>3. CASE c # th
        BY <1>1, <3>3, WorkerThread DEF IInv, TypeOK, Busy
      <3> QED
        BY <3>2, <3>3
    <2> QED
      BY <1>1, <2>2 DEF IInv, PlacesHold, Busy
  <1>8. MarksHold'
    <2>1. MarksOf(DefaultDocument) \subseteq AllMarks
      BY DefaultIsDocument, NoGrantsNoMarks
    <2>2. \A x \in Threads : draft'[x] \in {DefaultDocument, draft[x]}
      BY <1>1 DEF IInv, TypeOK
    <2>3. \A x \in Threads : MarksOf(draft'[x]) \subseteq AllMarks
      BY <2>1, <2>2, PartsOfMarks
    <2>4. MarksOf(store'.doc) \subseteq AllMarks
      BY <1>3, <2>1, PartsOfMarks
    <2> QED
      BY <1>1, <2>3, <2>4, PartsOfMarks, MarksAreOf, MarksStay
  <1> QED
    BY <1>4, <1>5, <1>6, <1>7, <1>8 DEF IInv

LEMMA RestartHolds ==
    ASSUME IInv, Restart
    PROVE  IInv'
  <1>1. /\ store.doc \in Document /\ made \in Nat
        /\ restarts \in Nat /\ restarts < MaxRestarts
        /\ Orderly(store.doc, made) /\ Lasting(store.doc)
    BY TypeParts, Constants DEF IInv, TypeOK, FilesHold, Restart
  <1>2. /\ memory' = store.doc /\ used' = used
        /\ UNCHANGED <<call, store, made, begun, commands>>
        /\ restarts' = restarts + 1
        /\ task' = [c \in Chats |-> NoId] /\ scope' = [c \in Chats |-> "Once"]
        /\ after' = [th \in Threads |-> "idle"]
        /\ pc' = [th \in Threads |-> IF th = "cli" THEN pc[th] ELSE "idle"]
        /\ draft' = [th \in Threads |->
                        IF th = "cli" THEN draft[th] ELSE DefaultDocument]
    BY DEF Restart
  <1>3. MemoryHolds'
    BY <1>1, <1>2 DEF MemoryHolds, Marked, Lasting, Orderly
  <1>4. FilesHold'
    <2>1. Orderly(DefaultDocument, made) /\ Lasting(DefaultDocument)
      BY DefaultIsDocument, NoGrants
    <2>2. \A x \in Threads : draft'[x] \in {DefaultDocument, draft[x]}
      BY <1>2
    <2>3. \A x \in Threads : Orderly(draft'[x], made) /\ Lasting(draft'[x])
      BY <2>1, <2>2 DEF IInv, FilesHold
    <2> QED
      BY <1>1, <1>2, <2>3 DEF FilesHold, Orderly, Lasting
  <1>5. TypeOK'
    <2>1. /\ pc' \in [Threads -> {"idle", "running", "authorize", "approval",
                           "grant", "resume", "snapshot", "open", "write"}]
          /\ after' \in [Threads -> {"idle", "running", "resume"}]
      BY <1>2 DEF IInv, TypeOK
    <2>2. draft' \in [Threads -> Document]
      BY <1>2, DefaultIsDocument DEF IInv, TypeOK
    <2>3. /\ task' \in [Chats -> Tasks \cup {NoId}]
          /\ scope' \in [Chats -> Scopes] /\ call' \in [Chats -> Requests]
      BY <1>2 DEF IInv, TypeOK, Scopes
    <2>4. restarts' \in 0 .. MaxRestarts
      BY <1>1, <1>2, Constants
    <2>5. memory' \in Document /\ \A g, h \in memory'.grants : g.id = h.id => g = h
      BY <1>1, <1>2 DEF Orderly
    <2>6. /\ store' \in [state : {"whole", "empty", "garbled"}, doc : Document]
          /\ made' \in 0 .. MaxGrants /\ begun' \in 0 .. MaxTasks
          /\ commands' \in 0 .. MaxCommands
      BY <1>2 DEF IInv, TypeOK
    <2>7. used' \subseteq UseRecord
      BY <1>2 DEF IInv, TypeOK, UseRecord
    <2> QED
      BY <2>1, <2>2, <2>3, <2>4, <2>5, <2>6, <2>7 DEF TypeOK, UseRecord
  <1>6. /\ UsesHold' /\ OnceMeansOnce' /\ GrantsKeepTheirHolder'
    <2>1. \A u \in used : /\ u.id <= made /\ u.life \in Nat
                          /\ u.life <= restarts + 1 /\ u.life # restarts + 1
      BY <1>1, TypeParts DEF IInv, UsesHold
    <2>2. \A g \in store.doc.grants : MayBeRestored(g.reason) \/ ~Temporary(g)
      BY <1>1 DEF Lasting
    <2>3. UsesHold'
      BY <1>2, <2>1, <2>2 DEF UsesHold
    <2>4. ASSUME NEW u \in used, u.scope = "Once",
                 NEW g \in store.doc.grants, g.id = u.id
          PROVE  MayBeRestored(g.reason) /\ u.life # restarts + 1
      <3>1. MarkOf(g) \in AllMarks /\ MarkOf(u) \in AllMarks
        BY PartsOfMarks DEF MarksOf
      <3>2. MarkOf(g) = MarkOf(u)
        BY <2>4, <3>1 DEF IInv, MarksHold, MarkOf
      <3>3. Temporary(g)
        BY <2>4, <3>2 DEF MarkOf, Temporary
      <3> QED
        BY <2>1, <2>2, <3>3
    <2>5. OnceMeansOnce'
      BY <1>2, <2>4 DEF OnceMeansOnce
    <2> QED
      BY <1>2, <2>3, <2>5 DEF IInv, GrantsKeepTheirHolder
  <1>7. ApprovalsHaveTheirTask'
    BY <1>1, <1>2 DEF ApprovalsHaveTheirTask, Lasting, MayBeRestored
  <1>8. PlacesHold'
    <2>1. \A c \in Chats : task'[c] = NoId /\ pc'[c] = "idle"
      BY <1>2, WorkerThread
    <2> QED
      BY <2>1 DEF PlacesHold, Busy, Persisting
  <1>9. MarksHold'
    <2>1. MarksOf(DefaultDocument) \subseteq AllMarks
      BY DefaultIsDocument, NoGrantsNoMarks
    <2>2. \A x \in Threads : draft'[x] \in {DefaultDocument, draft[x]}
      BY <1>2
    <2>3. \A x \in Threads : MarksOf(draft'[x]) \subseteq AllMarks
      BY <2>1, <2>2, PartsOfMarks
    <2> QED
      BY <1>2, <2>3, PartsOfMarks, MarksAreOf, MarksStay
  <1> QED
    BY <1>3, <1>4, <1>5, <1>6, <1>7, <1>8, <1>9 DEF IInv

-----------------------------------------------------------------------------
(* What was removed.                                                       *)

\* Every grant the memory holds after a step was there before, or is new.
NothingReturns ==
    \A g \in memory'.grants :
        g.id \in 1 .. made => \E h \in memory.grants : h.id = g.id

LEMMA NewGrantReturnsNothing ==
    ASSUME IInv, NEW f, f.id = made + 1,
           memory'.grants = memory.grants \cup {f}
    PROVE  NothingReturns
  BY TypeParts DEF IInv, NothingReturns

LEMMA FewerReturnNothing ==
    ASSUME memory'.grants \subseteq memory.grants
    PROVE  NothingReturns
  BY DEF NothingReturns

LEMMA WorkerReturnsNothing ==
    ASSUME IInv, NEW c \in Chats, WorkerStep(c)
    PROVE  NothingReturns
  <1>0. memory \in Document
    BY DEF IInv, TypeOK
  <1>1. CASE memory' = memory
    BY <1>1, FewerReturnNothing
  <1>2. CASE AddGrant(c)
    <2>1. PICK f : f = ApprovedGrant(c)
      OBVIOUS
    <2>2. f.id = made + 1
      BY <2>1 DEF ApprovedGrant, NewGrant
    <2>3. memory' = [memory EXCEPT !.grants = memory.grants \cup {f}]
      BY <1>2, <2>1 DEF AddGrant
    <2>4. memory'.grants = memory.grants \cup {f}
      BY <1>0, <2>3 DEF Document
    <2> QED
      BY <2>2, <2>4, NewGrantReturnsNothing
  <1>3. CASE Authorize(c) /\ UseGrant(c)
    <2>1. PICK t \in Tasks : t = task[c]
      BY <1>3 DEF Authorize, IInv, PlacesHold, Busy, Persisting, TypeOK
    <2>2. PICK old : old = Oldest(Matching(c, call[c]))
      OBVIOUS
    <2>3. old \in memory.grants /\ old \in Grant
      <3>1. Matching(c, call[c]) \subseteq Grant
        BY TypeParts DEF Matching, IInv
      <3>2. old \in Matching(c, call[c])
        BY <1>3, <2>2, <3>1, OldestFits DEF UseGrant
      <3> QED
        BY <3>1, <3>2 DEF Matching
    <2>4. PICK b \in Grant : b = BindScope(old, t, c) /\ b.id = old.id
      BY <2>3, BoundGrantIs
    <2>5. PICK new : new = Consume(b) /\ new.id = old.id
      BY <2>4, ConsumedGrantIs
    <2>6. PICK left : left = {g \in (memory.grants \ {old}) \cup {new} :
                                  ~Expired(g)}
      OBVIOUS
    <2>7. memory' = [memory EXCEPT !.grants = left]
      BY <1>3, <2>1, <2>2, <2>4, <2>5, <2>6 DEF UseGrant
    <2>8. memory'.grants = left
      BY <1>0, <2>7 DEF Document
    <2>9. \A g \in left : \E h \in memory.grants : h.id = g.id
      BY <2>3, <2>5, <2>6
    <2> QED
      BY <2>8, <2>9 DEF NothingReturns
  <1>4. CASE EndTask(c)
    <2>1. PICK left : left = {g \in memory.grants :
                                  ~(Temporary(g) /\ g.task = task[c])}
      OBVIOUS
    <2>2. memory' = [memory EXCEPT !.grants = left]
      BY <1>4, <2>1 DEF EndTask
    <2>3. memory'.grants = left
      BY <1>0, <2>2 DEF Document
    <2> QED
      BY <2>1, <2>3, FewerReturnNothing
  <1>5. \/ memory' = memory
        \/ AddGrant(c)
        \/ Authorize(c) /\ UseGrant(c)
        \/ EndTask(c)
    BY DEF WorkerStep, StartTask, Check, Approve, Refuse, Authorize, UseConfig
  <1> QED
    BY <1>1, <1>2, <1>3, <1>4, <1>5

LEMMA TelegramReturnsNothing ==
    ASSUME IInv, TelegramStep
    PROVE  NothingReturns
  <1>0. memory \in Document
    BY DEF IInv, TypeOK
  <1>1. CASE \E p \in Switchable : TelegramSet(p)
    <2>1. PICK p \in Switchable : TelegramSet(p)
      BY <1>1
    <2>2. memory'.grants = memory.grants
      BY <1>0, <2>1, SetIsDocument, Constants DEF TelegramSet, TelegramCommand
    <2> QED
      BY <2>2, FewerReturnNothing
  <1>2. CASE \E o \in Offers, s \in Scopes : TelegramGrant(o, s)
    <2>1. PICK o \in Offers, s \in Scopes : TelegramGrant(o, s)
      BY <1>2
    <2>2. PICK d : d = AfterGrant(memory, o, s, s = "Permanent", "telegram")
      OBVIOUS
    <2>3. made < MaxGrants /\ memory' = d
      BY <2>1, <2>2 DEF TelegramGrant, TelegramCommand
    <2>4. PICK f : Fresh(f, made) /\ d.grants = memory.grants \cup {f}
      <3>1. PICK b \in BOOLEAN : b = (s = "Permanent")
        OBVIOUS
      <3>2. d = AfterGrant(memory, o, s, b, "telegram")
        BY <2>2, <3>1, Zenon
      <3> QED
        BY <1>0, <2>3, <3>2, GrantIsMore, TypeParts DEF IInv
    <2> QED
      BY <2>3, <2>4, NewGrantReturnsNothing DEF Fresh
  <1>3. CASE \E gone \in Named(memory) : TelegramRevoke(gone)
    <2>1. PICK gone : TelegramRevoke(gone)
      BY <1>3
    <2>2. memory'.grants \subseteq memory.grants
      BY <1>0, <2>1, RevokeIsLess DEF TelegramRevoke, TelegramCommand
    <2> QED
      BY <2>2, FewerReturnNothing
  <1>4. CASE TelegramLockdown
    <2>1. memory'.grants \subseteq memory.grants
      BY <1>0, <1>4, LockdownIsDocument DEF TelegramLockdown, TelegramCommand
    <2> QED
      BY <2>1, FewerReturnNothing
  <1> QED
    BY <1>1, <1>2, <1>3, <1>4 DEF TelegramStep

LEMMA StepReturnsNothing ==
    ASSUME IInv, [Next]_vars
    PROVE  restarts' = restarts => NothingReturns
  <1>1. ASSUME NEW th \in Threads, PersistStep(th) PROVE NothingReturns
    BY <1>1, FewerReturnNothing
       DEF PersistStep, Snapshot, Open, Write, service
  <1>2. CASE CliStep
    BY <1>2, FewerReturnNothing
       DEF CliStep, CliSet, CliGrant, CliRevoke, CliLockdown, CliCommand,
           service
  <1>3. CASE UNCHANGED vars
    BY <1>3, FewerReturnNothing DEF vars, service
  <1>4. CASE Restart
    BY <1>4, Constants DEF Restart, IInv, TypeOK
  <1> QED
    BY <1>1, <1>2, <1>3, <1>4, WorkerReturnsNothing, TelegramReturnsNothing
       DEF Next

-----------------------------------------------------------------------------
(* The theorems.                                                           *)

LEMMA InitHolds ==
    ASSUME Init
    PROVE  IInv
  <1>1. PICK d : d = [access |-> FirstAccess, grants |-> {}]
    OBVIOUS
  <1>2. d \in Document /\ d.grants = {}
    BY <1>1, Constants DEF Document
  <1>3. store = [state |-> "whole", doc |-> d] /\ memory = d
    BY <1>1 DEF Init
  <1>4. TypeOK
    <2>1. call \in [Chats -> Requests]
      BY Constants DEF Init
    <2>2. /\ pc \in [Threads -> {"idle", "running", "authorize", "approval",
                           "grant", "resume", "snapshot", "open", "write"}]
          /\ after \in [Threads -> {"idle", "running", "resume"}]
      BY DEF Init
    <2>3. draft \in [Threads -> Document]
      BY DefaultIsDocument DEF Init
    <2>4. task \in [Chats -> Tasks \cup {NoId}] /\ scope \in [Chats -> Scopes]
      BY DEF Init, Scopes
    <2>5. /\ made \in 0 .. MaxGrants /\ begun \in 0 .. MaxTasks
          /\ commands \in 0 .. MaxCommands /\ restarts \in 0 .. MaxRestarts
      BY Constants DEF Init
    <2>6. /\ memory \in Document
          /\ \A g, h \in memory.grants : g.id = h.id => g = h
          /\ store \in [state : {"whole", "empty", "garbled"}, doc : Document]
      BY <1>2, <1>3
    <2>7. used \subseteq UseRecord
      BY DEF Init
    <2> QED
      BY <2>1, <2>2, <2>3, <2>4, <2>5, <2>6, <2>7 DEF TypeOK, UseRecord
  <1>5. MemoryHolds
    BY <1>2, <1>3, NoGrants DEF MemoryHolds
  <1>6. FilesHold
    <2>1. \A th \in Threads : draft[th] = DefaultDocument
      BY DEF Init
    <2>2. \A th \in Threads : Orderly(draft[th], made) /\ Lasting(draft[th])
      BY <2>1, DefaultIsDocument, NoGrants
    <2>3. Orderly(store.doc, made) /\ Lasting(store.doc)
      BY <1>2, <1>3, NoGrants
    <2> QED
      BY <2>2, <2>3 DEF FilesHold
  <1>7. UsesHold /\ OnceMeansOnce /\ GrantsKeepTheirHolder
    BY DEF Init, UsesHold, OnceMeansOnce, GrantsKeepTheirHolder
  <1>8. ApprovalsHaveTheirTask
    BY <1>2, <1>3 DEF ApprovalsHaveTheirTask
  <1>9. PlacesHold
    BY WorkerThread DEF Init, PlacesHold, Busy, Persisting
  <1>10. MarksHold
    <2>1. \A th \in Threads : MarksOf(draft[th]) = {}
      BY DefaultIsDocument, NoGrantsNoMarks DEF Init
    <2>2. MarksOf(memory) = {} /\ MarksOf(store.doc) = {} /\ used = {}
      BY <1>2, <1>3, NoGrantsNoMarks DEF Init
    <2> QED
      BY <2>1, <2>2 DEF MarksHold, AllMarks
  <1> QED
    BY <1>4, <1>5, <1>6, <1>7, <1>8, <1>9, <1>10 DEF IInv

LEMMA StepHolds ==
    ASSUME IInv, [Next]_vars
    PROVE  IInv'
  <1>1. ASSUME NEW c \in Chats, WorkerStep(c) PROVE IInv'
    BY <1>1, StartTaskHolds, CheckHolds, ApproveHolds, RefuseHolds,
       AddGrantHolds, AuthorizeHolds, EndTaskHolds DEF WorkerStep
  <1>2. ASSUME NEW th \in Threads, PersistStep(th) PROVE IInv'
    BY <1>2, SnapshotHolds, OpenHolds, WriteHolds DEF PersistStep
  <1>3. CASE UNCHANGED vars
    <2>1. UNCHANGED <<memory, task, call, scope, store, pc, after, draft,
                      made, begun, commands, restarts, used>>
      BY <1>3 DEF vars, service, counters
    <2>2. TypeOK' /\ PlacesHold' /\ ApprovalsHaveTheirTask'
      BY <2>1 DEF IInv, TypeOK, PlacesHold, Busy, ApprovalsHaveTheirTask
    <2> QED
      BY <2>1, <2>2, SameGrants DEF IInv
  <1> QED
    BY <1>1, <1>2, <1>3, TelegramStepHolds, CliStepHolds, RestartHolds DEF Next

\* The inductive invariant holds of every behaviour.
THEOREM Invariance == Spec => []IInv
  BY InitHolds, StepHolds, PTL DEF Spec

\* Every variable has its type throughout, with any number of chats writing the
\* file at once.
THEOREM TypeCorrect == Spec => []TypeOK
  <1>1. IInv => TypeOK
    BY DEF IInv
  <1> QED
    BY <1>1, Invariance, PTL

\* A grant for one use never authorises a second call, in however many tasks and
\* over however many restarts, but for one of `topagent access` that the file
\* still lists when the service starts again.
THEOREM OnceIsAlwaysOnce == Spec => []OnceMeansOnce
  <1>1. IInv => OnceMeansOnce
    BY DEF IInv
  <1> QED
    BY <1>1, Invariance, PTL

\* A grant serves the task or the chat that used it first and no other, over
\* restarts too, but for one of `topagent access` that was read from the file
\* again as it was before it was bound.
THEOREM HoldersAreAlwaysKept == Spec => []GrantsKeepTheirHolder
  <1>1. IInv => GrantsKeepTheirHolder
    BY DEF IInv
  <1> QED
    BY <1>1, Invariance, PTL

\* A temporary approval is never in memory without the task it was given in, and
\* no file, and no document on its way to one, lists it.
THEOREM ApprovalsAlwaysEnd == Spec => []ApprovalsEndWithTheirTask
  <1>1. IInv => ApprovalsHaveTheirTask
    BY DEF IInv
  <1>2. IInv => TemporaryApprovalsAreNotStored
    BY DEF IInv, FilesHold, Lasting, MayBeRestored,
           TemporaryApprovalsAreNotStored
  <1>3. IInv => ApprovalsEndWithTheirTask
    BY <1>1, <1>2 DEF ApprovalsEndWithTheirTask
  <1> QED
    BY <1>3, Invariance, PTL

\* A grant that was used up, revoked, cleared or locked down does not come back
\* while the service runs.
THEOREM RemovedGrantsAlwaysStayRemoved == Spec => RemovedGrantsStayRemoved
  <1>1. IInv /\ [Next]_vars =>
            [restarts' = restarts => NothingReturns]_vars
    BY StepReturnsNothing
  <1>2. [restarts' = restarts => NothingReturns]_vars =>
            [restarts' = restarts =>
                \A g \in memory'.grants :
                    g.id \in 1 .. made =>
                        \E h \in memory.grants : h.id = g.id]_vars
    BY DEF NothingReturns
  <1> QED
    BY <1>1, <1>2, Invariance, PTL DEF Spec, RemovedGrantsStayRemoved

-----------------------------------------------------------------------------
(* The properties of AccessProfile for every set of targets, every place   *)
(* they are in and every set of requests: type correctness, the order of   *)
(* the profiles, what a lockdown takes away, what high-impact requests     *)
(* need, and that the shipped defaults are those of the documentation.     *)
(* Then those of SkillAdmission, for every set of calls: what the harness  *)
(* and the skills decide independently of each other agrees.               *)

\* What a configuration decides is a matter of each request by itself: a set of
\* requests is allowed within another when each of its members is.
LEMMA AllowedPointwise ==
    ASSUME NEW c, NEW d,
           \A r \in Judged : DecisionFromConfig(c, r) = "Allow"
                                  => DecisionFromConfig(d, r) = "Allow"
    PROVE  Allowed(c) \subseteq Allowed(d)
  BY DEF Allowed

\* A request is allowed when it needs no approval and its default is open.
LEMMA AllowMeans ==
    ASSUME NEW c, NEW r
    PROVE  DecisionFromConfig(c, r) = "Allow" <=>
              /\ r.kind # "SecretRead"
              /\ ~RequiresApproval(c, r)
              /\ AllowedByDefault(c, r)
  BY DEF DecisionFromConfig

\* The fields of a profile's defaults.
LEMMA DefaultFields ==
    ASSUME NEW p \in Profiles
    PROVE  /\ ForProfile(p) \in Config
           /\ ForProfile(p).profile = p
           /\ ForProfile(p).network_default <=> p \in DeveloperLike
           /\ ForProfile(p).web_search_default <=> p \in DeveloperLike
           /\ ForProfile(p).computer_use_default <=> p = "Computer"
           /\ ForProfile(p).allow_workspace_write
           /\ ~ForProfile(p).allow_home_read
           /\ ~ForProfile(p).allow_home_write
           /\ ForProfile(p).require_approval = Switches
  <1>1. ForProfile(p).network_default <=> p \in DeveloperLike
    BY Zenon DEF ForProfile
  <1>2. ForProfile(p).web_search_default <=> p \in DeveloperLike
    BY Zenon DEF ForProfile
  <1>3. ForProfile(p).computer_use_default <=> p = "Computer"
    BY Zenon DEF ForProfile
  <1>4. /\ ForProfile(p).profile = p
        /\ ForProfile(p).allow_workspace_write
        /\ ~ForProfile(p).allow_home_read
        /\ ~ForProfile(p).allow_home_write
        /\ ForProfile(p).require_approval = Switches
    BY DEF ForProfile
  <1>5. ForProfile(p) \in Config
    BY DEF ForProfile, Config
  <1> QED
    BY <1>1, <1>2, <1>3, <1>4, <1>5

\* A configuration is its fields.
LEMMA SameFields ==
    ASSUME NEW c \in Config, NEW d \in Config,
           c.profile = d.profile,
           c.network_default <=> d.network_default,
           c.web_search_default <=> d.web_search_default,
           c.computer_use_default <=> d.computer_use_default,
           c.allow_workspace_write <=> d.allow_workspace_write,
           c.allow_home_read <=> d.allow_home_read,
           c.allow_home_write <=> d.allow_home_write,
           c.require_approval = d.require_approval
    PROVE  c = d
  <1>1. /\ c.network_default = d.network_default
        /\ c.web_search_default = d.web_search_default
        /\ c.computer_use_default = d.computer_use_default
        /\ c.allow_workspace_write = d.allow_workspace_write
        /\ c.allow_home_read = d.allow_home_read
        /\ c.allow_home_write = d.allow_home_write
    BY DEF Config
  <1> QED
    BY <1>1 DEF Config

\* set_profile_defaults leaves home access and the switches and replaces the
\* rest by the profile's defaults.
LEMMA SetFields ==
    ASSUME NEW c \in Config, NEW p \in Profiles
    PROVE  /\ SetProfileDefaults(c, p) \in Config
           /\ SetProfileDefaults(c, p).profile = p
           /\ SetProfileDefaults(c, p).network_default <=> p \in DeveloperLike
           /\ SetProfileDefaults(c, p).web_search_default
                <=> p \in DeveloperLike
           /\ SetProfileDefaults(c, p).computer_use_default <=> p = "Computer"
           /\ SetProfileDefaults(c, p).allow_workspace_write
           /\ SetProfileDefaults(c, p).allow_home_read <=> c.allow_home_read
           /\ SetProfileDefaults(c, p).allow_home_write <=> c.allow_home_write
           /\ SetProfileDefaults(c, p).require_approval = c.require_approval
  <1>1. /\ ForProfile(p).profile \in Profiles
        /\ ForProfile(p).network_default \in BOOLEAN
        /\ ForProfile(p).web_search_default \in BOOLEAN
        /\ ForProfile(p).computer_use_default \in BOOLEAN
        /\ ForProfile(p).allow_workspace_write \in BOOLEAN
    BY DefaultFields DEF Config
  <1>2. SetProfileDefaults(c, p) \in Config
    BY <1>1 DEF SetProfileDefaults, Config
  <1> QED
    BY <1>2, DefaultFields DEF SetProfileDefaults, Config

\* AccessConfig::lockdown closes everything but the workspace and leaves the
\* switches and workspace writes.
LEMMA LockFields ==
    ASSUME NEW c \in Config
    PROVE  /\ LockConfig(c) \in Config
           /\ LockConfig(c).profile = "Workspace"
           /\ ~LockConfig(c).network_default
           /\ ~LockConfig(c).web_search_default
           /\ ~LockConfig(c).computer_use_default
           /\ LockConfig(c).allow_workspace_write <=> c.allow_workspace_write
           /\ ~LockConfig(c).allow_home_read
           /\ ~LockConfig(c).allow_home_write
           /\ LockConfig(c).require_approval = c.require_approval
  BY DEF LockConfig, Config, Profiles

-----------------------------------------------------------------------------
\* Raising the profile never closes a request: each profile allows at least
\* what every profile of a lower rank allows.
LEMMA RaisingOpens ==
    ASSUME NEW c \in Config, NEW p \in Profiles, NEW q \in Profiles,
           Rank[p] <= Rank[q], NEW r,
           DecisionFromConfig(SetProfileDefaults(c, p), r) = "Allow"
    PROVE  DecisionFromConfig(SetProfileDefaults(c, q), r) = "Allow"
  <1> DEFINE cp == SetProfileDefaults(c, p)
             cq == SetProfileDefaults(c, q)
  <1>1. /\ r.kind # "SecretRead"
        /\ ~RequiresApproval(cp, r)
        /\ AllowedByDefault(cp, r)
    BY AllowMeans
  <1>2. ~RequiresApproval(cq, r)
    <2>1. cp.require_approval = cq.require_approval
      BY SetFields
    <2> HIDE DEF cp, cq
    <2> QED
      BY <1>1, <2>1 DEF RequiresApproval
  <1>3. /\ p \in DeveloperLike => q \in DeveloperLike
        /\ p \in {"Computer", "Full"} => q \in {"Computer", "Full"}
        /\ p = "Full" => q = "Full"
    BY DEF Rank, Profiles, DeveloperLike
  <1>4. FilesystemAllowed(cp, r) => FilesystemAllowed(cq, r)
    BY <1>3, SetFields DEF FilesystemAllowed
  <1>5. AllowedByDefault(cq, r)
    <2>1. /\ cp.profile = p /\ cq.profile = q
          /\ cp.network_default => p \in DeveloperLike
          /\ cp.web_search_default => p \in DeveloperLike
          /\ q \in DeveloperLike =>
                cq.network_default /\ cq.web_search_default
      BY SetFields
    <2> HIDE DEF cp, cq
    <2> QED
      BY <1>1, <1>3, <1>4, <2>1 DEF AllowedByDefault, ComputerUseAllowed
  <1> QED
    BY <1>1, <1>2, <1>5, AllowMeans

\* A request that a lockdown lets through was allowed before it, and stays
\* inside the workspace.
LEMMA LockingCloses ==
    ASSUME NEW c \in Config, NEW r,
           DecisionFromConfig(LockConfig(c), r) = "Allow"
    PROVE  DecisionFromConfig(c, r) = "Allow" /\ ~Outside(r)
  <1> DEFINE d == LockConfig(c)
  <1>1. /\ r.kind # "SecretRead"
        /\ ~RequiresApproval(d, r)
        /\ AllowedByDefault(d, r)
    BY AllowMeans
  <1>2. ~RequiresApproval(c, r)
    BY <1>1, LockFields DEF RequiresApproval
  <1>3. FilesystemAllowed(d, r) =>
           FilesystemAllowed(c, r) /\ Place[r.target] = "workspace"
    BY LockFields DEF FilesystemAllowed
  <1>4. \/ r.kind = "Filesystem" /\ FilesystemAllowed(d, r)
        \/ r.kind \in {"Shell", "Git", "PackageManager", "MemoryWrite"}
    BY <1>1, LockFields DEF AllowedByDefault, ComputerUseAllowed, DeveloperLike
  <1>5. AllowedByDefault(c, r)
    BY <1>3, <1>4 DEF AllowedByDefault
  <1>6. ~Outside(r)
    BY <1>3, <1>4 DEF Outside
  <1> QED
    BY <1>1, <1>2, <1>5, <1>6, AllowMeans

\* With every switch on, a request that is allowed is of low impact.
LEMMA SwitchesGuard ==
    ASSUME NEW c, NEW r, DecisionFromConfig(c, r) = "Allow",
           c.require_approval = Switches
    PROVE  ~HighImpact(r)
  <1>1. r.kind \in DOMAIN SwitchOf => SwitchOf[r.kind] \in Switches
    BY DEF SwitchOf, Switches
  <1> QED
    BY <1>1, AllowMeans DEF RequiresApproval

\* For the defaults of a profile the code's decision is the documented one.
LEMMA DefaultsDocumented ==
    ASSUME NEW p \in Profiles, NEW r \in Request
    PROVE  DecisionFromConfig(ForProfile(p), r) = "Allow" <=> Documented(p, r)
  <1> DEFINE c == ForProfile(p)
  <1>1. RequiresApproval(c, r) <=> HighImpact(r)
    BY DEF RequiresApproval, ForProfile, SwitchOf, Switches
  <1>2. FilesystemAllowed(c, r) <=>
           (p = "Full" \/ Place[r.target] = "workspace")
    BY PolicyAssumption DEF FilesystemAllowed, ForProfile, Writes, Request
  <1>3. AllowedByDefault(c, r) <=>
           /\ r.kind \notin {"SecretRead", "ExternalSend", "SystemService"}
           /\ r.kind \in {"Network", "WebSearch"} => p # "Workspace"
           /\ r.kind = "ComputerUse" => p \in {"Computer", "Full"}
           /\ r.kind = "Filesystem" => FilesystemAllowed(c, r)
    BY DEF AllowedByDefault, ComputerUseAllowed, ForProfile, DeveloperLike,
           Profiles, Request, Kinds
  <1> QED
    BY <1>1, <1>2, <1>3, AllowMeans DEF Documented

-----------------------------------------------------------------------------
\* The inductive invariant: a configuration nobody edited is the defaults of
\* the profile it names.
Unedited == ~edited => \E p \in Profiles : config = ForProfile(p)

ProfileInv == ProfileTypeOK /\ Unedited

\* What set makes of a profile's defaults are the other profile's defaults,
\* and what a lockdown makes of them are the workspace profile's.
LEMMA DefaultsStayDefaults ==
    ASSUME NEW p \in Profiles
    PROVE  /\ \A q \in Profiles :
                 SetProfileDefaults(ForProfile(p), q) = ForProfile(q)
           /\ LockConfig(ForProfile(p)) = ForProfile("Workspace")
  <1>1. ASSUME NEW q \in Profiles
        PROVE  SetProfileDefaults(ForProfile(p), q) = ForProfile(q)
    <2>1. ForProfile(p) \in Config /\ ForProfile(q) \in Config
      BY DefaultFields
    <2> QED
      BY <2>1, DefaultFields, SetFields, SameFields
  <1>2. LockConfig(ForProfile(p)) = ForProfile("Workspace")
    <2>1. ForProfile(p) \in Config /\ "Workspace" \in Profiles
      BY DefaultFields DEF Profiles
    <2>2. ~("Workspace" \in DeveloperLike) /\ ~("Workspace" = "Computer")
      BY DEF DeveloperLike
    <2> QED
      BY <2>1, <2>2, DefaultFields, LockFields, SameFields
  <1> QED
    BY <1>1, <1>2

\* The invariant holds of whatever file the service or the CLI starts from.
LEMMA ProfileInitInvariant == ProfileInit => ProfileInv
  BY DEF ProfileInit, ProfileInv, ProfileTypeOK, Unedited

\* set and lockdown keep the configuration well formed, and defaults defaults.
LEMMA ProfileNextInvariant == ProfileInv /\ [ProfileNext]_profileVars => ProfileInv'
  <1> SUFFICES ASSUME ProfileInv, [ProfileNext]_profileVars PROVE ProfileInv'
    OBVIOUS
  <1>1. CASE UNCHANGED profileVars
    BY <1>1 DEF ProfileInv, ProfileTypeOK, Unedited, profileVars
  <1>2. ASSUME NEW p \in Profiles, Set(p) PROVE ProfileInv'
    <2>1. ProfileTypeOK'
      BY <1>2, SetFields DEF ProfileInv, ProfileTypeOK, Set
    <2>2. Unedited'
      BY <1>2, DefaultsStayDefaults DEF ProfileInv, Unedited, Set
    <2> QED
      BY <2>1, <2>2 DEF ProfileInv
  <1>3. CASE Lockdown
    <2>1. ProfileTypeOK'
      BY <1>3, LockFields DEF ProfileInv, ProfileTypeOK, Lockdown
    <2>2. Unedited'
      BY <1>3, DefaultsStayDefaults DEF ProfileInv, Unedited, Lockdown, Profiles
    <2> QED
      BY <2>1, <2>2 DEF ProfileInv
  <1> QED
    BY <1>1, <1>2, <1>3 DEF ProfileNext

\* The inductive invariant holds in every reachable state.
THEOREM ProfileInvariance == ProfileSpec => []ProfileInv
  BY ProfileInitInvariant, ProfileNextInvariant, PTL DEF ProfileSpec

\* The configuration is always one the file can hold.
THEOREM ProfileTypeCorrect == ProfileSpec => []ProfileTypeOK
  <1>1. ProfileInv => ProfileTypeOK
    BY DEF ProfileInv
  <1> QED
    BY <1>1, ProfileInvariance, PTL

\* Each profile allows at least what the one before it allows, for every file
\* an operator may have written and every request.
THEOREM OrderOfProfiles == ProfileSpec => []ProfilesAreOrdered
  <1>1. ProfileInv => ProfilesAreOrdered
    <2> SUFFICES ASSUME ProfileTypeOK,
                        NEW p \in Profiles, NEW q \in Profiles,
                        Rank[p] <= Rank[q]
                 PROVE  Allowed(SetProfileDefaults(config, p))
                          \subseteq Allowed(SetProfileDefaults(config, q))
      BY DEF ProfileInv, ProfilesAreOrdered
    <2>1. config \in Config
      BY DEF ProfileTypeOK
    <2> QED
      BY <2>1, RaisingOpens, AllowedPointwise
  <1> QED
    BY <1>1, ProfileInvariance, PTL

\* A lockdown, whatever it starts from, leaves nothing allowed that reaches
\* out of the workspace.
THEOREM Confinement == ProfileSpec => []LockdownConfines
  <1>1. ProfileInv => LockdownConfines
    BY LockingCloses DEF ProfileInv, ProfileTypeOK, LockdownConfines, Allowed
  <1> QED
    BY <1>1, ProfileInvariance, PTL

\* A lockdown never opens a request that was closed.
THEOREM Narrowing == ProfileSpec => LockdownOnlyNarrows
  <1>1. ProfileInv => [Lockdown => Allowed(config)' \subseteq Allowed(config)]_profileVars
    <2> SUFFICES ASSUME ProfileInv, Lockdown
                 PROVE  Allowed(config)' \subseteq Allowed(config)
      OBVIOUS
    <2>1. config \in Config /\ config' = LockConfig(config)
      BY DEF ProfileInv, ProfileTypeOK, Lockdown
    <2>2. \A r \in Judged : DecisionFromConfig(config', r) = "Allow"
                                 => DecisionFromConfig(config, r) = "Allow"
      BY <2>1, LockingCloses
    <2> QED
      BY <2>2 DEF Allowed
  <1> QED
    BY <1>1, ProfileInvariance, PTL DEF LockdownOnlyNarrows

\* High-impact requests are never allowed by a configuration with its switches
\* on, and secret paths by none.
THEOREM Caution == ProfileSpec => []HighImpactIsAsked
  <1>1. ProfileInv => HighImpactIsAsked
    BY AllowMeans, SwitchesGuard DEF HighImpactIsAsked, Allowed
  <1> QED
    BY <1>1, ProfileInvariance, PTL

\* Starting from a profile's defaults, any sequence of commands leads to the
\* defaults of some profile, and they decide as the documentation says.
THEOREM AsDocumented == ProfileSpec => []DefaultsAreAsDocumented
  <1>1. ProfileInv => DefaultsAreAsDocumented
    <2> SUFFICES ASSUME NEW p \in Profiles, config = ForProfile(p)
                 PROVE  Allowed(config) =
                          {r \in Judged : Documented(config.profile, r)}
      BY DEF ProfileInv, Unedited, DefaultsAreAsDocumented
    <2>1. config.profile = p
      BY DEF ForProfile
    <2>2. \A r \in Judged :
             DecisionFromConfig(config, r) = "Allow" <=> Documented(p, r)
      BY DefaultsDocumented, RequestsAssumption
    <2> QED
      BY <2>1, <2>2 DEF Allowed
  <1> QED
    BY <1>1, ProfileInvariance, PTL

-----------------------------------------------------------------------------
(* What the harness and the skills work out independently.                 *)

\* The last rule always fits, so that some rule is the first that does.
LEMMA FirstOfSixteen ==
    ASSUME NEW S \in SUBSET (1 .. 16), 16 \in S
    PROVE  Min(S) \in S
  <1>1. \E x \in S : \A y \in S : x <= y
    <2>1. CASE S \cap 1 .. 8 = {}
      BY <2>1
    <2>2. CASE S \cap 1 .. 8 # {}
      BY <2>2
    <2> QED
      BY <2>1, <2>2
  <1> QED
    BY <1>1 DEF Min

\* Whatever the command, its assessment is one of the four risks.
LEMMA AssessedRisk == ASSUME NEW c PROVE Assess(c).risk \in Risks
  <1> DEFINE rules == Rules(c)
             fits == {i \in DOMAIN rules : rules[i].when}
  <1>1. /\ DOMAIN rules = 1 .. 16
        /\ \A i \in 1 .. 16 : rules[i].risk \in Risks
        /\ rules[16].when
    BY DEF Rules, Rule, Risks
  <1>2. Min(fits) \in 1 .. 16
    <2> HIDE DEF rules
    <2> QED
      BY <1>1, FirstOfSixteen
  <1> QED
    BY <1>1, <1>2 DEF Assess

\* A risk is not above itself, so a request covers itself.
LEMMA CoversItself ==
    ASSUME NEW r, r.risk \in Risks
    PROVE  Covers(r, r)
  <1>1. RiskRank[r.risk] \in Int
    BY DEF RiskRank, Risks
  <1> QED
    BY <1>1 DEF Covers, ModeAllows

\* What a skill checks for itself the harness has checked for, where nothing
\* is trimmed.
LEMMA CheckedBeforehand ==
    ASSUME NEW c \in Calls, Trimmed[c.at] = c.at, NEW r \in CheckedWithin(c)
    PROVE  \E given \in CheckedBefore(c) : Covers(given, r)
  <1> DEFINE s == c.skill
  <1>0. s \in Skills
    BY AdmissionAssumption
  <1> SUFFICES r \in CheckedBefore(c) /\ r.risk \in Risks
    BY CoversItself
  <1>1. CASE s = "bash"
    <2>1. CheckedWithin(c) = CheckedBefore(c)
      BY <1>1 DEF CheckedWithin, CheckedBefore, GitReaders, MemorySkills
    <2>2. Assess(c.command).risk \in Risks /\ "Safe" \in Risks
      BY AssessedRisk DEF Risks
    <2>3. r.risk \in {Assess(c.command).risk, "Safe"}
      <3>1. r \in CommandRequests(c, Trimmed[c.at])
        BY <2>1, <1>1 DEF CheckedBefore
      <3>2. \/ r = Req("Network", Trimmed[c.at], "Read", "Safe")
            \/ r = Req(Assess(c.command).kind, Trimmed[c.at], "Execute",
                      Assess(c.command).risk)
        BY <3>1, Zenon DEF CommandRequests
      <3> QED
        BY <3>2 DEF Req
    <2> QED
      BY <2>1, <2>2, <2>3
  <1>2. CASE s \in {"read", "write", "edit"}
    <2>1. r \in FileToolRequests(c)
      BY <1>2 DEF CheckedWithin, GitReaders, MemorySkills
    <2>2. Effects(s) = CASE s = "read" -> {"ReadFilesystem"}
                         [] s = "write" -> {"WriteFilesystem"}
                         [] s = "edit" -> {"ReadFilesystem", "WriteFilesystem"}
      BY <1>2 DEF Effects
    <2>3. FileRequests(c) = FileToolRequests(c)
      BY <1>2, <2>2 DEF FileRequests, FileToolRequests, FilesystemMode
    <2>4. r.risk \in Risks
      BY <2>1 DEF FileToolRequests, PathRequest, Req, Risks
    <2> QED
      BY <1>2, <2>1, <2>3, <2>4 DEF CheckedBefore
  <1>3. CASE s = "git_clone"
    <2>1. Effects(s) = {"GitWrite", "NetworkAccess", "WriteFilesystem"} /\ RiskOf(c) = "Moderate"
      BY <1>3 DEF Effects, RiskOf, ReadOnly, GitReaders, MemorySkills
    <2>2. CheckedWithin(c) = GitCloneRequests(c)
      BY <1>3 DEF CheckedWithin, GitReaders, MemorySkills
    <2>3. GitRequests(c) = {Req("Git", c.at, "Execute", "Moderate")}
      BY <1>3, <2>1 DEF GitRequests
    <2>4. Req("Network", c.at, "Read", "Safe") \in OtherRequests(c)
      BY <1>3, <2>1 DEF OtherRequests
    <2> QED
      BY <1>3, <2>2, <2>3, <2>4 DEF GitCloneRequests, CheckedBefore, Req, Risks
  <1>4. CASE s \in GitReaders \cup {"git_add", "git_commit"}
    <2>1. Effects(s) \cap {"GitRead", "GitWrite"} # {}
      BY <1>4 DEF Effects, GitReaders, MemorySkills
    <2>2. r = Req("Git", s, "Execute", IF s \in GitReaders THEN "Safe" ELSE "Moderate")
      BY <1>4 DEF CheckedWithin, GitToolRequests, GitReaders, MemorySkills
    <2>3. s # "git_commit" => RiskOf(c) = IF s \in GitReaders THEN "Safe" ELSE "Moderate"
      BY <1>4 DEF RiskOf, ReadOnly, GitReaders
    <2>4. r \in GitRequests(c)
      BY <1>4, <2>1, <2>2, <2>3 DEF GitRequests, GitReaders
    <2> QED
      BY <1>4, <2>2, <2>4 DEF CheckedBefore, Req, Risks, GitReaders
  <1>5. CASE s \in MemorySkills
    <2>1. Effects(s) = {"MemoryWrite"}
      BY <1>5 DEF Effects, MemorySkills, GitReaders
    <2>2. c.action # "list" /\ r = Req("MemoryWrite", s, "Write",
                                       IF s = "save_note" THEN "Moderate" ELSE "High")
      BY <1>5 DEF CheckedWithin, MemoryToolRequests, MemorySkills, GitReaders
    <2>3. RiskOf(c) = IF s = "save_note" THEN "Moderate" ELSE "High"
      BY <1>5, <2>2 DEF RiskOf, ReadOnly, MemorySkills, GitReaders
    <2>4. r \in OtherRequests(c)
      BY <1>5, <2>1, <2>2, <2>3 DEF OtherRequests, MemorySkills
    <2> QED
      BY <1>5, <2>2, <2>4 DEF CheckedBefore, Req, Risks, MemorySkills
  <1>6. CASE s = "web_search"
    <2>1. Effects(s) = {"WebSearch", "NetworkAccess"}
      BY <1>6 DEF Effects, GitReaders, MemorySkills
    <2>2. r = Req("WebSearch", s, "Read", "Safe")
      BY <1>6 DEF CheckedWithin, GitReaders, MemorySkills
    <2>3. r \in OtherRequests(c)
      BY <1>6, <2>1, <2>2 DEF OtherRequests
    <2> QED
      BY <1>6, <2>2, <2>3 DEF CheckedBefore, Req, Risks
  <1>7. CASE s = "computer_use"
    <2>1. Effects(s) = {"ComputerUse"}
      BY <1>7 DEF Effects, GitReaders, MemorySkills
    <2>2. r = Req("ComputerUse", c.at, "Execute", ActionRisk(c))
      BY <1>7 DEF CheckedWithin, GitReaders, MemorySkills
    <2>3. r \in OtherRequests(c)
      BY <1>7, <2>1, <2>2 DEF OtherRequests
    <2> QED
      BY <1>7, <2>2, <2>3 DEF CheckedBefore, Req, ActionRisk, Risks
  <1>8. CASE s = "update_plan"
    BY <1>8 DEF CheckedWithin, GitReaders, MemorySkills
  <1> QED
    BY <1>0, <1>1, <1>2, <1>3, <1>4, <1>5, <1>6, <1>7, <1>8
       DEF Skills, MutationSkills

\* A call the operator has let through is not asked about again from within
\* the skill (harness/runtime.rs, ToolContext::authorize_capability): there is
\* nothing left to ask about, whatever the configuration.
THEOREM NeverAskedTwice == ProfileSpec => []NotAskedTwice
  <1>1. AskedAgain = {}
    BY CheckedBeforehand DEF AskedAgain, CheckedAgain
  <1>2. NotAskedTwice
    BY <1>1 DEF NotAskedTwice
  <1> QED
    BY <1>2, PTL

-----------------------------------------------------------------------------
(* A turn of the model.                                                    *)

\* Who has a plan is not behind the gate; a clone or a screen action is offered
\* only where the work has begun, and durable memory never.
OfferFits ==
    /\ turn.stage # "Review" /\ (turn.gate => ~turn.plan)
    /\ turn.gate /\ turn.stage = "Edit" => escalated
    /\ offered \cap {"git_clone", "computer_use"} # {} => turn.stage = "Edit"
    /\ offered \cap MemorySkills = {}

TurnInv == TurnTypeOK /\ Unedited /\ OfferFits

\* What is offered before the work has begun is allowed then, and so is not a
\* clone, a screen action or durable memory.
LEMMA OfferIsOfItsPhase ==
    ASSUME TurnInv
    PROVE  /\ Offered(config.profile, turn, granted) \subseteq Skills
           /\ Offered(config.profile, turn, granted)
                 \cap {"git_clone", "computer_use"} # {} => turn.stage = "Edit"
           /\ Offered(config.profile, turn, granted) \cap MemorySkills = {}
  <1> DEFINE phase == CurrentPhase(turn)
  <1>1. /\ phase \in {"Plan", "Patch", "Investigate"}
        /\ phase = "Patch" => turn.stage = "Edit"
    BY DEF TurnInv, TurnTypeOK, OfferFits, Situation, Stages, CurrentPhase, PhaseOfStage
  <1>2. \A s \in Offered(config.profile, turn, granted) :
           s \in Skills /\ AllowedInPhase(s, phase)
    BY DEF Offered
  <1> HIDE DEF phase
  <1>3. \A s \in {"git_clone", "computer_use"} :
           AllowedInPhase(s, phase) => phase = "Patch"
    BY <1>1 DEF AllowedInPhase, ReadOnly, GitReaders, MemorySkills
  <1>4. \A s \in MemorySkills : ~AllowedInPhase(s, phase)
    BY <1>1 DEF AllowedInPhase, ReadOnly, GitReaders, MemorySkills
  <1> QED
    BY <1>1, <1>2, <1>3, <1>4

LEMMA TurnInitInvariant == TurnInit => TurnInv
  BY ProfileInitInvariant
     DEF TurnInit, TurnInv, TurnTypeOK, OfferFits, ProfileInv, Situation, Stages

\* A call that mutates is past the planning gate, so the gate is down.
LEMMA TurnNextInvariant == TurnInv /\ [TurnNext]_turnVars => TurnInv'
  <1> SUFFICES ASSUME TurnInv, [TurnNext]_turnVars PROVE TurnInv'
    OBVIOUS
  <1>1. CASE OfferSkills
    BY <1>1, OfferIsOfItsPhase
       DEF OfferSkills, access, TurnInv, TurnTypeOK, OfferFits, ProfileTypeOK, Unedited
  <1>2. CASE GeneratePlan
    BY <1>2 DEF GeneratePlan, access, TurnInv, TurnTypeOK, OfferFits,
                ProfileTypeOK, Unedited, Situation
  <1>3. CASE ChangeAccess
    <2>1. [ProfileNext]_profileVars
      BY <1>3 DEF ChangeAccess, profileVars
    <2>2. (ProfileTypeOK /\ Unedited)'
      BY <2>1, ProfileNextInvariant DEF TurnInv, TurnTypeOK, ProfileInv
    <2> QED
      BY <1>3, <2>2 DEF ChangeAccess, TurnInv, TurnTypeOK, OfferFits, Features
  <1>4. ASSUME NEW c \in Calls, Mutate(c) PROVE TurnInv'
    <2>1. ~turn.gate
      <3>1. \/ c.skill \in MutationSkills
            \/ c.skill = "bash" /\ Class(c.command) # "ResearchSafe"
        <4>1. c.skill \in MutationSkills \/ IsRisky(c) \/ IsVerification(c)
          BY <1>4, Zenon DEF Mutate
        <4> QED
          BY <4>1 DEF IsRisky, IsVerification
      <3> QED
        BY <1>4, <3>1 DEF Mutate, Admitted, PlanningBlocks, TurnInv, OfferFits
    <2> QED
      BY <1>4, <2>1 DEF Mutate, access, TurnInv, TurnTypeOK, OfferFits,
                        ProfileTypeOK, Unedited, Situation, Stages
  <1>5. ASSUME NEW c \in Calls, UpdatePlan(c) PROVE TurnInv'
    BY <1>5 DEF UpdatePlan, access, TurnInv, TurnTypeOK, OfferFits,
                ProfileTypeOK, Unedited, Situation
  <1>6. CASE UNCHANGED turnVars
    BY <1>6 DEF turnVars, TurnInv, TurnTypeOK, OfferFits, ProfileTypeOK, Unedited
  <1> QED
    BY <1>1, <1>2, <1>3, <1>4, <1>5, <1>6 DEF TurnNext

\* An offered skill's call that the planning gate has let through, with the
\* access it was offered for, is refused only where the phase has changed so.
LEMMA RefusedForThePhase ==
    ASSUME TurnInv, NEW c \in Calls, OfferedAndDenied(c),
           AllowedByAccess(config.profile, c.skill, granted)
    PROVE  \/ c.skill = "web_search" /\ CurrentPhase(turn) = "Patch"
           \/ /\ c.skill \in {"git_clone", "computer_use"}
              /\ escalated /\ CurrentPhase(turn) = "Plan"
  <1> DEFINE s == c.skill
             class == Class(c.command)
             phase == PhaseOfCall(turn, c)
             missing == turn.gate /\ ~turn.plan
  <1>1. s \in Skills /\ s \notin MemorySkills
    BY DEF OfferedAndDenied, TurnInv, TurnTypeOK, OfferFits
  <1>2. class \in {"Verification", "MutationRisk", "ResearchSafe"}
    BY Zenon DEF Class
  <1>3. /\ CurrentPhase(turn) \in {"Plan", "Patch", "Investigate"}
        /\ missing <=> CurrentPhase(turn) = "Plan"
        /\ ~missing /\ turn.stage = "Edit" => CurrentPhase(turn) = "Patch"
    BY DEF TurnInv, TurnTypeOK, OfferFits, Situation, Stages, CurrentPhase, PhaseOfStage
  <1>4. s # "bash"
    <2> SUFFICES ASSUME s = "bash" PROVE CommandAllowed(c, phase)
      BY DEF OfferedAndDenied, PolicyDenies
    <2>1. CASE missing
      BY <1>2, <2>1 DEF OfferedAndDenied, PlanningBlocks, PhaseOfCall, CommandAllowed
    <2>2. CASE ~missing
      <3>1. phase = PhaseOfClass[class]
        BY <2>2 DEF PhaseOfCall, MemorySkills, MutationSkills
      <3> HIDE DEF phase
      <3> QED
        BY <1>2, <3>1 DEF CommandAllowed, PhaseOfClass
    <2> QED
      BY <2>1, <2>2
  <1>5. ~AllowedInPhase(s, phase)
    BY <1>4 DEF OfferedAndDenied, PolicyDenies
  <1>6. s \notin MutationSkills
    <2> SUFFICES ASSUME s \in MutationSkills PROVE AllowedInPhase(s, phase)
      BY <1>5
    <2>1. ~missing
      BY DEF OfferedAndDenied, PlanningBlocks
    <2>2. phase = "Patch"
      BY <1>1, <2>1 DEF PhaseOfCall, MutationSkills, MemorySkills
    <2> QED
      BY <1>1, <2>2 DEF AllowedInPhase, MutationSkills, MemorySkills
  <1>7. phase = CurrentPhase(turn)
    BY <1>1, <1>3, <1>4, <1>6 DEF PhaseOfCall
  <1> HIDE DEF phase
  <1>8. s \in {"web_search", "git_clone", "computer_use"}
    BY <1>1, <1>3, <1>4, <1>5, <1>6, <1>7
       DEF AllowedInPhase, Skills, ReadOnly, GitReaders, MemorySkills, MutationSkills
  <1>9. CASE s = "web_search"
    BY <1>3, <1>5, <1>7, <1>9 DEF AllowedInPhase
  <1>10. CASE s \in {"git_clone", "computer_use"}
    <2>1. CurrentPhase(turn) # "Patch"
      BY <1>5, <1>7, <1>10 DEF AllowedInPhase, MemorySkills
    <2>2. turn.stage = "Edit"
      BY <1>10 DEF OfferedAndDenied, TurnInv, OfferFits
    <2>3. missing
      BY <1>3, <2>1, <2>2
    <2> QED
      BY <1>3, <1>10, <2>2, <2>3 DEF TurnInv, OfferFits
  <1> QED
    BY <1>8, <1>9, <1>10

\* No call of a skill offered in the turn is refused by the harness, unless the
\* access was taken away since, or the work has begun (a web search), or the
\* changes were escalated (a clone, a screen action): whatever the calls of the
\* batch, the plans made in between and the changes of access.
THEOREM OfferedAlwaysRun == TurnSpec => []OfferedSkillsRun
  <1>1. TurnInv => OfferedSkillsRun
    BY RefusedForThePhase DEF OfferedSkillsRun
  <1> QED
    BY <1>1, TurnInitInvariant, TurnNextInvariant, PTL DEF TurnSpec

=============================================================================
