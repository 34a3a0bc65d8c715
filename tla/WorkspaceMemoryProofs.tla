----------------------- MODULE WorkspaceMemoryProofs -----------------------
(***************************************************************************)
(* Proofs about WorkspaceMemory: for any number of runs at work at once,   *)
(* any sets of files, any thresholds and limits, and deaths of processes   *)
(* anywhere.                                                               *)
(***************************************************************************)
EXTENDS WorkspaceMemory, FiniteSetTheorems, WellFoundedInduction, TLAPS

-----------------------------------------------------------------------------
(* The inductive invariant.                                                *)

SavedProcedures ==
    [status : {"active", "superseded", "disabled"}, title : Nat, reuse : Nat,
     revisions : Nat, trajectory : Trajectories \cup {None},
     by : Procedures \cup {None}]

SavedTrajectories == [review : {"local", "ready", "exported"}, low : BOOLEAN]

TypeOK ==
    /\ saved \subseteq Procedures
    /\ procs \in [Procedures -> SavedProcedures \cup {Absent}]
    /\ reused \in [Procedures -> Nat]
    /\ trajectories \in [Trajectories -> SavedTrajectories \cup {NoTrajectory}]
    /\ exports \subseteq Trajectories
    /\ proc = [p \in Processes |-> proc[p]]

\* Names are taken in the order of time.
InOrder == \A f \in saved, g \in Procedures \ saved : At[f] <= At[g]

\* What a procedure may be told to have for its successor, and for its source.
Succeeds(g, f) == g \in saved /\ g # f /\ At[f] <= At[g]

Trusted(t) ==
    t \in Trajectories /\ trajectories[t] # NoTrajectory /\ ~trajectories[t].low

\* What a file of a procedure says, one reuse being counted and not recorded
\* yet or none.
Sound(f, p, uncounted) ==
    /\ p.reuse <= reused[f] + uncounted
    /\ p.revisions > 0 => reused[f] + uncounted > RefineThreshold
    /\ p.status = "superseded" => reused[f] >= SupersedeThreshold /\ Succeeds(p.by, f)
    /\ p.trajectory # None => Trusted(p.trajectory)

FilesAreSound ==
    /\ \A f \in Procedures :
          procs[f] # Absent => f \in saved /\ Sound(f, procs[f], 0)
    /\ \A t \in exports : Trusted(t)

\* A job of a run that met no low-trust content.
HighTrust(job) == job.title \in Nat /\ job.low \in BOOLEAN /\ ~job.low

\* A step that revises a procedure has yet to count the use that led to it.
Uncounted(change) == IF change \in {"keep", "refine"} THEN 1 ELSE 0

\* What a process that has a change in mind knows.
ChangeFits(r) ==
    /\ r.file \in saved
    /\ r.change \in {"keep", "refine", "supersede", "disable", "source"}
    /\ r.change = "refine" => reused[r.file] >= RefineThreshold
    /\ r.change = "supersede" =>
          reused[r.file] >= SupersedeThreshold /\ Succeeds(r.by, r.file)
    /\ r.change = "source" => Trusted(r.by)
    /\ r.change \notin {"disable", "source"} => r.made \in saved /\ HighTrust(r.job)

\* What each place of a process says.
Fits(a) ==
    /\ a.at = "work" => a.loaded \subseteq Procedures /\ a.low \in BOOLEAN
    /\ a.at = "match" => a.loaded \subseteq Procedures /\ HighTrust(a.job)
    /\ a.at = "succeed" =>
          /\ a.file \in saved /\ HighTrust(a.job)
          /\ reused[a.file] >= SupersedeThreshold
    /\ a.at = "read" => ChangeFits(a)
    /\ a.at = "write" =>
          /\ ChangeFits(a.read)
          /\ a.next \in SavedProcedures
          /\ Sound(a.read.file, a.next, Uncounted(a.read.change))
    /\ a.at = "record" =>
          /\ a.job.low \in BOOLEAN
          /\ a.file # None => a.file \in saved /\ HighTrust(a.job)
    /\ a.at = "prune" => a.left \subseteq Procedures
    /\ a.at = "remove" => a.file \in Procedures /\ a.left \subseteq Procedures
    /\ a.at = "exported" =>
          a.file \in Trajectories /\ trajectories[a.file] # NoTrajectory

IInv ==
    /\ TypeOK /\ InOrder /\ FilesAreSound
    /\ \A p \in Processes : Fits(proc[p])

-----------------------------------------------------------------------------
(* What stays true.                                                        *)

\* Saved procedures stay known, reuses are never forgotten, and a trajectory
\* keeps the trust it was saved with.
Grows ==
    /\ saved \subseteq saved'
    /\ \A f \in Procedures :
          reused[f] \in Nat /\ reused'[f] \in Nat /\ reused[f] <= reused'[f]
    /\ \A t \in Trajectories :
          trajectories[t] # NoTrajectory =>
              /\ trajectories'[t] # NoTrajectory
              /\ trajectories'[t].low = trajectories[t].low

LEMMA SuccessionStays ==
    ASSUME NEW f, NEW g, Grows, Succeeds(g, f)
    PROVE  Succeeds(g, f)'
BY DEF Grows, Succeeds

LEMMA TrustStays ==
    ASSUME NEW t, Grows, Trusted(t)
    PROVE  Trusted(t)'
BY DEF Grows, Trusted

LEMMA SoundnessStays ==
    ASSUME NEW f \in Procedures, NEW p \in SavedProcedures, NEW n \in Nat,
           Grows, Sound(f, p, n)
    PROVE  Sound(f, p, n)'
<1>1. reused[f] \in Nat /\ reused'[f] \in Nat /\ reused[f] <= reused'[f]
  BY DEF Grows
<1>2. RefineThreshold \in Nat /\ SupersedeThreshold \in Nat
      /\ p.reuse \in Nat /\ p.revisions \in Nat
  BY MemoryAssumption DEF SavedProcedures
<1>3. /\ p.reuse <= reused'[f] + n
      /\ p.revisions > 0 => reused'[f] + n > RefineThreshold
  BY <1>1, <1>2 DEF Sound
<1>4. p.status = "superseded" => reused'[f] >= SupersedeThreshold /\ Succeeds(p.by, f)'
  BY <1>1, <1>2, SuccessionStays DEF Sound
<1>5. p.trajectory # None => Trusted(p.trajectory)'
  BY TrustStays DEF Sound
<1> QED
  BY <1>3, <1>4, <1>5 DEF Sound

LEMMA ChangeStays ==
    ASSUME NEW r, TypeOK, Grows, ChangeFits(r)
    PROVE  ChangeFits(r)'
<1>1. /\ r.file \in Procedures /\ r.file \in saved'
      /\ reused[r.file] \in Nat /\ reused'[r.file] \in Nat
      /\ reused[r.file] <= reused'[r.file]
  BY DEF ChangeFits, TypeOK, Grows
<1>2. RefineThreshold \in Nat /\ SupersedeThreshold \in Nat
  BY MemoryAssumption
<1>3. r.change = "refine" => reused'[r.file] >= RefineThreshold
  BY <1>1, <1>2 DEF ChangeFits
<1>4. r.change = "supersede" =>
          reused'[r.file] >= SupersedeThreshold /\ Succeeds(r.by, r.file)'
  BY <1>1, <1>2, SuccessionStays DEF ChangeFits
<1>5. r.change = "source" => Trusted(r.by)'
  BY TrustStays DEF ChangeFits
<1>6. r.change \notin {"disable", "source"} => r.made \in saved' /\ HighTrust(r.job)
  BY DEF ChangeFits, Grows
<1> QED
  BY <1>1, <1>3, <1>4, <1>5, <1>6 DEF ChangeFits

LEMMA PlaceStays ==
    ASSUME NEW a, TypeOK, Grows, Fits(a)
    PROVE  Fits(a)'
<1>1. a.at = "succeed" =>
          /\ a.file \in saved' /\ HighTrust(a.job)
          /\ reused'[a.file] >= SupersedeThreshold
  <2> SUFFICES ASSUME a.at = "succeed"
               PROVE  a.file \in saved' /\ HighTrust(a.job)
                      /\ reused'[a.file] >= SupersedeThreshold
    OBVIOUS
  <2>1. a.file \in saved /\ HighTrust(a.job) /\ reused[a.file] >= SupersedeThreshold
    BY DEF Fits
  <2>2. /\ a.file \in saved'
        /\ reused[a.file] \in Nat /\ reused'[a.file] \in Nat
        /\ reused[a.file] <= reused'[a.file]
    BY <2>1 DEF TypeOK, Grows
  <2> QED
    BY <2>1, <2>2, MemoryAssumption
<1>2. a.at = "read" => ChangeFits(a)'
  BY ChangeStays DEF Fits
<1>3. a.at = "write" =>
          /\ ChangeFits(a.read)'
          /\ a.next \in SavedProcedures
          /\ Sound(a.read.file, a.next, Uncounted(a.read.change))'
  <2> SUFFICES ASSUME a.at = "write"
               PROVE  /\ ChangeFits(a.read)'
                      /\ a.next \in SavedProcedures
                      /\ Sound(a.read.file, a.next, Uncounted(a.read.change))'
    OBVIOUS
  <2>1. /\ ChangeFits(a.read) /\ a.next \in SavedProcedures
        /\ Sound(a.read.file, a.next, Uncounted(a.read.change))
    BY DEF Fits
  <2>2. a.read.file \in Procedures /\ Uncounted(a.read.change) \in Nat
    BY <2>1 DEF ChangeFits, TypeOK, Uncounted
  <2>3. ChangeFits(a.read)'
    BY <2>1, ChangeStays
  <2>4. Sound(a.read.file, a.next, Uncounted(a.read.change))'
    BY <2>1, <2>2, SoundnessStays
  <2> QED
    BY <2>1, <2>3, <2>4
<1>4. a.at = "record" =>
          /\ a.job.low \in BOOLEAN
          /\ a.file # None => a.file \in saved' /\ HighTrust(a.job)
  BY DEF Fits, Grows
<1>5. a.at = "exported" =>
          a.file \in Trajectories /\ trajectories'[a.file] # NoTrajectory
  BY DEF Fits, Grows
<1> QED
  BY <1>1, <1>2, <1>3, <1>4, <1>5 DEF Fits

\* One process moves on: the others are where they were.
LEMMA OneMoves ==
    ASSUME IInv, Grows, NEW p \in Processes, NEW a,
           proc' = [proc EXCEPT ![p] = a], Fits(a)'
    PROVE  /\ \A q \in Processes : Fits(proc[q])'
           /\ proc' = [q \in Processes |-> proc'[q]]
<1>1. DOMAIN proc = Processes
  BY DEF IInv, TypeOK
<1>2. ASSUME NEW q \in Processes
      PROVE  Fits(proc[q])'
  <2>1. CASE q = p
    <3>1. proc'[q] = a
      BY <1>1, <2>1
    <3> QED
      BY <3>1
  <2>2. CASE q # p
    <3>1. proc'[q] = proc[q] /\ Fits(proc[q]) /\ TypeOK
      BY <1>1, <2>2 DEF IInv
    <3> DEFINE b == proc[q]
    <3>2. ASSUME NEW c, c = b
          PROVE  Fits(c)'
      BY <3>1, <3>2, PlaceStays
    <3> QED
      BY <3>1, <3>2
  <2> QED
    BY <2>1, <2>2
<1> QED
  BY <1>1, <1>2

\* The step of a process that leaves procedures and trajectories alone.
LEMMA OnlyThePlace ==
    ASSUME IInv, NEW p \in Processes, NEW a, Fits(a),
           proc' = [proc EXCEPT ![p] = a],
           UNCHANGED <<procs, trajectories, exports, reused, saved>>
    PROVE  IInv'
<1>1. Grows
  BY DEF IInv, TypeOK, Grows
<1>2. Fits(a)'
  BY <1>1, PlaceStays DEF IInv
<1>3. /\ \A q \in Processes : Fits(proc[q])'
      /\ proc' = [q \in Processes |-> proc'[q]]
  BY <1>1, <1>2, OneMoves
<1>4. TypeOK'
  BY <1>3 DEF IInv, TypeOK
<1>5. InOrder' /\ FilesAreSound'
  BY DEF IInv, InOrder, FilesAreSound, Sound, Succeeds, Trusted
<1> QED
  BY <1>3, <1>4, <1>5 DEF IInv

\* Places that know nothing.
LEMMA FreePlaces ==
    /\ Fits(Idle)
    /\ \A then : Fits(Orienting(then))
    /\ Fits([at |-> "load"])
    /\ \A next : Fits([at |-> "profile", next |-> next])
BY DEF Fits, Idle, Orienting

LEMMA ConsolidateStep ==
    ASSUME IInv, NEW p \in Processes, Consolidate(p)
    PROVE  IInv'
<1>1. CASE Orient(p)
  <2>1. PICK next : proc' = [proc EXCEPT ![p] =
                [at |-> "truncate", next |-> next, then |-> proc[p].then]]
    BY <1>1 DEF Orient
  <2>2. Fits([at |-> "truncate", next |-> next, then |-> proc[p].then])
    BY DEF Fits
  <2> QED
    BY <1>1, <2>1, <2>2, OnlyThePlace DEF Orient, files, history
<1>2. CASE Truncate(p)
  <2>1. proc' = [proc EXCEPT ![p] = [proc[p] EXCEPT !.at = "rewrite"]]
    BY <1>2 DEF Truncate
  <2>2. PICK a : a = [proc[p] EXCEPT !.at = "rewrite"]
    OBVIOUS
  <2>3. a.at = "rewrite"
    BY <2>2, <1>2 DEF Truncate
  <2>4. Fits(a)
    BY <2>3 DEF Fits
  <2> QED
    BY <1>2, <2>1, <2>2, <2>4, OnlyThePlace DEF Truncate, files, history
<1>3. CASE Rewrite(p)
  <2>1. proc' = [proc EXCEPT ![p] =
                    IF proc[p].then = "load" THEN [at |-> "load"] ELSE Idle]
    BY <1>3 DEF Rewrite
  <2>2. Fits(IF proc[p].then = "load" THEN [at |-> "load"] ELSE Idle)
    BY FreePlaces
  <2> QED
    BY <1>3, <2>1, <2>2, OnlyThePlace DEF Rewrite, files, history
<1> QED
  BY <1>1, <1>2, <1>3 DEF Consolidate

-----------------------------------------------------------------------------
(* A run up to its promotion.                                              *)

LEMMA StartStep ==
    ASSUME IInv, NEW w \in Workers, Start(w)
    PROVE  IInv'
<1>1. proc' = [proc EXCEPT ![w] = Orienting("load")] /\ w \in Processes
  BY DEF Start, Processes
<1> QED
  BY <1>1, FreePlaces, OnlyThePlace DEF Start, files, history

LEMMA LoadStep ==
    ASSUME IInv, NEW w \in Workers, Load(w)
    PROVE  IInv'
<1>1. PICK loaded \in SUBSET {e.file : e \in {d \in Parsed(index) : d.file \in Procedures}} :
          proc' = [proc EXCEPT ![w] = [at |-> "work", loaded |-> loaded, low |-> FALSE]]
  BY DEF Load
<1>2. loaded \subseteq Procedures /\ w \in Processes
  BY DEF Processes
<1>3. Fits([at |-> "work", loaded |-> loaded, low |-> FALSE])
  BY <1>2 DEF Fits
<1> QED
  BY <1>1, <1>2, <1>3, OnlyThePlace DEF Load, files, history

LEMMA MeetStep ==
    ASSUME IInv, NEW w \in Workers, MeetLowTrust(w)
    PROVE  IInv'
<1>1. PICK a : a = [proc[w] EXCEPT !.low = TRUE]
  OBVIOUS
<1>2. /\ proc' = [proc EXCEPT ![w] = a] /\ w \in Processes
      /\ proc[w].at = "work" /\ proc[w].low \in BOOLEAN /\ ~proc[w].low
  BY <1>1 DEF MeetLowTrust, Processes, IInv, Fits
<1>3. a.at = "work" /\ a.loaded = proc[w].loaded /\ a.low \in BOOLEAN
  BY <1>1, <1>2 DEF IInv, Fits
<1>4. Fits(a)
  BY <1>2, <1>3 DEF IInv, Fits
<1> QED
  BY <1>2, <1>4, OnlyThePlace DEF MeetLowTrust, files, history

LEMMA LeaveStep ==
    ASSUME IInv, NEW w \in Workers, Finish(w) \/ TakeNote(w) \/ WriteProfile(w)
    PROVE  IInv'
<1>1. /\ proc' = [proc EXCEPT ![w] = Idle] /\ w \in Processes
      /\ UNCHANGED <<procs, trajectories, exports, reused, saved>>
  BY DEF Finish, TakeNote, WriteProfile, files, history, Processes
<1> QED
  BY <1>1, FreePlaces, OnlyThePlace

LEMMA ReadProfileStep ==
    ASSUME IInv, NEW w \in Workers, ReadProfile(w)
    PROVE  IInv'
<1>1. PICK next : proc' = [proc EXCEPT ![w] = [at |-> "profile", next |-> next]]
  BY DEF ReadProfile
<1>2. w \in Processes
  BY DEF Processes
<1> QED
  BY <1>1, <1>2, FreePlaces, OnlyThePlace DEF ReadProfile, files, history

-----------------------------------------------------------------------------
(* Promotion.                                                              *)

\* After a procedure, or without one, a job that may have met low-trust content
\* goes on without a file.
LEMMA AfterProcedureFits ==
    ASSUME NEW job, job.low \in BOOLEAN, NEW file,
           file # None => file \in saved /\ HighTrust(job)
    PROVE  Fits(AfterProcedure(job, file))
<1>1. CASE job.record
  <2>1. AfterProcedure(job, file) = [at |-> "record", file |-> file, job |-> job]
    BY <1>1 DEF AfterProcedure
  <2>2. Fits([at |-> "record", file |-> file, job |-> job])
    BY DEF Fits
  <2> QED
    BY <2>1, <2>2
<1>2. CASE ~job.record
  <2>1. AfterProcedure(job, file) = Orienting("done")
    BY <1>2 DEF AfterProcedure
  <2> QED
    BY <2>1, FreePlaces
<1> QED
  BY <1>1, <1>2

LEMMA PromoteStep ==
    ASSUME IInv, NEW w \in Workers, Promote(w)
    PROVE  IInv'
<1> DEFINE run == proc[w]
<1>1. PICK kind \in Promotions, title \in Titles :
          proc' = [proc EXCEPT ![w] = AfterNote(run, kind, title)]
  BY DEF Promote
<1>2. w \in Processes /\ run.loaded \subseteq Procedures /\ run.low \in BOOLEAN
  BY DEF Promote, Processes, IInv, Fits
<1> HIDE DEF run
<1>3. CASE kind = "note"
  <2>1. AfterNote(run, kind, title) = Orienting("done")
    BY <1>3 DEF AfterNote
  <2> QED
    BY <1>1, <1>2, <2>1, FreePlaces, OnlyThePlace DEF Promote, files, history
<1>4. CASE kind # "note" /\ run.low
  <2>1. AfterNote(run, kind, title) = AfterProcedure(Job(run, kind, title), None)
    BY <1>4 DEF AfterNote
  <2>2. Job(run, kind, title).low \in BOOLEAN
    BY <1>2 DEF Job
  <2>3. Fits(AfterProcedure(Job(run, kind, title), None))
    BY <1>2, <2>2, AfterProcedureFits
  <2> QED
    BY <1>1, <1>2, <2>1, <2>3, OnlyThePlace DEF Promote, files, history
<1>5. CASE kind # "note" /\ ~run.low
  <2>1. AfterNote(run, kind, title) = Matching(run, kind, title)
    BY <1>5 DEF AfterNote
  <2>2. Fits(Matching(run, kind, title))
    BY <1>2, <1>5, MemoryAssumption DEF Fits, Matching, Job, HighTrust
  <2> QED
    BY <1>1, <1>2, <2>1, <2>2, OnlyThePlace DEF Promote, files, history
<1> QED
  BY <1>2, <1>3, <1>4, <1>5

\* A procedure that a process finds in its folder was saved once.
LEMMA FoundIsSaved ==
    ASSUME IInv, NEW f \in Procedures, procs[f].status = "active"
    PROVE  f \in saved /\ procs[f] \in SavedProcedures /\ Sound(f, procs[f], 0)
<1>1. procs[f] # Absent
  BY DEF Absent
<1> QED
  BY <1>1 DEF IInv, TypeOK, FilesAreSound

LEMMA ReuseLoadedStep ==
    ASSUME IInv, NEW w \in Workers, ReuseLoaded(w)
    PROVE  IInv'
<1> DEFINE job == proc[w].job
<1>1. PICK f \in proc[w].loaded, raw \in {"keep", "refine", "supersede"} :
          /\ procs[f].status = "active"
          /\ proc' = [proc EXCEPT ![w] =
                IF Gated(procs[f], raw) = "supersede"
                THEN [at |-> "succeed", file |-> f, job |-> job]
                ELSE Changing(f, Gated(procs[f], raw), None, f, job)]
  BY DEF ReuseLoaded
<1>2. /\ w \in Processes /\ proc[w].loaded \subseteq Procedures
      /\ HighTrust(job)
  BY DEF ReuseLoaded, Processes, IInv, Fits
<1>3. f \in saved /\ procs[f] \in SavedProcedures /\ Sound(f, procs[f], 0)
  BY <1>1, <1>2, FoundIsSaved
<1>4. /\ procs[f].reuse \in Nat /\ reused[f] \in Nat /\ procs[f].reuse <= reused[f]
      /\ RefineThreshold \in Nat /\ SupersedeThreshold \in Nat
  BY <1>1, <1>2, <1>3, MemoryAssumption DEF SavedProcedures, Sound, IInv, TypeOK
<1> DEFINE action == Gated(procs[f], raw)
<1>5. /\ action \in {"keep", "refine", "supersede"}
      /\ action = "refine" => reused[f] >= RefineThreshold
      /\ action = "supersede" => reused[f] >= SupersedeThreshold
  BY <1>4 DEF Gated
<1> HIDE DEF action, job
<1>6. CASE action = "supersede"
  <2>1. Fits([at |-> "succeed", file |-> f, job |-> job])
    BY <1>2, <1>3, <1>5, <1>6 DEF Fits
  <2> QED
    BY <1>1, <1>2, <1>6, <2>1, OnlyThePlace DEF action, job, ReuseLoaded, files, history
<1>7. CASE action # "supersede"
  <2>1. ChangeFits(Changing(f, action, None, f, job))
    BY <1>2, <1>3, <1>5, <1>7 DEF ChangeFits, Changing
  <2>2. Changing(f, action, None, f, job).at = "read"
    BY DEF Changing
  <2>3. Fits(Changing(f, action, None, f, job))
    BY <2>1, <2>2 DEF Fits
  <2> QED
    BY <1>1, <1>2, <1>7, <2>3, OnlyThePlace DEF action, job, ReuseLoaded, files, history
<1> QED
  BY <1>6, <1>7

LEMMA ReuseActiveStep ==
    ASSUME IInv, NEW w \in Workers, ReuseActive(w)
    PROVE  IInv'
<1>1. PICK f \in Procedures :
          /\ procs[f].status = "active"
          /\ proc' = [proc EXCEPT ![w] = AfterProcedure(proc[w].job, f)]
  BY DEF ReuseActive
<1>2. w \in Processes /\ HighTrust(proc[w].job)
  BY DEF ReuseActive, Processes, IInv, Fits
<1>3. proc[w].job.low \in BOOLEAN /\ f \in saved
  BY <1>1, <1>2, FoundIsSaved DEF HighTrust
<1>4. Fits(AfterProcedure(proc[w].job, f))
  BY <1>2, <1>3, AfterProcedureFits
<1> QED
  BY <1>1, <1>2, <1>4, OnlyThePlace DEF ReuseActive, files, history

\* A new procedure is the next in time and says nothing of others yet.
LEMMA SaveKeeps ==
    ASSUME IInv, NEW f \in NewProcedures, NEW title \in Nat, SaveProcedure(f, title)
    PROVE  /\ f \in Procedures /\ f \notin saved /\ f \in saved' /\ Grows
           /\ \A g \in saved : At[g] <= At[f]
           /\ saved' \subseteq Procedures
           /\ procs' \in [Procedures -> SavedProcedures \cup {Absent}]
           /\ InOrder' /\ FilesAreSound'
<1>1. /\ f \in Procedures /\ f \notin saved
      /\ \A g \in Procedures \ saved : At[f] <= At[g]
  BY DEF NewProcedures, Earliest
<1>2. /\ procs' = [procs EXCEPT ![f] = Fresh(title)]
      /\ saved' = saved \cup {f}
      /\ UNCHANGED <<trajectories, exports, reused>>
  BY DEF SaveProcedure
<1>3. Grows
  BY <1>2 DEF Grows, IInv, TypeOK
<1>4. Fresh(title) \in SavedProcedures /\ Fresh(title).reuse = 0
      /\ Fresh(title).revisions = 0 /\ Fresh(title).status = "active"
      /\ Fresh(title).trajectory = None
  BY DEF Fresh, SavedProcedures
<1>5. procs' \in [Procedures -> SavedProcedures \cup {Absent}]
  BY <1>1, <1>2, <1>4 DEF IInv, TypeOK
<1>6. \A g \in saved : At[g] <= At[f]
  BY <1>1 DEF IInv, InOrder
<1>7. InOrder'
  BY <1>1, <1>2 DEF IInv, InOrder
<1>8. Sound(f, Fresh(title), 0)'
  <2>1. reused'[f] \in Nat /\ RefineThreshold \in Nat
    BY <1>1, <1>2, MemoryAssumption DEF IInv, TypeOK
  <2> QED
    BY <2>1, <1>4 DEF Sound
<1>9. ASSUME NEW g \in Procedures, procs'[g] # Absent
      PROVE  g \in saved' /\ Sound(g, procs[g], 0)'
  <2>1. CASE g = f
    <3>1. procs'[g] = Fresh(title)
      BY <1>1, <1>2, <2>1 DEF IInv, TypeOK
    <3> QED
      BY <3>1, <1>2, <1>8, <2>1
  <2>2. CASE g # f
    <3> PICK p : p = procs[g]
      OBVIOUS
    <3>1. p = procs'[g]
      BY <1>1, <1>2, <2>2 DEF IInv, TypeOK
    <3>2. g \in saved /\ Sound(g, p, 0) /\ p \in SavedProcedures
      BY <3>1, <1>9 DEF IInv, TypeOK, FilesAreSound
    <3>3. Sound(g, p, 0)'
      BY <3>2, <1>3, SoundnessStays
    <3> QED
      BY <3>1, <3>2, <3>3, <1>2
  <2> QED
    BY <2>1, <2>2
<1>10. \A t \in exports' : Trusted(t)'
  BY <1>2 DEF IInv, FilesAreSound, Trusted
<1> QED
  BY <1>1, <1>2, <1>3, <1>5, <1>6, <1>7, <1>9, <1>10 DEF IInv, TypeOK, FilesAreSound

LEMMA SaveNewStep ==
    ASSUME IInv, NEW w \in Workers, SaveNew(w)
    PROVE  IInv'
<1>1. /\ w \in Processes /\ HighTrust(proc[w].job)
  BY DEF SaveNew, Processes, IInv, Fits
<1> PICK job : job = proc[w].job
  OBVIOUS
<1>2. PICK f \in NewProcedures :
          /\ SaveProcedure(f, job.title)
          /\ proc' = [proc EXCEPT ![w] = AfterProcedure(job, f)]
  BY DEF SaveNew
<1>3. job.title \in Nat /\ job.low \in BOOLEAN /\ ~job.low /\ HighTrust(job)
  BY <1>1 DEF HighTrust
<1>4. /\ f \in saved' /\ Grows /\ saved' \subseteq Procedures
      /\ procs' \in [Procedures -> SavedProcedures \cup {Absent}]
      /\ InOrder' /\ FilesAreSound'
  BY <1>2, <1>3, SaveKeeps
<1> PICK a : a = AfterProcedure(job, f)
  OBVIOUS
<1>5. \/ a = [at |-> "record", file |-> f, job |-> job]
      \/ a = [at |-> "orient", then |-> "done"]
  BY DEF AfterProcedure, Orienting
<1>6. Fits(a)'
  BY <1>3, <1>4, <1>5 DEF Fits
<1>7. /\ \A q \in Processes : Fits(proc[q])'
      /\ proc' = [q \in Processes |-> proc'[q]]
  BY <1>1, <1>2, <1>4, <1>6, OneMoves
<1>8. TypeOK'
  BY <1>2, <1>4, <1>7 DEF SaveProcedure, IInv, TypeOK
<1> QED
  BY <1>4, <1>7, <1>8 DEF IInv

\* The old one was there before the successor, which is saved before the mark
\* is made.
LEMMA SaveSuccessorStep ==
    ASSUME IInv, NEW w \in Workers, SaveSuccessor(w)
    PROVE  IInv'
<1> PICK job, file : job = proc[w].job /\ file = proc[w].file
  OBVIOUS
<1>1. /\ w \in Processes /\ HighTrust(job) /\ file \in saved
      /\ reused[file] >= SupersedeThreshold
  BY DEF SaveSuccessor, Processes, IInv, Fits
<1>2. PICK f \in NewProcedures :
          /\ SaveProcedure(f, job.title)
          /\ proc' = [proc EXCEPT ![w] = Changing(file, "supersede", f, f, job)]
  BY DEF SaveSuccessor
<1>3. job.title \in Nat
  BY <1>1 DEF HighTrust
<1>4. /\ f \notin saved /\ f \in saved' /\ Grows /\ saved' \subseteq Procedures
      /\ \A g \in saved : At[g] <= At[f]
      /\ procs' \in [Procedures -> SavedProcedures \cup {Absent}]
      /\ InOrder' /\ FilesAreSound'
  BY <1>2, <1>3, SaveKeeps
<1> PICK a : a = Changing(file, "supersede", f, f, job)
  OBVIOUS
<1>5. /\ a.at = "read" /\ a.file = file /\ a.change = "supersede" /\ a.by = f
      /\ a.made = f /\ a.job = job
  BY DEF Changing
<1>6. Succeeds(f, file)' /\ file \in saved'
  BY <1>1, <1>4 DEF Succeeds, Grows
<1>7. reused'[file] >= SupersedeThreshold
  BY <1>1, <1>2 DEF SaveProcedure
<1>8. ChangeFits(a)'
  BY <1>1, <1>4, <1>5, <1>6, <1>7 DEF ChangeFits
<1>9. Fits(a)'
  BY <1>5, <1>8 DEF Fits
<1>10. /\ \A q \in Processes : Fits(proc[q])'
       /\ proc' = [q \in Processes |-> proc'[q]]
  BY <1>1, <1>2, <1>4, <1>9, OneMoves
<1>11. TypeOK'
  BY <1>2, <1>4, <1>10 DEF SaveProcedure, IInv, TypeOK
<1> QED
  BY <1>4, <1>10, <1>11 DEF IInv

-----------------------------------------------------------------------------
(* Changing a procedure.                                                   *)

LEMMA AfterChangeFits ==
    ASSUME NEW r, ChangeFits(r)
    PROVE  Fits(AfterChange(r))
<1>1. CASE r.change \in {"disable", "source"}
  BY <1>1, FreePlaces DEF AfterChange
<1>2. CASE r.change \notin {"disable", "source"}
  <2>1. r.made \in saved /\ HighTrust(r.job) /\ r.job.low \in BOOLEAN
    BY <1>2 DEF ChangeFits, HighTrust
  <2>2. Fits(AfterProcedure(r.job, r.made))
    BY <2>1, AfterProcedureFits
  <2> QED
    BY <1>2, <2>2 DEF AfterChange
<1> QED
  BY <1>1, <1>2

\* Each change keeps a procedure sound, once its reuse is counted.
LEMMA ChangedIsSound ==
    ASSUME TypeOK, NEW r, ChangeFits(r), NEW old \in SavedProcedures,
           Sound(r.file, old, 0)
    PROVE  /\ Changed(old, r.change, r.by) \in SavedProcedures
           /\ Sound(r.file, Changed(old, r.change, r.by), Uncounted(r.change))
<1> PICK new : new = Changed(old, r.change, r.by)
  OBVIOUS
<1>1. /\ r.file \in Procedures /\ reused[r.file] \in Nat
      /\ old.reuse \in Nat /\ old.revisions \in Nat
      /\ RefineThreshold \in Nat /\ SupersedeThreshold \in Nat
  BY MemoryAssumption DEF ChangeFits, TypeOK, SavedProcedures
<1>2. CASE r.change = "keep"
  <2>1. new = [old EXCEPT !.reuse = old.reuse + 1]
    BY <1>2 DEF Changed
  <2>2. /\ new \in SavedProcedures /\ new.reuse = old.reuse + 1
        /\ new.revisions = old.revisions /\ new.status = old.status
        /\ new.by = old.by /\ new.trajectory = old.trajectory
    BY <2>1, <1>1 DEF SavedProcedures
  <2> QED
    BY <2>2, <1>1, <1>2 DEF Sound, Uncounted
<1>3. CASE r.change = "refine"
  <2>1. new = [old EXCEPT !.status = "active", !.reuse = old.reuse + 1,
                          !.revisions = old.revisions + 1]
    BY <1>3 DEF Changed
  <2>2. PICK n \in Nat, m \in Nat : n = old.reuse + 1 /\ m = old.revisions + 1
    BY <1>1
  <2> PICK one : one = [old EXCEPT !.status = "active"]
    OBVIOUS
  <2>4. /\ one \in SavedProcedures /\ one.status = "active"
        /\ one.trajectory = old.trajectory
    BY DEF SavedProcedures
  <2> PICK two : two = [one EXCEPT !.reuse = n]
    OBVIOUS
  <2>5. /\ two \in SavedProcedures /\ two.reuse = n /\ two.status = one.status
        /\ two.trajectory = one.trajectory
    BY <2>4 DEF SavedProcedures
  <2>6. new = [two EXCEPT !.revisions = m]
    BY <2>1, <2>2
  <2>7. /\ new \in SavedProcedures /\ new.reuse = two.reuse
        /\ new.status = two.status /\ new.trajectory = two.trajectory
    BY <2>5, <2>6 DEF SavedProcedures
  <2>3. reused[r.file] >= RefineThreshold
    BY <1>3 DEF ChangeFits
  <2> QED
    BY <2>2, <2>3, <2>4, <2>5, <2>7, <1>1, <1>3 DEF Sound, Uncounted
<1>4. CASE r.change = "supersede"
  <2>1. new = [old EXCEPT !.status = "superseded", !.by = r.by]
    BY <1>4 DEF Changed
  <2>2. Succeeds(r.by, r.file) /\ reused[r.file] >= SupersedeThreshold
    BY <1>4 DEF ChangeFits
  <2>3. r.by \in Procedures
    BY <2>2 DEF Succeeds, TypeOK
  <2>4. /\ new \in SavedProcedures /\ new.reuse = old.reuse
        /\ new.revisions = old.revisions /\ new.by = r.by
        /\ new.trajectory = old.trajectory
    BY <2>1, <2>3, <1>1 DEF SavedProcedures
  <2> QED
    BY <2>2, <2>4, <1>1, <1>4 DEF Sound, Uncounted
<1>5. CASE r.change = "disable"
  <2>1. new = [old EXCEPT !.status = "disabled"]
    BY <1>5 DEF Changed
  <2>2. /\ new \in SavedProcedures /\ new.reuse = old.reuse
        /\ new.revisions = old.revisions /\ new.status = "disabled"
        /\ new.trajectory = old.trajectory
    BY <2>1, <1>1 DEF SavedProcedures
  <2> QED
    BY <2>2, <1>1, <1>5 DEF Sound, Uncounted
<1>6. CASE r.change = "source"
  <2>1. new = [old EXCEPT !.trajectory = r.by]
    BY <1>6 DEF Changed
  <2>2. Trusted(r.by)
    BY <1>6 DEF ChangeFits
  <2>3. /\ new \in SavedProcedures /\ new.reuse = old.reuse
        /\ new.revisions = old.revisions /\ new.status = old.status
        /\ new.by = old.by /\ new.trajectory = r.by
    BY <2>1, <2>2, <1>1 DEF SavedProcedures, Trusted
  <2> QED
    BY <2>2, <2>3, <1>1, <1>6 DEF Sound, Uncounted
<1> QED
  BY <1>2, <1>3, <1>4, <1>5, <1>6 DEF ChangeFits

LEMMA ReadProcedureStep ==
    ASSUME IInv, NEW p \in Processes, ReadProcedure(p)
    PROVE  IInv'
<1> PICK r, old : r = proc[p] /\ old = procs[proc[p].file]
  OBVIOUS
<1>1. ChangeFits(r) /\ r.file \in Procedures
  BY DEF ReadProcedure, IInv, Fits, ChangeFits, TypeOK
<1>2. proc' = [proc EXCEPT ![p] =
                  IF old = Absent THEN AfterChange(r)
                  ELSE [at |-> "write", read |-> r,
                        next |-> Changed(old, r.change, r.by)]]
  BY DEF ReadProcedure
<1>3. UNCHANGED <<procs, trajectories, exports, reused, saved>>
  BY DEF ReadProcedure, files, history
<1>4. CASE old = Absent
  <2>1. proc' = [proc EXCEPT ![p] = AfterChange(r)]
    BY <1>2, <1>4
  <2> QED
    BY <2>1, <1>1, <1>3, AfterChangeFits, OnlyThePlace
<1>5. CASE old # Absent
  <2>1. old \in SavedProcedures /\ Sound(r.file, old, 0)
    BY <1>1, <1>5 DEF IInv, TypeOK, FilesAreSound
  <2> PICK next : next = Changed(old, r.change, r.by)
    OBVIOUS
  <2>2. next \in SavedProcedures /\ Sound(r.file, next, Uncounted(r.change))
    BY <2>1, <1>1, ChangedIsSound DEF IInv
  <2>3. Fits([at |-> "write", read |-> r, next |-> next])
    BY <2>2, <1>1 DEF Fits
  <2>4. proc' = [proc EXCEPT ![p] = [at |-> "write", read |-> r, next |-> next]]
    BY <1>2, <1>5
  <2> QED
    BY <2>3, <2>4, <1>3, OnlyThePlace
<1> QED
  BY <1>4, <1>5

LEMMA WriteProcedureStep ==
    ASSUME IInv, NEW p \in Processes, WriteProcedure(p)
    PROVE  IInv'
<1> PICK r, next : r = proc[p].read /\ next = proc[p].next
  OBVIOUS
<1>1. /\ ChangeFits(r) /\ next \in SavedProcedures
      /\ Sound(r.file, next, Uncounted(r.change))
  BY DEF WriteProcedure, IInv, Fits
<1>2. /\ procs' = [procs EXCEPT ![r.file] = next]
      /\ reused' = IF r.change \in {"keep", "refine"}
                   THEN [reused EXCEPT ![r.file] = reused[r.file] + 1] ELSE reused
      /\ proc' = [proc EXCEPT ![p] = AfterChange(r)]
      /\ UNCHANGED <<trajectories, exports, saved>>
  BY DEF WriteProcedure
<1>3. r.file \in saved /\ r.file \in Procedures
  BY <1>1 DEF ChangeFits, IInv, TypeOK
<1>4. /\ reused \in [Procedures -> Nat] /\ reused' \in [Procedures -> Nat]
      /\ \A f \in Procedures : reused[f] <= reused'[f]
      /\ reused'[r.file] = reused[r.file] + Uncounted(r.change)
  BY <1>2, <1>3 DEF IInv, TypeOK, Uncounted
<1>5. Grows
  BY <1>2, <1>4 DEF Grows
<1>6. procs' \in [Procedures -> SavedProcedures \cup {Absent}]
  BY <1>1, <1>2, <1>3 DEF IInv, TypeOK
<1>7. Sound(r.file, next, 0)'
  <2>1. /\ next.reuse \in Nat /\ next.revisions \in Nat
        /\ reused[r.file] \in Nat /\ Uncounted(r.change) \in Nat
        /\ reused'[r.file] \in Nat
        /\ RefineThreshold \in Nat /\ SupersedeThreshold \in Nat
    BY <1>1, <1>3, <1>4, MemoryAssumption DEF SavedProcedures, Uncounted
  <2>2. /\ next.reuse <= reused'[r.file] + 0
        /\ next.revisions > 0 => reused'[r.file] + 0 > RefineThreshold
    BY <2>1, <1>1, <1>4 DEF Sound
  <2>3. next.status = "superseded" =>
            reused'[r.file] >= SupersedeThreshold /\ Succeeds(next.by, r.file)'
    BY <2>1, <1>1, <1>4, <1>5, SuccessionStays DEF Sound
  <2>4. next.trajectory # None => Trusted(next.trajectory)'
    BY <1>1, <1>5, TrustStays DEF Sound
  <2> QED
    BY <2>2, <2>3, <2>4 DEF Sound
<1>8. ASSUME NEW g \in Procedures, procs'[g] # Absent
      PROVE  g \in saved' /\ Sound(g, procs[g], 0)'
  <2>1. CASE g = r.file
    <3>1. procs'[g] = next
      BY <1>2, <1>3, <2>1 DEF IInv, TypeOK
    <3> QED
      BY <3>1, <1>2, <1>3, <1>7, <2>1
  <2>2. CASE g # r.file
    <3> PICK q : q = procs[g]
      OBVIOUS
    <3>1. q = procs'[g]
      BY <1>2, <1>3, <2>2 DEF IInv, TypeOK
    <3>2. g \in saved /\ Sound(g, q, 0) /\ q \in SavedProcedures
      BY <3>1, <1>8 DEF IInv, TypeOK, FilesAreSound
    <3>3. Sound(g, q, 0)'
      BY <3>2, <1>5, SoundnessStays
    <3> QED
      BY <3>1, <3>2, <3>3, <1>2
  <2> QED
    BY <2>1, <2>2
<1>9. FilesAreSound'
  <2>1. \A t \in exports' : Trusted(t)'
    BY <1>2 DEF IInv, FilesAreSound, Trusted
  <2> QED
    BY <1>8, <2>1 DEF FilesAreSound
<1>10. InOrder'
  BY <1>2 DEF IInv, InOrder
<1> PICK a : a = AfterChange(r)
  OBVIOUS
<1>11. Fits(a)'
  <2>1. Fits(a)
    BY <1>1, AfterChangeFits
  <2> QED
    BY <2>1, <1>5, PlaceStays DEF IInv
<1>12. /\ \A q \in Processes : Fits(proc[q])'
       /\ proc' = [q \in Processes |-> proc'[q]]
  BY <1>2, <1>5, <1>11, OneMoves
<1>13. TypeOK'
  BY <1>2, <1>4, <1>6, <1>12 DEF IInv, TypeOK
<1> QED
  BY <1>9, <1>10, <1>12, <1>13 DEF IInv

-----------------------------------------------------------------------------
(* Trajectories.                                                           *)

\* A step of one process that only adds to trajectories or reviews them.
LEMMA TrajectoryStep ==
    ASSUME IInv, NEW p \in Processes, NEW a,
           proc' = [proc EXCEPT ![p] = a], Fits(a)',
           NEW t \in Trajectories, NEW new \in SavedTrajectories,
           trajectories' = [trajectories EXCEPT ![t] = new],
           trajectories[t] # NoTrajectory => new.low = trajectories[t].low,
           UNCHANGED <<procs, exports, reused, saved>>
    PROVE  IInv'
<1>1. new # NoTrajectory
  <2>1. "low" \in DOMAIN new /\ "low" \notin DOMAIN NoTrajectory
    BY DEF SavedTrajectories, NoTrajectory
  <2> QED
    BY <2>1
<1>2. \A u \in Trajectories : trajectories'[u] = IF u = t THEN new ELSE trajectories[u]
  BY DEF IInv, TypeOK
<1>3. Grows
  BY <1>1, <1>2 DEF Grows, IInv, TypeOK
<1>4. /\ \A q \in Processes : Fits(proc[q])'
      /\ proc' = [q \in Processes |-> proc'[q]]
  BY <1>3, OneMoves
<1>5. TypeOK'
  BY <1>4 DEF IInv, TypeOK
<1>6. ASSUME NEW f \in Procedures, procs'[f] # Absent
      PROVE  f \in saved' /\ Sound(f, procs[f], 0)'
  <2> PICK q : q = procs[f]
    OBVIOUS
  <2>1. q = procs'[f] /\ f \in saved /\ Sound(f, q, 0) /\ q \in SavedProcedures
    BY <1>6 DEF IInv, TypeOK, FilesAreSound
  <2>2. Sound(f, q, 0)'
    BY <2>1, <1>3, SoundnessStays
  <2> QED
    BY <2>1, <2>2
<1>7. \A u \in exports' : Trusted(u)'
  BY <1>3, TrustStays DEF IInv, FilesAreSound
<1>8. InOrder'
  BY DEF IInv, InOrder
<1> QED
  BY <1>4, <1>5, <1>6, <1>7, <1>8 DEF IInv, FilesAreSound

LEMMA RecordTrajectoryStep ==
    ASSUME IInv, NEW w \in Workers, RecordTrajectory(w)
    PROVE  IInv'
<1> PICK job, file : job = proc[w].job /\ file = proc[w].file
  OBVIOUS
<1>1. /\ w \in Processes /\ job.low \in BOOLEAN
      /\ file # None => file \in saved /\ HighTrust(job)
  BY DEF RecordTrajectory, Processes, IInv, Fits
<1> PICK new : new = [review |-> "local", low |-> job.low]
  OBVIOUS
<1>2. PICK t \in Trajectories :
          /\ trajectories[t] = NoTrajectory
          /\ trajectories' = [trajectories EXCEPT ![t] = new]
          /\ proc' = [proc EXCEPT ![w] =
                IF file = None THEN Orienting("done")
                ELSE Changing(file, "source", t, file, job)]
  BY DEF RecordTrajectory
<1>3. new \in SavedTrajectories /\ new.low = job.low
  BY <1>1 DEF SavedTrajectories
<1>4. UNCHANGED <<procs, exports, reused, saved>>
  BY DEF RecordTrajectory, history
<1> PICK a : a = IF file = None THEN Orienting("done")
                 ELSE Changing(file, "source", t, file, job)
  OBVIOUS
<1>5. Fits(a)'
  <2>1. CASE file = None
    <3>1. a.at = "orient"
      BY <2>1 DEF Orienting
    <3> QED
      BY <3>1 DEF Fits
  <2>2. CASE file # None
    <3>1. /\ a.at = "read" /\ a.file = file /\ a.change = "source" /\ a.by = t
      BY <2>2 DEF Changing
    <3>2. trajectories'[t] = new
      BY <1>2 DEF IInv, TypeOK
    <3>3. new # NoTrajectory
      <4>1. "low" \in DOMAIN new /\ "low" \notin DOMAIN NoTrajectory
        BY DEF NoTrajectory
      <4> QED
        BY <4>1
    <3>4. Trusted(t)'
      BY <1>1, <1>3, <2>2, <3>2, <3>3 DEF Trusted, HighTrust
    <3>5. ChangeFits(a)'
      BY <1>1, <1>4, <2>2, <3>1, <3>4 DEF ChangeFits
    <3> QED
      BY <3>1, <3>5 DEF Fits
  <2> QED
    BY <2>1, <2>2
<1> QED
  BY <1>1, <1>2, <1>3, <1>4, <1>5, TrajectoryStep

-----------------------------------------------------------------------------
(* The operator's commands.                                                *)

LEMMA DisableStep ==
    ASSUME IInv, NEW f \in Procedures, Disable(f)
    PROVE  IInv'
<1> PICK a : a = Changing(f, "disable", None, f, NoJob)
  OBVIOUS
<1>1. f \in saved
  BY DEF Disable, IInv, FilesAreSound
<1>2. a.at = "read" /\ a.file = f /\ a.change = "disable"
  BY DEF Changing
<1>3. Fits(a)
  BY <1>1, <1>2 DEF Fits, ChangeFits
<1>4. proc' = [proc EXCEPT ![Operator] = a] /\ Operator \in Processes
  BY DEF Disable, Command, Processes
<1> QED
  BY <1>3, <1>4, OnlyThePlace DEF Disable, files, history

LEMMA PruneStep ==
    ASSUME IInv, Prune \/ Examine \/ FinishPrune
    PROVE  IInv'
<1>1. Operator \in Processes
  BY DEF Processes
<1>2. CASE Prune
  <2> PICK left : left = {f \in Procedures : procs[f] # Absent}
    OBVIOUS
  <2>1. proc' = [proc EXCEPT ![Operator] = [at |-> "prune", left |-> left, any |-> FALSE]]
    BY <1>2 DEF Prune, Command
  <2>2. Fits([at |-> "prune", left |-> left, any |-> FALSE])
    BY DEF Fits
  <2> QED
    BY <1>1, <1>2, <2>1, <2>2, OnlyThePlace DEF Prune, files, history
<1>3. CASE Examine
  <2>1. proc[Operator].at = "prune" /\ proc[Operator].left \subseteq Procedures
    BY <1>1, <1>3 DEF Examine, IInv, Fits
  <2> PICK left : left = proc[Operator].left
    OBVIOUS
  <2>2. PICK f \in left :
            proc' = [proc EXCEPT ![Operator] =
                        IF procs[f].status \in {"absent", "active"}
                        THEN [at |-> "prune", left |-> left \ {f},
                              any |-> proc[Operator].any]
                        ELSE [at |-> "remove", file |-> f, left |-> left \ {f}]]
    BY <1>3 DEF Examine
  <2>3. CASE procs[f].status \in {"absent", "active"}
    <3>1. Fits([at |-> "prune", left |-> left \ {f}, any |-> proc[Operator].any])
      BY <2>1 DEF Fits
    <3> QED
      BY <1>1, <1>3, <2>2, <2>3, <3>1, OnlyThePlace DEF Examine, files, history
  <2>4. CASE procs[f].status \notin {"absent", "active"}
    <3>1. Fits([at |-> "remove", file |-> f, left |-> left \ {f}])
      BY <2>1 DEF Fits
    <3> QED
      BY <1>1, <1>3, <2>2, <2>4, <3>1, OnlyThePlace DEF Examine, files, history
  <2> QED
    BY <2>3, <2>4
<1>4. CASE FinishPrune
  <2>1. proc' = [proc EXCEPT ![Operator] =
                    IF proc[Operator].any THEN Orienting("done") ELSE Idle]
    BY <1>4 DEF FinishPrune
  <2>2. Fits(IF proc[Operator].any THEN Orienting("done") ELSE Idle)
    BY FreePlaces
  <2> QED
    BY <1>1, <1>4, <2>1, <2>2, OnlyThePlace DEF FinishPrune, files, history
<1> QED
  BY <1>2, <1>3, <1>4

\* A file that is gone says nothing.
LEMMA RemoveProcedureStep ==
    ASSUME IInv, RemoveProcedure
    PROVE  IInv'
<1> PICK f, left : f = proc[Operator].file /\ left = proc[Operator].left
  OBVIOUS
<1>1. Operator \in Processes /\ f \in Procedures /\ left \subseteq Procedures
  BY DEF RemoveProcedure, Processes, IInv, Fits
<1>2. /\ procs' = [procs EXCEPT ![f] = Absent]
      /\ proc' = [proc EXCEPT ![Operator] = [at |-> "prune", left |-> left, any |-> TRUE]]
      /\ UNCHANGED <<trajectories, exports, reused, saved>>
  BY DEF RemoveProcedure, history
<1>3. Grows
  BY <1>2 DEF Grows, IInv, TypeOK
<1> PICK a : a = [at |-> "prune", left |-> left, any |-> TRUE]
  OBVIOUS
<1>4. Fits(a)'
  BY <1>1 DEF Fits
<1>5. /\ \A q \in Processes : Fits(proc[q])'
      /\ proc' = [q \in Processes |-> proc'[q]]
  BY <1>1, <1>2, <1>3, <1>4, OneMoves
<1>6. ASSUME NEW g \in Procedures, procs'[g] # Absent
      PROVE  g \in saved' /\ Sound(g, procs[g], 0)'
  <2> PICK q : q = procs[g]
    OBVIOUS
  <2>1. q = procs'[g]
    BY <1>1, <1>2, <1>6 DEF IInv, TypeOK
  <2>2. g \in saved /\ Sound(g, q, 0) /\ q \in SavedProcedures
    BY <2>1, <1>6 DEF IInv, TypeOK, FilesAreSound
  <2>3. Sound(g, q, 0)'
    BY <2>2, <1>3, SoundnessStays
  <2> QED
    BY <2>1, <2>2, <2>3, <1>2
<1>7. \A t \in exports' : Trusted(t)'
  BY <1>2 DEF IInv, FilesAreSound, Trusted
<1>8. TypeOK' /\ InOrder'
  BY <1>1, <1>2, <1>5 DEF IInv, TypeOK, InOrder
<1> QED
  BY <1>5, <1>6, <1>7, <1>8 DEF IInv, FilesAreSound

LEMMA ReviewStep ==
    ASSUME IInv, NEW t \in Trajectories, Review(t)
    PROVE  IInv'
<1> PICK old, new : old = trajectories[t] /\ new = [old EXCEPT !.review = "ready"]
  OBVIOUS
<1>1. old \in SavedTrajectories
  BY DEF Review, MayExport, IInv, TypeOK
<1>2. new \in SavedTrajectories /\ new.low = old.low
  BY <1>1 DEF SavedTrajectories
<1>3. /\ trajectories' = [trajectories EXCEPT ![t] = new]
      /\ proc' = [proc EXCEPT ![Operator] = Idle]
      /\ UNCHANGED <<procs, exports, reused, saved>>
      /\ Operator \in Processes
  BY DEF Review, Command, Processes, history
<1>4. Fits(Idle)'
  BY DEF Fits, Idle
<1> QED
  BY <1>2, <1>3, <1>4, TrajectoryStep DEF Idle

LEMMA MarkExportedStep ==
    ASSUME IInv, MarkExported
    PROVE  IInv'
<1> PICK t : t = proc[Operator].file
  OBVIOUS
<1> PICK old, new : old = trajectories[t] /\ new = [old EXCEPT !.review = "exported"]
  OBVIOUS
<1>1. Operator \in Processes /\ t \in Trajectories /\ old # NoTrajectory
  BY DEF MarkExported, Processes, IInv, Fits
<1>2. old \in SavedTrajectories
  BY <1>1 DEF IInv, TypeOK
<1>3. new \in SavedTrajectories /\ new.low = old.low
  BY <1>2 DEF SavedTrajectories
<1>4. /\ trajectories' = [trajectories EXCEPT ![t] = new]
      /\ proc' = [proc EXCEPT ![Operator] = Idle]
      /\ UNCHANGED <<procs, exports, reused, saved>>
  BY DEF MarkExported, history
<1>5. Fits(Idle)'
  BY DEF Fits, Idle
<1> QED
  BY <1>1, <1>3, <1>4, <1>5, TrajectoryStep DEF Idle

LEMMA ExportStep ==
    ASSUME IInv, NEW t \in Trajectories, Export(t)
    PROVE  IInv'
<1>1. Trusted(t) /\ Operator \in Processes
  BY DEF Export, MayExport, Trusted, Processes
<1> PICK a : a = [at |-> "exported", file |-> t]
  OBVIOUS
<1>2. /\ proc' = [proc EXCEPT ![Operator] = a] /\ exports' = exports \cup {t}
      /\ UNCHANGED <<procs, trajectories, reused, saved>>
  BY DEF Export, Command, history
<1>3. Grows
  BY <1>2 DEF Grows, IInv, TypeOK
<1>4. Fits(a)'
  BY <1>1, <1>2 DEF Fits, Trusted
<1>5. /\ \A q \in Processes : Fits(proc[q])'
      /\ proc' = [q \in Processes |-> proc'[q]]
  BY <1>1, <1>2, <1>3, <1>4, OneMoves
<1>6. TypeOK' /\ InOrder'
  BY <1>2, <1>5 DEF IInv, TypeOK, InOrder
<1>7. \A u \in exports' : Trusted(u)'
  BY <1>1, <1>2, <1>3, TrustStays DEF IInv, FilesAreSound
<1>8. \A f \in Procedures :
          procs'[f] # Absent => f \in saved' /\ Sound(f, procs[f], 0)'
  BY <1>2 DEF IInv, FilesAreSound, Sound, Succeeds, Trusted
<1> QED
  BY <1>5, <1>6, <1>7, <1>8 DEF IInv, FilesAreSound

LEMMA RecallStep ==
    ASSUME IInv, Recall
    PROVE  IInv'
<1>1. proc' = [proc EXCEPT ![Operator] = Orienting("done")] /\ Operator \in Processes
  BY DEF Recall, Command, Processes
<1> QED
  BY <1>1, FreePlaces, OnlyThePlace DEF Recall, files, history

\* Whatever a process was doing, it is gone.
LEMMA CrashStep ==
    ASSUME IInv, NEW p \in Processes, Crash(p)
    PROVE  IInv'
<1>1. proc' = [proc EXCEPT ![p] = Idle]
  BY DEF Crash
<1> QED
  BY <1>1, FreePlaces, OnlyThePlace DEF Crash, files, history

-----------------------------------------------------------------------------
(* The invariant.                                                          *)

LEMMA InitHolds == Init => IInv
<1> SUFFICES ASSUME Init PROVE IInv
  OBVIOUS
<1>1. PICK n \in Reuses, f \in Earliest(Procedures) :
          /\ procs = [g \in Procedures |->
                         IF g = f THEN [Fresh(FirstTitle) EXCEPT !.reuse = n] ELSE Absent]
          /\ reused = [g \in Procedures |-> IF g = f THEN n ELSE 0]
          /\ saved = {f}
  BY DEF Init
<1> PICK first : first = [Fresh(FirstTitle) EXCEPT !.reuse = n]
  OBVIOUS
<1>2. /\ n \in Nat /\ f \in Procedures /\ \A g \in Procedures : At[f] <= At[g]
      /\ FirstTitle \in Nat /\ RefineThreshold \in Nat
  BY MemoryAssumption DEF Earliest
<1>3. Fresh(FirstTitle) \in SavedProcedures /\ Fresh(FirstTitle).revisions = 0
      /\ Fresh(FirstTitle).status = "active" /\ Fresh(FirstTitle).trajectory = None
  BY <1>2 DEF Fresh, SavedProcedures
<1>4. /\ first \in SavedProcedures /\ first.revisions = 0 /\ first.reuse = n
      /\ first.status = "active" /\ first.trajectory = None
  BY <1>2, <1>3 DEF SavedProcedures
<1>5. \A g \in Procedures : procs[g] = IF g = f THEN first ELSE Absent
  BY <1>1
<1>6. trajectories \in [Trajectories -> SavedTrajectories \cup {NoTrajectory}]
  <2>1. [review |-> "ready", low |-> FALSE] \in SavedTrajectories
    BY DEF SavedTrajectories
  <2>2. trajectories = [t \in Trajectories |->
            IF t \in Kept THEN [review |-> "ready", low |-> FALSE] ELSE NoTrajectory]
    BY DEF Init
  <2> QED
    BY <2>1, <2>2
<1>7. /\ procs \in [Procedures -> SavedProcedures \cup {Absent}]
      /\ reused \in [Procedures -> Nat]
  BY <1>1, <1>2, <1>4
<1>8. exports = {} /\ proc = [p \in Processes |-> Idle]
  BY DEF Init
<1>9. TypeOK
  BY <1>1, <1>2, <1>6, <1>7, <1>8 DEF TypeOK
<1>10. InOrder
  BY <1>1, <1>2 DEF InOrder
<1>11. Sound(f, first, 0)
  <2>1. reused[f] = n
    BY <1>1, <1>2
  <2> QED
    BY <2>1, <1>2, <1>4 DEF Sound
<1>12. FilesAreSound
  BY <1>1, <1>5, <1>8, <1>11 DEF FilesAreSound
<1>13. \A p \in Processes : Fits(proc[p])
  BY <1>8, FreePlaces
<1> QED
  BY <1>9, <1>10, <1>12, <1>13 DEF IInv

LEMMA StepHolds == IInv /\ [Next]_vars => IInv'
<1> SUFFICES ASSUME IInv, [Next]_vars PROVE IInv'
  OBVIOUS
<1>1. ASSUME NEW w \in Workers, Work(w)
      PROVE  IInv'
  BY <1>1, StartStep, LoadStep, MeetStep, LeaveStep, ReadProfileStep, PromoteStep,
     ReuseLoadedStep, ReuseActiveStep, SaveNewStep, SaveSuccessorStep,
     RecordTrajectoryStep DEF Work
<1>2. ASSUME NEW p \in Processes,
             Consolidate(p) \/ ReadProcedure(p) \/ WriteProcedure(p) \/ Crash(p)
      PROVE  IInv'
  BY <1>2, ConsolidateStep, ReadProcedureStep, WriteProcedureStep, CrashStep
<1>3. CASE Operate
  BY <1>3, DisableStep, PruneStep, RemoveProcedureStep, ReviewStep, ExportStep,
     MarkExportedStep, RecallStep DEF Operate
<1>4. CASE UNCHANGED vars
  <2>1. UNCHANGED <<procs, trajectories, exports, reused, saved, proc>>
    BY <1>4 DEF vars, files, history
  <2>2. Grows
    BY <2>1 DEF Grows, IInv, TypeOK
  <2>3. ASSUME NEW p \in Processes
        PROVE  Fits(proc[p])'
    <3> PICK a : a = proc[p]
      OBVIOUS
    <3>1. Fits(a)' /\ a = proc'[p]
      BY <2>1, <2>2, PlaceStays DEF IInv
    <3> QED
      BY <3>1
  <2>4. TypeOK' /\ InOrder' /\ FilesAreSound'
    BY <2>1 DEF IInv, TypeOK, InOrder, FilesAreSound, Sound, Succeeds, Trusted
  <2> QED
    BY <2>3, <2>4 DEF IInv
<1> QED
  BY <1>1, <1>2, <1>3, <1>4 DEF Next

\* What each process carries between its writes agrees with the files and the
\* history, whatever the others do and whenever one dies (Job, the stores).
THEOREM Invariance == Spec => []IInv
<1>1. Init => IInv
  BY InitHolds
<1>2. IInv /\ [Next]_vars => IInv'
  BY StepHolds
<1> QED
  BY <1>1, <1>2, PTL DEF Spec

-----------------------------------------------------------------------------
(* What follows from it.                                                   *)

\* The files have their types, whoever writes them and whenever one dies.
THEOREM TypeCorrect == Spec => []TypeOK
<1>1. IInv => TypeOK
  BY DEF IInv
<1> QED
  BY <1>1, Invariance, PTL

\* Counts that are lost to concurrent writes make no revision come early, for
\* any number of runs (procedure_revision_quality_gate).
THEOREM RevisionsAreAlwaysProven == Spec => []RevisionsAreProven
<1>1. ASSUME IInv, NEW f \in saved, procs[f] # Absent
      PROVE  /\ procs[f].revisions > 0 => reused[f] > RefineThreshold
             /\ procs[f].status = "superseded" => reused[f] >= SupersedeThreshold
  <2>1. f \in Procedures /\ reused[f] \in Nat /\ Sound(f, procs[f], 0)
    BY <1>1 DEF IInv, TypeOK, FilesAreSound
  <2> QED
    BY <2>1, MemoryAssumption DEF Sound
<1>2. IInv => RevisionsAreProven
  BY <1>1 DEF RevisionsAreProven
<1> QED
  BY <1>2, Invariance, PTL

\* Two runs that supersede one procedure at once, and deaths between the two
\* steps, leave every superseded procedure with a successor
\* (promote_verified_task).
THEOREM SuccessorsAreAlwaysSaved == Spec => []SuccessorsAreSaved
<1>1. ASSUME IInv, NEW f \in saved, procs[f].status = "superseded"
      PROVE  procs[f].by \in saved /\ procs[f].by # f /\ At[f] <= At[procs[f].by]
  <2>1. f \in Procedures /\ procs[f] # Absent
    BY <1>1 DEF IInv, TypeOK, Absent
  <2> QED
    BY <1>1, <2>1 DEF IInv, FilesAreSound, Sound, Succeeds
<1>2. IInv => SuccessorsAreSaved
  BY <1>1 DEF SuccessorsAreSaved
<1> QED
  BY <1>2, Invariance, PTL

\* Nothing of a run under low-trust influence is exported or is the source of a
\* procedure (durable_promotion_block_reason, ensure_export_quality).
THEOREM LowTrustAlwaysStaysLocal == Spec => []LowTrustStaysLocal
<1>1. ASSUME IInv, NEW t \in Trajectories, trajectories[t] # NoTrajectory, trajectories[t].low
      PROVE  /\ t \notin exports
             /\ \A f \in saved : procs[f] # Absent => procs[f].trajectory # t
  <2>1. t # None
    BY MemoryAssumption
  <2>2. ~Trusted(t)
    BY <1>1 DEF Trusted
  <2> QED
    BY <2>1, <2>2, <1>1 DEF IInv, TypeOK, FilesAreSound, Sound
<1>2. IInv => LowTrustStaysLocal
  BY <1>1 DEF LowTrustStaysLocal
<1> QED
  BY <1>2, Invariance, PTL

-----------------------------------------------------------------------------
(* The order of candidates.                                                *)

IsCandidate(c) ==
    /\ c = Candidate(c.entry, c.source, c.at)
    /\ IsLine(c.entry)
    /\ c.source \in {"index", "note", "procedure"} /\ c.at \in Nat

\* The five parts of the priority.
P1(c) == Category(c.entry)
P2(c) == StatusRank(c.entry.status)
P3(c) == SourceRank(c.source)

LEMMA PartsOfPriority ==
    ASSUME NEW c, IsCandidate(c)
    PROVE  P1(c) \in Nat /\ P2(c) \in Nat /\ P3(c) \in Nat
           /\ c.at \in Nat /\ c.entry.title \in Nat
BY DEF IsCandidate, IsLine, P1, P2, P3, Category, StatusRank, SourceRank

LEMMA PrecedesIs ==
    ASSUME NEW c, NEW d, IsCandidate(c), IsCandidate(d)
    PROVE  Precedes(c, d) <=>
              \/ P1(c) > P1(d)
              \/ P1(c) = P1(d) /\ P2(c) > P2(d)
              \/ P1(c) = P1(d) /\ P2(c) = P2(d) /\ P3(c) > P3(d)
              \/ P1(c) = P1(d) /\ P2(c) = P2(d) /\ P3(c) = P3(d) /\ c.at > d.at
              \/ /\ P1(c) = P1(d) /\ P2(c) = P2(d) /\ P3(c) = P3(d) /\ c.at = d.at
                 /\ c.entry.title > d.entry.title
<1> DEFINE k(x) == <<P1(x), P2(x), P3(x), x.at, x.entry.title>>
<1>1. Precedes(c, d) <=>
          \E i \in 1 .. 5 : k(c)[i] > k(d)[i] /\ \A j \in 1 .. i - 1 : k(c)[j] = k(d)[j]
  BY DEF Precedes, P1, P2, P3
<1>2. \A x : /\ k(x)[1] = P1(x) /\ k(x)[2] = P2(x) /\ k(x)[3] = P3(x)
             /\ k(x)[4] = x.at /\ k(x)[5] = x.entry.title
  OBVIOUS
<1> HIDE DEF k
<1>3. \A i : i \in 1 .. 5 <=> i = 1 \/ i = 2 \/ i = 3 \/ i = 4 \/ i = 5
  OBVIOUS
<1>4. /\ \A j : ~(j \in 1 .. 1 - 1)
      /\ \A j : j \in 1 .. 2 - 1 <=> j = 1
      /\ \A j : j \in 1 .. 3 - 1 <=> j = 1 \/ j = 2
      /\ \A j : j \in 1 .. 4 - 1 <=> j = 1 \/ j = 2 \/ j = 3
      /\ \A j : j \in 1 .. 5 - 1 <=> j = 1 \/ j = 2 \/ j = 3 \/ j = 4
  OBVIOUS
<1>5. Precedes(c, d) <=>
          \/ k(c)[1] > k(d)[1] /\ \A j \in 1 .. 1 - 1 : k(c)[j] = k(d)[j]
          \/ k(c)[2] > k(d)[2] /\ \A j \in 1 .. 2 - 1 : k(c)[j] = k(d)[j]
          \/ k(c)[3] > k(d)[3] /\ \A j \in 1 .. 3 - 1 : k(c)[j] = k(d)[j]
          \/ k(c)[4] > k(d)[4] /\ \A j \in 1 .. 4 - 1 : k(c)[j] = k(d)[j]
          \/ k(c)[5] > k(d)[5] /\ \A j \in 1 .. 5 - 1 : k(c)[j] = k(d)[j]
  BY <1>1, <1>3, Zenon
<1> QED
  BY <1>2, <1>4, <1>5, Zenon

LEMMA OrderOfCandidates ==
    ASSUME NEW c, NEW d, NEW e, IsCandidate(c), IsCandidate(d), IsCandidate(e)
    PROVE  /\ ~Precedes(c, c)
           /\ Precedes(c, d) /\ Precedes(d, e) => Precedes(c, e)
<1>1. /\ P1(c) \in Nat /\ P2(c) \in Nat /\ P3(c) \in Nat
      /\ c.at \in Nat /\ c.entry.title \in Nat
  BY PartsOfPriority
<1>2. /\ P1(d) \in Nat /\ P2(d) \in Nat /\ P3(d) \in Nat
      /\ d.at \in Nat /\ d.entry.title \in Nat
  BY PartsOfPriority
<1>3. /\ P1(e) \in Nat /\ P2(e) \in Nat /\ P3(e) \in Nat
      /\ e.at \in Nat /\ e.entry.title \in Nat
  BY PartsOfPriority
<1>4. ~Precedes(c, c)
  BY <1>1, PrecedesIs
<1>5. ASSUME Precedes(c, d), Precedes(d, e)
      PROVE  Precedes(c, e)
  BY <1>1, <1>2, <1>3, <1>5, PrecedesIs
<1> QED
  BY <1>4, <1>5

\* The least of some numbers; LeastNumber of AccessControlProofs, for sizes.
LEMMA LeastSize ==
    ASSUME NEW T, T \subseteq Nat, T # {}
    PROVE  \E x \in T : \A y \in T : x <= y
<1> DEFINE R == OpToRel(<, Nat)
<1>1. IsWellFoundedOn(R, Nat)
  BY NatLessThanWellFounded
<1>2. \A x, y \in Nat : x < y => <<x, y>> \in R
  BY DEF OpToRel
<1> HIDE DEF R
<1>3. PICK x \in T : \A y \in T : ~ (<<y, x>> \in R)
  BY <1>1, WFMin, Zenon
<1>4. ASSUME NEW y \in T PROVE x <= y
  <2>1. x \in Nat /\ y \in Nat
    OBVIOUS
  <2>2. ~ (y < x)
    BY <1>2, <1>3, <2>1, Zenon
  <2> QED
    BY <2>1, <2>2
<1> QED
  BY <1>4

\* A finite group has a winner: a candidate that fewest precede is preceded by
\* none, for those that precede another precede whatever that one precedes.
LEMMA GroupsHaveAWinner ==
    ASSUME NEW group, IsFiniteSet(group), group # {},
           \A c \in group : IsCandidate(c)
    PROVE  \E c \in group : \A d \in group : ~Precedes(d, c)
<1> DEFINE Ahead(c) == {d \in group : Precedes(d, c)}
           Sizes == {Cardinality(Ahead(c)) : c \in group}
<1>1. \A c \in group : IsFiniteSet(Ahead(c)) /\ Cardinality(Ahead(c)) \in Nat
  <2> TAKE c \in group
  <2>1. Ahead(c) \in SUBSET group
    OBVIOUS
  <2> QED
    BY <2>1, FS_Subset, FS_CardinalityType
<1>2. Sizes \subseteq Nat /\ Sizes # {}
  BY <1>1
<1>3. PICK n \in Sizes : \A m \in Sizes : n <= m
  <2> HIDE DEF Sizes
  <2> QED
    BY <1>2, LeastSize
<1>4. PICK c \in group : n = Cardinality(Ahead(c))
  OBVIOUS
<1>5. ASSUME NEW d \in group, Precedes(d, c)
      PROVE  FALSE
  <2>1. Ahead(d) \subseteq Ahead(c)
    BY <1>5, OrderOfCandidates
  <2>2. d \in Ahead(c) /\ d \notin Ahead(d)
    BY <1>5, OrderOfCandidates
  <2>3. Cardinality(Ahead(d)) <= Cardinality(Ahead(c))
        /\ (Cardinality(Ahead(c)) = Cardinality(Ahead(d)) => Ahead(c) = Ahead(d))
    <3>1. Ahead(d) \in SUBSET Ahead(c)
      BY <2>1
    <3> HIDE DEF Ahead
    <3> QED
      BY <1>1, <3>1, FS_Subset
  <2>4. n <= Cardinality(Ahead(d))
    BY <1>3
  <2> HIDE DEF Ahead
  <2> QED
    BY <1>1, <1>4, <2>2, <2>3, <2>4
<1> QED
  BY <1>5

-----------------------------------------------------------------------------
(* What is merged and what is kept.                                        *)

\* A merged candidate is its winner but for the text.
Like(m, w) ==
    /\ IsCandidate(m)
    /\ m.source = w.source /\ m.at = w.at
    /\ m.entry.title = w.entry.title /\ m.entry.file = w.entry.file
    /\ m.entry.status = w.entry.status

LEMMA MergedIs ==
    ASSUME NEW group, IsFiniteSet(group), group # {},
           \A c \in group : IsCandidate(c)
    PROVE  \E w \in group : Like(Merged(group), w) /\ \A d \in group : ~Precedes(d, w)
<1> DEFINE w == CHOOSE c \in group : \A d \in group : ~Precedes(d, c)
           equals == {c \in group : StatusRank(c.entry.status) >= StatusRank(w.entry.status)}
           text == UNION {c.entry.text : c \in equals}
<1>1. w \in group /\ \A d \in group : ~Precedes(d, w)
  <2>1. \E c \in group : \A d \in group : ~Precedes(d, c)
    BY GroupsHaveAWinner
  <2> QED
    BY <2>1
<1>2. Merged(group) = [w EXCEPT !.entry.text = text]
  BY DEF Merged
<1> HIDE DEF w, text
<1>3. IsCandidate(w)
  BY <1>1
<1> DEFINE e == Entry(w.entry.title, w.entry.file, w.entry.status, text)
<1>4. Merged(group) = Candidate(e, w.source, w.at)
  BY <1>2, <1>3 DEF IsCandidate, IsLine, Candidate, Entry
<1>5. IsLine(e) /\ e.title = w.entry.title /\ e.file = w.entry.file
      /\ e.status = w.entry.status
  BY <1>3 DEF IsCandidate, IsLine, Entry
<1> HIDE DEF e
<1>6. Like(Merged(group), w)
  BY <1>3, <1>4, <1>5 DEF Like, IsCandidate, Candidate
<1> QED
  BY <1>1, <1>6

\* What a function makes of finitely many is finite.
LEMMA ImagesAreFinite ==
    ASSUME NEW S, IsFiniteSet(S), NEW g, NEW T, T = {g[x] : x \in S}
    PROVE  IsFiniteSet(T)
<1> DEFINE h == [x \in S |-> g[x]]
<1>1. h \in Surjection(S, T)
  BY DEF Surjection
<1> QED
  BY <1>1, FS_Surjection

LEMMA MergedAllAre ==
    ASSUME NEW G, IsFiniteSet(G), \A c \in G : IsCandidate(c)
    PROVE  /\ IsFiniteSet(MergedAll(G))
           /\ \A m \in MergedAll(G) : \E w \in G : Like(m, w)
           /\ \A c \in G : \E m \in MergedAll(G), w \in G :
                 GroupKey(w) = GroupKey(c) /\ ~Precedes(c, w) /\ Like(m, w)
<1> DEFINE group(k) == {d \in G : GroupKey(d) = k}
           made == [c \in G |-> Merged(group(GroupKey(c)))]
<1>1. MergedAll(G) = {made[c] : c \in G}
  BY DEF MergedAll
<1>2. \A c \in G : \E w \in G :
          /\ GroupKey(w) = GroupKey(c) /\ ~Precedes(c, w) /\ Like(made[c], w)
  <2> TAKE c \in G
  <2>1. /\ IsFiniteSet(group(GroupKey(c))) /\ c \in group(GroupKey(c))
        /\ \A d \in group(GroupKey(c)) : d \in G /\ IsCandidate(d)
                                         /\ GroupKey(d) = GroupKey(c)
    <3>1. group(GroupKey(c)) \in SUBSET G
      OBVIOUS
    <3> QED
      BY <3>1, FS_Subset
  <2>2. made[c] = Merged(group(GroupKey(c)))
    OBVIOUS
  <2> HIDE DEF group, made
  <2>3. PICK w \in group(GroupKey(c)) :
            Like(made[c], w) /\ \A d \in group(GroupKey(c)) : ~Precedes(d, w)
    BY <2>1, <2>2, MergedIs
  <2> QED
    BY <2>1, <2>3
<1> HIDE DEF made
<1>3. IsFiniteSet(MergedAll(G))
  BY <1>1, ImagesAreFinite
<1> QED
  BY <1>1, <1>2, <1>3

LEMMA FirstsAre ==
    ASSUME NEW S, NEW n, NEW T \in Firsts(S, n)
    PROVE  T \subseteq S /\ (T = S \/ Cardinality(T) = n)
BY DEF Firsts

\* Only the two limits drop what is not stale.
LEMMA PrunedAre ==
    ASSUME NEW C, NEW S \in Pruned(C)
    PROVE  /\ S \subseteq C
           /\ \/ Cardinality(S) = MaxIndexEntries
              \/ Cardinality(From("procedure", S)) = MaxCuratedProcedures
              \/ \A c \in C :
                    c.entry.status # "stale" /\ c.source \in {"index", "procedure"}
                        => c \in S
<1> DEFINE live == {c \in C : c.entry.status # "stale"}
<1>1. PICK N \in Firsts(From("note", live), MaxCuratedNotes),
           P \in Firsts(From("procedure", live), MaxCuratedProcedures) :
           S \in Firsts(From("index", live) \cup N \cup P, MaxIndexEntries)
  <2> DEFINE Ns == Firsts(From("note", live), MaxCuratedNotes)
             Ps == Firsts(From("procedure", live), MaxCuratedProcedures)
             Ss(N, P) == Firsts(From("index", live) \cup N \cup P, MaxIndexEntries)
  <2>1. S \in UNION {UNION {Ss(N, P) : P \in Ps} : N \in Ns}
    BY DEF Pruned
  <2> HIDE DEF Ns, Ps, Ss
  <2>2. PICK N \in Ns : S \in UNION {Ss(N, P) : P \in Ps}
    BY <2>1
  <2>3. PICK P \in Ps : S \in Ss(N, P)
    BY <2>2
  <2> QED
    BY <2>3 DEF Ns, Ps, Ss
<1>2. N \subseteq From("note", live)
  BY FirstsAre
<1>3. /\ P \subseteq From("procedure", live)
      /\ P = From("procedure", live) \/ Cardinality(P) = MaxCuratedProcedures
  BY FirstsAre
<1>4. /\ S \subseteq From("index", live) \cup N \cup P
      /\ S = From("index", live) \cup N \cup P \/ Cardinality(S) = MaxIndexEntries
  BY <1>1, FirstsAre
<1>5. S \subseteq C
  BY <1>2, <1>3, <1>4 DEF From
<1>6. ASSUME S = From("index", live) \cup N \cup P
      PROVE  /\ From("procedure", S) = P
             /\ P = From("procedure", live) =>
                   \A c \in C : c.entry.status # "stale"
                                /\ c.source \in {"index", "procedure"} => c \in S
  BY <1>2, <1>3, <1>6 DEF From
<1> QED
  BY <1>3, <1>4, <1>5, <1>6

-----------------------------------------------------------------------------
(* What is gathered.                                                       *)

Listing(entries) == IsFiniteSet(entries) /\ \A e \in entries : IsLine(e)

NotesAreKnown ==
    /\ IsFiniteSet(DOMAIN notes) /\ DOMAIN notes \subseteq Notes
    /\ \A n \in DOMAIN notes : notes[n] \in Nat

Writes(a) ==
    a.at \in {"truncate", "rewrite"} =>
        a = [at |-> a.at, next |-> a.next, then |-> a.then] /\ Listing(a.next)

\* The index and what is about to be written of it are listings of finitely
\* many lines, also while others save, remove and consolidate.
ListingsHold ==
    /\ IsFiniteSet(saved) /\ NotesAreKnown /\ Listing(index)
    /\ \A p \in Processes : Writes(proc[p])

LEMMA IndexCandidatesAre ==
    ASSUME TypeOK, ListingsHold
    PROVE  /\ IsFiniteSet(IndexCandidates(index, procs))
           /\ \A c \in IndexCandidates(index, procs) :
                 /\ IsCandidate(c) /\ c.source = "index"
                 /\ c.entry.file \in Procedures => procs[c.entry.file] # Absent
<1> DEFINE lines == {d \in Parsed(index) : ~PointsToMissing(d, procs)}
           g == [e \in lines |-> Candidate(e, "index", 0)]
<1>1. IsFiniteSet(lines)
  <2>1. lines \in SUBSET index
    BY DEF Parsed
  <2> QED
    BY <2>1, FS_Subset DEF ListingsHold, Listing
<1>2. IndexCandidates(index, procs) = {g[e] : e \in lines}
  BY DEF IndexCandidates
<1>3. \A e \in lines : /\ IsCandidate(g[e]) /\ g[e].source = "index"
                       /\ g[e].entry.file \in Procedures
                             => procs[g[e].entry.file] # Absent
  <2> TAKE e \in lines
  <2>1. g[e] = Candidate(e, "index", 0) /\ IsLine(e)
    BY DEF ListingsHold, Listing, Parsed
  <2>2. g[e].entry = e /\ g[e].source = "index" /\ g[e].at = 0
    BY <2>1 DEF Candidate
  <2>3. IsCandidate(g[e])
    BY <2>1, <2>2 DEF IsCandidate
  <2> QED
    BY <2>2, <2>3 DEF PointsToMissing
<1> HIDE DEF g, lines
<1>4. IsFiniteSet(IndexCandidates(index, procs))
  BY <1>1, <1>2, ImagesAreFinite
<1> QED
  BY <1>2, <1>3, <1>4

LEMMA NoteCandidatesAre ==
    ASSUME ListingsHold
    PROVE  /\ IsFiniteSet(NoteCandidates(notes))
           /\ \A c \in NoteCandidates(notes) :
                 IsCandidate(c) /\ c.source = "note" /\ c.entry.file \in Notes
<1> DEFINE g == [n \in DOMAIN notes |->
                    Candidate(Entry(notes[n], n, "verified", {<<n>>}), "note", At[n])]
<1>1. NoteCandidates(notes) = {g[n] : n \in DOMAIN notes}
  BY DEF NoteCandidates
<1>2. \A n \in DOMAIN notes :
          IsCandidate(g[n]) /\ g[n].source = "note" /\ g[n].entry.file \in Notes
  <2> TAKE n \in DOMAIN notes
  <2> DEFINE e == Entry(notes[n], n, "verified", {<<n>>})
  <2>1. g[n] = Candidate(e, "note", At[n])
    OBVIOUS
  <2>2. IsLine(e) /\ e.file = n
    BY DEF ListingsHold, NotesAreKnown, IsLine, Entry, Statuses
  <2> HIDE DEF e, g
  <2>3. g[n].entry = e /\ g[n].source = "note" /\ g[n].at = At[n]
    BY <2>1 DEF Candidate
  <2>4. n \in Notes /\ At[n] \in Nat
    BY IndexAssumption DEF ListingsHold, NotesAreKnown
  <2> QED
    BY <2>1, <2>2, <2>3, <2>4 DEF IsCandidate
<1> HIDE DEF g
<1>3. IsFiniteSet(NoteCandidates(notes))
  BY <1>1, ImagesAreFinite DEF ListingsHold, NotesAreKnown
<1> QED
  BY <1>1, <1>2, <1>3

LEMMA ProcedureCandidatesAre ==
    ASSUME TypeOK, FilesAreSound, ListingsHold
    PROVE  /\ IsFiniteSet(ProcedureCandidates(procs))
           /\ \A c \in ProcedureCandidates(procs) :
                 /\ IsCandidate(c) /\ c.source = "procedure"
                 /\ c.entry.file \in Procedures /\ procs[c.entry.file] # Absent
                 /\ c.entry = ProcedureEntry(c.entry.file, procs[c.entry.file])
           /\ \A f \in Procedures : procs[f] # Absent =>
                 \E c \in ProcedureCandidates(procs) :
                    c.entry = ProcedureEntry(f, procs[f])
<1> DEFINE present == {f \in Procedures : procs[f] # Absent}
           g == [f \in present |->
                    Candidate(ProcedureEntry(f, procs[f]), "procedure", At[f])]
<1>1. ProcedureCandidates(procs) = {g[f] : f \in present}
  BY DEF ProcedureCandidates
<1>2. \A f \in present :
          /\ IsCandidate(g[f]) /\ g[f].source = "procedure"
          /\ g[f].entry.file = f /\ g[f].entry = ProcedureEntry(f, procs[f])
  <2> TAKE f \in present
  <2> DEFINE e == ProcedureEntry(f, procs[f])
  <2>1. g[f] = Candidate(e, "procedure", At[f])
    OBVIOUS
  <2>2. procs[f] \in SavedProcedures
    BY DEF TypeOK
  <2>3. IsLine(e) /\ e.file = f
    BY <2>2 DEF SavedProcedures, ProcedureEntry, StatusOfProcedure, IsLine, Entry, Statuses
  <2> HIDE DEF e, g
  <2>4. g[f].entry = e /\ g[f].source = "procedure" /\ g[f].at = At[f]
    BY <2>1 DEF Candidate
  <2>5. At[f] \in Nat
    BY IndexAssumption
  <2>6. IsCandidate(g[f])
    BY <2>1, <2>3, <2>4, <2>5 DEF IsCandidate
  <2> QED
    BY <2>3, <2>4, <2>6 DEF e
<1>3. IsFiniteSet(present)
  <2>1. present \in SUBSET saved
    BY DEF FilesAreSound
  <2> QED
    BY <2>1, FS_Subset DEF ListingsHold
<1>4. \A f \in present : f \in Procedures /\ procs[f] # Absent
  OBVIOUS
<1>5. \A f \in Procedures : procs[f] # Absent => f \in present
  OBVIOUS
<1> HIDE DEF g, present
<1>6. IsFiniteSet(ProcedureCandidates(procs))
  BY <1>1, <1>3, ImagesAreFinite
<1> QED
  BY <1>1, <1>2, <1>4, <1>5, <1>6

LEMMA GatheredAre ==
    ASSUME TypeOK, FilesAreSound, ListingsHold,
           NEW G, G = Gathered(index, notes, procs)
    PROVE  /\ IsFiniteSet(G)
           /\ \A c \in G :
                 /\ IsCandidate(c)
                 /\ c.entry.file \in Procedures => procs[c.entry.file] # Absent
                 /\ c.source = "procedure" =>
                       c.entry = ProcedureEntry(c.entry.file, procs[c.entry.file])
           /\ \A f \in Procedures : procs[f] # Absent =>
                 \E c \in G : /\ c.source \in {"index", "procedure"}
                              /\ c.entry = ProcedureEntry(f, procs[f])
<1> DEFINE found == IndexCandidates(index, procs)
           of(S) == {c \in S : \A d \in found : d.entry # c.entry}
           stored == NoteCandidates(notes) \cup ProcedureCandidates(procs)
<1>1. G = found \cup of(stored)
  BY DEF Gathered
<1>2. IsFiniteSet(G)
  <2>1. IsFiniteSet(found) /\ IsFiniteSet(stored)
    BY IndexCandidatesAre, NoteCandidatesAre, ProcedureCandidatesAre, FS_Union
  <2>2. of(stored) \in SUBSET stored
    OBVIOUS
  <2>3. IsFiniteSet(of(stored))
    BY <2>1, <2>2, FS_Subset
  <2> HIDE DEF found, stored, of
  <2> QED
    BY <1>1, <2>1, <2>3, FS_Union
<1>3. ASSUME NEW c \in G
      PROVE  /\ IsCandidate(c)
             /\ c.entry.file \in Procedures => procs[c.entry.file] # Absent
             /\ c.source = "procedure" =>
                   c.entry = ProcedureEntry(c.entry.file, procs[c.entry.file])
  <2>1. CASE c \in found
    BY <2>1, IndexCandidatesAre
  <2>2. CASE c \in NoteCandidates(notes)
    BY <2>2, NoteCandidatesAre, IndexAssumption
  <2>3. CASE c \in ProcedureCandidates(procs)
    BY <2>3, ProcedureCandidatesAre
  <2> QED
    BY <1>1, <2>1, <2>2, <2>3
<1>4. ASSUME NEW f \in Procedures, procs[f] # Absent
      PROVE  \E c \in G : /\ c.source \in {"index", "procedure"}
                          /\ c.entry = ProcedureEntry(f, procs[f])
  <2>1. PICK c \in ProcedureCandidates(procs) : c.entry = ProcedureEntry(f, procs[f])
    BY <1>4, ProcedureCandidatesAre
  <2>2. c.source = "procedure"
    BY ProcedureCandidatesAre
  <2>3. CASE \A d \in found : d.entry # c.entry
    <3>1. c \in G
      BY <1>1, <2>3
    <3> QED
      BY <3>1, <2>1, <2>2
  <2>4. CASE \E d \in found : d.entry = c.entry
    <3>1. PICK d \in found : d.entry = c.entry
      BY <2>4
    <3>2. d \in G /\ d.source = "index"
      BY <1>1, <3>1, IndexCandidatesAre
    <3> QED
      BY <2>1, <3>1, <3>2
  <2> QED
    BY <2>3, <2>4
<1> QED
  BY <1>2, <1>3, <1>4

LEMMA EntriesAreLines ==
    ASSUME TypeOK, FilesAreSound, ListingsHold,
           NEW next \in Consolidations(index, notes, procs)
    PROVE  Listing(next)
<1>1. PICK S \in Selections(index, notes, procs) :
          next = Prelude(index) \cup Entries(S)
  BY DEF Consolidations
<1> DEFINE C == MergedAll(Gathered(index, notes, procs))
<1>2. IsFiniteSet(C) /\ \A c \in C : IsCandidate(c)
  BY GatheredAre, MergedAllAre DEF Like
<1>3. S \in SUBSET C
  BY PrunedAre DEF Selections
<1>4. IsFiniteSet(S) /\ \A c \in S : IsCandidate(c)
  BY <1>2, <1>3, FS_Subset
<1> DEFINE g == [c \in S |-> c.entry]
<1>5. Entries(S) = {g[c] : c \in S}
  BY DEF Entries
<1>6. \A c \in S : IsLine(g[c])
  BY <1>4 DEF IsCandidate
<1> HIDE DEF g
<1>7. Listing(Entries(S))
  BY <1>4, <1>5, <1>6, ImagesAreFinite DEF Listing
<1>8. Prelude(index) \in SUBSET index
  BY DEF Prelude
<1>9. Listing(Prelude(index))
  BY <1>8, FS_Subset DEF ListingsHold, Listing
<1> QED
  BY <1>1, <1>7, <1>9, FS_Union DEF Listing

-----------------------------------------------------------------------------
(* The listings stay what they are.                                        *)

WritesNothing(a) == a.at \notin {"truncate", "rewrite"}

LEMMA PlacesWrite ==
    ASSUME TypeOK, ListingsHold, NEW p \in Processes, NEW a, Writes(a),
           proc' = [proc EXCEPT ![p] = a]
    PROVE  \A q \in Processes : Writes(proc'[q])
<1>1. \A q \in Processes : proc'[q] = IF q = p THEN a ELSE proc[q]
  BY DEF TypeOK
<1> QED
  BY <1>1 DEF ListingsHold

\* The step of a process that leaves the index, the notes and the names alone.
LEMMA OnlyTheWriter ==
    ASSUME TypeOK, ListingsHold, NEW p \in Processes, NEW a, WritesNothing(a),
           proc' = [proc EXCEPT ![p] = a], UNCHANGED <<index, notes, saved>>
    PROVE  ListingsHold'
<1>1. Writes(a)
  BY DEF Writes, WritesNothing
<1>2. \A q \in Processes : Writes(proc'[q])
  BY <1>1, PlacesWrite
<1> QED
  BY <1>2 DEF ListingsHold, NotesAreKnown

LEMMA QuietPlaces ==
    /\ WritesNothing(Idle)
    /\ \A then : WritesNothing(Orienting(then))
    /\ \A job, file : WritesNothing(AfterProcedure(job, file))
    /\ \A file, change, by, made, job :
          WritesNothing(Changing(file, change, by, made, job))
    /\ \A r : WritesNothing(AfterChange(r))
    /\ \A run, kind, title : run.low \in BOOLEAN => WritesNothing(AfterNote(run, kind, title))
<1>1. /\ WritesNothing(Idle)
      /\ \A then : WritesNothing(Orienting(then))
      /\ \A file, change, by, made, job :
            WritesNothing(Changing(file, change, by, made, job))
      /\ \A run, kind, title : WritesNothing(Matching(run, kind, title))
  BY DEF WritesNothing, Idle, Orienting, Changing, Matching
<1>2. \A job, file : WritesNothing(AfterProcedure(job, file))
  BY <1>1 DEF WritesNothing, AfterProcedure
<1>3. \A r : WritesNothing(AfterChange(r))
  BY <1>1, <1>2 DEF AfterChange
<1>4. ASSUME NEW run, NEW kind, NEW title, run.low \in BOOLEAN
      PROVE  WritesNothing(AfterNote(run, kind, title))
  <2>1. AfterNote(run, kind, title) \in
            {Orienting("done"), AfterProcedure(Job(run, kind, title), None),
             Matching(run, kind, title)}
    BY <1>4 DEF AfterNote
  <2> QED
    BY <1>1, <1>2, <2>1
<1> QED
  BY <1>1, <1>2, <1>3, <1>4

LEMMA ConsolidateListings ==
    ASSUME IInv, ListingsHold, NEW p \in Processes, Consolidate(p)
    PROVE  ListingsHold'
<1> USE DEF IInv
<1>1. CASE Orient(p)
  <2>1. PICK next \in Consolidations(index, notes, procs) :
            proc' = [proc EXCEPT ![p] =
                [at |-> "truncate", next |-> next, then |-> proc[p].then]]
    BY <1>1 DEF Orient
  <2>2. Listing(next)
    BY EntriesAreLines
  <2>3. Writes([at |-> "truncate", next |-> next, then |-> proc[p].then])
    BY <2>2 DEF Writes
  <2>4. \A q \in Processes : Writes(proc'[q])
    BY <2>1, <2>3, PlacesWrite
  <2> QED
    BY <1>1, <2>4 DEF Orient, files, history, ListingsHold, NotesAreKnown
<1>2. CASE Truncate(p)
  <2>1. PICK a : a = [proc[p] EXCEPT !.at = "rewrite"]
    OBVIOUS
  <2>2. proc' = [proc EXCEPT ![p] = a]
    BY <1>2, <2>1 DEF Truncate
  <2>3. proc[p] = [at |-> proc[p].at, next |-> proc[p].next, then |-> proc[p].then]
        /\ Listing(proc[p].next)
    BY <1>2 DEF Truncate, ListingsHold, Writes
  <2>4. a = [at |-> "rewrite", next |-> proc[p].next, then |-> proc[p].then]
    BY <2>1, <2>3
  <2>5. Writes(a)
    BY <2>3, <2>4 DEF Writes
  <2>6. \A q \in Processes : Writes(proc'[q])
    BY <2>2, <2>5, PlacesWrite
  <2>7. Listing(index')
    BY <1>2, FS_EmptySet DEF Truncate, Listing
  <2> QED
    BY <1>2, <2>6, <2>7 DEF Truncate, files, history, ListingsHold, NotesAreKnown
<1>3. CASE Rewrite(p)
  <2> DEFINE a == IF proc[p].then = "load" THEN [at |-> "load"] ELSE Idle
  <2>1. proc' = [proc EXCEPT ![p] = a] /\ Listing(index')
    BY <1>3 DEF Rewrite, ListingsHold, Writes
  <2>2. Writes(a)
    BY DEF Writes, Idle
  <2>3. \A q \in Processes : Writes(proc'[q])
    BY <2>1, <2>2, PlacesWrite
  <2> QED
    BY <1>3, <2>1, <2>3 DEF Rewrite, files, history, ListingsHold, NotesAreKnown
<1> QED
  BY <1>1, <1>2, <1>3 DEF Consolidate

\* A note saved and a place that writes nothing.
LEMMA NoteListings ==
    ASSUME TypeOK, ListingsHold, NEW w \in Workers, NEW n \in NewNotes,
           NEW title \in Titles, SaveNote(n, title),
           NEW a, WritesNothing(a), proc' = [proc EXCEPT ![w] = a],
           UNCHANGED <<index, saved>>
    PROVE  ListingsHold'
<1>1. /\ DOMAIN notes' = DOMAIN notes \cup {n} /\ n \in Notes
      /\ \A m \in DOMAIN notes' : notes'[m] = IF m = n THEN title ELSE notes[m]
  BY DEF SaveNote, NewNotes, Earliest
<1>2. IsFiniteSet(DOMAIN notes')
  BY <1>1, FS_AddElement DEF ListingsHold, NotesAreKnown
<1>3. title \in Nat
  BY MemoryAssumption
<1>4. NotesAreKnown'
  BY <1>1, <1>2, <1>3 DEF ListingsHold, NotesAreKnown
<1>5. w \in Processes /\ Writes(a)
  BY DEF Processes, Writes, WritesNothing
<1>6. \A q \in Processes : Writes(proc'[q])
  BY <1>5, PlacesWrite
<1> QED
  BY <1>4, <1>6 DEF ListingsHold

LEMMA WorkListings ==
    ASSUME IInv, ListingsHold, NEW w \in Workers, Work(w)
    PROVE  ListingsHold'
<1> USE DEF IInv
<1>0. w \in Processes
  BY DEF Processes
<1>1. CASE Start(w)
  BY <1>0, <1>1, QuietPlaces, OnlyTheWriter DEF Start, files, history
<1>2. CASE Load(w)
  <2>1. PICK loaded : proc' = [proc EXCEPT ![w] =
                [at |-> "work", loaded |-> loaded, low |-> FALSE]]
    BY <1>2 DEF Load
  <2>2. WritesNothing([at |-> "work", loaded |-> loaded, low |-> FALSE])
    BY DEF WritesNothing
  <2> QED
    BY <1>0, <1>2, <2>1, <2>2, OnlyTheWriter DEF Load, files, history
<1>3. CASE Finish(w)
  BY <1>0, <1>3, QuietPlaces, OnlyTheWriter DEF Finish, files, history
<1>4. CASE TakeNote(w)
  BY <1>4, QuietPlaces, NoteListings DEF TakeNote, history
<1>5. CASE ReadProfile(w)
  <2>1. PICK next : proc' = [proc EXCEPT ![w] = [at |-> "profile", next |-> next]]
    BY <1>5 DEF ReadProfile
  <2>2. WritesNothing([at |-> "profile", next |-> next])
    BY DEF WritesNothing
  <2> QED
    BY <1>0, <1>5, <2>1, <2>2, OnlyTheWriter DEF ReadProfile, files, history
<1>6. CASE WriteProfile(w)
  BY <1>0, <1>6, QuietPlaces, OnlyTheWriter DEF WriteProfile, history
<1>7. CASE Promote(w)
  <2>1. proc[w].low \in BOOLEAN
    BY <1>0, <1>7 DEF Promote, Fits
  <2>2. PICK n \in NewNotes, kind \in Promotions, title \in Titles :
            SaveNote(n, title)
            /\ proc' = [proc EXCEPT ![w] = AfterNote(proc[w], kind, title)]
    BY <1>7 DEF Promote
  <2>3. WritesNothing(AfterNote(proc[w], kind, title))
    BY <2>1, QuietPlaces
  <2> QED
    BY <1>7, <2>2, <2>3, NoteListings DEF Promote, history
<1>8. CASE ReuseLoaded(w)
  <2>1. PICK f, action : proc' = [proc EXCEPT ![w] =
            IF action = "supersede"
            THEN [at |-> "succeed", file |-> f, job |-> proc[w].job]
            ELSE Changing(f, action, None, f, proc[w].job)]
    BY <1>8 DEF ReuseLoaded
  <2>2. WritesNothing(IF action = "supersede"
            THEN [at |-> "succeed", file |-> f, job |-> proc[w].job]
            ELSE Changing(f, action, None, f, proc[w].job))
    BY DEF WritesNothing, Changing
  <2> QED
    BY <1>0, <1>8, <2>1, <2>2, OnlyTheWriter DEF ReuseLoaded, files, history
<1>9. CASE ReuseActive(w)
  <2>1. PICK f : proc' = [proc EXCEPT ![w] = AfterProcedure(proc[w].job, f)]
    BY <1>9 DEF ReuseActive
  <2>2. WritesNothing(AfterProcedure(proc[w].job, f))
    BY QuietPlaces
  <2> QED
    BY <1>0, <1>9, <2>1, <2>2, OnlyTheWriter DEF ReuseActive, files, history
<1>10. CASE SaveNew(w) \/ SaveSuccessor(w)
  <2>1. PICK f, title, a :
            /\ SaveProcedure(f, title)
            /\ WritesNothing(a) /\ proc' = [proc EXCEPT ![w] = a]
    BY <1>10, QuietPlaces DEF SaveNew, SaveSuccessor
  <2>2. /\ UNCHANGED <<index, notes>>
        /\ saved' = saved \cup {f}
    BY <2>1 DEF SaveProcedure
  <2>3. IsFiniteSet(saved')
    BY <2>2, FS_AddElement DEF ListingsHold
  <2>4. Writes(a)
    BY <2>1 DEF Writes, WritesNothing
  <2>5. \A q \in Processes : Writes(proc'[q])
    BY <1>0, <2>1, <2>4, PlacesWrite
  <2> QED
    BY <2>2, <2>3, <2>5 DEF ListingsHold, NotesAreKnown
<1>11. CASE RecordTrajectory(w)
  <2>1. PICK t : proc' = [proc EXCEPT ![w] =
            IF proc[w].file = None THEN Orienting("done")
            ELSE Changing(proc[w].file, "source", t, proc[w].file, proc[w].job)]
    BY <1>11 DEF RecordTrajectory
  <2>2. WritesNothing(IF proc[w].file = None THEN Orienting("done")
            ELSE Changing(proc[w].file, "source", t, proc[w].file, proc[w].job))
    BY QuietPlaces
  <2> QED
    BY <1>0, <1>11, <2>1, <2>2, OnlyTheWriter DEF RecordTrajectory, history
<1>12. CASE MeetLowTrust(w)
  <2>1. PICK a : a = [proc[w] EXCEPT !.low = TRUE]
    OBVIOUS
  <2>2. a.at = "work" /\ proc' = [proc EXCEPT ![w] = a]
    BY <1>12, <2>1 DEF MeetLowTrust
  <2>3. WritesNothing(a)
    BY <2>2 DEF WritesNothing
  <2> QED
    BY <1>0, <1>12, <2>2, <2>3, OnlyTheWriter DEF MeetLowTrust, files, history
<1> QED
  BY <1>1, <1>2, <1>3, <1>4, <1>5, <1>6, <1>7, <1>8, <1>9, <1>10, <1>11, <1>12
     DEF Work

LEMMA OperateListings ==
    ASSUME IInv, ListingsHold, Operate
    PROVE  ListingsHold'
<1> USE DEF IInv
<1>0. Operator \in Processes
  BY DEF Processes
<1>1. CASE Prune
  <2>1. PICK left : proc' = [proc EXCEPT ![Operator] =
                        [at |-> "prune", left |-> left, any |-> FALSE]]
    BY <1>1 DEF Prune, Command
  <2>2. WritesNothing([at |-> "prune", left |-> left, any |-> FALSE])
    BY DEF WritesNothing
  <2> QED
    BY <1>0, <1>1, <2>1, <2>2, OnlyTheWriter DEF Prune, files, history
<1>2. CASE Examine
  <2>1. PICK f : proc' = [proc EXCEPT ![Operator] =
            IF procs[f].status \in {"absent", "active"}
            THEN [at |-> "prune", left |-> proc[Operator].left \ {f},
                  any |-> proc[Operator].any]
            ELSE [at |-> "remove", file |-> f, left |-> proc[Operator].left \ {f}]]
    BY <1>2 DEF Examine
  <2>2. WritesNothing(
            IF procs[f].status \in {"absent", "active"}
            THEN [at |-> "prune", left |-> proc[Operator].left \ {f},
                  any |-> proc[Operator].any]
            ELSE [at |-> "remove", file |-> f, left |-> proc[Operator].left \ {f}])
    BY DEF WritesNothing
  <2> QED
    BY <1>0, <1>2, <2>1, <2>2, OnlyTheWriter DEF Examine, files, history
<1>3. CASE RemoveProcedure
  <2>1. WritesNothing([at |-> "prune", left |-> proc[Operator].left, any |-> TRUE])
    BY DEF WritesNothing
  <2> QED
    BY <1>0, <1>3, <2>1, OnlyTheWriter DEF RemoveProcedure, history
<1>4. CASE FinishPrune
  <2>1. WritesNothing(IF proc[Operator].any THEN Orienting("done") ELSE Idle)
    BY QuietPlaces
  <2> QED
    BY <1>0, <1>4, <2>1, OnlyTheWriter DEF FinishPrune, files, history
<1>5. ASSUME NEW f, Disable(f)
      PROVE  ListingsHold'
  BY <1>0, <1>5, QuietPlaces, OnlyTheWriter DEF Disable, Command, files, history
<1>6. ASSUME NEW t, Review(t)
      PROVE  ListingsHold'
  BY <1>0, <1>6, QuietPlaces, OnlyTheWriter DEF Review, Command, history
<1>7. ASSUME NEW t, Export(t)
      PROVE  ListingsHold'
  <2>1. WritesNothing([at |-> "exported", file |-> t])
    BY DEF WritesNothing
  <2> QED
    BY <1>0, <1>7, <2>1, OnlyTheWriter DEF Export, Command, history
<1>8. CASE MarkExported
  BY <1>0, <1>8, QuietPlaces, OnlyTheWriter DEF MarkExported, history
<1>9. CASE Recall
  BY <1>0, <1>9, QuietPlaces, OnlyTheWriter DEF Recall, Command, files, history
<1> QED
  BY <1>1, <1>2, <1>3, <1>4, <1>5, <1>6, <1>7, <1>8, <1>9 DEF Operate

LEMMA ListingsInit == Init => ListingsHold
<1> SUFFICES ASSUME Init PROVE ListingsHold
  OBVIOUS
<1>1. Listing(index)
  BY FoundAssumption DEF Init, Listing
<1>2. NotesAreKnown
  <2>1. DOMAIN notes = {}
    BY DEF Init
  <2> QED
    BY <2>1, FS_EmptySet DEF NotesAreKnown
<1>3. IsFiniteSet(saved)
  BY FS_Singleton DEF Init
<1>4. \A p \in Processes : Writes(proc[p])
  BY DEF Init, Writes, Idle
<1> QED
  BY <1>1, <1>2, <1>3, <1>4 DEF ListingsHold

LEMMA ListingsNext == IInv /\ ListingsHold /\ [Next]_vars => ListingsHold'
<1> SUFFICES ASSUME IInv, ListingsHold, [Next]_vars PROVE ListingsHold'
  OBVIOUS
<1>1. ASSUME NEW p \in Processes, ReadProcedure(p)
      PROVE  ListingsHold'
  <2>1. PICK read, next : proc' = [proc EXCEPT ![p] =
            IF procs[proc[p].file] = Absent THEN AfterChange(proc[p])
            ELSE [at |-> "write", read |-> read, next |-> next]]
    BY <1>1 DEF ReadProcedure
  <2>2. WritesNothing(IF procs[proc[p].file] = Absent THEN AfterChange(proc[p])
            ELSE [at |-> "write", read |-> read, next |-> next])
    BY QuietPlaces DEF WritesNothing
  <2> QED
    BY <1>1, <2>1, <2>2, OnlyTheWriter DEF ReadProcedure, files, history, IInv
<1>2. ASSUME NEW p \in Processes, WriteProcedure(p)
      PROVE  ListingsHold'
  BY <1>2, QuietPlaces, OnlyTheWriter DEF WriteProcedure, IInv
<1>3. ASSUME NEW p \in Processes, Crash(p)
      PROVE  ListingsHold'
  BY <1>3, QuietPlaces, OnlyTheWriter DEF Crash, files, history, IInv
<1>4. CASE UNCHANGED vars
  BY <1>4 DEF vars, files, history, ListingsHold, NotesAreKnown
<1> QED
  BY <1>1, <1>2, <1>3, <1>4, ConsolidateListings, WorkListings, OperateListings DEF Next

-----------------------------------------------------------------------------
(* What the consolidation tells.                                           *)

\* The line of an active procedure wins over stale ones, and what wins over it
\* is of its title and active too.
LEMMA ActiveWins ==
    ASSUME TypeOK, NEW f \in Procedures, procs[f].status = "active",
           NEW c, IsCandidate(c), c.source \in {"index", "procedure"},
           c.entry = ProcedureEntry(f, procs[f]),
           NEW w, IsCandidate(w), GroupKey(w) = GroupKey(c), ~Precedes(c, w),
           w.source = "procedure" =>
               w.entry = ProcedureEntry(w.entry.file, procs[w.entry.file])
    PROVE  /\ w.source = c.source /\ w.entry.status # "stale"
           /\ w.entry.file \in Procedures /\ procs[w.entry.file].status = "active"
           /\ w.entry.title = procs[f].title
<1>1. /\ c.entry.title = procs[f].title /\ c.entry.file = f
      /\ c.entry.status = "verified"
  BY DEF ProcedureEntry, StatusOfProcedure, Entry
<1>2. P1(c) = 3
  BY <1>1 DEF P1, Category
<1>3. P1(w) = 3
  <2>1. ~(P1(c) > P1(w))
    BY PrecedesIs
  <2> QED
    BY <1>2, <2>1 DEF P1, Category
<1>4. w.entry.status # "stale" /\ w.entry.file \in Procedures
  BY <1>3 DEF P1, Category
<1>5. CASE c.source = "index"
  <2>1. GroupKey(c) = <<"index", c.entry.title, c.entry.file>>
    BY <1>5 DEF GroupKey
  <2>2. w.source = "index"
    <3>1. CASE w.source # "index"
      <4>1. GroupKey(w) = <<w.source, w.entry.title>>
        BY <3>1 DEF GroupKey
      <4> QED
        BY <2>1, <4>1
    <3> QED
      BY <3>1
  <2>3. GroupKey(w) = <<"index", w.entry.title, w.entry.file>>
    BY <2>2 DEF GroupKey
  <2>4. w.entry.title = c.entry.title /\ w.entry.file = c.entry.file
    BY <2>1, <2>3
  <2> QED
    BY <1>1, <1>4, <1>5, <2>2, <2>4
<1>6. CASE c.source = "procedure"
  <2>1. GroupKey(c) = <<"procedure", c.entry.title>>
    BY <1>6 DEF GroupKey
  <2>2. w.source # "index"
    <3>1. CASE w.source = "index"
      <4>1. GroupKey(w) = <<"index", w.entry.title, w.entry.file>>
        BY <3>1 DEF GroupKey
      <4> QED
        BY <2>1, <4>1
    <3> QED
      BY <3>1
  <2>3. GroupKey(w) = <<w.source, w.entry.title>>
    BY <2>2 DEF GroupKey
  <2>4. w.source = "procedure" /\ w.entry.title = c.entry.title
    BY <2>1, <2>3
  <2>5. w.entry.status = StatusOfProcedure(procs[w.entry.file])
    BY <2>4 DEF ProcedureEntry, Entry
  <2> QED
    BY <1>1, <1>4, <1>6, <2>4, <2>5 DEF StatusOfProcedure
<1> QED
  BY <1>5, <1>6

LEMMA SelectionsTellTheTruth ==
    ASSUME TypeOK, FilesAreSound, ListingsHold,
           NEW S \in Selections(index, notes, procs)
    PROVE  /\ \A e \in Entries(S) : e.file \in Procedures => procs[e.file] # Absent
           /\ \/ Cardinality(S) = MaxIndexEntries
              \/ Cardinality(From("procedure", S)) = MaxCuratedProcedures
              \/ \A f \in Procedures :
                    procs[f].status = "active" => Lists(Entries(S), procs[f].title)
<1> DEFINE G == Gathered(index, notes, procs)
           C == MergedAll(G)
<1>1. /\ IsFiniteSet(G) /\ \A c \in G : IsCandidate(c)
      /\ \A c \in G : c.entry.file \in Procedures => procs[c.entry.file] # Absent
      /\ \A c \in G : c.source = "procedure" =>
            c.entry = ProcedureEntry(c.entry.file, procs[c.entry.file])
      /\ \A f \in Procedures : procs[f] # Absent =>
            \E c \in G : /\ c.source \in {"index", "procedure"}
                         /\ c.entry = ProcedureEntry(f, procs[f])
  BY GatheredAre
<1>2. S \in Pruned(C)
  BY DEF Selections
<1> HIDE DEF G, C
<1>3. /\ \A m \in C : \E w \in G : Like(m, w)
      /\ \A c \in G : \E m \in C, w \in G :
            GroupKey(w) = GroupKey(c) /\ ~Precedes(c, w) /\ Like(m, w)
  BY <1>1, MergedAllAre DEF C
<1>4. ASSUME NEW e \in Entries(S), e.file \in Procedures
      PROVE  procs[e.file] # Absent
  <2>1. PICK m \in S : e = m.entry
    BY DEF Entries
  <2>2. m \in C
    BY <1>2, PrunedAre
  <2>3. PICK w \in G : Like(m, w)
    BY <1>3, <2>2
  <2> QED
    BY <1>1, <1>4, <2>1, <2>3 DEF Like
<1>5. ASSUME \A m \in C : m.entry.status # "stale"
                          /\ m.source \in {"index", "procedure"} => m \in S,
             NEW f \in Procedures, procs[f].status = "active"
      PROVE  Lists(Entries(S), procs[f].title)
  <2>1. procs[f] # Absent
    BY <1>5 DEF Absent
  <2>2. PICK c \in G : c.source \in {"index", "procedure"}
                       /\ c.entry = ProcedureEntry(f, procs[f])
    BY <1>1, <2>1
  <2>3. PICK m \in C, w \in G :
            GroupKey(w) = GroupKey(c) /\ ~Precedes(c, w) /\ Like(m, w)
    BY <1>3
  <2>4. IsCandidate(c) /\ IsCandidate(w)
        /\ (w.source = "procedure" =>
               w.entry = ProcedureEntry(w.entry.file, procs[w.entry.file]))
    BY <1>1
  <2>5. /\ w.source = c.source /\ w.entry.status # "stale"
        /\ w.entry.file \in Procedures /\ procs[w.entry.file].status = "active"
        /\ w.entry.title = procs[f].title
    BY <1>5, <2>2, <2>3, <2>4, ActiveWins
  <2>6. m \in S
    BY <1>5, <2>2, <2>3, <2>5 DEF Like
  <2>7. /\ m.entry \in Entries(S) /\ m.entry.title = procs[f].title
        /\ m.entry.file \in Procedures /\ procs[m.entry.file].status = "active"
    BY <2>3, <2>5, <2>6 DEF Entries, Like
  <2> QED
    BY <2>7 DEF Lists
<1>6. \/ Cardinality(S) = MaxIndexEntries
      \/ Cardinality(From("procedure", S)) = MaxCuratedProcedures
      \/ \A m \in C : m.entry.status # "stale"
                      /\ m.source \in {"index", "procedure"} => m \in S
  BY <1>2, PrunedAre
<1> QED
  BY <1>4, <1>5, <1>6

\* Whatever the operator wrote into the index, however many processes consolidate
\* it at once, and whatever a death in the middle of its write left of it, a
\* consolidation writes no line for an entry of a procedure that is gone and
\* loses no active procedure short of the limits (consolidate_memory_if_needed).
THEOREM ConsolidationAlwaysTellsTheTruth == Spec => []ConsolidationTellsTheTruth
<1>1. Init => ListingsHold
  BY ListingsInit
<1>2. IInv /\ ListingsHold /\ [Next]_vars => ListingsHold'
  BY ListingsNext
<1>3. IInv /\ ListingsHold => ConsolidationTellsTheTruth
  BY SelectionsTellTheTruth DEF IInv, ConsolidationTellsTheTruth
<1> QED
  BY <1>1, <1>2, <1>3, Invariance, PTL DEF Spec

=============================================================================
