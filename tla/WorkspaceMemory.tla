-------------------------- MODULE WorkspaceMemory --------------------------
(***************************************************************************)
(* What runs keep for later runs: notes, procedures, trajectories, the     *)
(* operator's preferences and the index (topagent-cli/src/memory,          *)
(* run_context.rs, commands/procedure_cli.rs, commands/memory_cli.rs;      *)
(* topagent-core/src/tools/save_note.rs, operator_preference.rs,           *)
(* operator_profile.rs, behavior/durability.rs).                           *)
(*                                                                         *)
(* Runs of several chats and commands of the operator share one folder,    *)
(* without a lock.  Each file is read whole and written whole; MEMORY.md   *)
(* is empty between the two halves of its write.  Which procedure suits an *)
(* instruction, and what a new draft says, is any of the possible answers. *)
(***************************************************************************)
EXTENDS MemoryIndex

CONSTANTS
    Workers, Operator,    \* runs at work, and the command line
    FirstTitle, Titles,   \* of the procedure at hand, of the tasks of runs
    Trajectories,
    Kept,                 \* trajectories of earlier runs, reviewed
    Keys,                 \* names of preferences
    None,
    Found,                \* entries that the operator wrote into the index
    Reuses,               \* how often the procedure at hand was reused
    RefineThreshold, SupersedeThreshold,  \* REFINED_, SUPERSEDED_REUSE_THRESHOLD
    MaxProceduresToLoad,
    MaxRuns, MaxCommands  \* bounds: runs, commands of the operator

ASSUME MemoryAssumption ==
    /\ Operator \notin Workers
    /\ None \notin Procedures \cup Trajectories /\ Kept \subseteq Trajectories
    /\ Titles \cup {FirstTitle} \subseteq Nat /\ Reuses \subseteq Nat
    /\ {RefineThreshold, SupersedeThreshold, MaxProceduresToLoad, MaxRuns,
        MaxCommands} \subseteq Nat

ASSUME FoundAssumption == IsFiniteSet(Found) /\ \A e \in Found : IsLine(e)

VARIABLES
    index, notes, procs, trajectories,
    exports,              \* copies of trajectories in the exports folder
    user,                 \* preferences in USER.md
    proc,                 \* per process: what it is doing
    runs, commands,
    reused,               \* history: verified reuses of a procedure
    saved                 \* history: procedures ever saved

files == <<notes, procs, trajectories, exports, user>>
history == <<reused, saved>>
vars == <<index, files, proc, runs, commands, history>>

Processes == Workers \cup {Operator}

Idle == [at |-> "idle"]

Orienting(then) == [at |-> "orient", then |-> then]

NoTrajectory == [review |-> "absent"]

Fresh(title) ==
    [status |-> "active", title |-> title, reuse |-> 0, revisions |-> 0,
     trajectory |-> None, by |-> None]

\* The names of files start with the time: they are used in its order.
Earliest(names) == {n \in names : \A m \in names : At[n] <= At[m]}

\* One procedure exists, saved by an earlier run, and what runs before left.
Init ==
    /\ \E n \in Reuses, f \in Earliest(Procedures) :
          /\ procs = [g \in Procedures |->
                         IF g = f THEN [Fresh(FirstTitle) EXCEPT !.reuse = n] ELSE Absent]
          /\ reused = [g \in Procedures |-> IF g = f THEN n ELSE 0]
          /\ saved = {f}
    /\ index = Found
    /\ notes = <<>>
    /\ trajectories = [t \in Trajectories |->
          IF t \in Kept THEN [review |-> "ready", low |-> FALSE] ELSE NoTrajectory]
    /\ exports = {} /\ user = {}
    /\ proc = [p \in Processes |-> Idle]
    /\ runs = 0 /\ commands = 0

-----------------------------------------------------------------------------
(* Consolidation, by whichever process. *)

\* orient_memory_state, gather_candidates and what follows from them.
Orient(p) ==
    /\ proc[p].at = "orient"
    /\ \E next \in Consolidations(index, notes, procs) :
          proc' = [proc EXCEPT ![p] = [at |-> "truncate", next |-> next, then |-> @.then]]
    /\ UNCHANGED <<index, files, runs, commands, history>>

\* write_managed_file, in its two halves.
Truncate(p) ==
    /\ proc[p].at = "truncate"
    /\ index' = {}
    /\ proc' = [proc EXCEPT ![p].at = "rewrite"]
    /\ UNCHANGED <<files, runs, commands, history>>

Rewrite(p) ==
    /\ proc[p].at = "rewrite"
    /\ index' = proc[p].next
    /\ proc' = [proc EXCEPT ![p] = IF @.then = "load" THEN [at |-> "load"] ELSE Idle]
    /\ UNCHANGED <<files, runs, commands, history>>

Consolidate(p) == Orient(p) \/ Truncate(p) \/ Rewrite(p)

-----------------------------------------------------------------------------
(* A run. *)

\* prepare_run_context.
Start(w) ==
    /\ proc[w] = Idle /\ runs < MaxRuns
    /\ runs' = runs + 1
    /\ proc' = [proc EXCEPT ![w] = Orienting("load")]
    /\ UNCHANGED <<index, files, commands, history>>

\* build_prompt: what the index names and is active still.
Load(w) ==
    /\ proc[w].at = "load"
    /\ \E loaded \in SUBSET {e.file : e \in {d \in Parsed(index) : d.file \in Procedures}} :
          /\ Cardinality(loaded) <= MaxProceduresToLoad
          /\ \A f \in loaded : procs[f].status = "active"
          /\ proc' = [proc EXCEPT ![w] = [at |-> "work", loaded |-> loaded, low |-> FALSE]]
    /\ UNCHANGED <<index, files, runs, commands, history>>

\* record_observed_source: the run met low-trust content.
MeetLowTrust(w) ==
    /\ proc[w].at = "work" /\ ~proc[w].low
    /\ proc' = [proc EXCEPT ![w].low = TRUE]
    /\ UNCHANGED <<index, files, runs, commands, history>>

\* A run that is not verified, or that changes nothing, keeps nothing.
Finish(w) ==
    /\ proc[w].at = "work"
    /\ proc' = [proc EXCEPT ![w] = Idle]
    /\ UNCHANGED <<index, files, runs, commands, history>>

NewNotes == Earliest(Notes \ DOMAIN notes)

SaveNote(n, title) ==
    notes' = [m \in DOMAIN notes \cup {n} |-> IF m = n THEN title ELSE notes[m]]

\* The tool save_note; a run that used it promotes nothing.
TakeNote(w) ==
    /\ proc[w].at = "work"
    /\ \E n \in NewNotes, title \in Titles : SaveNote(n, title)
    /\ proc' = [proc EXCEPT ![w] = Idle]
    /\ UNCHANGED <<index, procs, trajectories, exports, user, runs, commands, history>>

\* manage_operator_preference, which the trust met so far allows: set and
\* remove read the whole profile ...
ReadProfile(w) ==
    /\ proc[w].at = "work" /\ ~proc[w].low
    /\ \E k \in Keys : \E next \in {user \cup {k}, user \ {k}} :
          /\ next = user \cup {k} \/ k \in user
          /\ proc' = [proc EXCEPT ![w] = [at |-> "profile", next |-> next]]
    /\ UNCHANGED <<index, files, runs, commands, history>>

\* ... and write it.
WriteProfile(w) ==
    /\ proc[w].at = "profile"
    /\ user' = proc[w].next
    /\ proc' = [proc EXCEPT ![w] = Idle]
    /\ UNCHANGED <<index, notes, procs, trajectories, exports, runs, commands, history>>

-----------------------------------------------------------------------------
(* Promotion. *)

Promotions == {"note", "procedure", "trajectory"}

\* What is left of a promotion after its note: the trajectory or nothing.
Job(run, kind, title) ==
    [title |-> title, record |-> kind = "trajectory", low |-> run.low]

Matching(run, kind, title) ==
    [at |-> "match", loaded |-> run.loaded, job |-> Job(run, kind, title)]

AfterProcedure(job, file) ==
    IF job.record THEN [at |-> "record", file |-> file, job |-> job]
    ELSE Orienting("done")

\* Mutant of AfterNote: low-trust content does not stop a procedure.
AfterNoteOfAnyRun(run, kind, title) ==
    IF kind = "note" THEN Orienting("done") ELSE Matching(run, kind, title)

\* durable_promotion_block_reason: a verified run may promote its note
\* whatever it met, its procedure only without low-trust content.
AfterNote(run, kind, title) ==
    CASE kind = "note" -> Orienting("done")
      [] kind # "note" /\ run.low -> AfterProcedure(Job(run, kind, title), None)
      [] kind # "note" /\ ~run.low -> Matching(run, kind, title)

\* promote_verified_task, up to its note.
Promote(w) ==
    /\ proc[w].at = "work"
    /\ \E n \in NewNotes, kind \in Promotions, title \in Titles :
          /\ SaveNote(n, title)
          /\ proc' = [proc EXCEPT ![w] = AfterNote(@, kind, title)]
    /\ UNCHANGED <<index, procs, trajectories, exports, user, runs, commands, history>>

\* Mutant of Gated: the counts are not looked at.
UngatedAction(procedure, action) == action

\* procedure_revision_quality_gate.
Gated(procedure, action) ==
    CASE action = "refine" /\ procedure.reuse < RefineThreshold -> "keep"
      [] action = "supersede" /\ procedure.reuse < SupersedeThreshold -> "keep"
      [] OTHER -> action

\* A read-modify-write of a procedure file; `made` is the procedure that the
\* promotion reports.
Changing(file, change, by, made, job) ==
    [at |-> "read", file |-> file, change |-> change, by |-> by, made |-> made,
     job |-> job]

\* A procedure that the run loaded suits it: it is kept, refined or superseded.
ReuseLoaded(w) ==
    /\ proc[w].at = "match"
    /\ \E f \in proc[w].loaded, raw \in {"keep", "refine", "supersede"} :
          /\ procs[f].status = "active"
          /\ LET action == Gated(procs[f], raw)
             IN  proc' = [proc EXCEPT ![w] =
                     IF action = "supersede"
                     THEN [at |-> "succeed", file |-> f, job |-> @.job]
                     ELSE Changing(f, action, None, f, @.job)]
    /\ UNCHANGED <<index, files, runs, commands, history>>

\* None does, but another active one: it stays as it is.
ReuseActive(w) ==
    /\ proc[w].at = "match"
    /\ \E f \in Procedures :
          /\ procs[f].status = "active"
          /\ proc' = [proc EXCEPT ![w] = AfterProcedure(@.job, f)]
    /\ UNCHANGED <<index, files, runs, commands, history>>

NewProcedures == Earliest(Procedures \ saved)

\* save_procedure.
SaveProcedure(f, title) ==
    /\ procs' = [procs EXCEPT ![f] = Fresh(title)]
    /\ saved' = saved \cup {f}
    /\ UNCHANGED <<index, notes, trajectories, exports, user, runs, commands, reused>>

\* No procedure suits the run.
SaveNew(w) ==
    /\ proc[w].at = "match"
    /\ \E f \in NewProcedures :
          /\ SaveProcedure(f, proc[w].job.title)
          /\ proc' = [proc EXCEPT ![w] = AfterProcedure(@.job, f)]

\* Mutant of SaveSuccessor: the mark is made, the successor is not saved.
MarkSuccessor(w) ==
    /\ proc[w].at = "succeed"
    /\ \E f \in NewProcedures :
          proc' = [proc EXCEPT ![w] = Changing(@.file, "supersede", f, f, @.job)]
    /\ UNCHANGED <<index, files, runs, commands, history>>

\* The successor first, the mark on the old one second.
SaveSuccessor(w) ==
    /\ proc[w].at = "succeed"
    /\ \E f \in NewProcedures :
          /\ SaveProcedure(f, proc[w].job.title)
          /\ proc' = [proc EXCEPT ![w] = Changing(@.file, "supersede", f, f, @.job)]

\* revise_procedure, record_procedure_reuse, mark_procedure_superseded,
\* disable_procedure, set_procedure_source_trajectory.
Changed(p, change, by) ==
    CASE change = "keep" -> [p EXCEPT !.reuse = @ + 1]
      [] change = "refine" -> [p EXCEPT !.status = "active", !.reuse = @ + 1,
                                        !.revisions = @ + 1]
      [] change = "supersede" -> [p EXCEPT !.status = "superseded", !.by = by]
      [] change = "disable" -> [p EXCEPT !.status = "disabled"]
      [] change = "source" -> [p EXCEPT !.trajectory = by]

AfterChange(r) ==
    IF r.change \in {"disable", "source"} THEN Orienting("done")
    ELSE AfterProcedure(r.job, r.made)

\* parse_saved_procedure: a file that is gone is not an error.
ReadProcedure(p) ==
    /\ proc[p].at = "read"
    /\ LET old == procs[proc[p].file]
       IN  proc' = [proc EXCEPT ![p] =
               IF old = Absent THEN AfterChange(@)
               ELSE [at |-> "write", read |-> @,
                     next |-> Changed(old, @.change, @.by)]]
    /\ UNCHANGED <<index, files, runs, commands, history>>

WriteProcedure(p) ==
    /\ proc[p].at = "write"
    /\ LET read == proc[p].read
       IN  /\ procs' = [procs EXCEPT ![read.file] = proc[p].next]
           /\ reused' = IF read.change \in {"keep", "refine"}
                        THEN [reused EXCEPT ![read.file] = @ + 1] ELSE reused
           /\ proc' = [proc EXCEPT ![p] = AfterChange(read)]
    /\ UNCHANGED <<index, notes, trajectories, exports, user, runs, commands, saved>>

\* save_trajectory, then the procedure is told.
RecordTrajectory(w) ==
    /\ proc[w].at = "record"
    /\ \E t \in Trajectories :
          /\ trajectories[t] = NoTrajectory
          /\ trajectories' = [trajectories EXCEPT ![t] =
                 [review |-> "local", low |-> proc[w].job.low]]
          /\ proc' = [proc EXCEPT ![w] =
                 IF @.file = None THEN Orienting("done")
                 ELSE Changing(@.file, "source", t, @.file, @.job)]
    /\ UNCHANGED <<index, notes, procs, exports, user, runs, commands, history>>

Work(w) ==
    \/ Start(w) \/ Load(w) \/ MeetLowTrust(w) \/ Finish(w) \/ TakeNote(w)
    \/ ReadProfile(w) \/ WriteProfile(w)
    \/ Promote(w) \/ ReuseLoaded(w) \/ ReuseActive(w) \/ SaveNew(w)
    \/ SaveSuccessor(w) \/ RecordTrajectory(w)

-----------------------------------------------------------------------------
(* The operator. *)

Command(next) ==
    /\ proc[Operator] = Idle /\ commands < MaxCommands
    /\ commands' = commands + 1
    /\ proc' = [proc EXCEPT ![Operator] = next]

NoJob == [record |-> FALSE]

\* topagent procedure disable
Disable(f) ==
    /\ procs[f] # Absent
    /\ Command(Changing(f, "disable", None, f, NoJob))
    /\ UNCHANGED <<index, files, runs, history>>

\* topagent procedure prune: the files are listed,
Prune ==
    /\ Command([at |-> "prune", left |-> {f \in Procedures : procs[f] # Absent},
                any |-> FALSE])
    /\ UNCHANGED <<index, files, runs, history>>

\* read one after the other,
Examine ==
    /\ proc[Operator].at = "prune" /\ proc[Operator].left # {}
    /\ \E f \in proc[Operator].left :
          /\ \A g \in proc[Operator].left : At[f] <= At[g]
          /\ proc' = [proc EXCEPT ![Operator] =
                 IF procs[f].status \in {"absent", "active"}
                 THEN [at |-> "prune", left |-> @.left \ {f}, any |-> @.any]
                 ELSE [at |-> "remove", file |-> f, left |-> @.left \ {f}]]
    /\ UNCHANGED <<index, files, runs, commands, history>>

\* and removed,
RemoveProcedure ==
    /\ proc[Operator].at = "remove"
    /\ procs' = [procs EXCEPT ![proc[Operator].file] = Absent]
    /\ proc' = [proc EXCEPT ![Operator] =
                   [at |-> "prune", left |-> @.left, any |-> TRUE]]
    /\ UNCHANGED <<index, notes, trajectories, exports, user, runs, commands, history>>

\* then the index is written.
FinishPrune ==
    /\ proc[Operator].at = "prune" /\ proc[Operator].left = {}
    /\ proc' = [proc EXCEPT ![Operator] =
                   IF @.any THEN Orienting("done") ELSE Idle]
    /\ UNCHANGED <<index, files, runs, commands, history>>

\* ensure_export_quality; a promoted trajectory has its evidence.
MayExport(t) == trajectories[t] # NoTrajectory /\ ~trajectories[t].low

\* topagent memory trajectory review
Review(t) ==
    /\ MayExport(t)
    /\ Command(Idle)
    /\ trajectories' = [trajectories EXCEPT ![t].review = "ready"]
    /\ UNCHANGED <<index, notes, procs, exports, user, runs, history>>

\* topagent memory trajectory export: the copy, then the original.
Export(t) ==
    /\ MayExport(t) /\ trajectories[t].review = "ready"
    /\ Command([at |-> "exported", file |-> t])
    /\ exports' = exports \cup {t}
    /\ UNCHANGED <<index, notes, procs, trajectories, user, runs, history>>

MarkExported ==
    /\ proc[Operator].at = "exported"
    /\ trajectories' = [trajectories EXCEPT ![proc[Operator].file].review = "exported"]
    /\ proc' = [proc EXCEPT ![Operator] = Idle]
    /\ UNCHANGED <<index, notes, procs, exports, user, runs, commands, history>>

\* topagent memory recall
Recall ==
    /\ Command(Orienting("done"))
    /\ UNCHANGED <<index, files, runs, history>>

Operate ==
    \/ \E f \in Procedures : Disable(f)
    \/ Prune \/ Examine \/ RemoveProcedure \/ FinishPrune
    \/ \E t \in Trajectories : Review(t) \/ Export(t)
    \/ MarkExported \/ Recall

Crash(p) ==
    /\ proc[p] # Idle
    /\ proc' = [proc EXCEPT ![p] = Idle]
    /\ UNCHANGED <<index, files, runs, commands, history>>

Next ==
    \/ \E w \in Workers : Work(w)
    \/ \E p \in Processes :
          Consolidate(p) \/ ReadProcedure(p) \/ WriteProcedure(p) \/ Crash(p)
    \/ Operate

Spec == Init /\ [][Next]_vars

-----------------------------------------------------------------------------
(* Properties. *)

Lists(entries, title) ==
    \E e \in entries : e.title = title /\ e.file \in Procedures
                       /\ procs[e.file].status = "active"

\* Whatever the index holds when a process comes to consolidate it, no line that
\* the consolidation writes for an entry is about a procedure that is gone, and
\* every title that has an active procedure gets a line to one, unless a limit is
\* reached (consolidate_memory_if_needed).  The lines that it cannot read, those
\* of earlier consolidations with a bar among them, stay beside these.
ConsolidationTellsTheTruth ==
    (\E p \in Processes : proc[p].at = "orient") =>
        \A S \in Selections(index, notes, procs) :
            /\ \A e \in Entries(S) : e.file \in Procedures => procs[e.file] # Absent
            /\ \/ Cardinality(S) = MaxIndexEntries
               \/ Cardinality(From("procedure", S)) = MaxCuratedProcedures
               \/ \A f \in Procedures :
                     procs[f].status = "active" => Lists(Entries(S), procs[f].title)

\* That no line of the index is about a procedure that is gone.  No run checks
\* this: a line with a bar is not read back and stays when its procedure is
\* pruned; added to the invariants of MCWorkspaceMemory.cfg it shows that.
NoLineOutlivesItsProcedure ==
    (\E p \in Processes : proc[p].at = "orient") =>
        \A next \in Consolidations(index, notes, procs) :
            \A e \in next : e.file \in Procedures => procs[e.file] # Absent

\* A procedure is refined or superseded only after as many verified reuses as
\* the gate asks for, counts lost to concurrent writes included
\* (procedure_revision_quality_gate).
RevisionsAreProven ==
    \A f \in saved :
        procs[f] # Absent =>
            /\ procs[f].revisions > 0 => reused[f] > RefineThreshold
            /\ procs[f].status = "superseded" => reused[f] >= SupersedeThreshold

\* Whenever the process stops, a superseded procedure has a successor that was
\* saved, and never in a circle (promote_verified_task, Supersede).
SuccessorsAreSaved ==
    \A f \in saved :
        procs[f].status = "superseded" =>
            procs[f].by \in saved /\ procs[f].by # f /\ At[f] <= At[procs[f].by]

\* What a run under low-trust influence did is exported by nobody and is the
\* source of no procedure (durable_promotion_block_reason,
\* ensure_export_quality).
LowTrustStaysLocal ==
    LET low == {t \in Trajectories : trajectories[t] # NoTrajectory /\ trajectories[t].low}
    IN  /\ exports \cap low = {}
        /\ \A f \in saved : procs[f] # Absent => procs[f].trajectory \notin low

=============================================================================
