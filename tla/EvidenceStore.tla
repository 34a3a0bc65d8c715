--------------------------- MODULE EvidenceStore ---------------------------
(***************************************************************************)
(* The evidence that runs leave behind: latest.json, the history, and the  *)
(* resume of the latest run (topagent-core/src/run_evidence.rs;            *)
(* topagent-cli/src/commands/run.rs, commands/oneshot.rs,                  *)
(* telegram/session.rs).                                                   *)
(*                                                                         *)
(* The runs of several chats and of the command line share one workspace   *)
(* and its evidence.  How a run comes to its status is in RunEvidence.     *)
(***************************************************************************)
EXTENDS Naturals, Sequences, FiniteSets, SequencesExt

CONSTANTS
    Runs, NoRun,
    Paths,
    MaxHistory,  \* MAX_RECENT_RUN_EVIDENCE_SNAPSHOTS
    MaxSaving,   \* bound: runs that save at the same time
    MaxMoves     \* bound: commits and file changes by others

ASSUME StoreAssumption ==
    /\ NoRun \notin Runs
    /\ MaxHistory \in Nat /\ MaxSaving \in 1 .. MaxHistory
    /\ MaxMoves \in Nat

VARIABLES
    ws,      \* the workspace: HEAD, files that differ from it, files gone
    working, \* per run: its files and what was dirty before it, while it works
    saving,  \* per run: the snapshot being saved and the next step
    latest,  \* latest.json
    history, \* runs in history/, the oldest file first
    begun, moves,
    moved,   \* history: runs whose snapshot a commit has overtaken
    torn     \* history: runs that died between latest.json and history/

storeVars == <<ws, working, saving, latest, history, begun, moves, moved, torn>>

NotWorking == [step |-> "none"]
NotSaving == [step |-> "none"]
NoSnapshot == [run |-> NoRun]

IsWorking(r) == working[r] # NotWorking
IsSaving(r) == saving[r] # NotSaving

StoreInit ==
    /\ \E dirty \in SUBSET Paths :
          ws = [head |-> 0, dirty |-> dirty, gone |-> {}]
    /\ working = [r \in Runs |-> NotWorking]
    /\ saving = [r \in Runs |-> NotSaving]
    /\ latest = NoSnapshot
    /\ history = <<>>
    /\ begun = {} /\ moves = 0
    /\ moved = {} /\ torn = {}

-----------------------------------------------------------------------------
(* Runs. *)

\* The baseline is what is dirty when the run begins.
BeginAs(r) ==
    /\ r \notin begun
    /\ begun' = begun \cup {r}
    /\ working' = [working EXCEPT ![r] =
                      [step |-> "works", before |-> ws.dirty, own |-> {}]]
    /\ UNCHANGED <<ws, saving, latest, history, moves, moved, torn>>

Begin(r) == BeginAs(r)

\* A change by a tool call, recorded by record_changed_file.
Change(r, f, gone) ==
    /\ IsWorking(r)
    /\ working' = [working EXCEPT ![r].own = working[r].own \cup {f}]
    /\ ws' = [ws EXCEPT !.dirty = @ \cup {f},
                        !.gone = IF gone THEN @ \cup {f} ELSE @ \ {f}]
    /\ UNCHANGED <<saving, latest, history, begun, moves, moved, torn>>

\* reconcile_changed_files: what is dirty now and was not before, whoever did it.
ChangedBy(r) == working[r].own \cup (ws.dirty \ working[r].before)

\* A changed file that was dirty before the run is listed with a remark behind
\* its name, and no file of that name exists.
LabelledBy(r) == ChangedBy(r) \cap working[r].before

\* The end of a run and RunEvidenceSnapshot::from_task_result.
End(r, resumable, confirm) ==
    /\ IsWorking(r)
    /\ Cardinality({q \in Runs : IsSaving(q)}) < MaxSaving
    /\ saving' = [saving EXCEPT ![r] =
          [step |-> "latest",
           snapshot |-> [run |-> r, resumable |-> resumable, confirm |-> confirm,
                         head |-> ws.head, dirty |-> ws.dirty,
                         changed |-> ChangedBy(r), labelled |-> LabelledBy(r)]]]
    /\ working' = [working EXCEPT ![r] = NotWorking]
    /\ UNCHANGED <<ws, latest, history, begun, moves, moved, torn>>

-----------------------------------------------------------------------------
(* Saving. *)

\* write_latest: each file is written beside its place and renamed.
WriteLatest(r) ==
    /\ saving[r].step = "latest"
    /\ latest' = saving[r].snapshot
    /\ saving' = [saving EXCEPT ![r].step = "history"]
    /\ UNCHANGED <<ws, working, history, begun, moves, moved, torn>>

WriteHistory(r) ==
    /\ saving[r].step = "history"
    /\ history' = Append(history, r)
    /\ saving' = [saving EXCEPT ![r].step = "prune"]
    /\ UNCHANGED <<ws, working, latest, begun, moves, moved, torn>>

\* Mutant of Kept: the newest go.
KeptOldest(h) == IF Len(h) <= MaxHistory THEN h ELSE SubSeq(h, 1, MaxHistory)

\* The newest by modification time stay.
Kept(h) ==
    IF Len(h) <= MaxHistory THEN h ELSE SubSeq(h, Len(h) - MaxHistory + 1, Len(h))

PruneHistory(r) ==
    /\ saving[r].step = "prune"
    /\ history' = Kept(history)
    /\ saving' = [saving EXCEPT ![r] = NotSaving]
    /\ UNCHANGED <<ws, working, latest, begun, moves, moved, torn>>

\* The process of a run dies.
Crash(r) ==
    /\ IsWorking(r) \/ IsSaving(r)
    /\ torn' = IF saving[r].step = "history" THEN torn \cup {r} ELSE torn
    /\ working' = [working EXCEPT ![r] = NotWorking]
    /\ saving' = [saving EXCEPT ![r] = NotSaving]
    /\ UNCHANGED <<ws, latest, history, begun, moves, moved>>

-----------------------------------------------------------------------------
(* Resuming, and what others do to the workspace. *)

MissingFiles(snapshot) == snapshot.labelled \cup (snapshot.changed \cap ws.gone)

\* Mutant of StaleRisk: HEAD is not compared.
StaleRiskOfFiles(snapshot) ==
    snapshot.dirty # ws.dirty \/ MissingFiles(snapshot) # {}

\* RunEvidenceFreshness::compare, for one workspace path; HEAD stands for
\* commit and branch.
StaleRisk(snapshot) ==
    \/ snapshot.head # ws.head \/ snapshot.dirty # ws.dirty
    \/ MissingFiles(snapshot) # {}

\* run_evidence_resume: an unfinished run, confirmed where there is a risk; the
\* work that follows is a run of its own.  /resume in a chat cannot confirm.
Resume(r, confirmed) ==
    /\ latest # NoSnapshot
    /\ latest.resumable
    /\ confirmed \/ ~(latest.confirm \/ StaleRisk(latest))
    /\ BeginAs(r)

ByOthers ==
    /\ moves < MaxMoves
    /\ moves' = moves + 1
    /\ UNCHANGED <<working, saving, latest, history, begun, torn>>

Commit ==
    /\ ByOthers
    /\ ws' = [ws EXCEPT !.head = @ + 1, !.dirty = {}]
    /\ moved' = moved \cup ({latest.run} \ {NoRun}) \cup {r \in Runs : IsSaving(r)}

ChangeOutside(f, gone) ==
    /\ ByOthers
    /\ ws' = [ws EXCEPT !.dirty = @ \cup {f},
                        !.gone = IF gone THEN @ \cup {f} ELSE @ \ {f}]
    /\ UNCHANGED moved

StoreNext ==
    \/ \E r \in Runs :
          \/ Begin(r) \/ WriteLatest(r) \/ WriteHistory(r) \/ PruneHistory(r)
          \/ Crash(r)
          \/ \E f \in Paths, gone \in BOOLEAN : Change(r, f, gone)
          \/ \E resumable \in BOOLEAN, confirm \in BOOLEAN : End(r, resumable, confirm)
          \/ \E confirmed \in BOOLEAN : Resume(r, confirmed)
    \/ \E f \in Paths, gone \in BOOLEAN : ChangeOutside(f, gone)
    \/ Commit

StoreSpec == StoreInit /\ [][StoreNext]_storeVars

-----------------------------------------------------------------------------
(* Properties. *)

\* However many runs save at once and wherever they die, the snapshot that
\* latest.json holds is in the history too when all are done, unless its run
\* died between the two files.
LatestIsInHistory ==
    (\A r \in Runs : ~IsSaving(r)) /\ latest # NoSnapshot =>
        latest.run \in Range(history) \cup torn

\* Without a confirmation no run is resumed on a workspace that moved since
\* its snapshot: nobody committed since, however the saving of the snapshot, its
\* load and the commit interleave, and no file that it changed is gone.
UnconfirmedResumeIsFresh ==
    [][\A r \in Runs : Resume(r, FALSE) =>
          /\ latest.run \notin moved
          /\ latest.changed \cap ws.gone = {}]_storeVars

=============================================================================
