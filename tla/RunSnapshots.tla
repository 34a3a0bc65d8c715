---------------------------- MODULE RunSnapshots ----------------------------
(***************************************************************************)
(* The run snapshots of a workspace (topagent-core/src/run_snapshot.rs):   *)
(* before write, edit and a risky shell command change files, the run's    *)
(* store copies what is about to change; `topagent run diff` previews and  *)
(* `topagent run restore` puts back the newest snapshot.                   *)
(*                                                                         *)
(* The workspace is a tree of paths; a content is a model value.  Several  *)
(* runs may be going (each Telegram chat has its worker), and the restore  *)
(* is another process.  Capturing and changing are two steps, restoring is *)
(* one step per manifest entry, and a process may die between them.        *)
(* Capturing is one step: its copies are reachable only through the        *)
(* manifest, which is replaced by a rename.  Manifests are readable and of *)
(* this version; .git and .topagent are outside the tree; the clock moves  *)
(* between two snapshots, so their order is the order they were made in.   *)
(***************************************************************************)
EXTENDS Naturals, Sequences, FiniteSets, SequencesExt

CONSTANTS
    Paths,     \* paths below the workspace root
    Root,      \* the workspace itself, "."
    Parent,    \* Parent[p] is the directory p lies in
    Contents,  \* contents of files
    Written,   \* those that tools write
    Found,     \* the trees the first run may find
    Absent, Dir, Lost,  \* no such path, a directory, a copy that is gone
    NoHint,    \* of an operand the capture does not look at
    Nowhere,   \* of an operand that does not resolve in the workspace
    Commands,  \* shell commands: sequences of segments
    Runs,      \* runs, one store each
    MaxStored, \* MAX_STORED_RUN_SNAPSHOTS
    MaxChanges \* bound: tool calls of all runs

ASSUME SnapshotAssumption ==
    /\ Root \notin Paths /\ {NoHint, Nowhere} \cap (Paths \cup {Root}) = {}
    /\ IsFiniteSet(Paths) /\ Parent \in [Paths -> Paths \cup {Root}]
    /\ {Absent, Dir, Lost} \cap Contents = {} /\ Absent # Dir /\ Lost \notin {Absent, Dir}
    /\ Written \subseteq Contents
    /\ Found \subseteq [Paths -> Contents \cup {Absent, Dir}]
    /\ Absent \notin Runs
    /\ MaxStored \in Nat \ {0} /\ MaxChanges \in Nat

VARIABLES
    ws,       \* the workspace
    snaps,    \* the snapshots on disk, oldest first
    going,    \* runs that are going
    pending,  \* the change a run has captured for and not yet made
    begun,    \* runs that have begun
    changes,  \* tool calls made
    restoring,\* the restore that is going: its run, its entries, how far it is
    base,     \* history: the workspace when the run began
    foreign   \* history: paths changed other than by the run's captured changes

snapshotVars == <<ws, snaps, going, begun, pending, changes, restoring, base, foreign>>

Values == Contents \cup {Absent, Dir}
None == [run |-> Absent]

-----------------------------------------------------------------------------
(* The file system. *)

\* The directories above p, up to the root: the least set that has the parent of
\* p and of each of its own.
Places == Paths \cup {Root}

HasParents(S) == \A q \in S \ {Root} : Parent[q] \in S

Above == [p \in Paths |->
    {q \in Places : \A S \in SUBSET Places : Parent[p] \in S /\ HasParents(S) => q \in S}]

\* p and everything below it; the root holds everything.
Below(p) == {q \in Paths : q = p \/ p \in Above[q]}

IsFile(v) == v \in Contents

\* std::fs::create_dir_all fails where a file is in the way.
CanMakeDirs(w, p) ==
    \A q \in Paths : q = p \/ (p # Root /\ q \in Above[p]) => ~IsFile(w[q])

MakeDirs(w, p) ==
    [q \in Paths |-> IF q = p \/ (p # Root /\ q \in Above[p]) THEN Dir ELSE w[q]]

Erased(w, p) == [q \in Paths |-> IF q \in Below(p) THEN Absent ELSE w[q]]

\* A new content for p, its parent directories made.
PutFile(w, p, c) == [MakeDirs(w, Parent[p]) EXCEPT ![p] = c]

\* What a change of one path needs: its directories can be made, and a file
\* does not replace a directory (the rename of atomic_write, touch, mkdir).
CanChange(w, p, v) ==
    CASE v = Absent -> TRUE
      [] v = Dir    -> CanMakeDirs(w, p)
      [] OTHER      -> CanMakeDirs(w, Parent[p]) /\ w[p] # Dir

Changed(w, p, v) ==
    CASE v = Absent -> Erased(w, p)
      [] v = Dir    -> MakeDirs(w, p)
      [] OTHER      -> PutFile(w, p, v)

\* A tree: what lies in a path lies in a directory.
IsTree(w) ==
    \A p \in Paths : w[p] # Absent => Parent[p] = Root \/ w[Parent[p]] = Dir

\* No path lies below itself.
ASSUME TreeAssumption ==
    /\ \A p \in Paths : p \notin Above[p]
    /\ \A w \in Found : IsTree(w)

-----------------------------------------------------------------------------
(* Which paths a shell command is captured for. *)

\* shell_path_hint: an absolute operand (or ~/ or $) gives no hint, even where
\* it names a path of the workspace; one with .. gives one that
\* normalize_run_snapshot_paths then drops.
Hint(operand) ==
    CASE operand.as = "absolute" -> NoHint
      [] operand.as = "dotted"   -> Nowhere
      [] OTHER                   -> operand.names

\* path_scope: the root stands for the whole tree.
PathScope(hints) == IF Root \in hints THEN {Root} ELSE hints \ {NoHint}

\* What a segment of a command changes, by the rule for its tool: the operands
\* (rm, mv, mkdir, touch, sed -i, a redirection), the last one (cp, ln), the
\* directory to unpack in, the paths or else the tree that git rewrites.
SegmentTargets(tool, operands) ==
    CASE tool = "names"  -> PathScope(Range(operands))
      [] tool = "copy"   -> PathScope({Last(operands)})
      [] tool = "unpack" -> IF operands = <<>> \/ Head(operands) = NoHint
                            THEN {Root} ELSE {Head(operands)}
      [] tool = "git"    -> IF Range(operands) \subseteq {NoHint}
                            THEN {Root} ELSE PathScope(Range(operands))
      [] OTHER           -> {}

SegmentScope(s) ==
    SegmentTargets(s.tool, [i \in DOMAIN s.operands |-> Hint(s.operands[i])])

\* run_snapshot_plan: the first segment with a scope decides for the command.
SnapshotPlan(command) ==
    LET scoped == {i \in DOMAIN command : SegmentScope(command[i]) # {}}
    IN  IF scoped = {} THEN {}
        ELSE SegmentScope(command[CHOOSE i \in scoped : \A j \in scoped : i <= j])
                 \ {Nowhere}

\* The paths a segment really names.
Named(s) ==
    SegmentTargets(s.tool, [i \in DOMAIN s.operands |-> s.operands[i].names])

\* What a segment may really do: remove, make or write what it names; write
\* files below the directory it unpacks or copies to; a build or a script may
\* write or remove anything.
SegmentEffects(s) ==
    CASE s.tool = "names" -> Named(s) \X {s.does}
      [] s.tool = "other" -> Paths \X (Written \cup {Absent})
      [] OTHER            -> (UNION {Below(p) : p \in Named(s)}) \X Written

Effects(command) == UNION {SegmentEffects(command[i]) : i \in DOMAIN command}

\* What a command names lies in the workspace.
ASSUME CommandAssumption ==
    \A command \in Commands :
        /\ SnapshotPlan(command) \subseteq Places
        /\ Effects(command) \subseteq Paths \X Values

-----------------------------------------------------------------------------
(* Snapshots. *)

EntryPaths(entries) == {entries[i].path : i \in DOMAIN entries}

\* A path is covered where the restore will look at it.
Covered(entries, p) ==
    \E i \in DOMAIN entries : p = entries[i].path \/ p \in Below(entries[i].path)

\* Mutant of CapturedPaths: a directory is captured without what lies in it.
CapturedAlone(w, entries, p) == {p} \ EntryPaths(entries)

\* capture_relative_path: a path already in the manifest is skipped, with all
\* below it; a directory brings what lies in it.
CapturedPaths(w, entries, p) ==
    {q \in Below(p) \cup {p} :
        /\ ({q} \cup (IF q = Root THEN {} ELSE Above[q]))
               \cap (Below(p) \cup {p}) \cap EntryPaths(entries) = {}
        /\ q = p \/ w[q] # Absent}

IsOver(p, q) == q # Root /\ p \in Above[q]

ParentsFirst(S) ==
    {s \in SetToSeqs(S) : \A i, j \in DOMAIN s : IsOver(s[i], s[j]) => i < j}

EntryOf(w, p) == [path |-> p, was |-> IF p = Root THEN Dir ELSE w[p]]

\* capture_paths: the manifests that the capture of a scope may lead to.  Its
\* paths come in the order of their names, each with what it brings.
Captures(w, entries, scope) ==
    LET new == UNION {CapturedPaths(w, entries, p) : p \in scope}
    IN  {entries \o [i \in DOMAIN order |-> EntryOf(w, order[i])] :
            order \in ParentsFirst(new)}

SnapOf(r) == {i \in DOMAIN snaps : snaps[i].run = r}

EntriesOf(r) ==
    IF SnapOf(r) = {} THEN <<>> ELSE snaps[CHOOSE i \in SnapOf(r) : TRUE].entries

\* save_manifest: the run's snapshot, new ones last.
Saved(r, entries) ==
    IF SnapOf(r) = {} THEN Append(snaps, [run |-> r, entries |-> entries])
    ELSE [i \in DOMAIN snaps |->
            IF snaps[i].run = r THEN [run |-> r, entries |-> entries] ELSE snaps[i]]

\* prune_old_run_snapshots: the newest MaxStored stay.
Pruned(s) ==
    IF Len(s) <= MaxStored THEN s ELSE SubSeq(s, Len(s) - MaxStored + 1, Len(s))

Without(r) ==
    IF SnapOf(r) = {} THEN snaps ELSE RemoveAt(snaps, CHOOSE i \in SnapOf(r) : TRUE)

-----------------------------------------------------------------------------
(* The runs. *)

SnapshotInit ==
    /\ ws \in Found
    /\ snaps = <<>>
    /\ going = {}
    /\ pending = [r \in Runs |-> None]
    /\ begun = {}
    /\ changes = 0
    /\ restoring = None
    /\ base = [r \in Runs |-> ws]
    /\ foreign = [r \in Runs |-> {}]

\* A run begins with a store of its own; no run is taken up again.  One that ends
\* makes no more calls.
Begin(r) ==
    /\ r \notin begun
    /\ begun' = begun \cup {r}
    /\ going' = going \cup {r}
    /\ base' = [base EXCEPT ![r] = ws]
    /\ foreign' = [foreign EXCEPT ![r] = {}]
    /\ UNCHANGED <<ws, snaps, pending, changes, restoring>>

\* What a run changed before its snapshot went is not in its next one.
LateAfter(s, w) ==
    [r \in Runs |->
        IF SnapOf(r) # {} /\ \A i \in DOMAIN s : s[i].run # r
        THEN foreign[r] \cup {p \in Paths : w[p] # base[r][p]} ELSE foreign[r]]

\* A tool call captures the scope of its change and then makes it.  Without a
\* scope there is no capture.
CaptureFor(r, scope, path, value) ==
    /\ r \in going /\ pending[r] = None /\ changes < MaxChanges
    /\ changes' = changes + 1
    /\ pending' = [pending EXCEPT ![r] =
                      [run |-> r, scope |-> scope, path |-> path, value |-> value]]
    /\ IF scope = {} THEN snaps' = snaps
       ELSE \E entries \in Captures(ws, EntriesOf(r), scope) :
              snaps' = Pruned(Saved(r, entries))
    /\ foreign' = LateAfter(snaps', ws)
    /\ UNCHANGED <<ws, going, begun, restoring, base>>

\* write captures its path; edit reads it first, so it must be a file.
Write(r, p, c) == CaptureFor(r, {p}, p, c)
Edit(r, p, c) == IsFile(ws[p]) /\ CaptureFor(r, {p}, p, c)

Bash(r, command) ==
    \E effect \in Effects(command) :
        CaptureFor(r, SnapshotPlan(command), effect[1], effect[2])

Touched(w1, w2) == {p \in Paths : w1[p] # w2[p]}

\* A change is foreign to the other runs, and to r outside the captured scope.
ForeignAfter(r, scope, w) ==
    [q \in Runs |->
        foreign[q] \cup
            {p \in Touched(ws, w) : q # r \/ \A s \in scope : p \notin Below(s)}]

\* The scope counts while the snapshot is there and not being put back.
LiveScope(r, scope) ==
    IF SnapOf(r) = {} \/ restoring.run = r THEN {} ELSE scope

Change(r) ==
    /\ pending[r] # None
    /\ LET c == pending[r] IN
       IF CanChange(ws, c.path, c.value)
       THEN /\ ws' = Changed(ws, c.path, c.value)
            /\ foreign' = ForeignAfter(r, LiveScope(r, c.scope), ws')
       ELSE UNCHANGED <<ws, foreign>>
    /\ pending' = [pending EXCEPT ![r] = None]
    /\ UNCHANGED <<snaps, going, begun, changes, restoring, base>>

\* The process of the runs dies: captures stay, changes are not made.
Crash ==
    /\ going # {}
    /\ going' = {}
    /\ pending' = [r \in Runs |-> None]
    /\ UNCHANGED <<ws, snaps, begun, changes, restoring, base, foreign>>

\* It dies in the first capture of a run: the empty manifest is there.
CrashInCapture(r) ==
    /\ r \in going /\ pending[r] = None /\ SnapOf(r) = {}
    /\ changes < MaxChanges
    /\ snaps' = Saved(r, <<>>)
    /\ going' = {}
    /\ pending' = [q \in Runs |-> None]
    /\ UNCHANGED <<ws, begun, changes, restoring, base, foreign>>

-----------------------------------------------------------------------------
(* topagent run restore. *)

\* Mutant of Unexpected: captured files count for the directories they lie in.
UnexpectedBeside(w, entries) ==
    {q \in Paths :
        /\ w[q] # Absent
        /\ \E i \in DOMAIN entries :
              \/ entries[i].path \in Above[q] /\ entries[i].was = Dir
              \/ entries[i].path # Root /\ Parent[entries[i].path] \in Above[q]
        /\ EntryPaths(entries) \cap Below(q) = {}}

\* remove_unexpected_children: what lies in a captured directory and is not in
\* the manifest, nor above a path that is.
Unexpected(w, entries) ==
    {q \in Paths :
        /\ w[q] # Absent
        /\ \E i \in DOMAIN entries :
              /\ entries[i].was = Dir /\ entries[i].path \in Above[q]
              /\ entries[i].path = Root \/ w[entries[i].path] = Dir
        /\ EntryPaths(entries) \cap Below(q) = {}}

RemoveUnexpected(w, entries) ==
    [q \in Paths |-> IF q \in Unexpected(w, entries) THEN Absent ELSE w[q]]

\* A copy is read from the snapshot that is on disk now; it is named for the
\* number of the entry and for the path.
CopyOf(r, i, p) ==
    IF i \in DOMAIN EntriesOf(r) /\ EntriesOf(r)[i].path = p
    THEN EntriesOf(r)[i].was ELSE Lost

\* One entry put back; what is in the way of a file or a directory is removed.
CanPutBack(w, e, copy) ==
    CASE e.was = Absent -> TRUE
      [] e.was = Dir    -> e.path = Root \/ CanMakeDirs(w, Parent[e.path])
      [] OTHER          -> IsFile(copy) /\ CanMakeDirs(w, Parent[e.path])

OutOfTheWay(w, p) == IF w[p] = Dir THEN Erased(w, p) ELSE w

PutBack(w, e, copy) ==
    CASE e.was = Absent -> Erased(w, e.path)
      [] e.was = Dir    -> IF e.path = Root THEN w
                           ELSE IF IsFile(w[e.path])
                           THEN MakeDirs(Erased(w, e.path), e.path)
                           ELSE MakeDirs(w, e.path)
      [] OTHER          -> PutFile(OutOfTheWay(w, e.path), e.path, copy)

\* Where only the copy is missing, the place for it is made before that shows.
PlaceMade(w, e) ==
    IF e.was \notin {Absent, Dir} /\ CanMakeDirs(w, Parent[e.path])
    THEN MakeDirs(OutOfTheWay(w, e.path), Parent[e.path]) ELSE w

\* The newest snapshot is restored, whichever run it is of: first what is
\* unexpected goes.
StartRestore ==
    /\ restoring = None /\ snaps # <<>>
    /\ LET s == Last(snaps) IN
       /\ restoring' = [run |-> s.run, entries |-> s.entries, next |-> 1]
       /\ ws' = RemoveUnexpected(ws, s.entries)
       /\ foreign' = ForeignAfter(s.run, {Root}, ws')
    /\ UNCHANGED <<snaps, going, begun, pending, changes, base>>

RestoreEntry ==
    /\ restoring # None /\ restoring.next <= Len(restoring.entries)
    /\ LET e == restoring.entries[restoring.next]
           copy == CopyOf(restoring.run, restoring.next, e.path)
       IN  IF CanPutBack(ws, e, copy)
           THEN /\ ws' = PutBack(ws, e, copy)
                /\ restoring' = [restoring EXCEPT !.next = @ + 1]
           ELSE ws' = PlaceMade(ws, e) /\ restoring' = None
    /\ foreign' = ForeignAfter(restoring.run, {Root}, ws')
    /\ UNCHANGED <<snaps, going, begun, pending, changes, base>>

\* Mutant of FinishRestore: the last entry is left out.
FinishRestoreEarly ==
    /\ restoring # None /\ restoring.next >= Len(restoring.entries)
    /\ snaps' = Without(restoring.run)
    /\ foreign' = LateAfter(snaps', ws)
    /\ restoring' = None
    /\ UNCHANGED <<ws, going, begun, pending, changes, base>>

\* The snapshot goes when all is put back.
FinishRestore ==
    /\ restoring # None /\ restoring.next > Len(restoring.entries)
    /\ snaps' = Without(restoring.run)
    /\ foreign' = LateAfter(snaps', ws)
    /\ restoring' = None
    /\ UNCHANGED <<ws, going, begun, pending, changes, base>>

\* The restore dies: what is put back stays, the snapshot is still there.
CrashInRestore ==
    /\ restoring # None
    /\ restoring' = None
    /\ UNCHANGED <<ws, snaps, going, begun, pending, changes, base, foreign>>

\* It dies in remove_dir_all, which takes the manifest last.
CrashInRemoval ==
    /\ restoring # None /\ restoring.next > Len(restoring.entries)
    /\ SnapOf(restoring.run) # {}
    /\ snaps' = Saved(restoring.run,
                  [i \in DOMAIN EntriesOf(restoring.run) |->
                      IF IsFile(EntriesOf(restoring.run)[i].was)
                      THEN [EntriesOf(restoring.run)[i] EXCEPT !.was = Lost]
                      ELSE EntriesOf(restoring.run)[i]])
    /\ restoring' = None
    /\ UNCHANGED <<ws, going, begun, pending, changes, base, foreign>>

SnapshotNext ==
    \/ \E r \in Runs :
          \/ Begin(r) \/ Change(r) \/ CrashInCapture(r)
          \/ \E p \in Paths, c \in Written : Write(r, p, c) \/ Edit(r, p, c)
          \/ \E command \in Commands : Bash(r, command)
    \/ Crash
    \/ StartRestore \/ RestoreEntry \/ FinishRestore
    \/ CrashInRestore \/ CrashInRemoval

SnapshotSpec == SnapshotInit /\ [][SnapshotNext]_snapshotVars

-----------------------------------------------------------------------------
(* topagent run diff. *)

\* diff_entry: the entries that the workspace does not match.
Differs(w, e) ==
    IF e.path = Root THEN FALSE ELSE w[e.path] # e.was

DiffPaths(w, entries) ==
    {entries[i].path : i \in {j \in DOMAIN entries : Differs(w, entries[j])}}

-----------------------------------------------------------------------------
(* Properties. *)

\* Neither the path nor a directory above it was changed but by the run's own
\* captured changes.
Own(r, p) == ({p} \cup Above[p]) \cap foreign[r] = {}

\* A file the run found and changed is in its snapshot as the run found it, in
\* whatever order write, edit and shell commands captured it, its directory or
\* the tree, and whatever other runs and restores did in between.  What of its
\* changes is not in the manifest is a directory made above a captured path.
OriginalsAreKept ==
    \A r \in Runs : SnapOf(r) # {} => \A p \in Paths :
        Own(r, p) /\ ws[p] # base[r][p] =>
            /\ Covered(EntriesOf(r), p) \/ (ws[p] = Dir /\ base[r][p] = Absent)
            /\ IsFile(base[r][p]) =>
                  \E i \in DOMAIN EntriesOf(r) :
                      /\ EntriesOf(r)[i].path = p
                      /\ EntriesOf(r)[i].was \in {base[r][p], Lost}

\* When a restore is done, also one that was cut short before and done again,
\* every file the run found is as the run found it.
RestoreUndoesRun ==
    [][FinishRestore =>
          \A p \in Paths :
              LET r == restoring.run IN
              Own(r, p) /\ IsFile(base[r][p]) => ws[p] = base[r][p]]_snapshotVars

\* A restore leaves alone what the manifest does not speak of: files of the
\* operator or of another run next to the captured ones.
RestoreLeavesTheRest ==
    [][StartRestore \/ RestoreEntry =>
          LET entries == IF restoring = None THEN restoring'.entries
                         ELSE restoring.entries
          IN \A p \in Paths :
              \/ ws'[p] = ws[p]
              \/ Covered(entries, p)
              \/ ws'[p] = Dir /\ \E q \in EntryPaths(entries) \ {Root} : p \in Above[q]]_snapshotVars

\* The README (line 187) says of run diff: preview what restore would change.
\* Whatever the first step of a restore would remove is in the preview.  The
\* program does not do so: no run checks this; added to the invariants of
\* MCRunSnapshots.cfg it shows where.
DiffPredictsRestore ==
    snaps # <<>> /\ restoring = None =>
        LET entries == Last(snaps).entries IN
        \A p \in Touched(ws, RemoveUnexpected(ws, entries)) :
            \E q \in DiffPaths(ws, entries) : p \in Below(q)

=============================================================================
