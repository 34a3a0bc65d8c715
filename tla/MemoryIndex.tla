---------------------------- MODULE MemoryIndex ----------------------------
(***************************************************************************)
(* The consolidation of the workspace memory index, MEMORY.md              *)
(* (topagent-cli/src/memory/memory_consolidation.rs).                      *)
(*                                                                         *)
(* The index is the set of its lines, each with an entry.  An entry points *)
(* to a saved note or a saved procedure; its text is a set of fragments,   *)
(* each the summary of one state of a file, which comes first in it.  A    *)
(* bar in a title or a text is not escaped when the line is written: the   *)
(* line cannot be read back and is kept as it stands, with the heading.    *)
(* Tags, dates, the heading, the cap on an entry's length and how often a  *)
(* line stands there are left out, and so is a bar that is followed by a   *)
(* colon, which cuts the text or starts another field.                     *)
(***************************************************************************)
EXTENDS Naturals, FiniteSets

CONSTANTS
    Notes, Procedures,    \* names of files
    At,                   \* when a file of that name was saved
    Barred,               \* files whose title or summary has a bar in it
    MaxCuratedNotes, MaxCuratedProcedures, MaxIndexEntries

ASSUME IndexAssumption ==
    /\ Notes \cap Procedures = {}
    /\ At \in [Notes \cup Procedures -> Nat]
    /\ Barred \subseteq Notes \cup Procedures
    /\ {MaxCuratedNotes, MaxCuratedProcedures, MaxIndexEntries} \subseteq Nat

Absent == [status |-> "absent"]

Entry(title, file, status, text) ==
    [title |-> title, file |-> file, status |-> status, text |-> text]

Statuses == {"verified", "tentative", "stale"}

\* What render_index_entry writes.
IsLine(e) ==
    /\ e = Entry(e.title, e.file, e.status, e.text)
    /\ e.title \in Nat /\ e.status \in Statuses

\* What parse_index_entry reads.
Readable(e) == \A fragment \in e.text : fragment[1] \notin Barred

\* orient_memory_state, load_index_entries; the other lines are the prelude.
Parsed(lines) == {e \in lines : Readable(e)}

Prelude(lines) == lines \ Parsed(lines)

Candidate(entry, source, at) == [entry |-> entry, source |-> source, at |-> at]

-----------------------------------------------------------------------------
(* Candidates. *)

\* Mutant of PointsToMissing: nothing is looked for.
PointsNowhere(entry, procs) == FALSE

\* manual_entry_points_to_missing_artifact: only procedures are looked for.
PointsToMissing(entry, procs) ==
    entry.file \in Procedures /\ procs[entry.file] = Absent

\* from_manual_entry: whatever stands in the index counts as written by hand,
\* the entries of earlier consolidations too.
IndexCandidates(index, procs) ==
    {Candidate(e, "index", 0) : e \in {d \in Parsed(index) : ~PointsToMissing(d, procs)}}

\* from_saved_note; notes[n] is the title of a saved note.
NoteCandidates(notes) ==
    {Candidate(Entry(notes[n], n, "verified", {<<n>>}), "note", At[n]) :
        n \in DOMAIN notes}

StatusOfProcedure(p) == IF p.status = "active" THEN "verified" ELSE "stale"

\* from_saved_procedure.
ProcedureEntry(f, p) ==
    Entry(p.title, f, StatusOfProcedure(p), {<<f, p.revisions, p.trajectory>>})

ProcedureCandidates(procs) ==
    {Candidate(ProcedureEntry(f, procs[f]), "procedure", At[f]) :
        f \in {g \in Procedures : procs[g] # Absent}}

\* An entry that the index has to the letter is a duplicate.
Gathered(index, notes, procs) ==
    LET found == IndexCandidates(index, procs)
        saved == NoteCandidates(notes) \cup ProcedureCandidates(procs)
    IN  found \cup {c \in saved : \A d \in found : d.entry # c.entry}

-----------------------------------------------------------------------------
(* Merging and pruning. *)

StatusRank(status) ==
    CASE status = "verified" -> 3 [] status = "tentative" -> 2 [] OTHER -> 1

\* classify_entry_category.
Category(entry) ==
    IF entry.status # "stale" /\ entry.file \in Procedures THEN 3 ELSE 2

SourceRank(source) == IF source = "index" THEN 3 ELSE 2

\* candidate_priority, before the title.
Precedes(c, d) ==
    LET key(x) == <<Category(x.entry), StatusRank(x.entry.status),
                    SourceRank(x.source), x.at, x.entry.title>>
    IN  \E i \in 1 .. 5 :
            /\ key(c)[i] > key(d)[i]
            /\ \A j \in 1 .. i - 1 : key(c)[j] = key(d)[j]

\* merge_group_key: an entry of the index never meets a saved file.
GroupKey(c) ==
    IF c.source = "index" THEN <<"index", c.entry.title, c.entry.file>>
    ELSE <<c.source, c.entry.title>>

\* The winner of a group, with the text of those no less certain.
Merged(group) ==
    LET winner == CHOOSE c \in group : \A d \in group : ~Precedes(d, c)
        equals == {c \in group :
                      StatusRank(c.entry.status) >= StatusRank(winner.entry.status)}
    IN  [winner EXCEPT !.entry.text = UNION {c.entry.text : c \in equals}]

MergedAll(candidates) ==
    {Merged({c \in candidates : GroupKey(c) = k}) : k \in {GroupKey(c) : c \in candidates}}

\* The first n in the order of priority; equals come in any order.
Firsts(S, n) ==
    IF Cardinality(S) <= n THEN {S}
    ELSE {T \in SUBSET S :
            /\ Cardinality(T) = n
            /\ \A c \in T, d \in S \ T : ~Precedes(d, c)}

From(source, S) == {c \in S : c.source = source}

\* prune_candidates.
Pruned(candidates) ==
    LET live == {c \in candidates : c.entry.status # "stale"}
    IN  UNION {UNION {Firsts(From("index", live) \cup N \cup P, MaxIndexEntries) :
            P \in Firsts(From("procedure", live), MaxCuratedProcedures)} :
            N \in Firsts(From("note", live), MaxCuratedNotes)}

\* consolidate_memory_if_needed: the candidates that may be kept, ...
Selections(index, notes, procs) == Pruned(MergedAll(Gathered(index, notes, procs)))

Entries(candidates) == {c.entry : c \in candidates}

\* ... and what the index may become.
Consolidations(index, notes, procs) ==
    {Prelude(index) \cup Entries(S) : S \in Selections(index, notes, procs)}

=============================================================================
