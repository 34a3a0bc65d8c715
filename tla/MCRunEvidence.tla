--------------------------- MODULE MCRunEvidence ---------------------------
(***************************************************************************)
(* A small instance of RunEvidence: a test command, a command of the       *)
(* release gate, git diff and rm, one file, and the plans that make the    *)
(* requirements differ.                                                    *)
(***************************************************************************)
EXTENDS RunEvidence

CONSTANTS cargo, gate, diff, rm, a

MCFamily == [c \in ShellCommands |-> c]

MCRemoves == [c \in ShellCommands |-> IF c = rm THEN {a} ELSE {}]

Item(kind, words, status) == [kind |-> kind, words |-> words, status |-> status]

Done(kind) == <<Item(kind, {}, "done")>>

MCPlans ==
    {Done("patch"), Done("commit_review"),
     <<Item(Uncategorized, {"release_gate", "test"}, "done")>>,
     <<Item("test", {}, "done"), Item("audit", {}, "blocked")>>,
     <<Item("test", {}, "done"), Item("audit", {}, "done")>>}
=============================================================================
