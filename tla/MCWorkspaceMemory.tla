------------------------- MODULE MCWorkspaceMemory -------------------------
(* A small workspace memory: an old procedure, up to two newer ones, two
   runs at once and the operator. *)
EXTENDS WorkspaceMemory, TLC

CONSTANTS w1, w2, f1, f2, f3, n1, n2

MCWorkers == {w1, w2}
MCNotes == {n1, n2}
MCProcedures == {f1, f2, f3}
MCAt == [x \in MCNotes \cup MCProcedures |->
            CASE x = f1 -> 1 [] x \in {f2, n1} -> 2 [] x \in {f3, n2} -> 3]

\* The operator wrote a line for the old procedure.
MCFound == {Entry(1, f1, "tentative", {<<"found">>})}

Symmetric == Permutations(MCWorkers)

=============================================================================
