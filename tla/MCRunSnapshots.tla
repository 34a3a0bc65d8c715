--------------------------- MODULE MCRunSnapshots ---------------------------
(* TLC instances of RunSnapshots. *)
EXTENDS RunSnapshots, TLC

CONSTANTS c0, c1, r1, r2

MCRuns == {r1, r2}

RunSymmetry == Permutations(MCRuns)


\* A file, a directory and a file in it.
MCPaths == {"a", "d", "d/x"}
MCParent == [p \in MCPaths |-> IF p = "d/x" THEN "d" ELSE "."]

Tree(a, d, x) == [p \in MCPaths |-> CASE p = "a" -> a [] p = "d" -> d [] OTHER -> x]
MCFound == {Tree(c0, Dir, c0)}

Seg(tool, operands, does) == [tool |-> tool, operands |-> operands, does |-> does]
Arg(p) == [names |-> p, as |-> "relative"]
Abs(p) == [names |-> p, as |-> "absolute"]
Dots(p) == [names |-> p, as |-> "dotted"]

\* rm -r d; touch d; mkdir d; rm a && touch d/x; tar x; rm /workspace/a; rm ../workspace/d/x && rm a; cargo test.
MCCommands ==
    { <<Seg("names", <<Arg("d")>>, Absent)>>,
      <<Seg("names", <<Arg("d")>>, c1)>>,
      <<Seg("names", <<Arg("d")>>, Dir)>>,
      <<Seg("names", <<Arg("a")>>, Absent), Seg("names", <<Arg("d/x")>>, c1)>>,
      <<Seg("unpack", <<>>, c1)>>,
      <<Seg("names", <<Abs("a")>>, Absent)>>,
      <<Seg("names", <<Dots("d/x")>>, Absent), Seg("names", <<Arg("a")>>, Absent)>>,
      <<Seg("other", <<>>, c1)>> }
=============================================================================
