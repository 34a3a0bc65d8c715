-------------------------- MODULE MCAccessControl --------------------------
(***************************************************************************)
(* Small instances of AccessControl: a file in the home directory that     *)
(* needs a grant except under the full profile, and the directory it is in. *)
(***************************************************************************)
EXTENDS AccessControl, TLC

CONSTANTS c1, c2, dir, file

ChatSymmetry == Permutations({c1, c2})

MCPlace == [t \in {dir, file} |-> "home"]
MCWithin == {<<dir, file>>}
MCRequests ==
    {[kind |-> "Filesystem", target |-> file, mode |-> "Read",
      risk |-> "Moderate"]}
MCOffers == {[kind |-> "Filesystem", target |-> dir, mode |-> "ReadWrite"]}
MCFirstAccess == ForProfile("Developer")
=============================================================================
