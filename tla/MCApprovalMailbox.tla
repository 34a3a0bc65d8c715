-------------------------- MODULE MCApprovalMailbox --------------------------
(***************************************************************************)
(* A small instance of ApprovalMailbox: two threads ask for two actions,   *)
(* and so can wait on one entry together or on two entries at once.        *)
(***************************************************************************)
EXTENDS ApprovalMailbox

CONSTANTS t1, t2
=============================================================================
