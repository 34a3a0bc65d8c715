-------------------------- MODULE ApprovalDecision --------------------------
(***************************************************************************)
(* What the approval mailbox promises, without its lock, its condition     *)
(* variable, its threads or its coalescing: requests are asked one after   *)
(* the other, each is decided at most once, and whoever is told about a    *)
(* request is told what its verdict is at that moment.                     *)
(***************************************************************************)
EXTENDS Naturals

CONSTANTS
    Requesters,  \* the threads that may be told a verdict
    MaxEntries   \* bound on the number of requests ever asked

Verdicts == {"Approved", "Denied", "Expired", "Superseded"}
Ids == 1 .. MaxEntries

VARIABLES
    verdict,  \* verdict[i]: "Unasked", "Pending" or the decision on request i
    told      \* told[w]: the request w was last told about, and its state then

vars == <<verdict, told>>

Init ==
    /\ verdict = [i \in Ids |-> "Unasked"]
    /\ told = [w \in Requesters |-> [id |-> 0, state |-> "Unasked"]]

\* The next request, in the order of the ids, becomes pending.
Ask ==
    \E i \in Ids :
        /\ verdict[i] = "Unasked"
        /\ \A j \in Ids : j < i => verdict[j] # "Unasked"
        /\ verdict' = [verdict EXCEPT ![i] = "Pending"]
        /\ UNCHANGED told

\* Pending requests, one or several at once, get the same verdict.
Decide ==
    \E D \in SUBSET Ids, v \in Verdicts :
        /\ \A i \in D : verdict[i] = "Pending"
        /\ verdict' = [i \in Ids |-> IF i \in D THEN v ELSE verdict[i]]
        /\ UNCHANGED told

\* A requester learns where a request that was asked stands.
Tell ==
    \E who \in Requesters, i \in Ids :
        /\ verdict[i] # "Unasked"
        /\ told' = [told EXCEPT ![who] = [id |-> i, state |-> verdict[i]]]
        /\ UNCHANGED verdict

\* A stopped task gives up its own pending request and learns so at once.
GiveUp ==
    \E who \in Requesters, i \in Ids :
        /\ verdict[i] = "Pending"
        /\ verdict' = [verdict EXCEPT ![i] = "Expired"]
        /\ told' = [told EXCEPT ![who] = [id |-> i, state |-> "Expired"]]

Next == Ask \/ Decide \/ Tell \/ GiveUp

Spec == Init /\ [][Next]_vars
=============================================================================
