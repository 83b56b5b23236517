----------------------------- MODULE SuiteLedger -----------------------------
(***************************************************************************)
(* What results.log promises its reader: a suite opens once, runs one test *)
(* at a time, gives each test at most one verdict, which never changes,    *)
(* and is closed only between tests, after which nothing is added.  Only a *)
(* closed ledger may be thrown away for a new one, when a boot is retried  *)
(* although its suite had ended.                                           *)
(* Supervisor implements it whatever the container writes.                 *)
(***************************************************************************)
CONSTANTS Tests

VARIABLES
    opened,   \* the suite began
    closed,   \* the suite ended
    standing  \* what the log says of each test

ledger == <<opened, closed, standing>>

Final == {"PASS", "FAIL", "SKIP"}

Init ==
    /\ opened = FALSE
    /\ closed = FALSE
    /\ standing = [test \in Tests |-> "none"]

Idle == \A test \in Tests : standing[test] # "running"

Open ==
    /\ ~opened
    /\ opened' = TRUE
    /\ UNCHANGED <<closed, standing>>

Start(test) ==
    /\ opened /\ ~closed
    /\ Idle
    /\ standing[test] = "none"
    /\ standing' = [standing EXCEPT ![test] = "running"]
    /\ UNCHANGED <<opened, closed>>

Settle(test, final) ==
    /\ ~closed
    /\ standing[test] = "running"
    /\ standing' = [standing EXCEPT ![test] = final]
    /\ UNCHANGED <<opened, closed>>

Close ==
    /\ opened /\ ~closed
    /\ Idle
    /\ closed' = TRUE
    /\ UNCHANGED <<opened, standing>>

\* results.log is truncated for another launch.
Renew ==
    /\ closed
    /\ opened' = FALSE
    /\ closed' = FALSE
    /\ standing' = [test \in Tests |-> "none"]

Next ==
    \/ Open
    \/ \E test \in Tests : Start(test) \/ \E final \in Final : Settle(test, final)
    \/ Close
    \/ Renew

Spec == Init /\ [][Next]_ledger
=============================================================================
