-------------------------------- MODULE Boot --------------------------------
(***************************************************************************)
(* One boot from end to end: the guest's suite (SuiteRunner), the process  *)
(* that runs its model in the container (FvpRelay) and the host's          *)
(* supervisor (Supervisor).  The guest writes to the UART, the relay reads *)
(* the UART and prints, the supervisor reads what is printed; the relay's  *)
(* exit is the container's.                                                *)
(***************************************************************************)
EXTENDS Supervisor

CONSTANTS Catalog, Sequential

ASSUME BootAssumption ==
    /\ Catalog \in Seq(Tests)
    /\ \A i, j \in DOMAIN Catalog : Catalog[i] = Catalog[j] => i = j
    /\ Cardinality(Tests) <= CounterMax
    /\ Sequential \subseteq Tests \ Destructive
    /\ Destructive \subseteq {Catalog[i] : i \in DOMAIN Catalog}

VARIABLES
    step, at, result, cleanup, foreign, adapter, tally, corrupted, outcome,
    judged, capable, uart,                          \* SuiteRunner
    relay, model, sawEnd, panicked, exitCode        \* FvpRelay

\* What the guest is asked to run: the whole profile, or by its full name the
\* destructive test the host expects the boot to end in.
Runner == INSTANCE SuiteRunner WITH
    named <- termination,
    containing <- IF termination = NoTest THEN Tests ELSE {termination}
Relay == INSTANCE FvpRelay WITH printed <- channel, PipeSize <- MaxQueued
Classes == INSTANCE Verdict

guest == <<step, at, result, cleanup, foreign, adapter, tally, corrupted,
           outcome, judged, capable>>
relaying == <<relay, model, sawEnd, panicked, exitCode>>
bootVars == <<vars, guest, uart, relaying>>

BootTypeOK == TypeOK /\ Runner!TypeOK /\ Relay!TypeOK

BootInit == Init /\ Runner!Init /\ Relay!Init

\* A new container runs a new model, of the same capabilities, from its start.
Rebooted ==
    /\ step' = "entry" /\ at' = 0 /\ result' = "none"
    /\ cleanup' = FALSE /\ foreign' = FALSE /\ corrupted' = FALSE
    /\ adapter' = "Ready" /\ outcome' = "none"
    /\ tally' = ZeroCounts
    /\ judged' = [test \in Tests |-> "none"]
    /\ uart' = <<>>
    /\ relay' = "starting" /\ model' = "off"
    /\ sawEnd' = FALSE /\ panicked' = FALSE /\ exitCode' = 0
    /\ UNCHANGED capable

HostStep ==
    /\ Host
    /\ UNCHANGED termination
    /\ IF pc' = "register" THEN Rebooted ELSE UNCHANGED <<guest, uart, relaying>>

\* What happens in the container once nobody reads its output is left out.
Observed == container = "live" /\ pc \in {"register", "check", "receive"}

\* The guest executes while its model does.
GuestStep ==
    /\ Observed
    /\ model \in {"running", "terminating"}
    /\ Runner!Next
    /\ UNCHANGED <<vars, relaying>>

RelayStep ==
    /\ Observed
    /\ Relay!Next
    /\ UNCHANGED <<termination, supervision, cancelled, child, container,
                   status, transient, guest>>

RelayExit ==
    /\ relay = "exited"
    /\ ContainerExits
    /\ UNCHANGED <<termination, guest, uart, relaying>>

WorldStep ==
    /\ \/ Expire
       \/ Interrupt
       \/ ContainerRegisters
       \/ ChildExits(exitCode)
       \/ ClientFails
    /\ UNCHANGED <<termination, guest, uart, relaying>>

BootDone == pc = "done" /\ UNCHANGED bootVars

BootNext ==
    \/ HostStep
    \/ GuestStep
    \/ RelayStep
    \/ RelayExit
    \/ WorldStep
    \/ BootDone

\* The supervisor keeps running, time passes, and a client whose container
\* is gone ends.  Nothing is assumed of the container, the model, the guest
\* or the user.
BootFairness ==
    /\ WF_bootVars(HostStep)
    /\ WF_bootVars(Expire /\ UNCHANGED <<termination, guest, uart, relaying>>)
    /\ WF_bootVars(ChildExits(exitCode) /\ UNCHANGED <<termination, guest, uart, relaying>>)

BootSpec == BootInit /\ [][BootNext]_bootVars /\ BootFairness

-----------------------------------------------------------------------------
(* Properties.                                                             *)

Reported == Classes!Classify(verdict)
Passed == pc = "done" /\ Reported.outcome = "passed"

\* A boot only passes if the guest reached its END (or, for a destructive
\* boot, its fatal exception), some test passed there and none failed.  A
\* panic, a hang or a crash of the model never passes.
PassIsTrue ==
    Passed =>
        /\ \E test \in Tests : judged[test] = "PASS"
        /\ \A test \in Tests : judged[test] # "FAIL"
        /\ IF termination = NoTest THEN sawEnd
           ELSE step = "spinning" /\ judged[termination] = "PASS"

\* The host records no verdict the guest did not reach; the one exception is
\* the FAIL with which the watchdog completes a test.
RecordsAreTrue ==
    \A test \in Tests, kind \in Completions :
        Logged(kind, test) =>
            \/ judged[test] = kind
            \/ kind = "FAIL" /\ verdict.kind = "testtimeout" /\ watch = test

\* A test the model does not support was reported with a SKIP.
Unsupported == \E test \in Tests \ capable.tests : judged[test] = "SKIP"

\* The host's strict parser rejects nothing run_suite writes, except the SKIP
\* of a test the model does not support.  Otherwise an ordinary boot is only
\* malformed because its model crashed in the middle of the suite, or because
\* a deadline expired after a test that skipped itself.
RunnerIsUnderstood ==
    verdict.kind = "malformed" /\ termination = NoTest =>
        \/ Unsupported
        \/ relay = "exited" /\ ~sawEnd /\ ~panicked
        \/ expired /\ watch \in Tests /\ Logged("SKIP", watch)

\* A firmware panic that ended the model is what the host reports, unless
\* its own watch, the user, a broken stream or an earlier line of the guest
\* (a missing baseline, an unsupported test) ended the boot first.  It never
\* becomes a truncated or a completed suite, nor a model that did not start.
PanicIsReported ==
    panicked /\ pc \in {"return", "done"} =>
        \/ verdict.kind \in {"harness", "timeout", "testtimeout", "cancelled",
                             "io"}
        \/ verdict.kind = "capability" /\ ~capable.baseline
        \/ verdict.kind = "malformed" /\ Unsupported
        \/ verdict.kind = "malformed" /\ expired /\ watch \in Tests

\* Every boot ends: a guest that hangs, a model that never speaks and a
\* container that never starts all run into a deadline.
BootEnds == <>(pc = "done")

-----------------------------------------------------------------------------
(* What the repository says and this code does not do.                     *)

\* The host has an outcome for suites whose tests were skipped; so the SKIP
\* with which run_suite reports a test the model does not support is never
\* a reason to call the boot malformed.
UnsupportedTestIsSkipped ==
    [][pc = "receive" /\ channel # <<>> /\ pc' = "stop"
          /\ NextLine.kind = "SKIP" /\ NextLine.name \notin capable.tests
          => verdict'.kind # "malformed"]_bootVars

\* The README says that failed and incomplete runs are retained; so a boot
\* whose guest stopped with HarnessCorrupted does not pass.
CorruptedBootIsKept == Passed => outcome # "HarnessCorrupted"
=============================================================================
