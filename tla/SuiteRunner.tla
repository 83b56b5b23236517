----------------------------- MODULE SuiteRunner -----------------------------
(***************************************************************************)
(* The guest: run_suite (target/harness/src/runner.rs) driving the test    *)
(* catalog through the payloads' adapter                                   *)
(* (target/payloads/common/mod.rs), and writing its records to the UART.   *)
(*                                                                         *)
(* What a test body does is reduced to its result and to what it leaves    *)
(* behind: a translation still installed, an adapter that could not be     *)
(* restored, the context's cleanup flag, a page of another address space.  *)
(***************************************************************************)
EXTENDS ResultProtocol, Sequences

CONSTANTS
    Catalog,      \* tests_for(environment, profile): a sequence of tests
    Sequential,   \* the tests whose isolation policy is Sequential
    Destructive   \* the tests that end in a fatal exception

VARIABLES
    step,       \* where run_suite is
    at,         \* how many tests of the catalog were taken
    result,     \* the Option<TestResult> of the test's dispatch
    cleanup,    \* TestContext::cleanup_failed
    foreign,    \* a page of another physical address space is held
    adapter,    \* AdapterCore's state
    tally,      \* passed, failed and skipped
    corrupted,  \* run_suite's flag of that name
    outcome,    \* the RunnerOutcome, "none" until run_suite returns
    judged,     \* history: what run_suite made of each test
    capable,    \* input: [baseline : BOOLEAN, tests : SUBSET Tests]
    named,      \* input: the catalog test equal to the filter, or NoTest
    containing, \* input: the tests whose name contains the filter
    uart        \* lines written and not yet read

suite == <<step, at, result, cleanup, foreign, adapter, tally, corrupted,
           outcome, judged>>
inputs == <<capable, named, containing>>
vars == <<suite, inputs, uart>>

Results == {"pass", "fail", "skip", "missing"}

\* A line of the firmware itself.
FirmwarePanic == [kind |-> "PANIC", name |-> NoTest, counts |-> ZeroCounts]

TypeOK ==
    /\ step \in {"entry", "select", "body", "restore", "report", "scope",
                 "end", "returned", "spinning"}
    /\ at \in 0..Len(Catalog)
    /\ result \in Results \cup {"none"}
    /\ cleanup \in BOOLEAN
    /\ foreign \in BOOLEAN
    /\ adapter \in {"Ready", "TestScoped", "TranslationInstalled",
                    "Corrupted", "Finished"}
    /\ tally \in Counts
    /\ corrupted \in BOOLEAN
    /\ outcome \in {"none", "Complete", "BaselineCapabilityMissing",
                    "HarnessCorrupted"}
    /\ judged \in [Tests -> Completions \cup {"none"}]
    /\ capable \in [baseline : BOOLEAN, tests : SUBSET Tests]
    /\ uart \in Seq(Lines \cup {FirmwarePanic})

\* Isolated tests only run when the filter names them exactly.
Selected(test) ==
    /\ test \in Sequential \/ test = named
    /\ IF named = NoTest THEN test \in containing ELSE test = named

\* from_boot leaves the adapter Ready.  Only the support of the selected tests
\* is ever asked for.
Init ==
    /\ step = "entry"
    /\ at = 0
    /\ result = "none"
    /\ cleanup = FALSE
    /\ foreign = FALSE
    /\ adapter = "Ready"
    /\ tally = ZeroCounts
    /\ corrupted = FALSE
    /\ outcome = "none"
    /\ judged = [test \in Tests |-> "none"]
    /\ capable \in [baseline : BOOLEAN, tests : SUBSET {t \in Tests : Selected(t)}]
    /\ uart = <<>>

Current == Catalog[at]

Write(lines) == uart' = uart \o lines

\* The counters saturate where the host's would overflow.
Tallied(kind) ==
    [tally EXCEPT ![kind] = IF @ < CounterMax THEN @ + 1 ELSE @]

-----------------------------------------------------------------------------

\* The payload answers BaselineCapabilityMissing with its capability code,
\* and the firmware's entry with a CAPABILITY line.
BaselineMissing ==
    /\ step = "entry"
    /\ ~capable.baseline
    /\ outcome' = "BaselineCapabilityMissing"
    /\ step' = "returned"
    /\ Write(<<Plain("CAPABILITY")>>)
    /\ UNCHANGED <<at, result, cleanup, foreign, adapter, tally, corrupted,
                   judged, inputs>>

Begin_OrderBug ==
    /\ step = "entry"
    /\ capable.baseline
    /\ step' = "select"
    /\ Write(<<Plain("CAP"), Plain("BEGIN")>>)
    /\ UNCHANGED <<at, result, cleanup, foreign, adapter, tally, corrupted,
                   outcome, judged, inputs>>

Begin ==
    /\ step = "entry"
    /\ capable.baseline
    /\ step' = "select"
    /\ Write(<<Plain("BEGIN"), Plain("CAP")>>)
    /\ UNCHANGED <<at, result, cleanup, foreign, adapter, tally, corrupted,
                   outcome, judged, inputs>>

Taking(test) ==
    /\ step = "select"
    /\ at < Len(Catalog)
    /\ test = Catalog[at + 1]
    /\ at' = at + 1

PassOver ==
    \E test \in Tests :
        /\ Taking(test)
        /\ ~Selected(test)
        /\ UNCHANGED <<step, result, cleanup, foreign, adapter, tally,
                       corrupted, outcome, judged, inputs, uart>>

\* A test the model does not support is reported without having been run.
SkipUnsupported ==
    \E test \in Tests :
        /\ Taking(test)
        /\ Selected(test)
        /\ test \notin capable.tests
        /\ tally' = Tallied("SKIP")
        /\ judged' = [judged EXCEPT ![test] = "SKIP"]
        /\ Write(<<About("SKIP", test)>>)
        /\ UNCHANGED <<step, result, cleanup, foreign, adapter, corrupted,
                       outcome, inputs>>

\* begin_test_scope and the memory's begin_scope.
RunTest ==
    \E test \in Tests :
        /\ Taking(test)
        /\ Selected(test)
        /\ test \in capable.tests
        /\ IF adapter = "Ready"
           THEN /\ adapter' = "TestScoped"
                /\ step' = "body"
                /\ Write(<<About("RUN", test)>>)
                /\ UNCHANGED corrupted
           ELSE /\ adapter' = "Corrupted"
                /\ corrupted' = TRUE
                /\ step' = "end"
                /\ UNCHANGED uart
        /\ UNCHANGED <<result, cleanup, foreign, tally, outcome, judged,
                       inputs>>

-----------------------------------------------------------------------------
(* The test's body.                                                        *)

\* dispatch returns.  An adapter is only left Corrupted by a restoration
\* that failed, which also sets the cleanup flag; a destructive test that
\* survives its exception fails.
BodyReturns ==
    /\ step = "body"
    /\ step' = "restore"
    /\ result' \in IF Current \in Destructive THEN {"fail"} ELSE Results
    /\ cleanup' \in BOOLEAN
    /\ foreign' \in BOOLEAN
    /\ adapter' \in IF cleanup' THEN {"TestScoped", "TranslationInstalled",
                                      "Corrupted"}
                    ELSE {"TestScoped", "TranslationInstalled"}
    /\ UNCHANGED <<at, tally, corrupted, outcome, judged, inputs, uart>>

Spinning(lines) ==
    /\ step' = "spinning"
    /\ Write(lines)
    /\ UNCHANGED <<at, result, cleanup, foreign, adapter, tally, corrupted,
                   outcome, inputs>>

\* handle_panic and fatal_exception for an exception nobody asked for.
BodyPanics ==
    /\ step = "body"
    /\ Spinning(<<Plain("HARNESS_FAILURE")>>)
    /\ UNCHANGED judged

BodyHangs ==
    /\ step = "body"
    /\ Spinning(<<>>)
    /\ UNCHANGED judged

\* fatal_exception for the exception a destructive test raises on purpose:
\* the handler itself writes the completion.
BodyEndsBoot ==
    /\ step = "body"
    /\ Current \in Destructive
    /\ \E completion \in {"PASS", "FAIL"} :
          /\ judged' = [judged EXCEPT ![Current] = completion]
          /\ Spinning(<<About(completion, Current)>>)

\* The firmware dies with a message of its own.
FirmwarePanics ==
    /\ step \in {"entry", "body", "returned"}
    /\ Spinning(<<FirmwarePanic>>)
    /\ UNCHANGED judged

-----------------------------------------------------------------------------
(* After the body.                                                         *)

\* emergency_restore, then the memory's reset.  A Corrupted adapter is left
\* as it is; a restoration that fails is a panic.
Restore ==
    /\ step = "restore"
    /\ \/ /\ adapter' = IF adapter = "Corrupted" THEN adapter ELSE "TestScoped"
          /\ step' = "report"
          /\ UNCHANGED uart
       \/ /\ adapter = "TranslationInstalled"
          /\ adapter' = "Corrupted"
          /\ step' = "spinning"
          /\ Write(<<Plain("HARNESS_FAILURE")>>)
    /\ UNCHANGED <<at, result, cleanup, foreign, tally, corrupted, outcome,
                   judged, inputs>>

\* The completion of the test: a failed cleanup and a missing adapter case
\* count as failures and stop the suite.
Completion ==
    IF cleanup \/ result \in {"fail", "missing"} THEN "FAIL"
    ELSE IF result = "pass" THEN "PASS" ELSE "SKIP"

Report ==
    /\ step = "report"
    /\ Write((IF cleanup THEN <<About("INFRA", Current)>> ELSE <<>>)
             \o <<About(Completion, Current)>>)
    /\ tally' = Tallied(Completion)
    /\ judged' = [judged EXCEPT ![Current] = Completion]
    /\ IF cleanup \/ result = "missing"
       THEN adapter' = "Corrupted" /\ corrupted' = TRUE /\ step' = "end"
       ELSE step' = "scope" /\ UNCHANGED <<adapter, corrupted>>
    /\ result' = "none" /\ cleanup' = FALSE
    /\ UNCHANGED <<at, foreign, outcome, inputs>>

\* end_test_scope: the page of another address space is taken before its
\* release is attempted; if the release fails the suite stops.
EndScope ==
    /\ step = "scope"
    /\ foreign' = (foreign /\ adapter # "TestScoped")
    /\ \/ /\ adapter = "TestScoped"
          /\ adapter' = "Ready"
          /\ step' = "select"
          /\ UNCHANGED corrupted
       \/ /\ foreign \/ adapter # "TestScoped"
          /\ adapter' = "Corrupted"
          /\ corrupted' = TRUE
          /\ step' = "end"
    /\ UNCHANGED <<at, result, cleanup, tally, outcome, judged, inputs, uart>>

CatalogDone ==
    /\ step = "select"
    /\ at = Len(Catalog)
    /\ step' = "end"
    /\ UNCHANGED <<at, result, cleanup, foreign, adapter, tally, corrupted,
                   outcome, judged, inputs, uart>>

\* END is written whether or not the suite is corrupted.
EndSuite ==
    /\ step = "end"
    /\ Write(<<End(tally)>>)
    /\ step' = "returned"
    /\ IF ~corrupted /\ adapter = "Ready"
       THEN adapter' = "Finished" /\ outcome' = "Complete"
       ELSE adapter' = "Corrupted" /\ outcome' = "HarnessCorrupted"
    /\ UNCHANGED <<at, result, cleanup, foreign, tally, corrupted, judged,
                   inputs>>

Next ==
    \/ BaselineMissing
    \/ Begin
    \/ PassOver
    \/ SkipUnsupported
    \/ RunTest
    \/ BodyReturns
    \/ BodyPanics
    \/ BodyHangs
    \/ BodyEndsBoot
    \/ FirmwarePanics
    \/ Restore
    \/ Report
    \/ EndScope
    \/ CatalogDone
    \/ EndSuite
=============================================================================
