----------------------------- MODULE Supervisor -----------------------------
(***************************************************************************)
(* The host's supervision of one boot (host/cli/src/process.rs, and the    *)
(* retry loop of run_target in host/cli/src/run.rs): launch a container    *)
(* with Podman, read its output line by line under a deadline that is      *)
(* re-armed as the guest makes progress, keep results.log, and return one  *)
(* verdict, stopping the container when the boot has to be given up.       *)
(*                                                                         *)
(* The two reader threads and their mpsc channel are one FIFO of lines.    *)
(* Time is the flag `expired`: now >= deadline.                            *)
(*                                                                         *)
(* Definitions ending in _Bug are defects, see ResultProtocol.             *)
(***************************************************************************)
EXTENDS ResultProtocol, Sequences

CONSTANTS
    Destructive,  \* the tests a boot may have to end in
    Output,       \* the lines a container may write
    MaxQueued,    \* bound: lines written and not yet received
    MaxAttempts   \* bound: launches of one boot (the code has none)

ASSUME SupervisorAssumption ==
    /\ Destructive \subseteq Tests
    /\ Output \subseteq Lines
    /\ MaxQueued \in Nat
    /\ MaxAttempts \in Nat \ {0}

VARIABLES
    termination, \* input: the destructive test this boot must end in, or NoTest
    pc,          \* where run_target and what it calls are
    parser,      \* supervise's Parser
    watch,       \* supervise's active_test
    expired,     \* now >= deadline
    permit,      \* this boot holds a LaunchPermit
    stopFailed,  \* stop_container returned an error
    verdict,     \* the Result<Completed, Failure> being returned
    recorded,    \* the records in results.log
    attempt,     \* how many times the boot was launched
    cancelled,   \* cancellation::requested()
    channel,     \* the lines on their way to recv_timeout
    child,       \* the `podman run` process
    container,   \* the container it runs
    status,      \* the exit status of the client, which is its container's
    transient    \* container.stderr.log holds "ssh: handshake failed: EOF"

supervision == <<pc, parser, watch, expired, permit, stopFailed, verdict,
                 recorded, attempt>>
podman == <<channel, child, container, status, transient>>
vars == <<termination, supervision, cancelled, podman>>

FailureKinds == {"build", "startup", "capability", "harness", "malformed",
                 "timeout", "testtimeout", "io", "cancelled"}
Verdicts == [kind : {"none", "completed"} \cup FailureKinds, counts : Counts]
Verdict(kind) == [kind |-> kind, counts |-> ZeroCounts]

\* The exit statuses of container/run.py, and 125 for any other.
Statuses == {0, 20, 21, 22, 125}

TypeOK ==
    /\ termination \in Destructive \cup {NoTest}
    /\ pc \in {"launch", "register", "check", "receive", "reap", "stop",
               "kill", "return", "done"}
    /\ parser \in Parsers
    /\ watch \in MaybeTest
    /\ expired \in BOOLEAN
    /\ permit \in BOOLEAN
    /\ stopFailed \in BOOLEAN
    /\ verdict \in Verdicts
    /\ recorded \subseteq Lines
    /\ attempt \in Nat
    /\ cancelled \in BOOLEAN
    /\ channel \in Seq(Lines)
    /\ child \in {"none", "running", "exited"}
    /\ container \in {"absent", "live", "gone"}
    /\ status \in Statuses
    /\ transient \in BOOLEAN

Init ==
    /\ termination \in Destructive \cup {NoTest}
    /\ pc = "launch"
    /\ parser = NewParser
    /\ watch = NoTest
    /\ expired = FALSE
    /\ permit = FALSE
    /\ stopFailed = FALSE
    /\ verdict = Verdict("none")
    /\ recorded = {}
    /\ attempt = 0
    /\ cancelled = FALSE
    /\ channel = <<>>
    /\ child = "none"
    /\ container = "absent"
    /\ status = 0
    /\ transient = FALSE

-----------------------------------------------------------------------------
(* Launching: run_with_limits up to the call of supervise.  A launch after *)
(* the first truncates the logs of the one before.  Waiting for the launch *)
(* gate is modelled in BootScheduler.                                      *)

Launch ==
    /\ pc = "launch"
    /\ pc' = "register"
    /\ attempt' = attempt + 1
    /\ permit' = TRUE
    /\ recorded' = {}
    /\ transient' = FALSE
    /\ child' = "running"
    /\ container' = "absent"
    /\ parser' = NewParser
    /\ watch' = NoTest
    /\ expired' = FALSE
    /\ verdict' = Verdict("none")
    /\ UNCHANGED <<stopFailed, cancelled, channel, status>>

\* Podman cannot be started, with every log truncated; or a log cannot be
\* created, and results.log, the last of them, is left as it was.
SpawnFails(kind) ==
    /\ pc = "launch"
    /\ pc' = "return"
    /\ attempt' = attempt + 1
    /\ verdict' = Verdict(kind)
    /\ \/ /\ kind = "startup"
          /\ recorded' = {} /\ parser' = NewParser /\ transient' = FALSE
       \/ /\ kind = "io"
          /\ UNCHANGED <<recorded, parser, transient>>
    /\ UNCHANGED <<watch, expired, permit, stopFailed, cancelled, channel,
                   child, container, status>>

\* release_launch_permit_when_registered: the container exists, or its
\* client is gone; otherwise five seconds or a Podman error end the wait and
\* the permit stays with the boot.
Registration ==
    /\ pc = "register"
    /\ pc' = "check"
    /\ permit' \in IF container = "live" \/ child = "exited"
                   THEN BOOLEAN ELSE {permit}
    /\ UNCHANGED <<parser, watch, expired, stopFailed, verdict, recorded,
                   attempt, cancelled, podman>>

-----------------------------------------------------------------------------
(* The supervise loop.                                                     *)

\* Leave the loop with a result; the container is then terminated and the
\* receiver dropped.
Terminating(result) ==
    /\ verdict' = result
    /\ pc' = "stop"
    /\ channel' = <<>>

Abort(kind) == Terminating(Verdict(kind))

ObserveCancel ==
    /\ pc = "check"
    /\ cancelled
    /\ Abort("cancelled")
    /\ UNCHANGED <<parser, watch, expired, permit, stopFailed, recorded,
                   attempt, cancelled, child, container, status, transient>>

DeadlineExpires_StartupBug ==
    /\ pc = "check"
    /\ ~cancelled /\ expired /\ watch = NoTest /\ parser.began
    /\ Abort("timeout")
    /\ UNCHANGED <<parser, watch, expired, permit, stopFailed, recorded,
                   attempt, cancelled, child, container, status, transient>>

\* The deadline of a phase outside any test.
DeadlineExpires ==
    /\ pc = "check"
    /\ ~cancelled /\ expired /\ watch = NoTest
    /\ Abort("timeout")
    /\ UNCHANGED <<parser, watch, expired, permit, stopFailed, recorded,
                   attempt, cancelled, child, container, status, transient>>

WatchdogVerdict_KindBug == Verdict("timeout")

WatchdogVerdict_OrderBug ==
    [kind |-> "testtimeout", counts |-> parser.counts]

\* The failure that ends a boot whose test was completed by the host.
WatchdogVerdict == [kind |-> "testtimeout", counts |-> parser'.counts]

\* The deadline of a test: the host completes it with a FAIL of its own.
WatchdogFires ==
    LET completion == About("FAIL", watch)
    IN  /\ pc = "check"
        /\ ~cancelled /\ expired /\ watch # NoTest
        /\ \/ /\ Admissible(parser, completion)
              /\ parser' = Absorb(parser, completion)
              /\ \/ /\ recorded' = recorded \cup {completion}
                    /\ Terminating(WatchdogVerdict)
                 \/ /\ Abort("io")
                    /\ UNCHANGED recorded
           \/ /\ ~Admissible(parser, completion)
              /\ Abort("malformed")
              /\ UNCHANGED <<parser, recorded>>
        /\ UNCHANGED <<watch, expired, permit, stopFailed, attempt,
                       cancelled, child, container, status, transient>>

Poll ==
    /\ pc = "check"
    /\ ~cancelled /\ ~expired
    /\ pc' = "receive"
    /\ UNCHANGED <<parser, watch, expired, permit, stopFailed, verdict,
                   recorded, attempt, cancelled, podman>>

-----------------------------------------------------------------------------
(* One received line.                                                      *)

NextLine == Head(channel)

Receive_PermitBug ==
    /\ pc = "receive"
    /\ channel # <<>>
    /\ UNCHANGED <<permit, stopFailed, attempt, cancelled, child, container,
                   status, transient>>

\* A line was received: launching is over.
Receive ==
    /\ pc = "receive"
    /\ channel # <<>>
    /\ permit' = FALSE
    /\ UNCHANGED <<stopFailed, attempt, cancelled, child, container, status,
                   transient>>

EndsBoot_CapabilityBug(line) ==
    line.kind \in {"HARNESS_FAILURE", "CAPABILITY"}

EndsBoot_HarnessBug(line) ==
    line.kind \in {"HARNESS_FAILURE", "CAPABILITY"} /\ ~parser.began

\* Infrastructure lines that end the boot.
EndsBoot(line) ==
    \/ line.kind = "HARNESS_FAILURE"
    \/ line.kind = "CAPABILITY" /\ ~parser.began

\* Lines that start a phase with a deadline of its own.  The PHASE lines do
\* so whatever the parser has seen.
StartsPhase(line) ==
    \/ line.kind \in {"PREPARE_START", "BUILD_START", "BUILD_COMPLETE"}
    \/ line.kind = "FVP_START" /\ ~parser.began

InfraFailure ==
    /\ Receive
    /\ EndsBoot(NextLine)
    /\ Abort(IF NextLine.kind = "CAPABILITY" THEN "capability" ELSE "harness")
    /\ UNCHANGED <<parser, watch, expired, recorded>>

\* parse_line returns Ok(None): the line carries no result.
Ignored ==
    /\ Receive
    /\ NextLine.kind \in InfraKinds
    /\ ~EndsBoot(NextLine)
    /\ expired' = (expired /\ ~StartsPhase(NextLine))
    /\ pc' = "check"
    /\ channel' = Tail(channel)
    /\ UNCHANGED <<parser, watch, verdict, recorded>>

\* parse_line returns Err.
Rejected ==
    /\ Receive
    /\ NextLine.kind \in RecordKinds
    /\ ~Admissible(parser, NextLine)
    /\ Abort("malformed")
    /\ UNCHANGED <<parser, watch, expired, recorded>>

\* The record was parsed but results.log cannot be written.
RecordLost ==
    /\ Receive
    /\ Admissible(parser, NextLine)
    /\ parser' = Absorb(parser, NextLine)
    /\ Abort("io")
    /\ UNCHANGED <<watch, expired, recorded>>

Concluding_NameBug ==
    IF NextLine.kind = "BEGIN_OTHER" THEN Abort("malformed")
    ELSE IF NextLine.kind \in {"PASS", "FAIL"} /\ termination # NoTest
    THEN Terminating([kind |-> "completed", counts |-> parser'.counts])
    ELSE pc' = "check" /\ channel' = Tail(channel) /\ UNCHANGED verdict

\* What an event makes of the verdict: the wrong target and a destructive
\* completion end the boot, anything else goes back to the loop.
Concluding ==
    IF NextLine.kind = "BEGIN_OTHER" THEN Abort("malformed")
    ELSE IF NextLine.kind \in {"PASS", "FAIL"} /\ termination # NoTest THEN
        IF NextLine.name = termination
        THEN Terminating([kind |-> "completed", counts |-> parser'.counts])
        ELSE Abort("malformed")
    ELSE pc' = "check" /\ channel' = Tail(channel) /\ UNCHANGED verdict

\* The record is kept and acted upon.  SKIP re-arms the suite's deadline but
\* leaves active_test as it is.
Recorded ==
    /\ Receive
    /\ Admissible(parser, NextLine)
    /\ parser' = Absorb(parser, NextLine)
    /\ recorded' = recorded \cup {NextLine}
    /\ expired' =
           (expired /\ NextLine.kind \in {"BEGIN_OTHER", "CAP", "INFRA"})
    /\ watch' = CASE NextLine.kind = "RUN" -> NextLine.name
                  [] NextLine.kind \in {"PASS", "FAIL"} -> NoTest
                  [] OTHER -> watch
    /\ Concluding

\* Podman's handshake error on stderr, from the client or from inside the
\* container, at any time: logged, received and ignored.  It comes through
\* the thread of stderr, so its order among the lines of stdout is arbitrary.
HandshakeErrorRead ==
    /\ pc = "receive"
    /\ attempt < MaxAttempts
    /\ transient' = TRUE
    /\ permit' = FALSE
    /\ pc' = "check"
    /\ UNCHANGED <<parser, watch, expired, stopFailed, verdict, recorded,
                   attempt, cancelled, channel, child, container, status>>

\* A reader thread reports an error: an oversized or undecodable line, or a
\* log it cannot write.
ReadFails ==
    /\ pc = "receive"
    /\ Abort("io")
    /\ UNCHANGED <<parser, watch, expired, permit, stopFailed, recorded,
                   attempt, cancelled, child, container, status, transient>>

\* recv_timeout returns Timeout: nothing was written, or the readers have
\* not seen the end of their streams yet.
Quiet ==
    /\ pc = "receive"
    /\ channel = <<>>
    /\ pc' = "check"
    /\ UNCHANGED <<parser, watch, expired, permit, stopFailed, verdict,
                   recorded, attempt, cancelled, podman>>

\* Both streams are closed: from here on only the exit of the child counts,
\* not the deadline and not a cancellation.
Disconnected ==
    /\ pc = "receive"
    /\ channel = <<>>
    /\ container = "gone" \/ child = "exited"
    /\ pc' = "reap"
    /\ UNCHANGED <<parser, watch, expired, permit, stopFailed, verdict,
                   recorded, attempt, cancelled, podman>>

FinishVerdict_BeganBug ==
    IF termination # NoTest THEN Verdict("malformed")
    ELSE IF parser.ended THEN
        IF ~Finished(parser) THEN Verdict("malformed")
        ELSE CASE status = 0 -> [kind |-> "completed", counts |-> parser.counts]
               [] status = 20 -> Verdict("build")
               [] OTHER -> Verdict("startup")
    ELSE CASE status = 20 -> Verdict("build")
           [] status = 22 -> Verdict("capability")
           [] OTHER -> Verdict("startup")

\* finish: the verdict on a boot whose container ended by itself.
FinishVerdict ==
    IF termination # NoTest THEN Verdict("malformed")
    ELSE IF parser.ended THEN
        IF ~Finished(parser) THEN Verdict("malformed")
        ELSE CASE status = 0 -> [kind |-> "completed", counts |-> parser.counts]
               [] status = 20 -> Verdict("build")
               [] OTHER -> Verdict("startup")
    ELSE IF parser.began THEN Verdict("malformed")
    ELSE CASE status = 20 -> Verdict("build")
           [] status = 22 -> Verdict("capability")
           [] OTHER -> Verdict("startup")

Finish ==
    /\ pc = "reap"
    /\ child = "exited"
    /\ verdict' = FinishVerdict
    /\ pc' = "return"
    /\ UNCHANGED <<parser, watch, expired, permit, stopFailed, recorded,
                   attempt, cancelled, podman>>

-----------------------------------------------------------------------------
(* terminate, and the return through run_with_limits to run_target.        *)

\* podman stop, then podman kill; both may fail and leave the container.
StopContainer ==
    /\ pc = "stop"
    /\ pc' = "kill"
    /\ \/ /\ container' = IF container = "live" THEN "gone" ELSE container
          /\ stopFailed' = FALSE
       \/ /\ stopFailed' = TRUE
          /\ UNCHANGED container
    /\ UNCHANGED <<parser, watch, expired, permit, verdict, recorded,
                   attempt, cancelled, channel, child, status, transient>>

\* The client is killed and reaped if it still runs.  A failed stop turns a
\* destructive success into an Io failure; a failure keeps its kind.  Since
\* the client is gone, the ContainerGuard is disarmed.
KillChild ==
    /\ pc = "kill"
    /\ pc' = "return"
    /\ child' = "exited"
    /\ verdict' = IF stopFailed /\ verdict.kind = "completed"
                  THEN Verdict("io") ELSE verdict
    /\ UNCHANGED <<parser, watch, expired, permit, stopFailed, recorded,
                   attempt, cancelled, channel, container, status, transient>>

\* run_target launches the boot again.
Retryable == verdict.kind = "startup" /\ transient /\ ~cancelled

Return ==
    /\ pc = "return"
    /\ permit' = FALSE
    /\ pc' = IF Retryable THEN "launch" ELSE "done"
    /\ UNCHANGED <<parser, watch, expired, stopFailed, verdict, recorded,
                   attempt, cancelled, podman>>

Host ==
    \/ Launch
    \/ \E kind \in {"startup", "io"} : SpawnFails(kind)
    \/ Registration
    \/ ObserveCancel
    \/ DeadlineExpires
    \/ WatchdogFires
    \/ Poll
    \/ InfraFailure
    \/ Ignored
    \/ Rejected
    \/ RecordLost
    \/ Recorded
    \/ HandshakeErrorRead
    \/ ReadFails
    \/ Quiet
    \/ Disconnected
    \/ Finish
    \/ StopContainer
    \/ KillChild
    \/ Return

-----------------------------------------------------------------------------
(* The supervisor's environment: the clock, the user and Podman.           *)

Watching == pc \in {"check", "receive"}

Expire ==
    /\ Watching
    /\ ~expired
    /\ expired' = TRUE
    /\ UNCHANGED <<pc, parser, watch, permit, stopFailed, verdict, recorded,
                   attempt, cancelled, podman>>

Interrupt ==
    /\ pc # "done"
    /\ ~cancelled
    /\ cancelled' = TRUE
    /\ UNCHANGED <<supervision, podman>>

ContainerRegisters ==
    /\ child = "running"
    /\ container = "absent"
    /\ container' = "live"
    /\ UNCHANGED <<supervision, cancelled, channel, child, status, transient>>

ContainerWrites(line) ==
    /\ pc \in {"register", "check", "receive"}
    /\ container = "live"
    /\ Len(channel) < MaxQueued
    /\ channel' = Append(channel, line)
    /\ UNCHANGED <<supervision, cancelled, child, container, status, transient>>

\* A container whose client is gone is not observed any further.
ContainerExits ==
    /\ child = "running"
    /\ container = "live"
    /\ container' = "gone"
    /\ UNCHANGED <<supervision, cancelled, channel, child, status, transient>>

\* Podman's client ends some time after its container, with its status.
ChildExits(code) ==
    /\ child = "running"
    /\ container = "gone"
    /\ child' = "exited"
    /\ status' = code
    /\ UNCHANGED <<supervision, cancelled, channel, container, transient>>

\* The client ends before its container was ever seen.
ClientFails ==
    /\ child = "running"
    /\ container = "absent"
    /\ child' = "exited"
    /\ status' = 125
    /\ UNCHANGED <<supervision, cancelled, channel, container, transient>>

Environment ==
    \/ Expire
    \/ Interrupt
    \/ ContainerRegisters
    \/ \E line \in Output : ContainerWrites(line)
    \/ ContainerExits
    \/ \E code \in Statuses : ChildExits(code)
    \/ ClientFails

Terminated == pc = "done" /\ UNCHANGED vars

Next ==
    \/ (Host \/ Environment) /\ UNCHANGED termination
    \/ Terminated

Spec == Init /\ [][Next]_vars
-----------------------------------------------------------------------------
(* Properties.                                                             *)

\* results.log holds a record of this kind about this test.
Logged(kind, test) ==
    \E line \in recorded : line.kind = kind /\ line.name = test

LoggedKind(kind) == \E line \in recorded : line.kind = kind

\* What results.log says of a test.
Standing(test) ==
    IF \E kind \in Completions : Logged(kind, test)
    THEN CHOOSE kind \in Completions : Logged(kind, test)
    ELSE IF Logged("RUN", test) THEN "running" ELSE "none"

\* A suite is only reported as completed when results.log shows all of it:
\* the requested target's BEGIN, no test left running, and an END with the
\* reported counts; and when the container then exited with success.
CompletionIsEarned ==
    verdict.kind = "completed" /\ termination = NoTest =>
        /\ LoggedKind("BEGIN") /\ ~LoggedKind("BEGIN_OTHER")
        /\ \A test \in Tests : Standing(test) # "running"
        /\ \E line \in recorded :
              line.kind = "END" /\ line.counts = verdict.counts
        /\ status = 0

\* The counts of a verdict are those of results.log, one for each test: also
\* those of a suite cut short by its watchdog, whose FAIL the host adds.
CountsMatchLog ==
    verdict.kind \in {"completed", "testtimeout"} =>
        \A kind \in Completions :
            verdict.counts[kind] =
                Cardinality({test \in Tests : Logged(kind, test)})

\* A test watchdog that ends a boot blames the test that was running, and no
\* other: it was started, the log has its FAIL, and no test is left running.
WatchdogBlamesRunningTest ==
    verdict.kind = "testtimeout" =>
        /\ watch \in Tests
        /\ Logged("RUN", watch) /\ Standing(watch) = "FAIL"
        /\ \A test \in Tests : Standing(test) # "running"

\* A destructive boot only completes by the PASS or FAIL of its own test,
\* before any END, and only with its container stopped by the host.
DestructiveCompletion ==
    verdict.kind = "completed" /\ termination # NoTest =>
        /\ Standing(termination) \in {"PASS", "FAIL"}
        /\ \A test \in Tests \ {termination} :
              Standing(test) \notin {"PASS", "FAIL"}
        /\ ~LoggedKind("END")
        /\ pc \in {"return", "done"} => ~stopFailed /\ container # "live"

\* A boot holds its share of the launch gate neither while its suite runs
\* nor once it has returned, however it ended.
PermitIsReturned == parser.began \/ pc = "done" => ~permit

\* A boot reported as unsupported has no results: a failure that was already
\* recorded is never hidden behind a missing capability.
UnsupportedHidesNothing == verdict.kind = "capability" => recorded = {}

\* A retry throws no verdict away.  It truncates results.log, so it never
\* follows a boot that had to end in its own test, a suite that was cut short,
\* a failed build, nor a missing capability: there are no records yet, or a
\* whole suite whose container failed after END, the one case in which results
\* are lost.
RetryDiscardsNoVerdict ==
    [][attempt' # attempt /\ attempt > 0 =>
          /\ termination = NoTest
          /\ \/ recorded = {} /\ status \notin {20, 22}
             \/ /\ LoggedKind("END") /\ status \notin {0, 20}
                /\ \A test \in Tests : Standing(test) # "running"]_vars

\* results.log, whatever the container writes, is a suite's ledger.
Ledger == INSTANCE SuiteLedger WITH
    opened <- LoggedKind("BEGIN") \/ LoggedKind("BEGIN_OTHER"),
    closed <- LoggedKind("END"),
    standing <- [test \in Tests |-> Standing(test)]

LedgerSpec == Ledger!Spec

-----------------------------------------------------------------------------
(* What the repository says and this code does not do.                     *)

\* The lifecycle self-check expects a suite that stops making progress
\* between two tests to end in Failure::Timeout ("suite deadline expired").
SuiteDeadlineIsTimeout ==
    [][pc = "check" /\ pc' = "stop" /\ ~cancelled /\ parser.active = NoTest
          => verdict'.kind = "timeout"]_vars

\* The README says that Ctrl-C does not abandon the container: it is gone
\* once the boot was cancelled, at least when no Podman command failed.
InterruptedContainerIsStopped ==
    pc = "done" /\ verdict.kind = "cancelled" /\ ~stopFailed
        => container # "live"
=============================================================================
