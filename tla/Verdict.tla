------------------------------- MODULE Verdict -------------------------------
(***************************************************************************)
(* From the result of a boot to the report and the exit code of the CLI    *)
(* (run_target and classify_failure in host/cli/src/run.rs).               *)
(***************************************************************************)
EXTENDS Naturals

ExitCode == [Success |-> 0, TestsFailed |-> 1, BuildFailed |-> 2,
             StartupFailed |-> 3, Malformed |-> 4, Timeout |-> 5,
             Capability |-> 6, InvalidSetup |-> 7, Cancelled |-> 130]

Class(outcome, code) == [outcome |-> outcome, code |-> ExitCode[code]]

ByCounts_Bug(counts) ==
    IF counts["PASS"] > 0 THEN Class("passed", "Success")
    ELSE IF counts["FAIL"] > 0 THEN Class("failed", "TestsFailed")
    ELSE IF counts["SKIP"] > 0 THEN Class("unsupported", "Capability")
    ELSE Class("invalid", "InvalidSetup")

\* A completed boot, by its counts.
ByCounts(counts) ==
    IF counts["FAIL"] > 0 THEN Class("failed", "TestsFailed")
    ELSE IF counts["PASS"] > 0 THEN Class("passed", "Success")
    ELSE IF counts["SKIP"] > 0 THEN Class("unsupported", "Capability")
    ELSE Class("invalid", "InvalidSetup")

\* Anything else, by the kind of failure.
Classify(verdict) ==
    CASE verdict.kind = "completed" -> ByCounts(verdict.counts)
      [] verdict.kind \in {"timeout", "testtimeout"} ->
            Class("timeout", "Timeout")
      [] verdict.kind = "build" -> Class("build-error", "BuildFailed")
      [] verdict.kind = "capability" -> Class("unsupported", "Capability")
      [] verdict.kind = "harness" -> Class("harness-error", "Malformed")
      [] verdict.kind = "malformed" -> Class("malformed", "Malformed")
      [] verdict.kind = "cancelled" -> Class("cancelled", "Cancelled")
      [] OTHER -> Class("startup-error", "StartupFailed")  \* startup, io
=============================================================================
