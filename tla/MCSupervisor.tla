---------------------------- MODULE MCSupervisor ----------------------------
(* A container that may write any of these lines, in any order.            *)
EXTENDS Supervisor, TLC

CONSTANTS a, b

MCTests == {a, b}
MCSymmetry == Permutations(MCTests)

Tally(passed, failed, skipped) ==
    [k \in Completions |-> CASE k = "PASS" -> passed
                             [] k = "FAIL" -> failed
                             [] OTHER -> skipped]

\* Infrastructure lines, records without a test, records about each test,
\* and some of the ENDs.  The three phases of a build act alike, and so do
\* the records that are rejected in any state.  CAP, which changes nothing but
\* the log, is left to the guest of MCBoot.
Written ==
    {Plain(kind) : kind \in
        {"FVP_START", "BUILD_START", "CAPABILITY", "HARNESS_FAILURE", "TEXT",
         "MALFORMED", "BEGIN", "BEGIN_OTHER"}}
    \cup {About(kind, test) :
            kind \in {"RUN", "PASS", "FAIL", "SKIP", "INFRA"}, test \in MCTests}
    \cup {End(Tally(0, 0, 0)), End(Tally(1, 0, 0)), End(Tally(1, 1, 0)),
          End(Tally(1, 0, 1)), End(Tally(0, 0, 2))}

MCOutput ==
    {line \in Written : \A k \in Completions : line.counts[k] <= CounterMax}
=============================================================================
