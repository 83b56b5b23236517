--------------------------- MODULE ResultProtocol ---------------------------
(***************************************************************************)
(* The line protocol between a guest suite and the host, as the host's     *)
(* strict parser understands it (host/cli/src/protocol.rs).                *)
(*                                                                         *)
(* A line is a record of its kind, the test it names (NoTest when it names *)
(* none) and the counters it declares (zero unless it is an END).  Wording *)
(* and field syntax are abstracted: a prefixed line whose fields do not    *)
(* parse is one of kind "MALFORMED", and a BEGIN naming another target     *)
(* than the requested one has the kind "BEGIN_OTHER".                      *)
(*                                                                         *)
(* A definition whose name ends in _Bug is a defect its successor does not *)
(* have: substituted for it, one at a time, it makes a property fail.      *)
(***************************************************************************)
EXTENDS Naturals, FiniteSets

CONSTANTS
    Tests,       \* the test names a guest may use
    NoTest,      \* the value None of Option<String>
    CounterMax   \* u32::MAX, the largest value of a counter

ASSUME ProtocolAssumption ==
    /\ IsFiniteSet(Tests)
    /\ NoTest \notin Tests
    /\ CounterMax \in Nat

Completions == {"PASS", "FAIL", "SKIP"}

\* Lines that start with the result prefix, and the other lines the host
\* gives a meaning to; TEXT is any other output.
RecordKinds ==
    {"BEGIN", "BEGIN_OTHER", "CAP", "RUN", "INFRA", "END", "MALFORMED"}
        \cup Completions
InfraKinds ==
    {"PREPARE_START", "BUILD_START", "BUILD_COMPLETE", "FVP_START",
     "CAPABILITY", "HARNESS_FAILURE", "TEXT"}

MaybeTest == Tests \cup {NoTest}
Counts == [Completions -> 0..CounterMax]
ZeroCounts == [k \in Completions |-> 0]

Lines == [kind : RecordKinds \cup InfraKinds, name : MaybeTest, counts : Counts]

Plain(kind) == [kind |-> kind, name |-> NoTest, counts |-> ZeroCounts]
About(kind, test) == [kind |-> kind, name |-> test, counts |-> ZeroCounts]
End(counts) == [kind |-> "END", name |-> NoTest, counts |-> counts]

-----------------------------------------------------------------------------

Parsers == [began : BOOLEAN, ended : BOOLEAN, active : MaybeTest,
            completed : SUBSET Tests, counts : Counts]

NewParser == [began |-> FALSE, ended |-> FALSE, active |-> NoTest,
              completed |-> {}, counts |-> ZeroCounts]

EnsureIdle_RunBug(parser, line) ==
    line.kind \in {"CAP", "END"} => parser.active = NoTest

\* The records that may only arrive between tests.
EnsureIdle(parser, line) ==
    line.kind \in {"CAP", "RUN", "END"} => parser.active = NoTest

NamesActive_AnyBug(parser, line) ==
    line.kind \in Completions \cup {"INFRA"} => parser.active # NoTest

\* The records that must name the test that is running.
NamesActive(parser, line) ==
    line.kind \in Completions \cup {"INFRA"} =>
        parser.active # NoTest /\ line.name = parser.active

\* The u32 counter of these completions can be incremented.
Countable(counts, kind) == counts[kind] < CounterMax

Counted(counts, kind) == [counts EXCEPT ![kind] = @ + 1]

CountsAgree_Bug(parser, line) ==
    line.kind = "END" =>
        \A kind \in {"PASS", "FAIL"} : line.counts[kind] = parser.counts[kind]

\* An END must declare the counters the parser observed.
CountsAgree(parser, line) ==
    line.kind = "END" => line.counts = parser.counts

\* parse_line returns Ok(Some(event)) exactly for these records.
Admissible(parser, line) ==
    /\ line.kind \in RecordKinds \ {"MALFORMED"}
    /\ ~parser.ended
    /\ parser.began <=> line.kind \notin {"BEGIN", "BEGIN_OTHER"}
    /\ EnsureIdle(parser, line)
    /\ NamesActive(parser, line)
    /\ line.kind = "RUN" => line.name \notin parser.completed
    /\ line.kind \in Completions =>
          /\ line.name \notin parser.completed
          /\ Countable(parser.counts, line.kind)
    /\ CountsAgree(parser, line)

\* The parser after an admissible record.
Absorb(parser, line) ==
    CASE line.kind \in {"BEGIN", "BEGIN_OTHER"} ->
            [parser EXCEPT !.began = TRUE]
      [] line.kind = "RUN" ->
            [parser EXCEPT !.active = line.name]
      [] line.kind \in Completions ->
            [parser EXCEPT !.active = NoTest,
                           !.completed = @ \cup {line.name},
                           !.counts = Counted(@, line.kind)]
      [] line.kind = "END" ->
            [parser EXCEPT !.ended = TRUE]
      [] OTHER -> parser

\* Parser::finish returns Ok exactly for these parsers.
Finished(parser) ==
    parser.began /\ parser.active = NoTest /\ parser.ended
=============================================================================
