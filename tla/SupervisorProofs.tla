-------------------------- MODULE SupervisorProofs --------------------------
(***************************************************************************)
(* Proofs about Supervisor for any tests, any lines a container may write, *)
(* any length of the channel and any number of launches.  The inductive    *)
(* invariant is TypeOK together with Control (what pc says of the other    *)
(* variables), LogInv (results.log and the parser tell the same story,     *)
(* until a record is lost), Earned (what a verdict rests on) and           *)
(* Repeatable (what a launch is repeated on).                              *)
(***************************************************************************)
EXTENDS Supervisor, FiniteSetTheorems, TLAPS

\* Where run_target is, and what that says of Podman and of the permit.  A
\* container that was never seen wrote no record.
Control ==
    /\ pc \in {"register", "check", "receive", "reap"} => verdict.kind = "none"
    /\ pc \in {"stop", "kill", "return", "done"} => verdict.kind # "none"
    /\ pc \notin {"register", "check", "receive"} => channel = <<>>
    /\ pc \in {"launch", "return", "done"} => child # "running"
    /\ pc = "launch" => ~permit
    /\ pc = "register" => parser = NewParser /\ recorded = {}
    /\ pc = "done" => ~permit
    /\ parser.began => ~permit
    /\ container = "absent" =>
          /\ parser = NewParser /\ recorded = {}
          /\ \A i \in 1..Len(channel) : channel[i].kind \in InfraKinds

Judged(test) == \E kind \in Completions : Logged(kind, test)
OfKind(kind) == {test \in Tests : Logged(kind, test)}

\* What results.log and the parser say of each other.
InStep ==
    /\ parser.began <=> LoggedKind("BEGIN") \/ LoggedKind("BEGIN_OTHER")
    /\ parser.ended <=> LoggedKind("END")
    /\ \A test \in Tests : test \in parser.completed <=> Judged(test)
    /\ \A test \in Tests :
          Logged("RUN", test) <=> test \in parser.completed \/ test = parser.active
    /\ \A kind \in Completions : parser.counts[kind] = Cardinality(OfKind(kind))
    /\ \A line \in recorded : line.kind = "END" => line.counts = parser.counts
    /\ parser.ended => parser.active = NoTest
    /\ ~parser.began => parser = NewParser /\ recorded = {}

\* No test has two verdicts in results.log.
OneVerdict ==
    \A test \in Tests, j, k \in Completions :
        Logged(j, test) /\ Logged(k, test) => j = k

\* Records that end a boot are only there once it has ended.
Ending ==
    /\ LoggedKind("BEGIN_OTHER") => verdict.kind = "malformed"
    /\ termination # NoTest /\ verdict.kind = "none" =>
          \A test \in Tests : ~Logged("PASS", test) /\ ~Logged("FAIL", test)

LogInv == OneVerdict /\ (verdict.kind # "io" => InStep /\ Ending)

Earned ==
    /\ verdict.kind = "completed" /\ termination = NoTest =>
          /\ pc \in {"return", "done"}
          /\ parser.ended /\ parser.active = NoTest
          /\ status = 0
          /\ verdict.counts = parser.counts
    /\ verdict.kind = "completed" /\ termination # NoTest =>
          /\ termination \in parser.completed
          /\ ~Logged("SKIP", termination)
          /\ \A test \in Tests \ {termination} :
                ~Logged("PASS", test) /\ ~Logged("FAIL", test)
          /\ ~parser.ended
          /\ verdict.counts = parser.counts
          /\ container # "absent"
          /\ pc # "stop" /\ ~stopFailed => container = "gone"
          /\ pc \in {"return", "done"} => ~stopFailed
    /\ verdict.kind = "testtimeout" =>
          /\ watch \in Tests /\ Logged("FAIL", watch)
          /\ verdict.counts = parser.counts
          /\ parser.active = NoTest
    /\ verdict.kind = "capability" => ~parser.began

\* A step of the supervisor and its world, whatever a container writes.
SupervisorStep ==
    \/ /\ Host \/ Environment \/ \E line \in Lines : ContainerWrites(line)
       /\ UNCHANGED termination
    \/ Terminated

\* What a launch is repeated on: a boot without records, or a whole suite.
Repeatable ==
    /\ verdict.kind = "startup" /\ transient =>
          /\ pc \in {"launch", "return", "done"}
          /\ termination = NoTest
          /\ \/ parser.ended /\ status \notin {0, 20}
             \/ ~parser.began /\ status \notin {20, 22}
    /\ pc = "launch" =>
          \/ attempt = 0 /\ container = "absent"
          \/ attempt # 0 /\ verdict.kind = "startup" /\ transient
    /\ attempt = 0 => pc = "launch"

\* The inductive invariant.
IInv == TypeOK /\ Control /\ LogInv /\ Earned /\ Repeatable

-----------------------------------------------------------------------------
(* The parser.                                                             *)

LEMMA NewParserTyped == NewParser \in Parsers /\ ZeroCounts \in Counts
  BY ProtocolAssumption
  DEF ProtocolAssumption, NewParser, Parsers, MaybeTest, Counts, ZeroCounts, Completions

LEMMA VerdictTyped ==
  ASSUME NEW kind \in {"none", "completed"} \cup FailureKinds
  PROVE  Verdict(kind) \in Verdicts /\ Verdict(kind).kind = kind
  BY NewParserTyped DEF Verdict, Verdicts

LEMMA RecordTyped ==
  ASSUME NEW kind \in RecordKinds \cup InfraKinds, NEW test \in MaybeTest
  PROVE  /\ About(kind, test) \in Lines
         /\ About(kind, test).kind = kind /\ About(kind, test).name = test
  BY NewParserTyped DEF About, Lines

\* A received record names a test that is known, when its kind names one, and
\* what the parser becomes.
LEMMA Absorbed ==
  ASSUME NEW p \in Parsers, NEW line \in Lines, Admissible(p, line)
  PROVE  /\ Absorb(p, line) \in Parsers
         /\ Absorb(p, line).began
         /\ line.kind \in RecordKinds /\ line.kind \notin InfraKinds
         /\ ~p.ended
         /\ line.kind \in {"BEGIN", "BEGIN_OTHER"} =>
               Absorb(p, line) = [p EXCEPT !.began = TRUE] /\ ~p.began
         /\ line.kind \notin {"BEGIN", "BEGIN_OTHER"} => p.began
         /\ line.kind = "RUN" =>
               /\ Absorb(p, line) = [p EXCEPT !.active = line.name]
               /\ p.active = NoTest /\ line.name \notin p.completed
         /\ line.kind \in Completions =>
               /\ Absorb(p, line) =
                     [p EXCEPT !.active = NoTest,
                               !.completed = p.completed \cup {line.name},
                               !.counts = [p.counts EXCEPT ![line.kind] = p.counts[line.kind] + 1]]
               /\ line.name = p.active /\ line.name \in Tests
               /\ line.name \notin p.completed
         /\ line.kind = "END" =>
               /\ Absorb(p, line) = [p EXCEPT !.ended = TRUE]
               /\ p.active = NoTest /\ line.counts = p.counts
         /\ line.kind \in {"CAP", "INFRA"} => Absorb(p, line) = p
<1>1. line.kind \in RecordKinds \ {"MALFORMED"}
  BY DEF Admissible
<1>2. CASE line.kind \in {"BEGIN", "BEGIN_OTHER"}
  BY <1>2, <1>1 DEF Admissible, Absorb, Parsers, Completions, InfraKinds, RecordKinds
<1>3. CASE line.kind = "RUN"
  BY <1>3, <1>1 DEF Admissible, EnsureIdle, Absorb, Parsers, Lines, Completions, InfraKinds, RecordKinds
<1>4. CASE line.kind \in Completions
  <2>1. p.counts \in Counts /\ p.counts[line.kind] < CounterMax /\ p.counts[line.kind] \in 0..CounterMax
    BY <1>4 DEF Admissible, Countable, Parsers, Counts
  <2>2. Counted(p.counts, line.kind) \in Counts
    BY <1>4, <2>1, ProtocolAssumption DEF Counted, Counts, ProtocolAssumption
  <2>3. line.name = p.active /\ line.name \in Tests /\ line.name \notin p.completed /\ p.began /\ ~p.ended
    BY <1>4 DEF Admissible, NamesActive, Parsers, MaybeTest, Completions
  <2>4. line.kind \notin {"BEGIN", "BEGIN_OTHER", "RUN", "END", "CAP", "INFRA"}
        /\ line.kind \notin InfraKinds
    BY <1>4 DEF Completions, InfraKinds
  <2>5. Absorb(p, line) = [p EXCEPT !.active = NoTest,
                           !.completed = p.completed \cup {line.name},
                           !.counts = Counted(p.counts, line.kind)]
    BY <1>4, <2>4 DEF Absorb
  <2>6. Absorb(p, line) \in Parsers /\ Absorb(p, line).began
    BY <2>2, <2>3, <2>5 DEF Parsers, MaybeTest
  <2> QED
    BY <1>1, <1>4, <2>3, <2>4, <2>5, <2>6 DEF Counted
<1>5. CASE line.kind = "END"
  BY <1>5, <1>1 DEF Admissible, EnsureIdle, CountsAgree, Absorb, Parsers, Completions, InfraKinds, RecordKinds
<1>6. CASE line.kind \in {"CAP", "INFRA"}
  BY <1>6, <1>1 DEF Admissible, Absorb, Parsers, Completions, InfraKinds, RecordKinds
<1> QED
  BY <1>1, <1>2, <1>3, <1>4, <1>5, <1>6 DEF RecordKinds

LEMMA AbsorbTyped ==
  ASSUME NEW p \in Parsers, NEW line \in Lines, Admissible(p, line)
  PROVE  Absorb(p, line) \in Parsers
  BY Absorbed, Zenon

-----------------------------------------------------------------------------
(* Types.                                                                  *)

LEMMA InitTyped == Init => TypeOK
<1> SUFFICES ASSUME Init PROVE TypeOK
  OBVIOUS
<1>1. parser \in Parsers /\ verdict \in Verdicts
  BY NewParserTyped, VerdictTyped DEF Init
<1>2. channel \in Seq(Lines)
  BY DEF Init
<1> QED
  BY <1>1, <1>2 DEF Init, TypeOK, MaybeTest, Statuses

LEMMA HeadTyped ==
  ASSUME channel \in Seq(Lines), channel # <<>>
  PROVE  NextLine \in Lines /\ Tail(channel) \in Seq(Lines)
         /\ Len(Tail(channel)) = Len(channel) - 1
         /\ Len(channel) \in Nat /\ Len(channel) >= 1
         /\ NextLine = channel[1]
         /\ \A i \in 1..Len(Tail(channel)) : Tail(channel)[i] = channel[i + 1]
  BY DEF NextLine

LEMMA FinishVerdictTyped ==
  ASSUME parser \in Parsers
  PROVE  /\ FinishVerdict \in Verdicts
         /\ FinishVerdict.kind \in {"malformed", "completed", "build", "startup", "capability"}
         /\ FinishVerdict.kind = "completed" =>
               /\ termination = NoTest /\ Finished(parser) /\ status = 0
               /\ FinishVerdict.counts = parser.counts
         /\ FinishVerdict.kind = "capability" => ~parser.began
<1>1. \A kind \in {"malformed", "build", "startup", "capability"} :
         Verdict(kind) \in Verdicts /\ Verdict(kind).kind = kind
  BY VerdictTyped DEF FailureKinds
<1>2. DEFINE done == [kind |-> "completed", counts |-> parser.counts]
<1>3. done \in Verdicts /\ done.kind = "completed" /\ done.counts = parser.counts
  BY DEF Verdicts, Parsers
<1> HIDE DEF done
<1>4. \/ FinishVerdict = done /\ termination = NoTest /\ Finished(parser) /\ status = 0
      \/ FinishVerdict = Verdict("capability") /\ ~parser.began
      \/ FinishVerdict \in {Verdict("malformed"), Verdict("build"), Verdict("startup")}
  <2>1. CASE termination # NoTest
    BY <2>1 DEF FinishVerdict
  <2>2. CASE termination = NoTest /\ parser.ended /\ ~Finished(parser)
    BY <2>2 DEF FinishVerdict
  <2>3. CASE termination = NoTest /\ parser.ended /\ Finished(parser)
    BY <2>3 DEF FinishVerdict, done
  <2>4. CASE termination = NoTest /\ ~parser.ended
    BY <2>4 DEF FinishVerdict
  <2> QED
    BY <2>1, <2>2, <2>3, <2>4
<1> QED
  BY <1>1, <1>3, <1>4

LEMMA TypeStep ==
  ASSUME TypeOK, [SupervisorStep]_vars
  PROVE  TypeOK'
<1> USE DEF TypeOK
<1>0. \A kind \in {"none", "completed"} \cup FailureKinds :
         Verdict(kind) \in Verdicts /\ Verdict(kind).kind = kind
  BY VerdictTyped
<1>e. <<>> \in Seq(Lines)
  OBVIOUS
<1>1. CASE Launch /\ UNCHANGED termination
  <2>1. parser' \in Parsers /\ verdict' \in Verdicts
    BY <1>1, <1>0, NewParserTyped DEF Launch
  <2>2. attempt' \in Nat
    BY <1>1 DEF Launch
  <2>3. watch' \in MaybeTest
    BY <1>1 DEF Launch, MaybeTest
  <2>4. recorded' \subseteq Lines
    BY <1>1 DEF Launch
  <2> QED
    BY <1>1, <2>1, <2>2, <2>3, <2>4 DEF Launch
<1>2. CASE (\E kind \in {"startup", "io"} : SpawnFails(kind)) /\ UNCHANGED termination
  <2>1. verdict' \in Verdicts
    BY <1>2, <1>0 DEF SpawnFails, FailureKinds
  <2>2. attempt' \in Nat
    BY <1>2 DEF SpawnFails
  <2>3. recorded' \subseteq Lines /\ parser' \in Parsers /\ transient' \in BOOLEAN
    <3>1. CASE recorded' = {} /\ parser' = NewParser /\ transient' = FALSE
      BY <3>1, NewParserTyped
    <3>2. CASE UNCHANGED <<recorded, parser, transient>>
      BY <3>2
    <3> QED
      BY <1>2, <3>1, <3>2 DEF SpawnFails
  <2> QED
    BY <1>2, <2>1, <2>2, <2>3 DEF SpawnFails
<1>3. CASE Registration /\ UNCHANGED termination
  <2>1. permit' \in BOOLEAN /\ pc' = "check"
    BY <1>3 DEF Registration
  <2>2. UNCHANGED <<termination, parser, watch, expired, stopFailed, verdict, recorded,
                    attempt, cancelled, channel, child, container, status, transient>>
    BY <1>3 DEF Registration, podman
  <2> QED
    BY <2>1, <2>2
<1>4. CASE (ObserveCancel \/ DeadlineExpires \/ ReadFails) /\ UNCHANGED termination
  <2>1. verdict' \in Verdicts
    BY <1>4, <1>0 DEF ObserveCancel, DeadlineExpires, ReadFails, Abort, Terminating, FailureKinds
  <2>2. pc' = "stop" /\ channel' = <<>>
    BY <1>4 DEF ObserveCancel, DeadlineExpires, ReadFails, Abort, Terminating
  <2>3. UNCHANGED <<termination, parser, watch, expired, permit, stopFailed, recorded,
                    attempt, cancelled, child, container, status, transient>>
    BY <1>4 DEF ObserveCancel, DeadlineExpires, ReadFails
  <2> QED
    BY <2>1, <2>2, <2>3, <1>e
<1>5. CASE WatchdogFires /\ UNCHANGED termination
  <2> DEFINE completion == About("FAIL", watch)
  <2>1. completion \in Lines
    BY RecordTyped DEF RecordKinds, Completions
  <2>2. parser' \in Parsers
    <3>1. parser' = parser \/ (Admissible(parser, completion) /\ parser' = Absorb(parser, completion))
      BY <1>5 DEF WatchdogFires
    <3> HIDE DEF completion
    <3> QED
      BY <2>1, <3>1, AbsorbTyped
  <2>3. recorded' \subseteq Lines
    BY <1>5, <2>1 DEF WatchdogFires
  <2>4. [kind |-> "testtimeout", counts |-> parser'.counts] \in Verdicts
    BY <2>2 DEF Verdicts, Parsers, FailureKinds
  <2>5. verdict' \in Verdicts
    BY <1>5, <1>0, <2>4 DEF WatchdogFires, WatchdogVerdict, Abort, Terminating, FailureKinds
  <2> QED
    BY <1>5, <2>2, <2>3, <2>5, <1>e DEF WatchdogFires, Abort, Terminating
<1>6. CASE (Poll \/ Quiet \/ Disconnected) /\ UNCHANGED termination
  BY <1>6 DEF Poll, Quiet, Disconnected, podman
<1>7. CASE (InfraFailure \/ Rejected) /\ UNCHANGED termination
  <2>1. verdict' \in Verdicts
    BY <1>7, <1>0 DEF InfraFailure, Rejected, Abort, Terminating, FailureKinds
  <2> QED
    BY <1>7, <2>1, <1>e DEF InfraFailure, Rejected, Receive, Abort, Terminating
<1>8. CASE Ignored /\ UNCHANGED termination
  BY <1>8, HeadTyped DEF Ignored, Receive
<1>9. CASE RecordLost /\ UNCHANGED termination
  <2>1. parser' \in Parsers
    BY <1>9, HeadTyped, AbsorbTyped DEF RecordLost, Receive
  <2>2. verdict' \in Verdicts
    BY <1>9, <1>0 DEF RecordLost, Abort, Terminating, FailureKinds
  <2> QED
    BY <1>9, <2>1, <2>2, <1>e DEF RecordLost, Receive, Abort, Terminating
<1>10. CASE Recorded /\ UNCHANGED termination
  <2>1. NextLine \in Lines /\ Tail(channel) \in Seq(Lines)
    BY <1>10, HeadTyped DEF Recorded, Receive
  <2>2. parser' \in Parsers /\ recorded' \subseteq Lines
    BY <1>10, <2>1, AbsorbTyped DEF Recorded
  <2>3. watch' \in MaybeTest
    BY <1>10, <2>1 DEF Recorded, Lines, MaybeTest
  <2>4. [kind |-> "completed", counts |-> parser'.counts] \in Verdicts
    BY <2>2 DEF Verdicts, Parsers
  <2>5. /\ verdict' \in Verdicts /\ channel' \in Seq(Lines)
        /\ pc' \in {"check", "stop"}
    BY <1>10, <1>0, <1>e, <2>1, <2>4 DEF Recorded, Concluding, Abort, Terminating, FailureKinds
  <2>6. permit' \in BOOLEAN /\ expired' \in BOOLEAN
    BY <1>10 DEF Recorded, Receive
  <2>7. UNCHANGED <<termination, stopFailed, attempt, cancelled, child, container, status, transient>>
    BY <1>10 DEF Recorded, Receive
  <2> QED
    BY <2>2, <2>3, <2>5, <2>6, <2>7
<1>11. CASE Finish /\ UNCHANGED termination
  <2>1. verdict' \in Verdicts
    BY <1>11, FinishVerdictTyped DEF Finish
  <2> QED
    BY <1>11, <2>1 DEF Finish, podman
<1>12. CASE StopContainer /\ UNCHANGED termination
  BY <1>12 DEF StopContainer
<1>13. CASE KillChild /\ UNCHANGED termination
  <2>1. verdict' \in Verdicts
    BY <1>13, <1>0 DEF KillChild, FailureKinds
  <2> QED
    BY <1>13, <2>1 DEF KillChild
<1>14. CASE Return /\ UNCHANGED termination
  BY <1>14 DEF Return, podman
<1>15. CASE (Expire \/ Interrupt \/ ContainerRegisters \/ ContainerExits
             \/ \E code \in Statuses : ChildExits(code)) /\ UNCHANGED termination
  <2>1. CASE Expire
    BY <1>15, <2>1 DEF Expire, podman
  <2>2. CASE Interrupt \/ ContainerRegisters \/ ContainerExits
    <3>1. CASE Interrupt
      <4>1. cancelled' \in BOOLEAN
        BY <3>1 DEF Interrupt
      <4>2. UNCHANGED <<termination, pc, parser, watch, expired, permit, stopFailed, verdict,
                        recorded, attempt, channel, child, container, status, transient>>
        BY <1>15, <3>1 DEF Interrupt, supervision, podman
      <4> QED
        BY <4>1, <4>2
    <3>2. CASE ContainerRegisters
      BY <1>15, <3>2 DEF ContainerRegisters, supervision
    <3>3. CASE ContainerExits
      BY <1>15, <3>3 DEF ContainerExits, supervision
    <3> QED
      BY <2>2, <3>1, <3>2, <3>3
  <2>3. ASSUME NEW code \in Statuses, ChildExits(code) PROVE TypeOK'
    BY <1>15, <2>3 DEF ChildExits, supervision
  <2> QED
    BY <1>15, <2>1, <2>2, <2>3
<1>16. CASE (\E line \in Lines : ContainerWrites(line)) /\ UNCHANGED termination
  <2>1. channel' \in Seq(Lines)
    BY <1>16 DEF ContainerWrites
  <2> QED
    BY <1>16, <2>1 DEF ContainerWrites, supervision
<1>17. CASE (ClientFails \/ HandshakeErrorRead) /\ UNCHANGED termination
  <2>1. CASE ClientFails
    BY <1>17, <2>1 DEF ClientFails, supervision, Statuses
  <2>2. CASE HandshakeErrorRead
    BY <1>17, <2>2 DEF HandshakeErrorRead
  <2> QED
    BY <1>17, <2>1, <2>2
<1>18. CASE UNCHANGED vars
  BY <1>18 DEF vars, supervision, podman
<1> QED
  BY <1>1, <1>2, <1>3, <1>4, <1>5, <1>6, <1>7, <1>8, <1>9, <1>10, <1>11, <1>12, <1>13,
     <1>14, <1>15, <1>16, <1>17, <1>18, SupervisorAssumption
  DEF SupervisorStep, SupervisorAssumption, Host, Environment, Terminated

-----------------------------------------------------------------------------
(* Control.                                                                *)

LEMMA InitControl == Init => Control
<1> SUFFICES ASSUME Init PROVE Control
  OBVIOUS
<1>1. NewParser.began = FALSE
  BY DEF NewParser
<1> QED
  BY <1>1, VerdictTyped DEF Init, Control

\* Leaving the loop.
LEMMA AbortsControlled ==
  ASSUME TypeOK, Control, pc \in {"check", "receive"}, pc' = "stop", channel' = <<>>,
         verdict'.kind # "none",
         UNCHANGED <<parser, recorded, child, container, transient>>,
         permit' => permit
  PROVE  Control'
  BY DEF Control, TypeOK

\* A line that came from a container that was seen.
LEMMA RecordSeen ==
  ASSUME TypeOK, Control, channel # <<>>, NextLine.kind \notin InfraKinds
  PROVE  container # "absent"
  BY HeadTyped DEF TypeOK, Control

LEMMA ControlStep ==
  ASSUME TypeOK, Control, [SupervisorStep]_vars
  PROVE  Control'
<1>0. \A kind \in {"none", "completed"} \cup FailureKinds : Verdict(kind).kind = kind
  BY VerdictTyped
<1>n. /\ NewParser.began = FALSE
      /\ <<>> \in Seq(Lines) /\ Len(<<>>) = 0
  BY DEF NewParser
<1>1. CASE Launch /\ UNCHANGED termination
  <2>1. verdict'.kind = "none"
    BY <1>0, <1>1 DEF Launch
  <2>2. channel' = <<>>
    BY <1>1 DEF Launch, Control
  <2> QED
    BY <1>1, <1>n, <2>1, <2>2 DEF Launch, Control
<1>2. CASE (\E kind \in {"startup", "io"} : SpawnFails(kind)) /\ UNCHANGED termination
  <2>1. verdict'.kind \in {"startup", "io"}
    BY <1>0, <1>2 DEF SpawnFails, FailureKinds
  <2> QED
    BY <1>2, <2>1 DEF SpawnFails, Control
<1>3. CASE Registration /\ UNCHANGED termination
  BY <1>3, <1>n DEF Registration, podman, Control
<1>4. CASE (ObserveCancel \/ DeadlineExpires \/ ReadFails) /\ UNCHANGED termination
  <2>1. verdict'.kind # "none"
    BY <1>0, <1>4 DEF ObserveCancel, DeadlineExpires, ReadFails, Abort, Terminating, FailureKinds
  <2> QED
    BY <1>4, <2>1, AbortsControlled
    DEF ObserveCancel, DeadlineExpires, ReadFails, Abort, Terminating
<1>5. CASE WatchdogFires /\ UNCHANGED termination
  <2> DEFINE completion == About("FAIL", watch)
  <2>1. completion \in Lines /\ completion.kind = "FAIL"
    BY RecordTyped DEF RecordKinds, Completions, TypeOK
  <2>2. /\ pc = "check" /\ pc' = "stop" /\ channel' = <<>>
        /\ UNCHANGED <<permit, child, container, transient>>
    BY <1>5 DEF WatchdogFires, Abort, Terminating
  <2>3. verdict'.kind # "none"
    BY <1>0, <1>5 DEF WatchdogFires, WatchdogVerdict, Abort, Terminating, FailureKinds
  <2>4. CASE Admissible(parser, completion)
    <3>1. parser.began
      BY <2>1, <2>4, Absorbed DEF TypeOK, Completions
    <3>2. container # "absent" /\ ~permit
      BY <1>n, <3>1 DEF Control
    <3> QED
      BY <2>2, <2>3, <3>2 DEF Control
  <2>5. CASE ~Admissible(parser, completion)
    <3>1. UNCHANGED <<parser, recorded>>
      BY <1>5, <2>5 DEF WatchdogFires
    <3> QED
      BY <2>2, <2>3, <3>1, AbortsControlled
  <2> QED
    BY <2>4, <2>5
<1>6. CASE (Poll \/ Quiet \/ Disconnected) /\ UNCHANGED termination
  BY <1>6 DEF Poll, Quiet, Disconnected, podman, Control
<1>7. CASE (InfraFailure \/ Rejected) /\ UNCHANGED termination
  <2>1. verdict'.kind # "none"
    BY <1>0, <1>7 DEF InfraFailure, Rejected, Abort, Terminating, FailureKinds
  <2> QED
    BY <1>7, <2>1, AbortsControlled DEF InfraFailure, Rejected, Receive, Abort, Terminating
<1>8. CASE Ignored /\ UNCHANGED termination
  <2>1. /\ pc = "receive" /\ pc' = "check" /\ permit' = FALSE
        /\ UNCHANGED <<parser, verdict, recorded, child, container, transient>>
        /\ channel # <<>> /\ channel' = Tail(channel)
    BY <1>8 DEF Ignored, Receive
  <2>2. container = "absent" => \A i \in 1..Len(channel') : channel'[i].kind \in InfraKinds
    BY <2>1, HeadTyped DEF TypeOK, Control
  <2> QED
    BY <2>1, <2>2 DEF Control
<1>9. CASE RecordLost /\ UNCHANGED termination
  <2>1. channel # <<>> /\ NextLine \in Lines /\ NextLine.kind \notin InfraKinds
    BY <1>9, HeadTyped, Absorbed DEF RecordLost, Receive, TypeOK
  <2>2. container # "absent"
    BY <2>1, RecordSeen
  <2>3. verdict'.kind # "none"
    BY <1>0, <1>9 DEF RecordLost, Abort, Terminating, FailureKinds
  <2> QED
    BY <1>9, <2>2, <2>3 DEF RecordLost, Receive, Abort, Terminating, Control
<1>10. CASE Recorded /\ UNCHANGED termination
  <2>1. channel # <<>> /\ NextLine \in Lines /\ NextLine.kind \notin InfraKinds
    BY <1>10, HeadTyped, Absorbed DEF Recorded, Receive, TypeOK
  <2>2. container # "absent"
    BY <2>1, RecordSeen
  <2>3. \/ pc' = "stop" /\ verdict'.kind # "none" /\ channel' = <<>>
        \/ pc' = "check" /\ verdict' = verdict
    BY <1>0, <1>10 DEF Recorded, Concluding, Abort, Terminating, FailureKinds
  <2>4. pc = "receive" /\ permit' = FALSE /\ UNCHANGED <<child, container, transient>>
    BY <1>10 DEF Recorded, Receive
  <2> QED
    BY <2>2, <2>3, <2>4 DEF Control
<1>11. CASE Finish /\ UNCHANGED termination
  BY <1>11, FinishVerdictTyped DEF Finish, podman, Control, TypeOK
<1>12. CASE StopContainer /\ UNCHANGED termination
  <2>1. container' = "absent" => container = "absent"
    BY <1>12 DEF StopContainer
  <2> QED
    BY <1>12, <2>1 DEF StopContainer, Control
<1>13. CASE KillChild /\ UNCHANGED termination
  <2>1. verdict'.kind # "none"
    BY <1>0, <1>13 DEF KillChild, Control, FailureKinds
  <2> QED
    BY <1>13, <2>1 DEF KillChild, Control
<1>14. CASE Return /\ UNCHANGED termination
  BY <1>14 DEF Return, Retryable, podman, Control
<1>15. CASE (Expire \/ Interrupt) /\ UNCHANGED termination
  BY <1>15 DEF Expire, Interrupt, supervision, podman, Control
<1>16. CASE (ContainerRegisters \/ ContainerExits) /\ UNCHANGED termination
  BY <1>16 DEF ContainerRegisters, ContainerExits, supervision, Control
<1>17. CASE (ClientFails \/ \E code \in Statuses : ChildExits(code)) /\ UNCHANGED termination
  BY <1>17 DEF ClientFails, ChildExits, supervision, Control
<1>18. CASE (\E line \in Lines : ContainerWrites(line)) /\ UNCHANGED termination
  BY <1>18 DEF ContainerWrites, supervision, Control
<1>19. CASE HandshakeErrorRead /\ UNCHANGED termination
  BY <1>19 DEF HandshakeErrorRead, Control
<1>20. CASE UNCHANGED vars
  BY <1>20 DEF vars, supervision, podman, Control
<1> QED
  BY <1>1, <1>2, <1>3, <1>4, <1>5, <1>6, <1>7, <1>8, <1>9, <1>10, <1>11, <1>12, <1>13,
     <1>14, <1>15, <1>16, <1>17, <1>18, <1>19, <1>20, SupervisorAssumption
  DEF SupervisorStep, SupervisorAssumption, Host, Environment, Terminated

-----------------------------------------------------------------------------
(* results.log.                                                            *)

\* An empty log and a new parser.
LEMMA NothingLogged ==
  parser = NewParser /\ recorded = {} => InStep /\ OneVerdict /\ Ending
<1> SUFFICES ASSUME parser = NewParser, recorded = {}
             PROVE  InStep /\ OneVerdict /\ Ending
  OBVIOUS
<1>1. \A kind, test : ~Logged(kind, test)
  BY DEF Logged
<1>2. \A kind : ~LoggedKind(kind)
  BY DEF LoggedKind
<1>3. \A kind : OfKind(kind) = {}
  BY <1>1 DEF OfKind
<1>4. \A kind \in Completions : NewParser.counts[kind] = Cardinality(OfKind(kind))
  BY <1>3, FS_EmptySet DEF NewParser, ZeroCounts
<1>5. /\ NewParser.began = FALSE /\ NewParser.ended = FALSE
      /\ NewParser.active = NoTest /\ NewParser.completed = {}
  BY DEF NewParser
<1>6. NoTest \notin Tests
  BY ProtocolAssumption DEF ProtocolAssumption
<1> QED
  BY <1>1, <1>2, <1>4, <1>5, <1>6 DEF InStep, OneVerdict, Ending, Judged

LEMMA LogStarted ==
  parser' = NewParser /\ recorded' = {} => (InStep /\ OneVerdict /\ Ending)'
<1>1. (parser = NewParser /\ recorded = {})' => (InStep /\ OneVerdict /\ Ending)'
  BY NothingLogged, PTL
<1> QED
  BY <1>1

LEMMA OfKindFinite == ASSUME NEW kind PROVE IsFiniteSet(OfKind(kind))
  BY ProtocolAssumption, FS_Subset DEF OfKind, ProtocolAssumption

\* A record is absorbed and kept.
LEMMA RecordKept ==
  ASSUME parser \in Parsers, recorded \subseteq Lines, InStep, OneVerdict,
         NEW line \in Lines, Admissible(parser, line),
         parser' = Absorb(parser, line), recorded' = recorded \cup {line}
  PROVE  InStep' /\ OneVerdict'
<1>1. \A kind, test :
         Logged(kind, test)' <=> Logged(kind, test) \/ (line.kind = kind /\ line.name = test)
  BY DEF Logged
<1>2. \A kind : LoggedKind(kind)' <=> LoggedKind(kind) \/ line.kind = kind
  BY DEF LoggedKind
<1>3. \A test : Judged(test)' <=>
         Judged(test) \/ (line.kind \in Completions /\ line.name = test)
  BY <1>1 DEF Judged
<1>4. NoTest \notin Tests
  BY ProtocolAssumption DEF ProtocolAssumption
<1>5. parser.active \in Tests \cup {NoTest} /\ parser.began \in BOOLEAN /\ parser.ended \in BOOLEAN
      /\ parser.counts \in Counts
  BY DEF Parsers, MaybeTest
<1>6. parser' \in Parsers /\ parser'.began /\ ~parser.ended
  BY Absorbed
<1>7. \A l \in recorded : l.kind # "END"
  BY <1>6 DEF InStep, LoggedKind
<1>8. CASE line.kind \in {"BEGIN", "BEGIN_OTHER"}
  <2>1. parser' = [parser EXCEPT !.began = TRUE] /\ ~parser.began
    BY <1>8, Absorbed
  <2>2. /\ UNCHANGED <<parser.ended, parser.active, parser.completed, parser.counts>>
    BY <2>1 DEF Parsers
  <2>3. \A kind \in Completions : OfKind(kind)' = OfKind(kind)
    BY <1>1, <1>8 DEF OfKind, Completions
  <2>4. line.kind \notin Completions /\ line.kind # "RUN" /\ line.kind # "END"
    BY <1>8 DEF Completions
  <2>5. OneVerdict'
    BY <1>1, <2>4 DEF OneVerdict
  <2>6. \A kind \in Completions : parser'.counts[kind] = Cardinality(OfKind(kind))'
    BY <2>2, <2>3 DEF InStep
  <2> QED
    BY <1>1, <1>2, <1>3, <1>6, <1>7, <1>8, <2>2, <2>4, <2>5, <2>6 DEF InStep
<1>9. CASE line.kind = "RUN"
  <2>1. /\ parser' = [parser EXCEPT !.active = line.name]
        /\ parser.active = NoTest /\ line.name \notin parser.completed /\ parser.began
    BY <1>9, Absorbed
  <2>2. /\ UNCHANGED <<parser.ended, parser.completed, parser.counts>>
        /\ parser'.active = line.name
    BY <2>1 DEF Parsers
  <2>3. \A kind \in Completions : OfKind(kind)' = OfKind(kind)
    BY <1>1, <1>9 DEF OfKind, Completions
  <2>4. line.kind \notin Completions
    BY <1>9 DEF Completions
  <2>5. OneVerdict'
    BY <1>1, <2>4 DEF OneVerdict
  <2>6. \A kind \in Completions : parser'.counts[kind] = Cardinality(OfKind(kind))'
    BY <2>2, <2>3 DEF InStep
  <2>7. \A test \in Tests :
          Logged("RUN", test)' <=> test \in parser'.completed \/ test = parser'.active
    BY <1>1, <1>4, <1>9, <2>1, <2>2 DEF InStep
  <2> QED
    BY <1>1, <1>2, <1>3, <1>6, <1>7, <1>9, <2>1, <2>2, <2>4, <2>5, <2>6, <2>7 DEF InStep
<1>10. CASE line.kind \in Completions
  <2>1. /\ parser' = [parser EXCEPT !.active = NoTest,
                               !.completed = parser.completed \cup {line.name},
                               !.counts = [parser.counts EXCEPT ![line.kind] = parser.counts[line.kind] + 1]]
        /\ line.name = parser.active /\ line.name \in Tests
        /\ line.name \notin parser.completed
    BY <1>10, Absorbed
  <2>2. /\ parser'.ended = parser.ended /\ parser'.began = parser.began
        /\ parser'.completed = parser.completed \cup {line.name}
        /\ parser'.active = NoTest
        /\ parser'.counts = [parser.counts EXCEPT ![line.kind] = parser.counts[line.kind] + 1]
    BY <2>1 DEF Parsers
  <2>3. line.kind \notin {"BEGIN", "BEGIN_OTHER", "RUN", "END"}
    BY <1>10 DEF Completions
  <2>4. ~Judged(line.name)
    BY <2>1 DEF InStep
  <2>5. OneVerdict'
    BY <1>1, <2>3, <2>4, <1>10 DEF OneVerdict, Judged
  <2>6. ASSUME NEW kind \in Completions
        PROVE  parser'.counts[kind] = Cardinality(OfKind(kind))'
    <3>1. parser.counts[kind] = Cardinality(OfKind(kind))
      BY DEF InStep
    <3>2. CASE kind = line.kind
      <4>1. OfKind(kind)' = OfKind(kind) \cup {line.name} /\ line.name \notin OfKind(kind)
        BY <1>1, <1>10, <2>1, <2>4, <3>2 DEF OfKind, Judged
      <4>2. Cardinality(OfKind(kind) \cup {line.name}) = Cardinality(OfKind(kind)) + 1
        BY <4>1, OfKindFinite, FS_AddElement
      <4>3. parser'.counts[kind] = parser.counts[kind] + 1
        BY <1>5, <2>2, <3>2 DEF Counts
      <4> QED
        BY <3>1, <4>1, <4>2, <4>3
    <3>3. CASE kind # line.kind
      <4>1. OfKind(kind)' = OfKind(kind)
        BY <1>1, <3>3 DEF OfKind
      <4>2. parser'.counts[kind] = parser.counts[kind]
        BY <1>5, <1>10, <2>2, <3>3 DEF Counts
      <4> QED
        BY <3>1, <4>1, <4>2
    <3> QED
      BY <3>2, <3>3
  <2>7. \A test \in Tests :
          Logged("RUN", test)' <=> test \in parser'.completed \/ test = parser'.active
    BY <1>1, <1>4, <2>1, <2>2, <2>3 DEF InStep
  <2> QED
    BY <1>2, <1>3, <1>6, <1>7, <1>10, <2>1, <2>2, <2>3, <2>5, <2>6, <2>7 DEF InStep
<1>11. CASE line.kind = "END"
  <2>1. /\ parser' = [parser EXCEPT !.ended = TRUE]
        /\ parser.active = NoTest /\ line.counts = parser.counts /\ parser.began
    BY <1>11, Absorbed
  <2>2. /\ UNCHANGED <<parser.active, parser.completed, parser.counts>>
        /\ parser'.ended
    BY <2>1 DEF Parsers
  <2>3. \A kind \in Completions : OfKind(kind)' = OfKind(kind)
    BY <1>1, <1>11 DEF OfKind, Completions
  <2>4. line.kind \notin Completions
    BY <1>11 DEF Completions
  <2>5. OneVerdict'
    BY <1>1, <2>4 DEF OneVerdict
  <2>6. \A kind \in Completions : parser'.counts[kind] = Cardinality(OfKind(kind))'
    BY <2>2, <2>3 DEF InStep
  <2>7. \A l \in recorded' : l.kind = "END" => l.counts = parser'.counts
    BY <1>7, <2>1, <2>2
  <2> QED
    BY <1>1, <1>2, <1>3, <1>6, <1>11, <2>1, <2>2, <2>4, <2>5, <2>6, <2>7 DEF InStep
<1>12. CASE line.kind \in {"CAP", "INFRA"}
  <2>1. parser' = parser /\ parser.began
    BY <1>12, Absorbed
  <2>3. \A kind \in Completions : OfKind(kind)' = OfKind(kind)
    BY <1>1, <1>12 DEF OfKind, Completions
  <2>4. line.kind \notin Completions /\ line.kind \notin {"BEGIN", "BEGIN_OTHER", "RUN", "END"}
    BY <1>12 DEF Completions
  <2>5. OneVerdict'
    BY <1>1, <2>4 DEF OneVerdict
  <2>6. \A kind \in Completions : parser'.counts[kind] = Cardinality(OfKind(kind))'
    BY <2>1, <2>3 DEF InStep
  <2> QED
    BY <1>1, <1>2, <1>3, <1>7, <1>12, <2>1, <2>4, <2>5, <2>6 DEF InStep
<1>13. line.kind \in {"BEGIN", "BEGIN_OTHER", "CAP", "RUN", "INFRA", "END"} \cup Completions
  BY DEF Admissible, RecordKinds
<1> QED
  BY <1>8, <1>9, <1>10, <1>11, <1>12, <1>13

\* The log and the parser are left alone; a verdict is reached or kept.
LEMMA LogKept ==
  ASSUME LogInv, UNCHANGED <<termination, parser, recorded>>,
         \/ verdict' = verdict
         \/ verdict.kind = "none" /\ verdict'.kind # "none"
         \/ verdict'.kind = "io"
  PROVE  LogInv'
<1>1. OneVerdict'
  BY DEF LogInv, OneVerdict, Logged
<1>2. ASSUME verdict.kind # "io", verdict'.kind # "io"
      PROVE  InStep' /\ Ending'
  <2>1. InStep'
    BY <1>2 DEF LogInv, InStep, LoggedKind, Logged, Judged, OfKind
  <2>2. Ending'
    BY <1>2 DEF LogInv, Ending, LoggedKind, Logged
  <2> QED
    BY <2>1, <2>2
<1> QED
  BY <1>1, <1>2 DEF LogInv

\* The host's own FAIL.
LEMMA WatchdogLogged ==
  ASSUME TypeOK, Control, LogInv, WatchdogFires, UNCHANGED termination
  PROVE  LogInv'
<1> DEFINE completion == About("FAIL", watch)
<1>0. \A kind \in {"none", "completed"} \cup FailureKinds : Verdict(kind).kind = kind
  BY VerdictTyped
<1>1. completion \in Lines /\ completion.kind = "FAIL"
  BY RecordTyped DEF RecordKinds, Completions, TypeOK
<1>2. verdict.kind = "none" /\ InStep /\ OneVerdict /\ Ending
  BY DEF WatchdogFires, Control, LogInv
<1>3. CASE /\ Admissible(parser, completion) /\ parser' = Absorb(parser, completion)
           /\ recorded' = recorded \cup {completion}
           /\ verdict' = [kind |-> "testtimeout", counts |-> parser'.counts]
  <2> HIDE DEF completion
  <2>1. InStep' /\ OneVerdict'
    BY <1>1, <1>2, <1>3, RecordKept DEF TypeOK
  <2>2. Ending'
    BY <1>1, <1>2, <1>3 DEF Ending, LoggedKind
  <2> QED
    BY <2>1, <2>2 DEF LogInv
<1>4. CASE verdict' = Verdict("io") /\ UNCHANGED recorded
  BY <1>0, <1>2, <1>4 DEF LogInv, OneVerdict, Logged, FailureKinds
<1>5. CASE verdict' = Verdict("malformed") /\ UNCHANGED <<parser, recorded>>
  <2>1. verdict'.kind = "malformed"
    BY <1>0, <1>5 DEF FailureKinds
  <2> QED
    BY <1>2, <1>5, <2>1, LogKept
<1> QED
  BY <1>3, <1>4, <1>5 DEF WatchdogFires, WatchdogVerdict, Abort, Terminating

\* A record of the container.
LEMMA RecordLogged ==
  ASSUME TypeOK, Control, LogInv, Recorded, UNCHANGED termination
  PROVE  LogInv'
<1>0. \A kind \in {"none", "completed"} \cup FailureKinds : Verdict(kind).kind = kind
  BY VerdictTyped
<1>1. NextLine \in Lines /\ Admissible(parser, NextLine)
  BY HeadTyped DEF Recorded, Receive, TypeOK
<1>2. verdict.kind = "none" /\ InStep /\ OneVerdict /\ Ending
  BY DEF Recorded, Receive, Control, LogInv
<1>3. parser' = Absorb(parser, NextLine) /\ recorded' = recorded \cup {NextLine}
  BY DEF Recorded
<1>4. InStep' /\ OneVerdict'
  <2> DEFINE line == NextLine
  <2>1. line \in Lines /\ Admissible(parser, line)
        /\ parser' = Absorb(parser, line) /\ recorded' = recorded \cup {line}
    BY <1>1, <1>3
  <2> HIDE DEF line
  <2> QED
    BY <1>2, <2>1, RecordKept DEF TypeOK
<1>5. (LoggedKind("BEGIN_OTHER"))' => verdict'.kind = "malformed"
  <2>1. (LoggedKind("BEGIN_OTHER"))' <=> NextLine.kind = "BEGIN_OTHER"
    BY <1>2, <1>3 DEF Ending, LoggedKind
  <2>2. NextLine.kind = "BEGIN_OTHER" => verdict' = Verdict("malformed")
    BY DEF Recorded, Concluding, Abort, Terminating
  <2> QED
    BY <1>0, <2>1, <2>2 DEF FailureKinds
<1>6. ASSUME termination # NoTest, verdict'.kind = "none"
      PROVE  \A test \in Tests : (~Logged("PASS", test) /\ ~Logged("FAIL", test))'
  <2>1. NextLine.kind \notin {"PASS", "FAIL"}
    BY <1>0, <1>6 DEF Recorded, Concluding, Abort, Terminating, FailureKinds
  <2>2. \A test \in Tests : ~Logged("PASS", test) /\ ~Logged("FAIL", test)
    BY <1>2, <1>6 DEF Ending
  <2> QED
    BY <1>3, <2>1, <2>2 DEF Logged
<1> QED
  BY <1>4, <1>5, <1>6 DEF LogInv, Ending

LEMMA LogStep ==
  ASSUME TypeOK, Control, LogInv, [SupervisorStep]_vars
  PROVE  LogInv'
<1>0. \A kind \in {"none", "completed"} \cup FailureKinds : Verdict(kind).kind = kind
  BY VerdictTyped
<1>1. CASE Launch /\ UNCHANGED termination
  BY <1>1, LogStarted DEF Launch, LogInv
<1>2. CASE (\E kind \in {"startup", "io"} : SpawnFails(kind)) /\ UNCHANGED termination
  <2>1. CASE parser' = NewParser /\ recorded' = {}
    BY <2>1, LogStarted DEF LogInv
  <2>2. CASE UNCHANGED recorded /\ verdict' = Verdict("io")
    BY <1>0, <2>2 DEF LogInv, OneVerdict, Logged, FailureKinds
  <2> QED
    BY <1>2, <2>1, <2>2 DEF SpawnFails
<1>3. CASE (Registration \/ Poll \/ Quiet \/ Disconnected \/ Ignored \/ HandshakeErrorRead
            \/ StopContainer \/ Return) /\ UNCHANGED termination
  <2>1. UNCHANGED <<termination, parser, recorded, verdict>>
    BY <1>3 DEF Registration, Poll, Quiet, Disconnected, Ignored, HandshakeErrorRead,
                StopContainer, Return
  <2> QED
    BY <2>1, LogKept
<1>4. CASE (ObserveCancel \/ DeadlineExpires \/ ReadFails \/ InfraFailure \/ Rejected \/ Finish)
           /\ UNCHANGED termination
  <2>1. verdict.kind = "none" /\ UNCHANGED <<termination, parser, recorded>>
    BY <1>4 DEF ObserveCancel, DeadlineExpires, ReadFails, InfraFailure, Rejected, Finish,
                Receive, Control
  <2>2. verdict'.kind # "none"
    BY <1>0, <1>4, FinishVerdictTyped
    DEF ObserveCancel, DeadlineExpires, ReadFails, InfraFailure, Rejected, Finish,
        Abort, Terminating, FailureKinds, TypeOK
  <2> QED
    BY <2>1, <2>2, LogKept
<1>5. CASE WatchdogFires /\ UNCHANGED termination
  BY <1>5, WatchdogLogged
<1>6. CASE RecordLost /\ UNCHANGED termination
  <2>1. verdict'.kind = "io" /\ recorded' = recorded
    BY <1>0, <1>6 DEF RecordLost, Abort, Terminating, FailureKinds
  <2> QED
    BY <2>1 DEF LogInv, OneVerdict, Logged
<1>7. CASE Recorded /\ UNCHANGED termination
  BY <1>7, RecordLogged
<1>8. CASE KillChild /\ UNCHANGED termination
  <2>1. verdict' = verdict \/ verdict'.kind = "io"
    BY <1>0, <1>8 DEF KillChild, FailureKinds
  <2>2. UNCHANGED <<termination, parser, recorded>>
    BY <1>8 DEF KillChild
  <2> QED
    BY <2>1, <2>2, LogKept
<1>9. CASE (Environment \/ \E line \in Lines : ContainerWrites(line)) /\ UNCHANGED termination
  <2>1. UNCHANGED <<termination, parser, recorded, verdict>>
    BY <1>9 DEF Environment, Expire, Interrupt, ContainerRegisters, ContainerWrites,
                ContainerExits, ChildExits, ClientFails, supervision
  <2> QED
    BY <2>1, LogKept
<1>10. CASE UNCHANGED vars
  BY <1>10, LogKept DEF vars, supervision
<1> QED
  BY <1>1, <1>2, <1>3, <1>4, <1>5, <1>6, <1>7, <1>8, <1>9, <1>10
  DEF SupervisorStep, Host, Terminated

-----------------------------------------------------------------------------
(* What a verdict rests on.                                                *)

\* A destructive boot ends in the record of its own test.
LEMMA CompletionEarned ==
  ASSUME TypeOK, Control, LogInv, Recorded, UNCHANGED termination,
         verdict'.kind = "completed"
  PROVE  Earned'
<1>0. \A kind \in {"none", "completed"} \cup FailureKinds : Verdict(kind).kind = kind
  BY VerdictTyped
<1>1. /\ NextLine \in Lines /\ Admissible(parser, NextLine)
      /\ parser' = Absorb(parser, NextLine) /\ recorded' = recorded \cup {NextLine}
  BY HeadTyped DEF Recorded, Receive, TypeOK
<1>2. verdict.kind = "none" /\ InStep /\ Ending
  BY DEF Recorded, Receive, Control, LogInv
<1>3. /\ termination # NoTest /\ NextLine.kind \in {"PASS", "FAIL"}
      /\ NextLine.name = termination
      /\ verdict' = [kind |-> "completed", counts |-> parser'.counts]
      /\ pc' = "stop"
  BY <1>0, <1>2 DEF Recorded, Concluding, Abort, Terminating, FailureKinds
<1>4. termination \in parser'.completed /\ ~parser'.ended /\ termination \in Tests
  <2>1. /\ parser' = [parser EXCEPT !.active = NoTest,
                              !.completed = parser.completed \cup {NextLine.name},
                              !.counts = [parser.counts EXCEPT ![NextLine.kind] = parser.counts[NextLine.kind] + 1]]
        /\ NextLine.name \in Tests /\ ~parser.ended
    <3> DEFINE line == NextLine
    <3>1. line.kind \in Completions
      BY <1>3 DEF Completions
    <3>2. line \in Lines /\ Admissible(parser, line) /\ parser' = Absorb(parser, line)
      BY <1>1
    <3> HIDE DEF line
    <3>3. /\ parser' = [parser EXCEPT !.active = NoTest,
                              !.completed = parser.completed \cup {line.name},
                              !.counts = [parser.counts EXCEPT ![line.kind] = parser.counts[line.kind] + 1]]
          /\ line.name \in Tests /\ ~parser.ended
      BY <3>1, <3>2, Absorbed DEF TypeOK
    <3> QED
      BY <3>3 DEF line
  <2> QED
    BY <1>3, <2>1 DEF TypeOK, Parsers
<1>5. Logged("PASS", termination)' \/ Logged("FAIL", termination)'
  BY <1>1, <1>3 DEF Logged
<1>6. ~Logged("SKIP", termination)'
  <2>1. OneVerdict'
    BY RecordLogged DEF LogInv
  <2>2. (\A test \in Tests, j, k \in Completions : Logged(j, test) /\ Logged(k, test) => j = k)'
    BY <2>1 DEF OneVerdict
  <2> QED
    BY <1>4, <1>5, <2>2 DEF Completions
<1>7. \A test \in Tests \ {termination} : (~Logged("PASS", test) /\ ~Logged("FAIL", test))'
  <2>1. \A test \in Tests : ~Logged("PASS", test) /\ ~Logged("FAIL", test)
    BY <1>2, <1>3 DEF Ending
  <2> QED
    BY <1>1, <1>3, <2>1 DEF Logged
<1>8. container' # "absent"
  <2>1. NextLine.kind \notin InfraKinds /\ channel # <<>>
    BY <1>3 DEF InfraKinds, Recorded, Receive
  <2>2. container # "absent"
    BY <2>1, RecordSeen
  <2> QED
    BY <2>2 DEF Recorded, Receive
<1>9. verdict'.counts = parser'.counts
  BY <1>3
<1> QED
  BY <1>3, <1>4, <1>6, <1>7, <1>8, <1>9 DEF Earned

\* The host's own FAIL is about the test that runs.
LEMMA TimeoutEarned ==
  ASSUME TypeOK, Control, LogInv, WatchdogFires, UNCHANGED termination
  PROVE  Earned'
<1> DEFINE completion == About("FAIL", watch)
<1>0. \A kind \in {"none", "completed"} \cup FailureKinds : Verdict(kind).kind = kind
  BY VerdictTyped
<1>1. completion \in Lines /\ completion.kind = "FAIL" /\ completion.name = watch
  BY RecordTyped DEF RecordKinds, Completions, TypeOK
<1>2. CASE /\ Admissible(parser, completion) /\ parser' = Absorb(parser, completion)
           /\ recorded' = recorded \cup {completion}
           /\ verdict' = [kind |-> "testtimeout", counts |-> parser'.counts]
           /\ watch' = watch
  <2> HIDE DEF completion
  <2>1. /\ parser' = [parser EXCEPT !.active = NoTest,
                           !.completed = parser.completed \cup {completion.name},
                           !.counts = [parser.counts EXCEPT ![completion.kind] = parser.counts[completion.kind] + 1]]
        /\ completion.name \in Tests
    BY <1>1, <1>2, Absorbed DEF TypeOK, Completions
  <2>2. parser'.active = NoTest
    BY <2>1 DEF TypeOK, Parsers
  <2>3. Logged("FAIL", watch)'
    BY <1>1, <1>2 DEF Logged
  <2> QED
    BY <1>1, <1>2, <2>1, <2>2, <2>3 DEF Earned
<1>3. CASE verdict' \in {Verdict("io"), Verdict("malformed")}
  BY <1>0, <1>3 DEF Earned, FailureKinds
<1> QED
  BY <1>2, <1>3 DEF WatchdogFires, WatchdogVerdict, Abort, Terminating

LEMMA EarnedStep ==
  ASSUME TypeOK, Control, LogInv, Earned, [SupervisorStep]_vars
  PROVE  Earned'
<1>0. \A kind \in {"none", "completed"} \cup FailureKinds : Verdict(kind).kind = kind
  BY VerdictTyped
<1>1. CASE (Launch \/ \E kind \in {"startup", "io"} : SpawnFails(kind)) /\ UNCHANGED termination
  <2>1. verdict'.kind \in {"none", "startup", "io"}
    BY <1>0, <1>1 DEF Launch, SpawnFails, FailureKinds
  <2> QED
    BY <2>1 DEF Earned
<1>2. CASE (Registration \/ Poll \/ Quiet \/ Disconnected \/ Ignored) /\ UNCHANGED termination
  <2>1. verdict'.kind = "none"
    BY <1>2 DEF Registration, Poll, Quiet, Disconnected, Ignored, Receive, Control
  <2> QED
    BY <2>1 DEF Earned
<1>3. CASE (ObserveCancel \/ DeadlineExpires \/ ReadFails \/ Rejected \/ RecordLost)
           /\ UNCHANGED termination
  <2>1. verdict'.kind \in {"cancelled", "timeout", "io", "malformed"}
    BY <1>0, <1>3 DEF ObserveCancel, DeadlineExpires, ReadFails, Rejected, RecordLost,
                      Abort, Terminating, FailureKinds
  <2> QED
    BY <2>1 DEF Earned
<1>4. CASE InfraFailure /\ UNCHANGED termination
  <2>1. verdict'.kind \in {"capability", "harness"}
    BY <1>0, <1>4 DEF InfraFailure, Abort, Terminating, FailureKinds
  <2>2. verdict'.kind = "capability" => NextLine.kind = "CAPABILITY"
    BY <1>0, <1>4 DEF InfraFailure, Abort, Terminating, FailureKinds
  <2>3. verdict'.kind = "capability" => ~parser'.began
    BY <1>4, <2>2 DEF InfraFailure, EndsBoot
  <2> QED
    BY <2>1, <2>3 DEF Earned
<1>5. CASE WatchdogFires /\ UNCHANGED termination
  BY <1>5, TimeoutEarned
<1>6. CASE Recorded /\ UNCHANGED termination
  <2>1. verdict'.kind \in {"none", "malformed", "completed"}
    BY <1>0, <1>6 DEF Recorded, Receive, Concluding, Abort, Terminating, Control, FailureKinds
  <2>2. CASE verdict'.kind = "completed"
    BY <1>6, <2>2, CompletionEarned
  <2>3. CASE verdict'.kind \in {"none", "malformed"}
    BY <2>3 DEF Earned
  <2> QED
    BY <2>1, <2>2, <2>3
<1>7. CASE Finish /\ UNCHANGED termination
  <2>1. /\ verdict' = FinishVerdict /\ pc' = "return"
        /\ UNCHANGED <<termination, parser, status>>
    BY <1>7 DEF Finish, podman
  <2> HIDE DEF FinishVerdict
  <2>2. /\ verdict'.kind \in {"malformed", "completed", "build", "startup", "capability"}
        /\ verdict'.kind = "completed" =>
               /\ termination = NoTest /\ Finished(parser) /\ status = 0
               /\ verdict'.counts = parser.counts
        /\ verdict'.kind = "capability" => ~parser.began
    BY <2>1, FinishVerdictTyped DEF TypeOK
  <2> QED
    BY <2>1, <2>2 DEF Earned, Finished
<1>8. CASE StopContainer /\ UNCHANGED termination
  <2>1. /\ pc = "stop" /\ pc' = "kill"
        /\ UNCHANGED <<termination, parser, recorded, verdict, watch>>
        /\ \/ container' = (IF container = "live" THEN "gone" ELSE container) /\ ~stopFailed'
           \/ container' = container /\ stopFailed'
    BY <1>8 DEF StopContainer
  <2>2. container \in {"absent", "live", "gone"}
    BY DEF TypeOK
  <2> QED
    BY <2>1, <2>2 DEF Earned, Logged
<1>9. CASE KillChild /\ UNCHANGED termination
  <2>1. /\ pc = "kill" /\ pc' = "return"
        /\ UNCHANGED <<termination, parser, recorded, watch, container, stopFailed>>
        /\ \/ verdict' = verdict /\ ~(stopFailed /\ verdict.kind = "completed")
           \/ verdict'.kind = "io"
    BY <1>0, <1>9 DEF KillChild, FailureKinds
  <2> QED
    BY <2>1 DEF Earned, Logged
<1>10. CASE Return /\ UNCHANGED termination
  <2>1. /\ pc = "return"
        /\ pc' \in {"launch", "done"} /\ (verdict.kind = "startup" \/ pc' = "done")
        /\ UNCHANGED <<termination, parser, recorded, verdict, watch, container, stopFailed, status>>
    BY <1>10 DEF Return, Retryable, podman
  <2> QED
    BY <2>1 DEF Earned, Logged
<1>11. CASE (Expire \/ Interrupt \/ ContainerExits \/ \E line \in Lines : ContainerWrites(line))
            /\ UNCHANGED termination
  <2>1. /\ UNCHANGED <<termination, pc, parser, recorded, verdict, watch, stopFailed, status>>
        /\ container' = container \/ (container' = "gone" /\ container = "live")
    BY <1>11 DEF Expire, Interrupt, ContainerExits, ContainerWrites, supervision, podman
  <2> QED
    BY <2>1 DEF Earned, Logged
<1>12. CASE ContainerRegisters /\ UNCHANGED termination
  <2>1. /\ UNCHANGED <<termination, pc, parser, recorded, verdict, watch, stopFailed, status>>
        /\ container = "absent"
    BY <1>12 DEF ContainerRegisters, supervision
  <2> QED
    BY <2>1 DEF Earned, Logged
<1>13. CASE (ClientFails \/ \E code \in Statuses : ChildExits(code)) /\ UNCHANGED termination
  <2>1. /\ UNCHANGED <<termination, pc, parser, recorded, verdict, watch, stopFailed, container>>
        /\ child = "running"
    BY <1>13 DEF ClientFails, ChildExits, supervision
  <2>2. pc \notin {"return", "done"}
    BY <2>1 DEF Control
  <2> QED
    BY <2>1, <2>2 DEF Earned, Logged
<1>14. CASE HandshakeErrorRead /\ UNCHANGED termination
  <2>1. verdict'.kind = "none"
    BY <1>14 DEF HandshakeErrorRead, Control
  <2> QED
    BY <2>1 DEF Earned
<1>15. CASE UNCHANGED vars
  <2>1. UNCHANGED <<termination, pc, parser, recorded, verdict, watch, stopFailed, container, status>>
    BY <1>15 DEF vars, supervision, podman
  <2> QED
    BY <2>1 DEF Earned, Logged
<1> QED
  BY <1>1, <1>2, <1>3, <1>4, <1>5, <1>6, <1>7, <1>8, <1>9, <1>10, <1>11, <1>12, <1>13,
     <1>14, <1>15, SupervisorAssumption
  DEF SupervisorStep, SupervisorAssumption, Host, Environment, Terminated

\* A step that reaches no startup failure of its own, and does not come back
\* to the launch.
LEMMA RepeatableKept ==
  ASSUME Repeatable, pc' # "launch", attempt' # 0,
         verdict'.kind # "startup" \/ ~transient'
  PROVE  Repeatable'
  BY DEF Repeatable

LEMMA RepeatableStep ==
  ASSUME TypeOK, Control, Repeatable, [SupervisorStep]_vars
  PROVE  Repeatable'
<1>0. \A kind \in {"none", "completed"} \cup FailureKinds : Verdict(kind).kind = kind
  BY VerdictTyped
<1>1. CASE (Launch \/ \E kind \in {"startup", "io"} : SpawnFails(kind)) /\ UNCHANGED termination
  <2>1. pc' # "launch" /\ (verdict'.kind # "startup" \/ ~transient')
    BY <1>0, <1>1 DEF Launch, SpawnFails, FailureKinds
  <2>2. attempt' # 0
    BY <1>1 DEF Launch, SpawnFails, TypeOK
  <2> QED
    BY <2>1, <2>2, RepeatableKept
<1>2. CASE (Registration \/ Poll \/ Quiet \/ Disconnected \/ Ignored) /\ UNCHANGED termination
  <2>1. pc # "launch" /\ pc' # "launch" /\ verdict'.kind = "none" /\ UNCHANGED attempt
    BY <1>2 DEF Registration, Poll, Quiet, Disconnected, Ignored, Receive, Control
  <2> QED
    BY <2>1, RepeatableKept DEF Repeatable
<1>3. CASE (ObserveCancel \/ DeadlineExpires \/ ReadFails \/ Rejected \/ RecordLost
            \/ InfraFailure \/ WatchdogFires) /\ UNCHANGED termination
  <2>1. pc # "launch" /\ pc' = "stop" /\ UNCHANGED attempt
    BY <1>3 DEF ObserveCancel, DeadlineExpires, ReadFails, Rejected, RecordLost, InfraFailure,
                WatchdogFires, Abort, Terminating, Receive
  <2>2. verdict'.kind \in {"cancelled", "timeout", "io", "malformed", "capability", "harness",
                            "testtimeout"}
    BY <1>0, <1>3 DEF ObserveCancel, DeadlineExpires, ReadFails, Rejected, RecordLost,
                      InfraFailure, WatchdogFires, WatchdogVerdict, Abort, Terminating, FailureKinds
  <2> QED
    BY <2>1, <2>2, RepeatableKept DEF Repeatable
<1>4. CASE Recorded /\ UNCHANGED termination
  <2>1. /\ pc # "launch" /\ pc' # "launch" /\ UNCHANGED attempt
        /\ verdict'.kind \in {"none", "malformed", "completed"}
    BY <1>0, <1>4 DEF Recorded, Receive, Concluding, Abort, Terminating, Control, FailureKinds
  <2> QED
    BY <2>1, RepeatableKept DEF Repeatable
<1>5. CASE Finish /\ UNCHANGED termination
  <2>1. /\ verdict' = FinishVerdict /\ pc = "reap" /\ pc' = "return"
        /\ UNCHANGED <<termination, parser, status, attempt>>
    BY <1>5 DEF Finish, podman
  <2>2. FinishVerdict.kind = "startup" =>
          /\ termination = NoTest
          /\ \/ parser.ended /\ status \notin {0, 20}
             \/ ~parser.began /\ status \notin {20, 22}
    BY <1>0, Zenon DEF FinishVerdict, FailureKinds
  <2> HIDE DEF FinishVerdict
  <2> QED
    BY <2>1, <2>2 DEF Repeatable
<1>6. CASE StopContainer /\ UNCHANGED termination
  BY <1>6 DEF StopContainer, Repeatable
<1>7. CASE KillChild /\ UNCHANGED termination
  <2>1. /\ pc = "kill" /\ pc' = "return" /\ UNCHANGED transient
        /\ verdict' = verdict \/ verdict'.kind = "io"
        /\ UNCHANGED attempt
    BY <1>0, <1>7 DEF KillChild, FailureKinds
  <2> QED
    BY <2>1 DEF Repeatable
<1>8. CASE Return /\ UNCHANGED termination
  <2>1. /\ pc = "return"
        /\ pc' = "done" \/ (pc' = "launch" /\ verdict.kind = "startup" /\ transient)
        /\ UNCHANGED <<termination, parser, verdict, attempt, status, transient>>
    BY <1>8 DEF Return, Retryable, podman
  <2> QED
    BY <2>1 DEF Repeatable
<1>9. CASE (Expire \/ Interrupt \/ \E line \in Lines : ContainerWrites(line))
           /\ UNCHANGED termination
  <2>1. UNCHANGED <<termination, pc, parser, verdict, attempt, status, transient, container>>
    BY <1>9 DEF Expire, Interrupt, ContainerWrites, supervision, podman
  <2> QED
    BY <2>1 DEF Repeatable
<1>10. CASE (ContainerRegisters \/ ContainerExits \/ ClientFails
             \/ \E code \in Statuses : ChildExits(code)) /\ UNCHANGED termination
  <2>1. /\ UNCHANGED <<termination, pc, verdict, transient, attempt>>
        /\ child = "running"
    BY <1>10 DEF ContainerRegisters, ContainerExits, ClientFails, ChildExits, supervision
  <2>2. pc \notin {"launch", "return", "done"}
    BY <2>1 DEF Control
  <2> QED
    BY <2>1, <2>2 DEF Repeatable
<1>11. CASE HandshakeErrorRead /\ UNCHANGED termination
  <2>1. pc # "launch" /\ pc' # "launch" /\ verdict'.kind = "none" /\ UNCHANGED attempt
    BY <1>11 DEF HandshakeErrorRead, Control
  <2> QED
    BY <2>1, RepeatableKept DEF Repeatable
<1>12. CASE UNCHANGED vars
  <2>1. UNCHANGED <<termination, pc, parser, verdict, attempt, status, transient, container>>
    BY <1>12 DEF vars, supervision, podman
  <2> QED
    BY <2>1 DEF Repeatable
<1> QED
  BY <1>1, <1>2, <1>3, <1>4, <1>5, <1>6, <1>7, <1>8, <1>9, <1>10, <1>11, <1>12,
     SupervisorAssumption
  DEF SupervisorStep, SupervisorAssumption, Host, Environment, Terminated

-----------------------------------------------------------------------------
(* The invariant.                                                          *)

LEMMA InitInductive == Init => IInv
<1> SUFFICES ASSUME Init PROVE IInv
  OBVIOUS
<1>1. verdict.kind = "none"
  BY VerdictTyped DEF Init
<1>2. LogInv
  BY NothingLogged DEF Init, LogInv
<1>3. Earned
  BY <1>1 DEF Earned
<1>4. Repeatable
  BY <1>1 DEF Init, Repeatable
<1> QED
  BY <1>2, <1>3, <1>4, InitTyped, InitControl DEF IInv

LEMMA InductiveStep ==
  ASSUME IInv, [SupervisorStep]_vars
  PROVE  IInv'
  BY TypeStep, ControlStep, LogStep, EarnedStep, RepeatableStep DEF IInv

LEMMA NextIsStep == Next => SupervisorStep
  BY SupervisorAssumption DEF Next, SupervisorStep, Environment

LEMMA InductiveCorrect == Spec => []IInv
<1>1. Init => IInv
  BY InitInductive
<1>2. IInv /\ [Next]_vars => IInv'
  BY InductiveStep, NextIsStep
<1> QED
  BY <1>1, <1>2, PTL DEF Spec

-----------------------------------------------------------------------------
(* What the log says of a test.                                            *)

StandingFollowsLog ==
    \A test \in Tests :
        /\ \A kind \in Completions : Logged(kind, test) => Standing(test) = kind
        /\ ~Judged(test) =>
              Standing(test) = IF Logged("RUN", test) THEN "running" ELSE "none"
        /\ Judged(test) => Standing(test) \in Completions /\ Logged(Standing(test), test)

LEMMA StandingIs == OneVerdict => StandingFollowsLog
  BY Zenon DEF OneVerdict, Standing, Judged, StandingFollowsLog

LEMMA StandingIsNext == OneVerdict' => StandingFollowsLog'
  BY StandingIs, PTL

-----------------------------------------------------------------------------
(* Results.                                                                *)

\* Every variable of the supervisor keeps its type, whatever the container
\* writes: supervise and Parser::parse_line never get out of their states.
THEOREM TypeCorrect == Spec => []TypeOK
<1>1. IInv => TypeOK
  BY DEF IInv
<1> QED
  BY <1>1, InductiveCorrect, PTL

LEMMA CompletionFollows == IInv => CompletionIsEarned
<1> SUFFICES ASSUME IInv, verdict.kind = "completed", termination = NoTest
             PROVE  /\ LoggedKind("BEGIN") /\ ~LoggedKind("BEGIN_OTHER")
                    /\ \A test \in Tests : Standing(test) # "running"
                    /\ \E line \in recorded : line.kind = "END" /\ line.counts = verdict.counts
                    /\ status = 0
  BY DEF CompletionIsEarned
<1>1. InStep /\ Ending /\ OneVerdict
  BY DEF IInv, LogInv
<1>2. parser.ended /\ parser.active = NoTest /\ status = 0 /\ verdict.counts = parser.counts
  BY DEF IInv, Earned
<1>3. \E line \in recorded : line.kind = "END" /\ line.counts = verdict.counts
  BY <1>1, <1>2 DEF InStep, LoggedKind
<1>4. recorded # {}
  BY <1>3
<1>5. LoggedKind("BEGIN") /\ ~LoggedKind("BEGIN_OTHER")
  BY <1>1, <1>4 DEF InStep, Ending
<1>6. ASSUME NEW test \in Tests
      PROVE  Standing(test) # "running"
  <2>1. Logged("RUN", test) => Judged(test)
    BY <1>1, <1>2, ProtocolAssumption DEF InStep, ProtocolAssumption
  <2> QED
    BY <1>1, <2>1, StandingIs DEF StandingFollowsLog, Completions
<1> QED
  BY <1>2, <1>3, <1>5, <1>6

\* finish only reports Completed for a suite whose BEGIN, END and counts are
\* in results.log, without a test left running, and a client that exited 0.
THEOREM CompletionIsEarnedCorrect == Spec => []CompletionIsEarned
  BY CompletionFollows, InductiveCorrect, PTL

LEMMA CountsFollow == IInv => CountsMatchLog
<1> SUFFICES ASSUME IInv, verdict.kind \in {"completed", "testtimeout"}, NEW kind \in Completions
             PROVE  verdict.counts[kind] = Cardinality({test \in Tests : Logged(kind, test)})
  BY DEF CountsMatchLog
<1>1. InStep
  BY DEF IInv, LogInv
<1>2. verdict.counts = parser.counts
  BY DEF IInv, Earned
<1> QED
  BY <1>1, <1>2 DEF InStep, OfKind

\* The counts run_target reports, of a suite that completed or of one that
\* its watchdog cut short, are those of the records in results.log.
THEOREM CountsMatchLogCorrect == Spec => []CountsMatchLog
  BY CountsFollow, InductiveCorrect, PTL

LEMMA WatchdogFollows == IInv => WatchdogBlamesRunningTest
<1> SUFFICES ASSUME IInv, verdict.kind = "testtimeout"
             PROVE  /\ watch \in Tests
                    /\ Logged("RUN", watch) /\ Standing(watch) = "FAIL"
                    /\ \A test \in Tests : Standing(test) # "running"
  BY DEF WatchdogBlamesRunningTest
<1>1. InStep /\ OneVerdict
  BY DEF IInv, LogInv
<1>2. watch \in Tests /\ Logged("FAIL", watch) /\ parser.active = NoTest
  BY DEF IInv, Earned
<1>3. Standing(watch) = "FAIL" /\ Judged(watch)
  BY <1>1, <1>2, StandingIs DEF StandingFollowsLog, Completions, Judged
<1>4. Logged("RUN", watch)
  BY <1>1, <1>2, <1>3 DEF InStep
<1>5. ASSUME NEW test \in Tests
      PROVE  Standing(test) # "running"
  <2>1. Logged("RUN", test) => Judged(test)
    BY <1>1, <1>2, ProtocolAssumption DEF InStep, ProtocolAssumption
  <2> QED
    BY <1>1, <2>1, StandingIs DEF StandingFollowsLog, Completions
<1> QED
  BY <1>2, <1>3, <1>4, <1>5

\* The FAIL supervise completes a test with at its deadline is about the test
\* that was running, and leaves none running.
THEOREM WatchdogBlamesRunningTestCorrect == Spec => []WatchdogBlamesRunningTest
  BY WatchdogFollows, InductiveCorrect, PTL

LEMMA DestructiveFollows == IInv => DestructiveCompletion
<1> SUFFICES ASSUME IInv, verdict.kind = "completed", termination # NoTest
             PROVE  /\ Standing(termination) \in {"PASS", "FAIL"}
                    /\ \A test \in Tests \ {termination} :
                          Standing(test) \notin {"PASS", "FAIL"}
                    /\ ~LoggedKind("END")
                    /\ pc \in {"return", "done"} => ~stopFailed /\ container # "live"
  BY DEF DestructiveCompletion
<1>1. InStep /\ OneVerdict
  BY DEF IInv, LogInv
<1>2. /\ termination \in parser.completed
      /\ ~Logged("SKIP", termination)
      /\ \A test \in Tests \ {termination} :
            ~Logged("PASS", test) /\ ~Logged("FAIL", test)
      /\ ~parser.ended
      /\ pc # "stop" /\ ~stopFailed => container = "gone"
      /\ pc \in {"return", "done"} => ~stopFailed
  BY DEF IInv, Earned
<1>3. termination \in Tests
  BY <1>2 DEF IInv, TypeOK, Parsers
<1>4. Judged(termination)
  BY <1>1, <1>2, <1>3 DEF InStep
<1>5. Standing(termination) \in Completions /\ Logged(Standing(termination), termination)
  BY <1>1, <1>3, <1>4, StandingIs DEF StandingFollowsLog
<1>6. Standing(termination) \in {"PASS", "FAIL"}
  BY <1>2, <1>5 DEF Completions
<1>7. ASSUME NEW test \in Tests \ {termination}
      PROVE  Standing(test) \notin {"PASS", "FAIL"}
  <2>1. Judged(test) => Logged(Standing(test), test)
    BY <1>1, StandingIs DEF StandingFollowsLog
  <2>2. ~Judged(test) => Standing(test) \in {"running", "none"}
    BY <1>1, StandingIs DEF StandingFollowsLog
  <2>3. ~Logged("PASS", test) /\ ~Logged("FAIL", test)
    BY <1>2
  <2> QED
    BY <2>1, <2>2, <2>3
<1> QED
  BY <1>1, <1>2, <1>6, <1>7 DEF InStep

\* supervise returns Completed for a destructive boot on the PASS or FAIL of
\* its own test only, before any END, and terminate stopped the container.
THEOREM DestructiveCompletionCorrect == Spec => []DestructiveCompletion
  BY DestructiveFollows, InductiveCorrect, PTL

LEMMA PermitFollows == IInv => PermitIsReturned
  BY DEF IInv, Control, PermitIsReturned

\* LaunchPermit is released by the first line, by the registration of the
\* container or by the return of the boot, whichever comes first.
THEOREM PermitIsReturnedCorrect == Spec => []PermitIsReturned
  BY PermitFollows, InductiveCorrect, PTL

LEMMA UnsupportedFollows == IInv => UnsupportedHidesNothing
  BY DEF IInv, LogInv, InStep, Earned, UnsupportedHidesNothing

\* Failure::Capability, from a CAPABILITY line or from exit status 22, is
\* only returned while results.log is empty.
THEOREM UnsupportedHidesNothingCorrect == Spec => []UnsupportedHidesNothing
  BY UnsupportedFollows, InductiveCorrect, PTL

\* Between two tests none is running.
LEMMA BetweenTests ==
  ASSUME InStep, OneVerdict, parser.active = NoTest
  PROVE  \A test \in Tests : Standing(test) # "running"
<1> TAKE test \in Tests
<1>1. Logged("RUN", test) => Judged(test)
  BY ProtocolAssumption DEF InStep, ProtocolAssumption
<1> QED
  BY <1>1, StandingIs DEF StandingFollowsLog, Completions

\* Only Launch and SpawnFails count an attempt.
LEMMA AttemptsCounted ==
  ASSUME [SupervisorStep]_vars, attempt' # attempt
  PROVE  pc = "launch"
<1>1. CASE Launch \/ \E kind \in {"startup", "io"} : SpawnFails(kind)
  BY <1>1 DEF Launch, SpawnFails
<1>2. UNCHANGED attempt \/ Launch \/ \E kind \in {"startup", "io"} : SpawnFails(kind)
  BY DEF SupervisorStep, Host, Environment, Terminated, vars, supervision,
         Registration, ObserveCancel, DeadlineExpires, WatchdogFires, Poll, InfraFailure,
         Ignored, Rejected, RecordLost, Recorded, ReadFails, Quiet, Disconnected, Finish,
         StopContainer, KillChild, Return, Receive, Expire, Interrupt, ContainerRegisters,
         ContainerWrites, ContainerExits, ChildExits, ClientFails, HandshakeErrorRead
<1> QED
  BY <1>1, <1>2

\* At a launch that is not the first.
LEMMA RetryFollows ==
  ASSUME IInv, pc = "launch", attempt # 0
  PROVE  /\ termination = NoTest
         /\ \/ recorded = {} /\ status \notin {20, 22}
            \/ /\ LoggedKind("END") /\ status \notin {0, 20}
               /\ \A test \in Tests : Standing(test) # "running"
<1>1. verdict.kind = "startup" /\ transient
  BY DEF IInv, Repeatable
<1>2. InStep /\ OneVerdict
  BY <1>1 DEF IInv, LogInv
<1>3. /\ termination = NoTest
      /\ \/ parser.ended /\ status \notin {0, 20}
         \/ ~parser.began /\ status \notin {20, 22}
  BY <1>1 DEF IInv, Repeatable
<1>4. CASE parser.ended /\ status \notin {0, 20}
  <2>1. LoggedKind("END") /\ parser.active = NoTest
    BY <1>2, <1>4 DEF InStep
  <2>2. \A test \in Tests : Standing(test) # "running"
    BY <1>2, <2>1, BetweenTests
  <2> QED
    BY <1>3, <1>4, <2>1, <2>2
<1>5. CASE ~parser.began /\ status \notin {20, 22}
  BY <1>2, <1>3, <1>5 DEF InStep
<1> QED
  BY <1>3, <1>4, <1>5

LEMMA RetryStep ==
  ASSUME IInv, [SupervisorStep]_vars, attempt' # attempt, attempt > 0
  PROVE  /\ termination = NoTest
         /\ \/ recorded = {} /\ status \notin {20, 22}
            \/ /\ LoggedKind("END") /\ status \notin {0, 20}
               /\ \A test \in Tests : Standing(test) # "running"
  BY AttemptsCounted, RetryFollows DEF IInv, TypeOK

\* run_target's retry after a failed SSH handshake: the launch that truncates
\* results.log follows neither a destructive boot nor a suite cut short nor a
\* failed build, whoever wrote the text of the handshake error and whenever.
THEOREM RetryDiscardsNoVerdictCorrect == Spec => RetryDiscardsNoVerdict
<1>1. IInv /\ [Next]_vars =>
        [attempt' # attempt /\ attempt > 0 =>
            /\ termination = NoTest
            /\ \/ recorded = {} /\ status \notin {20, 22}
               \/ /\ LoggedKind("END") /\ status \notin {0, 20}
                  /\ \A test \in Tests : Standing(test) # "running"]_vars
  BY RetryStep, NextIsStep
<1> QED
  BY <1>1, InductiveCorrect, PTL DEF Spec, RetryDiscardsNoVerdict

-----------------------------------------------------------------------------
(* results.log implements SuiteLedger.                                     *)

\* The log says the same of every test.
LEMMA StandingKept ==
  ASSUME OneVerdict, OneVerdict',
         \A test \in Tests, kind \in Completions \cup {"RUN"} :
            Logged(kind, test)' <=> Logged(kind, test)
  PROVE  \A test \in Tests : Standing(test)' = Standing(test)
<1> TAKE test \in Tests
<1>1. Judged(test)' <=> Judged(test)
  BY DEF Judged
<1>2. CASE Judged(test)
  BY <1>2, StandingIs, StandingIsNext DEF StandingFollowsLog, Judged
<1>3. CASE ~Judged(test)
  BY <1>1, <1>3, StandingIs, StandingIsNext DEF StandingFollowsLog
<1> QED
  BY <1>2, <1>3

\* One more record is at most one step of the ledger.
LEMMA RecordInLedger ==
  ASSUME parser \in Parsers, InStep, OneVerdict, OneVerdict',
         NEW line \in Lines, Admissible(parser, line),
         recorded' = recorded \cup {line}
  PROVE  [Ledger!Next]_(Ledger!ledger)
<1> DEFINE shown == [test \in Tests |-> Standing(test)]
           opened == LoggedKind("BEGIN") \/ LoggedKind("BEGIN_OTHER")
           closed == LoggedKind("END")
<1>1. \A kind, test :
         Logged(kind, test)' <=> Logged(kind, test) \/ (line.kind = kind /\ line.name = test)
  BY DEF Logged
<1>2. \A kind : LoggedKind(kind)' = (LoggedKind(kind) \/ line.kind = kind)
  BY DEF LoggedKind
<1>3. NoTest \notin Tests
  BY ProtocolAssumption DEF ProtocolAssumption
<1>4. ~parser.ended /\ ~closed
  BY Absorbed DEF InStep
<1>5. ASSUME line.kind \notin Completions \cup {"RUN"} \/ line.name \notin Tests
      PROVE  shown' = shown
  <2>1. \A test \in Tests, kind \in Completions \cup {"RUN"} :
           Logged(kind, test)' <=> Logged(kind, test)
    BY <1>1, <1>5
  <2> QED
    BY <2>1, StandingKept
<1>6. CASE line.kind \in {"BEGIN", "BEGIN_OTHER"}
  <2>1. line.kind \notin Completions \cup {"RUN"} /\ line.kind # "END"
    BY <1>6 DEF Completions
  <2>2. ~opened
    BY <1>6, Absorbed DEF InStep
  <2>3. opened' = TRUE /\ closed' = closed
    BY <1>2, <1>6, <2>1 DEF LoggedKind
  <2> QED
    BY <1>5, <2>1, <2>2, <2>3 DEF Ledger!Next, Ledger!Open
<1>7. CASE line.kind = "RUN" /\ line.name \in Tests
  <2>1. parser.active = NoTest /\ line.name \notin parser.completed /\ parser.began
    BY <1>7, Absorbed
  <2>2. opened /\ opened' = opened /\ closed' = closed
    BY <1>2, <1>7, <2>1 DEF InStep, LoggedKind
  <2>3. \A test \in Tests : shown[test] # "running"
    BY <2>1, BetweenTests
  <2>4. ~Judged(line.name) /\ ~Logged("RUN", line.name)
    BY <1>3, <1>7, <2>1 DEF InStep
  <2>5. shown[line.name] = "none"
    BY <1>7, <2>4, StandingIs DEF StandingFollowsLog
  <2>6. \A test \in Tests : Judged(test)' <=> Judged(test)
    BY <1>1, <1>7 DEF Judged, Completions
  <2>7. ASSUME NEW test \in Tests
        PROVE  Standing(test)' = [shown EXCEPT ![line.name] = "running"][test]
    <3>1. CASE test = line.name
      <4>1. (~Judged(test) /\ Logged("RUN", test))'
        BY <1>1, <1>7, <2>4, <2>6, <3>1
      <4> QED
        BY <3>1, <4>1, StandingIsNext DEF StandingFollowsLog
    <3>2. CASE test # line.name
      <4>1. \A kind \in Completions : Logged(kind, test)' <=> Logged(kind, test)
        BY <1>1, <3>2
      <4>2. Logged("RUN", test)' <=> Logged("RUN", test)
        BY <1>1, <3>2
      <4>3. Standing(test)' = Standing(test)
        BY <2>6, <4>1, <4>2, StandingIs, StandingIsNext DEF StandingFollowsLog, Judged
      <4> QED
        BY <3>2, <4>3
    <3> QED
      BY <3>1, <3>2
  <2>8. shown' = [shown EXCEPT ![line.name] = "running"]
    BY <2>7
  <2>9. Ledger!Start(line.name)
    BY <1>4, <2>2, <2>3, <2>5, <2>8 DEF Ledger!Start, Ledger!Idle
  <2> QED
    BY <1>7, <2>9 DEF Ledger!Next
<1>8. CASE line.kind \in Completions
  <2>1. line.name = parser.active /\ line.name \in Tests /\ line.name \notin parser.completed
        /\ line.kind # "RUN" /\ line.kind # "END" /\ line.kind \notin {"BEGIN", "BEGIN_OTHER"}
    BY <1>8, Absorbed DEF Completions
  <2>2. opened' = opened /\ closed' = closed
    BY <1>2, <2>1 DEF LoggedKind
  <2>3. Logged("RUN", line.name) /\ ~Judged(line.name)
    BY <2>1 DEF InStep
  <2>4. shown[line.name] = "running"
    BY <2>1, <2>3, StandingIs DEF StandingFollowsLog
  <2>5. ASSUME NEW test \in Tests
        PROVE  Standing(test)' = [shown EXCEPT ![line.name] = line.kind][test]
    <3>1. CASE test = line.name
      <4>1. \A kind \in Completions : Logged(kind, test)' => Standing(test)' = kind
        BY StandingIsNext DEF StandingFollowsLog
      <4>2. \A kind \in Completions : line.kind = kind => Logged(kind, test)'
        BY <1>1, <3>1
      <4> QED
        BY <1>8, <3>1, <4>1, <4>2
    <3>2. CASE test # line.name
      <4>1. \A kind \in Completions \cup {"RUN"} : Logged(kind, test)' <=> Logged(kind, test)
        BY <1>1, <3>2
      <4>2. Judged(test)' <=> Judged(test)
        BY <4>1 DEF Judged
      <4>3. Standing(test)' = Standing(test)
        BY <4>1, <4>2, StandingIs, StandingIsNext DEF StandingFollowsLog, Judged
      <4> QED
        BY <3>2, <4>3
    <3> QED
      BY <3>1, <3>2
  <2>6. shown' = [shown EXCEPT ![line.name] = line.kind]
    BY <2>5
  <2>7. Ledger!Settle(line.name, line.kind)
    BY <1>4, <2>2, <2>4, <2>6 DEF Ledger!Settle
  <2> QED
    BY <1>8, <2>1, <2>7 DEF Ledger!Next, Ledger!Final, Completions
<1>9. CASE line.kind = "END"
  <2>1. parser.active = NoTest /\ parser.began
    BY <1>9, Absorbed
  <2>2. opened /\ opened' = opened /\ closed' = TRUE
    BY <1>2, <1>9, <2>1 DEF InStep
  <2>3. \A test \in Tests : shown[test] # "running"
    BY <2>1, BetweenTests
  <2>4. line.kind \notin Completions \cup {"RUN"}
    BY <1>9 DEF Completions
  <2>5. Ledger!Close
    BY <1>4, <1>5, <2>2, <2>3, <2>4 DEF Ledger!Close, Ledger!Idle
  <2> QED
    BY <2>5 DEF Ledger!Next
<1>10. CASE line.kind \in {"CAP", "INFRA"} \/ (line.kind = "RUN" /\ line.name \notin Tests)
  <2>1. line.kind \notin Completions \cup {"BEGIN", "BEGIN_OTHER", "END"}
    BY <1>10 DEF Completions
  <2>2. opened' = opened /\ closed' = closed
    BY <1>2, <2>1 DEF LoggedKind
  <2>3. shown' = shown
    BY <1>5, <1>10, <2>1
  <2> QED
    BY <2>2, <2>3 DEF Ledger!ledger
<1>11. line.kind \in {"BEGIN", "BEGIN_OTHER", "CAP", "RUN", "INFRA", "END"} \cup Completions
  BY DEF Admissible, RecordKinds
<1> QED
  BY <1>6, <1>7, <1>8, <1>9, <1>10, <1>11

\* What a step may do to the log.
LEMMA LogChanges ==
  ASSUME TypeOK, Control, [SupervisorStep]_vars
  PROVE  \/ UNCHANGED recorded
         \/ pc = "launch" /\ recorded' = {}
         \/ /\ verdict.kind = "none"
            /\ \E line \in Lines :
                  Admissible(parser, line) /\ recorded' = recorded \cup {line}
<1>1. CASE Launch \/ \E kind \in {"startup", "io"} : SpawnFails(kind)
  BY <1>1 DEF Launch, SpawnFails
<1>2. CASE WatchdogFires
  <2> DEFINE completion == About("FAIL", watch)
  <2>1. completion \in Lines
    BY RecordTyped DEF RecordKinds, Completions, TypeOK
  <2>2. verdict.kind = "none"
    BY <1>2 DEF WatchdogFires, Control
  <2>3. UNCHANGED recorded \/ (Admissible(parser, completion) /\ recorded' = recorded \cup {completion})
    BY <1>2 DEF WatchdogFires
  <2> HIDE DEF completion
  <2> QED
    BY <2>1, <2>2, <2>3
<1>3. CASE Recorded
  <2>1. NextLine \in Lines
    BY <1>3, HeadTyped DEF Recorded, Receive, TypeOK
  <2> QED
    BY <1>3, <2>1 DEF Recorded, Receive, Control
<1>4. \/ UNCHANGED recorded \/ WatchdogFires \/ Recorded
      \/ Launch \/ \E kind \in {"startup", "io"} : SpawnFails(kind)
  BY DEF SupervisorStep, Host, Environment, Terminated, vars, supervision,
         Registration, ObserveCancel, DeadlineExpires, Poll, InfraFailure,
         Ignored, Rejected, RecordLost, ReadFails, Quiet, Disconnected, Finish,
         StopContainer, KillChild, Return, Receive, Expire, Interrupt, ContainerRegisters,
         ContainerWrites, ContainerExits, ChildExits, ClientFails, HandshakeErrorRead
<1> QED
  BY <1>1, <1>2, <1>3, <1>4

LEMMA LedgerStep ==
  ASSUME IInv, IInv', [SupervisorStep]_vars
  PROVE  [Ledger!Next]_(Ledger!ledger)
<1>1. OneVerdict /\ OneVerdict' /\ parser \in Parsers
  BY DEF IInv, LogInv, TypeOK
<1>2. CASE UNCHANGED recorded
  <2>1. \A kind, test : Logged(kind, test)' <=> Logged(kind, test)
    BY <1>2 DEF Logged
  <2>2. \A kind : LoggedKind(kind)' <=> LoggedKind(kind)
    BY <1>2 DEF LoggedKind
  <2>3. \A test \in Tests : Standing(test)' = Standing(test)
    BY <1>1, <2>1, StandingKept
  <2>4. [test \in Tests |-> Standing(test)]' = [test \in Tests |-> Standing(test)]
    BY <2>3
  <2>5. (LoggedKind("BEGIN") \/ LoggedKind("BEGIN_OTHER"))' = (LoggedKind("BEGIN") \/ LoggedKind("BEGIN_OTHER"))
        /\ LoggedKind("END")' = LoggedKind("END")
    BY <2>2
  <2> QED
    BY <2>4, <2>5 DEF Ledger!ledger
<1>3. ASSUME verdict.kind = "none", NEW line \in Lines, Admissible(parser, line),
             recorded' = recorded \cup {line}
      PROVE  [Ledger!Next]_(Ledger!ledger)
  <2>1. InStep
    BY <1>3 DEF IInv, LogInv
  <2> QED
    BY <1>1, <1>3, <2>1, RecordInLedger
<1>4. CASE pc = "launch" /\ recorded' = {} /\ recorded # {}
  <2>1. \A kind : ~LoggedKind(kind)'
    BY <1>4 DEF LoggedKind
  <2>2. \A test \in Tests : Standing(test)' = "none"
    <3>1. \A kind, test : ~Logged(kind, test)'
      BY <1>4 DEF Logged
    <3> QED
      BY <1>1, <3>1, StandingIsNext DEF StandingFollowsLog, Judged
  <2>3. attempt # 0
    BY <1>4 DEF IInv, Repeatable, Control
  <2>4. LoggedKind("END")
    BY <1>4, <2>3, RetryFollows
  <2>5. [test \in Tests |-> Standing(test)]' = [test \in Tests |-> "none"]
    BY <2>2
  <2>6. LoggedKind("END")' = FALSE /\ (LoggedKind("BEGIN") \/ LoggedKind("BEGIN_OTHER"))' = FALSE
    BY <2>1
  <2>7. Ledger!Renew
    BY <2>4, <2>5, <2>6 DEF Ledger!Renew
  <2> QED
    BY <2>7 DEF Ledger!Next
<1> QED
  BY <1>2, <1>3, <1>4, LogChanges DEF IInv

LEMMA LedgerInit == Init => Ledger!Init
<1> SUFFICES ASSUME Init PROVE Ledger!Init
  OBVIOUS
<1>1. OneVerdict
  BY NothingLogged DEF Init
<1>2. \A test \in Tests : ~Judged(test) /\ ~Logged("RUN", test)
  BY DEF Init, Judged, Logged
<1>3. \A test \in Tests : Standing(test) = "none"
  BY <1>1, <1>2, StandingIs DEF StandingFollowsLog
<1> QED
  BY <1>3 DEF Init, Ledger!Init, LoggedKind

\* Whatever the container writes, what write_result appends to results.log is
\* a suite's ledger: one BEGIN, one test at a time, one verdict for each, and
\* nothing after END.
THEOREM LedgerSpecCorrect == Spec => LedgerSpec
<1>1. IInv /\ IInv' /\ [Next]_vars => [Ledger!Next]_(Ledger!ledger)
  BY LedgerStep, NextIsStep
<1> QED
  BY <1>1, LedgerInit, InductiveCorrect, PTL DEF Spec, LedgerSpec, Ledger!Spec
=============================================================================
