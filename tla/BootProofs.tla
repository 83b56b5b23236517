----------------------------- MODULE BootProofs -----------------------------
(***************************************************************************)
(* Proofs about Boot for any catalog, any capabilities of the model, any   *)
(* length of the pipe and any number of launches.                          *)
(*                                                                         *)
(* What the guest writes reaches results.log through two queues, so the    *)
(* invariant speaks of the lines in them: each says what the guest found   *)
(* (Truth), none is lost unless the relay or the host gave up (Conserved), *)
(* and together they continue the suite the parser has seen up to where    *)
(* the guest is (Continues).                                               *)
(***************************************************************************)
EXTENDS Boot, SupervisorProofs, SequenceTheorems

AllLines == Lines \cup {Runner!FirmwarePanic}

\* The lines on their way, oldest first.
Pipe == channel \o uart

KindAmong(kind, lines) == \E i \in 1..Len(lines) : lines[i].kind = kind
Among(line, lines) == \E i \in 1..Len(lines) : lines[i] = line
Members(lines) == {lines[i] : i \in 1..Len(lines)}

Started(test) == \E i \in 1..at : Catalog[i] = test

InTest == step \in {"body", "restore", "report"}

JudgedAs(kind) == {test \in Tests : judged[test] = kind}

\* The guest by itself.
Guest ==
    /\ Runner!TypeOK
    /\ InTest => at >= 1 /\ Runner!Selected(Catalog[at]) /\ judged[Catalog[at]] = "none"
    /\ step = "entry" => at = 0
    /\ \A test \in Tests : judged[test] # "none" => Started(test) /\ Runner!Selected(test)
    /\ step # "spinning" =>
          \A kind \in Completions : tally[kind] = Cardinality(JudgedAs(kind))
    /\ \A test \in Destructive : judged[test] = "PASS" => step = "spinning"
    /\ step \in {"restore", "report"} /\ Catalog[at] \in Destructive => result = "fail"

\* Once the suite is over, or stopped for good.
Writing == step \notin {"returned", "spinning"}

\* A destructive boot whose test has no verdict.
Silent == termination # NoTest => \A test \in Tests : judged[test] = "none"

\* A line says what the guest found.
Truthful(line) ==
    /\ line.kind \in {"TEXT", "FVP_START", "CAPABILITY", "HARNESS_FAILURE", "PANIC",
                      "BEGIN", "CAP", "RUN", "INFRA", "END"} \cup Completions
    /\ line.kind = "RUN" => line.name \in Tests /\ Started(line.name)
    /\ line.kind \in Completions => line.name \in Tests /\ judged[line.name] = line.kind
    /\ line.kind = "CAPABILITY" => ~capable.baseline
    /\ line.kind = "PANIC" => step = "spinning"
    /\ line.kind = "END" =>
          /\ ~Writing
          /\ \A kind \in Completions : line.counts[kind] = Cardinality(JudgedAs(kind))

\* Where the suite is for a reader of the line, for the parser and for the guest.
After(line) ==
    IF line.kind \in {"BEGIN", "CAP"} \cup Completions THEN <<"idle", NoTest>>
    ELSE IF line.kind \in {"RUN", "INFRA"} THEN <<"test", line.name>>
    ELSE IF line.kind \in {"TEXT", "FVP_START"} THEN <<"fresh", NoTest>>
    ELSE <<"over", NoTest>>

Phase ==
    IF ~parser.began THEN <<"fresh", NoTest>>
    ELSE IF parser.ended THEN <<"over", NoTest>>
    ELSE IF parser.active = NoTest THEN <<"idle", NoTest>>
    ELSE <<"test", parser.active>>

Here ==
    IF step = "entry" THEN <<"fresh", NoTest>>
    ELSE IF step \in {"select", "scope", "end"} THEN <<"idle", NoTest>>
    ELSE <<"test", Catalog[at]>>

\* A line the protocol has a place for there.
Fits(phase, line) ==
    \/ line.kind \in {"PANIC", "HARNESS_FAILURE"}
    \/ line.kind \in {"TEXT", "FVP_START", "BEGIN", "CAPABILITY"} /\ phase = <<"fresh", NoTest>>
    \/ line.kind \in {"CAP", "RUN", "END"} /\ phase = <<"idle", NoTest>>
    \/ line.kind \in {"INFRA"} \cup Completions /\ phase = <<"test", line.name>>

\* Lines that may follow each other from there, and where they lead.
Chained(phase, lines) ==
    /\ lines # <<>> => Fits(phase, lines[1])
    /\ \A i \in 1..(Len(lines) - 1) : Fits(After(lines[i]), lines[i + 1])

EndOf(phase, lines) == IF lines = <<>> THEN phase ELSE After(lines[Len(lines)])

\* The relay, the model and Podman.
Relaying ==
    /\ Relay!TypeOK
    /\ model = "off" =>
          /\ step = "entry" /\ uart = <<>>
          /\ \A test \in Tests : judged[test] = "none"
          /\ ~sawEnd /\ ~panicked
    /\ relay = "starting" => model = "off"
    /\ relay = "relaying" => model # "off"
    /\ relay = "exited" => model \in {"off", "dead"} /\ uart = <<>>
    /\ container = "absent" => relay = "starting"
    /\ container = "gone" /\ verdict.kind = "none" => relay = "exited"
    /\ container = "live" /\ verdict.kind = "none" => child = "running"

\* What is in the pipe and in results.log was found by the guest.
Truth ==
    /\ \A line \in Members(Pipe) : Truthful(line)
    /\ RecordsAreTrue
    /\ \A test \in Tests : Logged("RUN", test) => Started(test)

\* The suite ended for the guest, or a destructive boot has no verdict.
Spent == sawEnd \/ KindAmong("END", uart) \/ Silent

\* Nothing but a panic follows END.
Ends ==
    /\ KindAmong("END", channel) \/ LoggedKind("END") => sawEnd
    /\ sawEnd => ~Writing /\ \A i \in 1..Len(uart) : uart[i].kind = "PANIC"
    /\ \A i, j \in 1..Len(uart) : uart[i].kind = "END" /\ i < j => uart[j].kind = "PANIC"
    /\ \A i \in 1..Len(uart) : uart[i].kind = "PANIC" => i = Len(uart) /\ Spent
    /\ relay # "exited" /\ step = "returned" => Spent
    /\ panicked => Silent /\ ~sawEnd /\ model = "dead" /\ uart = <<>> /\ step = "spinning"
    /\ \A i \in 1..Len(channel) : channel[i].kind = "END" => i = Len(channel)
    /\ parser.ended /\ verdict.kind = "none" => channel = <<>>

\* No test is run twice.
Fresh ==
    verdict.kind = "none" =>
       /\ \A line \in Members(Pipe) : line.kind = "RUN" => ~Logged("RUN", line.name)
       /\ \A i, j \in 1..Len(Pipe) :
             Pipe[i].kind = "RUN" /\ Pipe[j].kind = "RUN" /\ Pipe[i].name = Pipe[j].name => i = j

\* A verdict of the guest is in the log or on its way there, unless the relay
\* gave up before END; so are the END and the panic the relay has seen.
Conserved ==
    /\ verdict.kind = "none" /\ (relay # "exited" \/ sawEnd) =>
          \A test \in Tests : judged[test] # "none" =>
             Logged(judged[test], test) \/ Among(About(judged[test], test), Pipe)
    /\ verdict.kind = "none" /\ sawEnd => parser.ended \/ KindAmong("END", channel)
    /\ verdict.kind = "none" /\ panicked => KindAmong("HARNESS_FAILURE", channel)
    /\ verdict.kind = "completed" /\ termination = NoTest =>
          /\ sawEnd
          /\ \A test \in Tests : judged[test] # "none" => Logged(judged[test], test)

\* The pipe continues the suite the parser has seen, up to where the guest is.
Continues ==
    verdict.kind = "none" /\ ~Unsupported =>
       /\ Chained(Phase, Pipe)
       /\ relay # "exited" /\ Writing => Here = EndOf(Phase, Pipe)

\* The test the supervisor watches is the one that runs, or it was skipped.
Watched ==
    verdict.kind = "none" =>
       /\ parser.active \notin parser.completed
       /\ watch \in Tests => watch = parser.active \/ Logged("SKIP", watch)

\* What a boot whose firmware panicked may be reported as.
PanicSeen ==
    panicked /\ verdict.kind # "none" =>
        \/ verdict.kind \in {"harness", "timeout", "testtimeout", "cancelled", "io"}
        \/ verdict.kind = "capability" /\ ~capable.baseline
        \/ verdict.kind = "malformed" /\ Unsupported
        \/ verdict.kind = "malformed" /\ expired /\ watch \in Tests

PipeInv == Truth /\ Ends /\ Fresh /\ Conserved /\ Continues /\ Watched

\* The inductive invariant.
BootInv == IInv /\ Guest /\ Relaying /\ PipeInv /\ RunnerIsUnderstood /\ PanicSeen

-----------------------------------------------------------------------------
(* The guest.                                                              *)

\* The guest, the relay and the host speak of the same lines.
LEMMA SameProtocol ==
  /\ Runner!Completions = Completions /\ Runner!Counts = Counts /\ Runner!Lines = Lines
  /\ Runner!ZeroCounts = ZeroCounts
  /\ \A kind : Runner!Plain(kind) = Plain(kind) /\ Relay!Plain(kind) = Plain(kind)
  /\ \A kind, test : Runner!About(kind, test) = About(kind, test)
  /\ \A counts : Runner!End(counts) = End(counts)
<1>1. /\ Runner!Completions = Completions /\ Runner!MaybeTest = MaybeTest
      /\ Runner!RecordKinds = RecordKinds /\ Runner!InfraKinds = InfraKinds
  BY DEF Runner!Completions, Completions, Runner!MaybeTest, MaybeTest,
         Runner!RecordKinds, RecordKinds, Runner!InfraKinds, InfraKinds
<1>2. Runner!Counts = Counts /\ Runner!ZeroCounts = ZeroCounts /\ Relay!ZeroCounts = ZeroCounts
  BY <1>1 DEF Runner!Counts, Counts, Runner!ZeroCounts, ZeroCounts, Relay!ZeroCounts,
              Relay!Completions, Completions
<1> QED
  BY <1>1, <1>2
  DEF Runner!Lines, Lines, Runner!Plain, Plain, Relay!Plain, Runner!About, About, Runner!End, End

LEMMA CatalogAt ==
  ASSUME NEW i \in 1..Len(Catalog)
  PROVE  Catalog[i] \in Tests /\ Len(Catalog) \in Nat
  BY BootAssumption DEF BootAssumption

LEMMA CatalogDistinct ==
  ASSUME NEW i \in 1..Len(Catalog), NEW j \in 1..Len(Catalog), Catalog[i] = Catalog[j]
  PROVE  i = j
  BY BootAssumption DEF BootAssumption

\* The test that is taken was not started before, and has no verdict.
LEMMA TakenIsNew ==
  ASSUME Guest, NEW test \in Tests, Runner!Taking(test)
  PROVE  /\ at' = at + 1 /\ at' \in 1..Len(Catalog) /\ at \in Nat
         /\ Catalog[at'] = test
         /\ ~Started(test) /\ judged[test] = "none"
         /\ step = "select"
<1>1. at \in 0..Len(Catalog) /\ Len(Catalog) \in Nat
  BY BootAssumption DEF Guest, Runner!TypeOK, BootAssumption
<1>2. at' = at + 1 /\ at < Len(Catalog) /\ Catalog[at + 1] = test /\ step = "select"
  BY DEF Runner!Taking
<1>3. ~Started(test)
  BY <1>1, <1>2, CatalogDistinct DEF Started
<1> QED
  BY <1>1, <1>2, <1>3 DEF Guest

\* A test is given a verdict and counted.
LEMMA Judging ==
  ASSUME Guest, NEW test \in Tests, judged[test] = "none", NEW kind \in Completions,
         judged' = [judged EXCEPT ![test] = kind], tally' = Runner!Tallied(kind),
         step # "spinning"
  PROVE  /\ tally' \in Counts
         /\ \A k \in Completions : tally'[k] = Cardinality(JudgedAs(k))'
         /\ judged' \in [Tests -> Completions \cup {"none"}]
         /\ \A t \in Tests : judged'[t] = IF t = test THEN kind ELSE judged[t]
<1>1. /\ judged \in [Tests -> Completions \cup {"none"}]
      /\ tally \in Counts
      /\ \A k \in Completions : tally[k] = Cardinality(JudgedAs(k))
  BY SameProtocol DEF Guest, Runner!TypeOK
<1>2. CounterMax \in Nat /\ IsFiniteSet(Tests) /\ Cardinality(Tests) <= CounterMax
      /\ Cardinality(Tests) \in Nat
  BY ProtocolAssumption, BootAssumption, FS_CardinalityType DEF ProtocolAssumption, BootAssumption
<1>3. \A t \in Tests : judged'[t] = IF t = test THEN kind ELSE judged[t]
  BY <1>1
<1>4. \A k \in Completions : IsFiniteSet(JudgedAs(k)) /\ Cardinality(JudgedAs(k)) \in Nat
  BY <1>2, FS_Subset, FS_CardinalityType DEF JudgedAs
<1>5. kind # "none"
  BY DEF Completions
<1>6. Cardinality(JudgedAs(kind)) < CounterMax
  <2>1. JudgedAs(kind) \in SUBSET Tests /\ JudgedAs(kind) # Tests
    BY <1>5 DEF JudgedAs
  <2>2. Cardinality(JudgedAs(kind)) <= Cardinality(Tests) /\ Cardinality(JudgedAs(kind)) # Cardinality(Tests)
    BY <1>2, <2>1, FS_Subset
  <2> QED
    BY <1>2, <1>4, <2>2
<1>7. tally' = [tally EXCEPT ![kind] = tally[kind] + 1]
  BY <1>1, <1>6 DEF Runner!Tallied
<1>8. tally' \in Counts
  BY <1>1, <1>2, <1>6, <1>7 DEF Counts
<1>9. ASSUME NEW k \in Completions
      PROVE  tally'[k] = Cardinality(JudgedAs(k))'
  <2>1. CASE k = kind
    <3>1. JudgedAs(k)' = JudgedAs(k) \cup {test} /\ test \notin JudgedAs(k)
      BY <1>3, <1>5, <2>1 DEF JudgedAs
    <3>2. Cardinality(JudgedAs(k) \cup {test}) = Cardinality(JudgedAs(k)) + 1
      BY <1>4, <3>1, FS_AddElement
    <3> QED
      BY <1>1, <1>7, <2>1, <3>1, <3>2 DEF Counts
  <2>2. CASE k # kind
    <3>1. k # "none"
      BY DEF Completions
    <3>2. JudgedAs(k)' = JudgedAs(k)
      BY <1>3, <2>2, <3>1 DEF JudgedAs
    <3> QED
      BY <1>1, <1>7, <2>2, <3>2 DEF Counts
  <2> QED
    BY <2>1, <2>2
<1> QED
  BY <1>1, <1>3, <1>8, <1>9

\* The lines the guest writes.
LEMMA LinesTyped ==
  /\ \A kind \in RecordKinds \cup InfraKinds, test \in MaybeTest :
        /\ About(kind, test) \in AllLines
        /\ About(kind, test).kind = kind /\ About(kind, test).name = test
  /\ \A kind \in RecordKinds \cup InfraKinds :
        Plain(kind) \in AllLines /\ Plain(kind).kind = kind
  /\ \A counts \in Counts :
        /\ End(counts) \in AllLines
        /\ End(counts).kind = "END" /\ End(counts).counts = counts
  /\ Runner!FirmwarePanic \in AllLines /\ Runner!FirmwarePanic.kind = "PANIC"
<1>1. NoTest \in MaybeTest /\ ZeroCounts \in Counts
  BY NewParserTyped DEF MaybeTest
<1>2. "END" \in RecordKinds
  BY DEF RecordKinds
<1> QED
  BY <1>1, <1>2 DEF About, Plain, End, Lines, AllLines, Runner!FirmwarePanic

\* What a step of run_suite writes and does to the verdicts.
Emission(lines) ==
    /\ step # "spinning"
    /\ uart' = uart \o lines
    /\ \A i \in 1..Len(lines) :
          /\ Truthful(lines[i])'
          /\ lines[i].kind = "RUN" => Len(lines) = 1 /\ ~Started(lines[i].name)
          /\ lines[i].kind \in {"END", "PANIC"} => Len(lines) = 1
          /\ lines[i].kind = "PANIC" => step = "returned" \/ Silent'
    /\ \A test \in Tests : judged'[test] # judged[test] =>
          /\ judged[test] = "none" /\ judged'[test] \in Completions
          /\ Among(About(judged'[test], test), lines)
    /\ ~Writing => judged' = judged /\ lines = <<Runner!FirmwarePanic>> /\ ~Writing'
    /\ step' = "returned" => Silent' \/ KindAmong("END", lines)
    /\ \/ Unsupported'
       \/ Writing =>
             /\ Chained(Here, lines)
             /\ Writing' => Here' = EndOf(Here, lines)
    /\ \A test \in Tests : Started(test) => Started(test)'
    /\ UNCHANGED <<capable, termination>>

LEMMA NothingWritten ==
  ASSUME Guest, UNCHANGED <<uart, judged, capable, termination>>, Writing,
         step' # "returned",
         Writing' => Here' = Here,
         \A test \in Tests : Started(test) => Started(test)'
  PROVE  \E lines \in Seq(AllLines) : Emission(lines)
<1>1. uart \in Seq(AllLines)
  BY SameProtocol DEF Guest, Runner!TypeOK, AllLines
<1>2. uart' = uart \o <<>>
  BY <1>1, ConcatEmptySeq
<1>3. Emission(<<>>) /\ <<>> \in Seq(AllLines)
  BY <1>2 DEF Emission, Writing, Chained, EndOf
<1> QED
  BY <1>3

LEMMA OneWritten ==
  ASSUME Guest, UNCHANGED <<capable, termination>>, Writing,
         NEW line \in AllLines, uart' = uart \o <<line>>,
         Truthful(line)',
         line.kind = "RUN" => ~Started(line.name),
         line.kind = "PANIC" => Silent',
         \A test \in Tests : judged'[test] # judged[test] =>
            /\ judged[test] = "none" /\ judged'[test] \in Completions
            /\ line = About(judged'[test], test),
         step' = "returned" => Silent' \/ line.kind = "END",
         Unsupported' \/ (Fits(Here, line) /\ (Writing' => Here' = After(line))),
         \A test \in Tests : Started(test) => Started(test)'
  PROVE  \E lines \in Seq(AllLines) : Emission(lines)
<1> DEFINE lines == <<line>>
<1>1. lines \in Seq(AllLines) /\ Len(lines) = 1 /\ lines[1] = line /\ lines # <<>>
  OBVIOUS
<1>2. Among(line, lines) /\ KindAmong(line.kind, lines)
  BY <1>1 DEF Among, KindAmong
<1> HIDE DEF lines
<1>3. uart' = uart \o lines
  BY DEF lines
<1>w. step # "spinning"
  BY DEF Writing
<1>4. Emission(lines)
  BY <1>1, <1>2, <1>3, <1>w DEF Emission, Chained, EndOf
<1> QED
  BY <1>1, <1>4

LEMMA TwoWritten ==
  ASSUME Guest, UNCHANGED <<capable, termination>>, Writing, step' # "returned",
         NEW first \in AllLines, NEW second \in AllLines,
         uart' = uart \o <<first, second>>,
         Truthful(first)', Truthful(second)',
         first.kind \notin {"RUN", "END", "PANIC"}, second.kind \notin {"RUN", "END", "PANIC"},
         \A test \in Tests : judged'[test] # judged[test] =>
            /\ judged[test] = "none" /\ judged'[test] \in Completions
            /\ second = About(judged'[test], test),
         Fits(Here, first), Fits(After(first), second), Writing' => Here' = After(second),
         \A test \in Tests : Started(test) => Started(test)'
  PROVE  \E lines \in Seq(AllLines) : Emission(lines)
<1> DEFINE lines == <<first, second>>
<1>1. lines \in Seq(AllLines) /\ Len(lines) = 2 /\ lines[1] = first /\ lines[2] = second
      /\ lines # <<>>
  OBVIOUS
<1>2. Among(second, lines)
  BY <1>1 DEF Among
<1> HIDE DEF lines
<1>3. uart' = uart \o lines
  BY DEF lines
<1>4. \A i \in 1..Len(lines) : lines[i] = first \/ lines[i] = second
  BY <1>1
<1>w. step # "spinning"
  BY DEF Writing
<1>5. Emission(lines)
  BY <1>1, <1>2, <1>3, <1>4, <1>w DEF Emission, Chained, EndOf
<1> QED
  BY <1>1, <1>5

\* A destructive boot selects its own test only.
LEMMA OnlyNamed ==
  ASSUME Guest, termination # NoTest
  PROVE  /\ \A test \in Tests : judged[test] # "none" => test = termination
         /\ InTest => Catalog[at] = termination
  BY DEF Guest, Runner!Selected

LEMMA BeforeVerdict ==
  ASSUME Guest, step = "entry" \/ InTest
  PROVE  Silent
<1>1. CASE step = "entry"
  BY <1>1 DEF Guest, Silent, Started
<1>2. CASE InTest
  BY <1>2, OnlyNamed DEF Guest, Silent
<1> QED
  BY <1>1, <1>2

LEMMA AtInCatalog ==
  ASSUME Guest, at >= 1
  PROVE  at \in 1..Len(Catalog) /\ Catalog[at] \in Tests
  BY CatalogAt, BootAssumption DEF Guest, Runner!TypeOK, BootAssumption

LEMMA GuestEmits ==
  ASSUME Guest, Runner!Next, UNCHANGED termination
  PROVE  \E lines \in Seq(AllLines) : Emission(lines)
<1> USE SameProtocol, LinesTyped DEF Runner!inputs
<1>0. /\ \A kind \in RecordKinds \cup InfraKinds :
            Plain(kind) \in AllLines /\ Plain(kind).kind = kind
      /\ Len(Catalog) \in Nat /\ at \in Nat
  BY BootAssumption DEF Guest, Runner!TypeOK, BootAssumption
<1>1. CASE Runner!BaselineMissing
  <2> DEFINE line == Plain("CAPABILITY")
  <2>1. /\ step = "entry" /\ step' = "returned" /\ ~capable.baseline
        /\ uart' = uart \o <<line>>
        /\ UNCHANGED <<at, judged, capable, termination>>
    BY <1>1 DEF Runner!BaselineMissing, Runner!Write
  <2>2. line \in AllLines /\ line.kind = "CAPABILITY"
    BY DEF InfraKinds
  <2> HIDE DEF line
  <2>3. Silent'
    BY <2>1, BeforeVerdict DEF Silent
  <2>4. Truthful(line)'
    BY <2>1, <2>2 DEF Truthful, Completions
  <2>5. Fits(Here, line) /\ Writing /\ ~Writing'
    BY <2>1, <2>2 DEF Fits, Here, Writing
  <2> QED
    BY <2>1, <2>2, <2>3, <2>4, <2>5, OneWritten DEF Started
<1>2. CASE Runner!Begin
  <2> DEFINE first == Plain("BEGIN")
             second == Plain("CAP")
  <2>1. /\ step = "entry" /\ step' = "select"
        /\ uart' = uart \o <<first, second>>
        /\ UNCHANGED <<at, judged, capable, termination>>
    BY <1>2 DEF Runner!Begin, Runner!Write
  <2>2. /\ first \in AllLines /\ first.kind = "BEGIN"
        /\ second \in AllLines /\ second.kind = "CAP"
    BY DEF RecordKinds
  <2> HIDE DEF first, second
  <2>3. Truthful(first)' /\ Truthful(second)'
    BY <2>1, <2>2 DEF Truthful, Completions
  <2>4. Fits(Here, first) /\ Fits(After(first), second) /\ Here' = After(second) /\ Writing
    BY <2>1, <2>2 DEF Fits, Here, After, Writing
  <2> QED
    BY <2>1, <2>2, <2>3, <2>4, TwoWritten DEF Started
<1>3. CASE Runner!PassOver
  <2>1. /\ step = "select" /\ step' = "select" /\ at' = at + 1
        /\ UNCHANGED <<uart, judged, capable, termination>>
    BY <1>3 DEF Runner!PassOver, Runner!Taking
  <2>2. \A test \in Tests : Started(test) => Started(test)'
    BY <1>0, <2>1 DEF Started
  <2>3. Writing /\ Here' = Here
    BY <2>1 DEF Writing, Here
  <2> QED
    BY <2>1, <2>2, <2>3, NothingWritten
<1>4. CASE Runner!SkipUnsupported
  <2>1. PICK test \in Tests :
              /\ Runner!Taking(test) /\ test \notin capable.tests
              /\ judged' = [judged EXCEPT ![test] = "SKIP"]
              /\ uart' = uart \o <<About("SKIP", test)>>
              /\ tally' = Runner!Tallied("SKIP")
              /\ UNCHANGED <<step, capable, termination>>
    BY <1>4 DEF Runner!SkipUnsupported, Runner!Write
  <2> DEFINE line == About("SKIP", test)
  <2>2. line \in AllLines /\ line.kind = "SKIP" /\ line.name = test /\ "SKIP" \in Completions
    BY DEF RecordKinds, Completions, MaybeTest
  <2>3. /\ at' = at + 1 /\ judged[test] = "none" /\ step = "select" /\ Writing
    BY <2>1, TakenIsNew DEF Writing
  <2>4. \A t \in Tests : judged'[t] = IF t = test THEN "SKIP" ELSE judged[t]
    BY <2>1, <2>2, <2>3, Judging
  <2>5. \A t \in Tests : judged'[t] # judged[t] =>
            /\ judged[t] = "none" /\ judged'[t] \in Completions
            /\ line = About(judged'[t], t)
    BY <2>2, <2>3, <2>4
  <2> HIDE DEF line
  <2>6. Unsupported'
    BY <2>1, <2>4 DEF Unsupported
  <2>7. Truthful(line)'
    BY <2>2, <2>4 DEF Truthful, Completions
  <2>8. \A t \in Tests : Started(t) => Started(t)'
    BY <1>0, <2>3 DEF Started
  <2>9. uart' = uart \o <<line>> /\ step' # "returned"
    BY <2>1, <2>3 DEF line
  <2> QED
    BY <2>1, <2>2, <2>3, <2>5, <2>6, <2>7, <2>8, <2>9, OneWritten
<1>5. CASE Runner!RunTest
  <2>1. PICK test \in Tests :
              /\ Runner!Taking(test)
              /\ \/ step' = "body" /\ uart' = uart \o <<About("RUN", test)>>
                 \/ step' = "end" /\ UNCHANGED uart
              /\ UNCHANGED <<judged, capable, termination>>
    BY <1>5 DEF Runner!RunTest, Runner!Write
  <2>2. /\ at' = at + 1 /\ step = "select" /\ Writing
        /\ at' \in 1..Len(Catalog) /\ Catalog[at'] = test /\ ~Started(test)
    BY <2>1, TakenIsNew DEF Writing
  <2>3. \A t \in Tests : Started(t) => Started(t)'
    BY <1>0, <2>2 DEF Started
  <2>4. CASE step' = "end" /\ UNCHANGED uart
    <3>1. Here' = Here
      BY <2>2, <2>4 DEF Here
    <3> QED
      BY <2>1, <2>2, <2>3, <2>4, <3>1, NothingWritten
  <2>5. CASE step' = "body" /\ uart' = uart \o <<About("RUN", test)>>
    <3> DEFINE line == About("RUN", test)
    <3>1. line \in AllLines /\ line.kind = "RUN" /\ line.name = test
      BY DEF RecordKinds, MaybeTest
    <3>2. uart' = uart \o <<line>>
      BY <2>5
    <3> HIDE DEF line
    <3>3. Started(test)'
      BY <2>2 DEF Started
    <3>4. Truthful(line)'
      BY <3>1, <3>3 DEF Truthful, Completions
    <3>5. Fits(Here, line) /\ Here' = After(line)
      BY <2>2, <2>5, <3>1 DEF Fits, Here, After, Completions
    <3> QED
      BY <2>1, <2>2, <2>3, <2>5, <3>1, <3>2, <3>4, <3>5, OneWritten
  <2> QED
    BY <2>1, <2>4, <2>5
<1>6. CASE Runner!BodyReturns
  <2>1. /\ step = "body" /\ step' = "restore"
        /\ UNCHANGED <<at, uart, judged, capable, termination>>
    BY <1>6 DEF Runner!BodyReturns
  <2>2. Writing /\ Here' = Here
    BY <2>1 DEF Writing, Here
  <2> QED
    BY <2>1, <2>2, NothingWritten DEF Started
<1>7. CASE Runner!BodyPanics \/ (Runner!Restore /\ step' = "spinning")
  <2> DEFINE line == Plain("HARNESS_FAILURE")
  <2>1. /\ step \in {"body", "restore"} /\ step' = "spinning"
        /\ uart' = uart \o <<line>>
        /\ UNCHANGED <<at, judged, capable, termination>>
    BY <1>7 DEF Runner!BodyPanics, Runner!Restore, Runner!Spinning, Runner!Write
  <2>2. line \in AllLines /\ line.kind = "HARNESS_FAILURE"
    BY DEF InfraKinds
  <2> HIDE DEF line
  <2>3. Truthful(line)' /\ Fits(Here, line) /\ Writing /\ ~Writing'
    BY <2>1, <2>2 DEF Truthful, Completions, Fits, Writing
  <2> QED
    BY <2>1, <2>2, <2>3, OneWritten DEF Started
<1>8. CASE Runner!BodyHangs
  <2>1. /\ step = "body" /\ step' = "spinning" /\ uart' = uart \o <<>>
        /\ UNCHANGED <<at, judged, capable, termination>>
    BY <1>8 DEF Runner!BodyHangs, Runner!Spinning, Runner!Write
  <2>2. uart' = uart
    BY <2>1, ConcatEmptySeq DEF Guest, Runner!TypeOK
  <2>3. Writing /\ ~Writing'
    BY <2>1 DEF Writing
  <2> QED
    BY <2>1, <2>2, <2>3, NothingWritten DEF Started
<1>9. CASE Runner!BodyEndsBoot
  <2>1. PICK completion \in {"PASS", "FAIL"} :
              /\ step = "body" /\ step' = "spinning"
              /\ judged' = [judged EXCEPT ![Catalog[at]] = completion]
              /\ uart' = uart \o <<About(completion, Catalog[at])>>
              /\ UNCHANGED <<at, capable, termination>>
    BY <1>9 DEF Runner!BodyEndsBoot, Runner!Current, Runner!Spinning, Runner!Write
  <2>2. PICK test \in Tests : test = Catalog[at]
    BY <2>1, AtInCatalog DEF Guest, InTest
  <2>3. judged[test] = "none" /\ completion \in Completions
    BY <2>1, <2>2 DEF Guest, InTest, Completions
  <2>4. PICK line \in AllLines :
              /\ line = About(completion, test)
              /\ line.kind = completion /\ line.name = test
    BY <2>2, <2>3 DEF RecordKinds, MaybeTest
  <2>5. \A t \in Tests : judged'[t] = IF t = test THEN completion ELSE judged[t]
    BY <2>1, <2>2 DEF Guest, Runner!TypeOK
  <2>6. \A t \in Tests : judged'[t] # judged[t] =>
            /\ judged[t] = "none" /\ judged'[t] \in Completions
            /\ line = About(judged'[t], t)
    BY <2>3, <2>4, <2>5
  <2>7. Fits(Here, line)
    BY <2>1, <2>2, <2>3, <2>4 DEF Fits, Here
  <2>8. Truthful(line)'
    BY <2>1, <2>3, <2>4, <2>5 DEF Truthful, Completions
  <2>9. Writing /\ ~Writing' /\ line.kind # "RUN" /\ line.kind # "PANIC"
    BY <2>1, <2>4 DEF Writing
  <2>10. uart' = uart \o <<line>>
    BY <2>1, <2>2, <2>4
  <2> QED
    BY <2>1, <2>6, <2>7, <2>8, <2>9, <2>10, OneWritten DEF Started
<1>10. CASE Runner!FirmwarePanics
  <2> DEFINE line == Runner!FirmwarePanic
  <2>1. /\ step \in {"entry", "body", "returned"} /\ step' = "spinning"
        /\ uart' = uart \o <<line>>
        /\ UNCHANGED <<at, judged, capable, termination>>
    BY <1>10 DEF Runner!FirmwarePanics, Runner!Spinning, Runner!Write
  <2>2. line \in AllLines /\ line.kind = "PANIC"
    OBVIOUS
  <2>3. step \in {"entry", "body"} => Silent'
    BY <2>1, BeforeVerdict DEF InTest, Silent
  <2>4. Truthful(line)' /\ Fits(Here, line)
    BY <2>1, <2>2 DEF Truthful, Completions, Fits
  <2>5. CASE step \in {"entry", "body"}
    <3> HIDE DEF line
    <3>1. Writing /\ ~Writing'
      BY <2>1, <2>5 DEF Writing
    <3> QED
      BY <2>1, <2>2, <2>3, <2>4, <2>5, <3>1, OneWritten DEF Started
  <2>6. CASE step = "returned"
    <3> DEFINE lines == <<line>>
    <3>1. /\ lines \in Seq(AllLines) /\ Len(lines) = 1 /\ lines[1] = line
          /\ uart' = uart \o lines /\ lines = <<Runner!FirmwarePanic>>
      BY <2>1, <2>2
    <3> HIDE DEF lines
    <3>2. ~Writing /\ ~Writing'
      BY <2>1, <2>6 DEF Writing
    <3>3. \A i \in 1..Len(lines) : lines[i] = line
      BY <3>1
    <3> HIDE DEF line
    <3>4. Emission(lines)
      BY <2>1, <2>2, <2>4, <2>6, <3>1, <3>2, <3>3 DEF Emission, Started
    <3> QED
      BY <3>1, <3>4
  <2> QED
    BY <2>1, <2>5, <2>6
<1>11. CASE Runner!Restore /\ step' # "spinning"
  <2>1. /\ step = "restore" /\ step' = "report"
        /\ UNCHANGED <<at, uart, judged, capable, termination>>
    BY <1>11 DEF Runner!Restore
  <2>2. Writing /\ Here' = Here
    BY <2>1 DEF Writing, Here
  <2> QED
    BY <2>1, <2>2, NothingWritten DEF Started
<1>12. CASE Runner!Report
  <2>1. step = "report"
    BY <1>12 DEF Runner!Report
  <2>2. PICK test \in Tests : test = Catalog[at] /\ judged[test] = "none"
    BY <2>1, AtInCatalog DEF Guest, InTest
  <2>3. PICK kind \in Completions : kind = Runner!Completion
    BY DEF Runner!Completion, Completions
  <2>k. kind \in RecordKinds \cup InfraKinds /\ test \in MaybeTest
    BY DEF RecordKinds, MaybeTest
  <2>4. PICK line \in AllLines :
              line = About(kind, test) /\ line.kind = kind /\ line.name = test
    BY <2>k
  <2>5. PICK infra \in AllLines :
              infra = About("INFRA", test) /\ infra.kind = "INFRA" /\ infra.name = test
    BY DEF RecordKinds, MaybeTest
  <2>6. /\ step' \in {"end", "scope"}
        /\ judged' = [judged EXCEPT ![test] = kind]
        /\ uart' = uart \o ((IF cleanup THEN <<infra>> ELSE <<>>) \o <<line>>)
        /\ UNCHANGED <<at, capable, termination>>
    BY <1>12, <2>2, <2>3, <2>4, <2>5 DEF Runner!Report, Runner!Write, Runner!Current
  <2>7. Here = <<"test", test>> /\ Here' = <<"idle", NoTest>> /\ Writing
    BY <2>1, <2>2, <2>6 DEF Here, Writing
  <2>8. \A t \in Tests : judged'[t] = IF t = test THEN kind ELSE judged[t]
    BY <2>6 DEF Guest, Runner!TypeOK
  <2>9. \A t \in Tests : judged'[t] # judged[t] =>
            /\ judged[t] = "none" /\ judged'[t] \in Completions
            /\ line = About(judged'[t], t)
    BY <2>2, <2>4, <2>8
  <2>10. /\ Truthful(line)' /\ Truthful(infra)'
         /\ line.kind \notin {"RUN", "END", "PANIC"}
    BY <2>4, <2>5, <2>8 DEF Truthful, Completions
  <2>11. Fits(Here, line) /\ Fits(Here, infra) /\ Fits(After(infra), line) /\ Here' = After(line)
    BY <2>4, <2>5, <2>7 DEF Fits, After, Completions
  <2>12. \A t \in Tests : Started(t) => Started(t)'
    BY <2>6 DEF Started
  <2>13. CASE cleanup
    <3>1. uart' = uart \o <<infra, line>>
      BY <2>6, <2>13
    <3> QED
      BY <2>5, <2>6, <2>7, <2>9, <2>10, <2>11, <2>12, <3>1, TwoWritten
  <2>14. CASE ~cleanup
    <3>1. uart' = uart \o <<line>>
      BY <2>6, <2>14
    <3> QED
      BY <2>6, <2>7, <2>9, <2>10, <2>11, <2>12, <3>1, OneWritten
  <2> QED
    BY <2>13, <2>14
<1>13. CASE Runner!EndScope \/ Runner!CatalogDone
  <2>1. /\ step \in {"scope", "select"} /\ step' \in {"select", "end"}
        /\ UNCHANGED <<at, uart, judged, capable, termination>>
    BY <1>13 DEF Runner!EndScope, Runner!CatalogDone
  <2>2. Writing /\ Here' = Here
    BY <2>1 DEF Writing, Here
  <2> QED
    BY <2>1, <2>2, NothingWritten DEF Started
<1>14. CASE Runner!EndSuite
  <2>1. PICK line \in AllLines : line = End(tally) /\ line.kind = "END" /\ line.counts = tally
    BY DEF Guest, Runner!TypeOK
  <2>2. /\ step = "end" /\ step' = "returned"
        /\ uart' = uart \o <<line>>
        /\ UNCHANGED <<at, judged, capable, termination>>
    BY <1>14, <2>1 DEF Runner!EndSuite, Runner!Write
  <2>3. \A kind \in Completions : line.counts[kind] = Cardinality(JudgedAs(kind))'
    <3>1. \A kind \in Completions : tally[kind] = Cardinality(JudgedAs(kind))
      BY <2>2 DEF Guest
    <3>2. \A kind \in Completions : JudgedAs(kind)' = JudgedAs(kind)
      BY <2>2 DEF JudgedAs
    <3> QED
      BY <2>1, <3>1, <3>2
  <2>4. Writing /\ ~Writing'
    BY <2>2 DEF Writing
  <2>5. Truthful(line)'
    BY <2>1, <2>3, <2>4 DEF Truthful, Completions
  <2>6. Fits(Here, line)
    BY <2>1, <2>2 DEF Fits, Here
  <2> QED
    BY <2>1, <2>2, <2>4, <2>5, <2>6, OneWritten DEF Started
<1> QED
  BY <1>1, <1>2, <1>3, <1>4, <1>5, <1>6, <1>7, <1>8, <1>9, <1>10, <1>11, <1>12, <1>13, <1>14
  DEF Runner!Next
\* A step that gives no test a verdict.
LEMMA NotJudging ==
  ASSUME Guest, uart' \in Seq(AllLines), UNCHANGED <<judged, tally, capable, termination>>,
         step' \in {"select", "body", "restore", "report", "scope", "end", "returned", "spinning"},
         at' \in 0..Len(Catalog), result' \in Runner!Results \cup {"none"},
         cleanup' \in BOOLEAN, foreign' \in BOOLEAN, corrupted' \in BOOLEAN,
         adapter' \in {"Ready", "TestScoped", "TranslationInstalled", "Corrupted", "Finished"},
         outcome' \in {"none", "Complete", "BaselineCapabilityMissing", "HarnessCorrupted"},
         InTest' => at' >= 1 /\ Runner!Selected(Catalog[at])' /\ judged[Catalog[at']] = "none",
         \A test \in Tests : Started(test) => Started(test)',
         step = "spinning" => step' = "spinning",
         step' \in {"restore", "report"} /\ Catalog[at'] \in Destructive => result' = "fail"
  PROVE  Guest'
<1>1. Runner!TypeOK'
  BY SameProtocol DEF Guest, Runner!TypeOK, AllLines
<1>2. \A kind \in Completions : JudgedAs(kind)' = JudgedAs(kind)
  BY DEF JudgedAs
<1>3. \A test \in Tests : Runner!Selected(test)' = Runner!Selected(test)
  BY DEF Runner!Selected
<1>4. \A test \in Tests : judged'[test] # "none" => Started(test)' /\ Runner!Selected(test)'
  BY <1>3 DEF Guest
<1>5. \A test \in Destructive : judged'[test] = "PASS" => step' = "spinning"
  BY DEF Guest
<1>6. step' # "spinning" =>
         \A kind \in Completions : tally'[kind] = Cardinality(JudgedAs(kind))'
  BY <1>2 DEF Guest
<1> QED
  BY <1>1, <1>4, <1>5, <1>6 DEF Guest, InTest

\* A step that gives its test a verdict.
LEMMA GivingVerdict ==
  ASSUME Guest, uart' \in Seq(AllLines), UNCHANGED <<capable, termination>>, Len(Catalog) \in Nat,
         NEW test \in Tests, NEW kind \in Completions,
         judged[test] = "none", judged' = [judged EXCEPT ![test] = kind],
         step # "spinning",
         step' \in {"select", "scope", "end", "spinning"},
         \/ tally' = Runner!Tallied(kind)
         \/ step' = "spinning" /\ tally' = tally,
         at' \in 0..Len(Catalog), result' \in Runner!Results \cup {"none"},
         cleanup' \in BOOLEAN, foreign' \in BOOLEAN, corrupted' \in BOOLEAN,
         adapter' \in {"Ready", "TestScoped", "TranslationInstalled", "Corrupted", "Finished"},
         outcome' \in {"none", "Complete", "BaselineCapabilityMissing", "HarnessCorrupted"},
         Started(test)', Runner!Selected(test),
         \A t \in Tests : Started(t) => Started(t)',
         test \in Destructive /\ kind = "PASS" => step' = "spinning"
  PROVE  Guest'
<1>1. /\ judged' \in [Tests -> Completions \cup {"none"}]
      /\ \A t \in Tests : judged'[t] = IF t = test THEN kind ELSE judged[t]
  BY SameProtocol DEF Guest, Runner!TypeOK
<1>2. /\ tally' \in Counts
      /\ step' # "spinning" => \A k \in Completions : tally'[k] = Cardinality(JudgedAs(k))'
  <2>1. CASE tally' = Runner!Tallied(kind)
    BY <2>1, Judging
  <2>2. CASE step' = "spinning" /\ tally' = tally
    BY <2>2, SameProtocol DEF Guest, Runner!TypeOK
  <2> QED
    BY <2>1, <2>2
<1>3. Runner!TypeOK'
  BY <1>1, <1>2, SameProtocol DEF Guest, Runner!TypeOK, AllLines
<1>4. \A t \in Tests : Runner!Selected(t)' = Runner!Selected(t)
  BY DEF Runner!Selected
<1>5. \A t \in Tests : judged'[t] # "none" => Started(t)' /\ Runner!Selected(t)'
  BY <1>1, <1>4 DEF Guest
<1>6. \A t \in Destructive : judged'[t] = "PASS" => step' = "spinning"
  <2> SUFFICES ASSUME NEW t \in Destructive, judged'[t] = "PASS" PROVE step' = "spinning"
    OBVIOUS
  <2>1. t \in Tests
    BY SupervisorAssumption DEF SupervisorAssumption
  <2> QED
    BY <1>1, <2>1 DEF Guest
<1> QED
  BY <1>2, <1>3, <1>5, <1>6 DEF Guest, InTest

LEMMA GuestKept ==
  ASSUME Guest, Runner!Next, UNCHANGED termination
  PROVE  Guest'
<1> USE DEF Runner!inputs
<1>0. /\ Len(Catalog) \in Nat /\ at \in 0..Len(Catalog)
      /\ uart' \in Seq(AllLines)
      /\ \A test \in Tests : Started(test) => Started(test)'
      /\ Runner!Completion \in Completions
  <2>1. PICK lines \in Seq(AllLines) : Emission(lines)
    BY GuestEmits
  <2>2. uart' \in Seq(AllLines)
    BY <2>1, SameProtocol DEF Emission, Guest, Runner!TypeOK, AllLines
  <2> QED
    BY <2>1, <2>2, BootAssumption
    DEF Emission, Guest, Runner!TypeOK, BootAssumption, Runner!Completion, Completions
<1>t. /\ result \in Runner!Results \cup {"none"}
      /\ cleanup \in BOOLEAN /\ foreign \in BOOLEAN /\ corrupted \in BOOLEAN
      /\ adapter \in {"Ready", "TestScoped", "TranslationInstalled", "Corrupted", "Finished"}
      /\ outcome \in {"none", "Complete", "BaselineCapabilityMissing", "HarnessCorrupted"}
  BY DEF Guest, Runner!TypeOK
<1>1. CASE Runner!BaselineMissing \/ Runner!Begin
  <2>1. /\ step' \in {"returned", "select"} /\ step = "entry"
        /\ outcome' \in {"none", "Complete", "BaselineCapabilityMissing", "HarnessCorrupted"}
        /\ UNCHANGED <<at, result, cleanup, foreign, adapter, tally, corrupted, judged, capable, termination>>
    BY <1>1, <1>t DEF Runner!BaselineMissing, Runner!Begin
  <2> QED
    BY <1>0, <1>t, <2>1, NotJudging DEF InTest
<1>2. CASE Runner!PassOver
  <2>1. PICK test \in Tests :
           /\ Runner!Taking(test)
           /\ UNCHANGED <<step, result, cleanup, foreign, adapter, tally, corrupted, outcome,
                          judged, capable, termination>>
    BY <1>2 DEF Runner!PassOver
  <2>2. step = "select" /\ at' \in 0..Len(Catalog)
    BY <2>1, <1>0, TakenIsNew
  <2> QED
    BY <1>0, <1>t, <2>1, <2>2, NotJudging DEF InTest
<1>3. CASE Runner!SkipUnsupported
  <2>1. PICK test \in Tests :
           /\ Runner!Taking(test) /\ Runner!Selected(test)
           /\ tally' = Runner!Tallied("SKIP")
           /\ judged' = [judged EXCEPT ![test] = "SKIP"]
           /\ UNCHANGED <<step, result, cleanup, foreign, adapter, corrupted, outcome, capable, termination>>
    BY <1>3 DEF Runner!SkipUnsupported
  <2>2. /\ step = "select" /\ at' \in 0..Len(Catalog) /\ Started(test)'
        /\ judged[test] = "none" /\ "SKIP" \in Completions
    BY <2>1, <1>0, TakenIsNew DEF Started, Completions
  <2> QED
    BY <1>0, <1>t, <2>1, <2>2, GivingVerdict
<1>4. CASE Runner!RunTest
  <2>1. PICK test \in Tests :
           /\ Runner!Taking(test) /\ Runner!Selected(test)
           /\ step' \in {"body", "end"}
           /\ adapter' \in {"TestScoped", "Corrupted"}
           /\ corrupted' \in BOOLEAN
           /\ UNCHANGED <<result, cleanup, foreign, tally, outcome, judged, capable, termination>>
    BY <1>4, <1>t DEF Runner!RunTest
  <2>2. /\ step = "select" /\ at' \in 1..Len(Catalog) /\ Catalog[at'] = test
        /\ judged[test] = "none"
    BY <2>1, <1>0, TakenIsNew
  <2>3. Runner!Selected(test)'
    BY <2>1 DEF Runner!Selected
  <2> QED
    BY <1>0, <1>t, <2>1, <2>2, <2>3, NotJudging DEF InTest
<1>5. CASE Runner!BodyReturns
  <2>1. /\ step = "body" /\ step' = "restore"
        /\ result' \in Runner!Results /\ cleanup' \in BOOLEAN /\ foreign' \in BOOLEAN
        /\ Catalog[at] \in Destructive => result' = "fail"
        /\ adapter' \in {"TestScoped", "TranslationInstalled", "Corrupted"}
        /\ UNCHANGED <<at, tally, corrupted, outcome, judged, capable, termination>>
    BY <1>5 DEF Runner!BodyReturns, Runner!Current, Runner!Results
  <2>2. at >= 1 /\ Runner!Selected(Catalog[at])' /\ judged[Catalog[at]] = "none"
    BY <2>1 DEF Guest, InTest, Runner!Selected
  <2> QED
    BY <1>0, <1>t, <2>1, <2>2, NotJudging
<1>6. CASE Runner!BodyPanics \/ Runner!BodyHangs \/ Runner!FirmwarePanics
  <2>1. /\ step' = "spinning"
        /\ UNCHANGED <<at, result, cleanup, foreign, adapter, tally, corrupted, outcome, judged,
                       capable, termination>>
    BY <1>6 DEF Runner!BodyPanics, Runner!BodyHangs, Runner!FirmwarePanics, Runner!Spinning
  <2> QED
    BY <1>0, <1>t, <2>1, NotJudging DEF InTest
<1>7. CASE Runner!BodyEndsBoot
  <2>1. PICK completion \in {"PASS", "FAIL"} :
           /\ step = "body" /\ step' = "spinning"
           /\ judged' = [judged EXCEPT ![Catalog[at]] = completion]
           /\ UNCHANGED <<at, result, cleanup, foreign, adapter, tally, corrupted, outcome,
                          capable, termination>>
    BY <1>7 DEF Runner!BodyEndsBoot, Runner!Current, Runner!Spinning
  <2>2. at \in 1..Len(Catalog) /\ Catalog[at] \in Tests /\ judged[Catalog[at]] = "none"
        /\ Runner!Selected(Catalog[at]) /\ completion \in Completions
    BY <2>1, AtInCatalog DEF Guest, InTest, Completions
  <2>3. Started(Catalog[at])'
    BY <2>1, <2>2 DEF Started
  <2> QED
    BY <1>0, <1>t, <2>1, <2>2, <2>3, GivingVerdict
<1>8. CASE Runner!Restore
  <2>1. /\ step = "restore" /\ step' \in {"report", "spinning"}
        /\ adapter' \in {"TestScoped", "Corrupted"}
        /\ UNCHANGED <<at, result, cleanup, foreign, tally, corrupted, outcome, judged,
                       capable, termination>>
    BY <1>8 DEF Runner!Restore
  <2>2. at >= 1 /\ Runner!Selected(Catalog[at])' /\ judged[Catalog[at]] = "none"
        /\ (Catalog[at] \in Destructive => result = "fail")
    BY <2>1 DEF Guest, InTest, Runner!Selected
  <2> QED
    BY <1>0, <1>t, <2>1, <2>2, NotJudging
<1>9. CASE Runner!Report
  <2>1. /\ step = "report" /\ step' \in {"end", "scope"}
        /\ tally' = Runner!Tallied(Runner!Completion)
        /\ judged' = [judged EXCEPT ![Catalog[at]] = Runner!Completion]
        /\ result' = "none" /\ cleanup' = FALSE
        /\ adapter' \in {"Ready", "TestScoped", "TranslationInstalled", "Corrupted", "Finished"}
        /\ corrupted' \in BOOLEAN
        /\ UNCHANGED <<at, foreign, outcome, capable, termination>>
    BY <1>9, <1>t DEF Runner!Report, Runner!Current
  <2>2. at \in 1..Len(Catalog) /\ Catalog[at] \in Tests /\ judged[Catalog[at]] = "none"
        /\ Runner!Selected(Catalog[at])
    BY <2>1, AtInCatalog DEF Guest, InTest
  <2>3. Started(Catalog[at])'
    BY <2>1, <2>2 DEF Started
  <2>4. Catalog[at] \in Destructive => Runner!Completion = "FAIL"
    BY <2>1 DEF Guest, Runner!Completion
  <2> QED
    BY <1>0, <1>t, <2>1, <2>2, <2>3, <2>4, GivingVerdict
<1>10. CASE Runner!EndScope \/ Runner!CatalogDone \/ Runner!EndSuite
  <2>1. /\ step \in {"scope", "select", "end"} /\ step' \in {"select", "end", "returned"}
        /\ adapter' \in {"Ready", "TestScoped", "TranslationInstalled", "Corrupted", "Finished"}
        /\ foreign' \in BOOLEAN /\ corrupted' \in BOOLEAN
        /\ outcome' \in {"none", "Complete", "BaselineCapabilityMissing", "HarnessCorrupted"}
        /\ UNCHANGED <<at, result, cleanup, tally, judged, capable, termination>>
    BY <1>10, <1>t DEF Runner!EndScope, Runner!CatalogDone, Runner!EndSuite
  <2> QED
    BY <1>0, <1>t, <2>1, NotJudging DEF InTest
<1> QED
  BY <1>1, <1>2, <1>3, <1>4, <1>5, <1>6, <1>7, <1>8, <1>9, <1>10 DEF Runner!Next
-----------------------------------------------------------------------------
(* The pipe.                                                               *)

LEMMA PipeTyped ==
  ASSUME TypeOK, Guest
  PROVE  /\ channel \in Seq(Lines) /\ channel \in Seq(AllLines)
         /\ uart \in Seq(AllLines) /\ Pipe \in Seq(AllLines)
         /\ Len(channel) \in Nat /\ Len(uart) \in Nat
         /\ Len(Pipe) = Len(channel) + Len(uart)
         /\ \A i \in 1..Len(Pipe) :
               Pipe[i] = IF i <= Len(channel) THEN channel[i] ELSE uart[i - Len(channel)]
<1>1. channel \in Seq(AllLines)
  BY DEF TypeOK, AllLines
<1>2. uart \in Seq(AllLines)
  BY SameProtocol DEF Guest, Runner!TypeOK, AllLines
<1> QED
  BY <1>1, <1>2 DEF TypeOK, Pipe

LEMMA Positions ==
  ASSUME NEW S, NEW s \in Seq(S), NEW t \in Seq(S)
  PROVE  /\ Len(s \o t) = Len(s) + Len(t) /\ Len(s) \in Nat /\ Len(t) \in Nat
         /\ \A i \in 1..Len(s) : (s \o t)[i] = s[i] /\ i \in 1..Len(s \o t)
         /\ \A i \in 1..Len(t) : (s \o t)[i + Len(s)] = t[i] /\ i + Len(s) \in 1..Len(s \o t)
         /\ \A i \in 1..Len(s \o t) :
               \/ i \in 1..Len(s) /\ (s \o t)[i] = s[i]
               \/ i - Len(s) \in 1..Len(t) /\ (s \o t)[i] = t[i - Len(s)]
  OBVIOUS

\* What a concatenation, and a sequence without its head, hold.
LEMMA AmongBoth ==
  ASSUME NEW S, NEW s \in Seq(S), NEW t \in Seq(S)
  PROVE  /\ \A line : Among(line, s \o t) <=> Among(line, s) \/ Among(line, t)
         /\ \A kind : KindAmong(kind, s \o t) <=> KindAmong(kind, s) \/ KindAmong(kind, t)
         /\ \A line : line \in Members(s \o t) <=> line \in Members(s) \/ line \in Members(t)
<1>1. /\ Len(s \o t) = Len(s) + Len(t) /\ Len(s) \in Nat /\ Len(t) \in Nat
      /\ \A i \in 1..Len(s) : (s \o t)[i] = s[i] /\ i \in 1..Len(s \o t)
      /\ \A i \in 1..Len(t) : (s \o t)[i + Len(s)] = t[i] /\ i + Len(s) \in 1..Len(s \o t)
      /\ \A i \in 1..Len(s \o t) :
            \/ i \in 1..Len(s) /\ (s \o t)[i] = s[i]
            \/ i - Len(s) \in 1..Len(t) /\ (s \o t)[i] = t[i - Len(s)]
  BY Positions
<1>2. ASSUME NEW line
      PROVE  Among(line, s \o t) <=> Among(line, s) \/ Among(line, t)
  BY <1>1 DEF Among
<1>3. ASSUME NEW kind
      PROVE  KindAmong(kind, s \o t) <=> KindAmong(kind, s) \/ KindAmong(kind, t)
  <2>1. KindAmong(kind, s) \/ KindAmong(kind, t) => KindAmong(kind, s \o t)
    <3>1. ASSUME NEW i \in 1..Len(s), s[i].kind = kind PROVE KindAmong(kind, s \o t)
      BY <1>1, <3>1 DEF KindAmong
    <3>2. ASSUME NEW i \in 1..Len(t), t[i].kind = kind PROVE KindAmong(kind, s \o t)
      <4>1. (s \o t)[i + Len(s)].kind = kind /\ i + Len(s) \in 1..Len(s \o t)
        BY <1>1, <3>2
      <4> QED
        BY <4>1 DEF KindAmong
    <3> QED
      BY <3>1, <3>2 DEF KindAmong
  <2>2. ASSUME NEW i \in 1..Len(s \o t), (s \o t)[i].kind = kind
        PROVE  KindAmong(kind, s) \/ KindAmong(kind, t)
    <3>1. CASE i \in 1..Len(s) /\ (s \o t)[i] = s[i]
      BY <2>2, <3>1 DEF KindAmong
    <3>2. CASE i - Len(s) \in 1..Len(t) /\ (s \o t)[i] = t[i - Len(s)]
      BY <2>2, <3>2 DEF KindAmong
    <3> QED
      BY <1>1, <3>1, <3>2
  <2> QED
    BY <2>1, <2>2 DEF KindAmong
<1>4. \A line : line \in Members(s \o t) <=> Among(line, s \o t)
  BY DEF Members, Among
<1>5. \A line : (line \in Members(s) <=> Among(line, s)) /\ (line \in Members(t) <=> Among(line, t))
  BY DEF Members, Among
<1> QED
  BY <1>2, <1>3, <1>4, <1>5

LEMMA AmongHead ==
  ASSUME NEW S, NEW s \in Seq(S), s # <<>>
  PROVE  /\ Tail(s) \in Seq(S) /\ Head(s) = s[1] /\ Len(Tail(s)) = Len(s) - 1 /\ Len(s) \in Nat
         /\ Len(s) >= 1 /\ Head(s) \in S
         /\ \A i \in 1..Len(Tail(s)) : Tail(s)[i] = s[i + 1] /\ i + 1 \in 1..Len(s)
         /\ \A line : Among(line, s) <=> line = Head(s) \/ Among(line, Tail(s))
         /\ \A kind : KindAmong(kind, s) <=> kind = Head(s).kind \/ KindAmong(kind, Tail(s))
         /\ \A line : line \in Members(s) <=> line = Head(s) \/ line \in Members(Tail(s))
<1>1. /\ Tail(s) \in Seq(S) /\ Head(s) = s[1] /\ Len(Tail(s)) = Len(s) - 1 /\ Len(s) \in Nat
      /\ Len(s) >= 1 /\ Head(s) \in S
      /\ \A i \in 1..Len(Tail(s)) : Tail(s)[i] = s[i + 1] /\ i + 1 \in 1..Len(s)
      /\ \A i \in 1..Len(s) : i = 1 \/ (i - 1 \in 1..Len(Tail(s)) /\ Tail(s)[i - 1] = s[i])
  OBVIOUS
<1>2. ASSUME NEW line
      PROVE  Among(line, s) <=> line = Head(s) \/ Among(line, Tail(s))
  <2>1. ASSUME Among(line, s) PROVE line = Head(s) \/ Among(line, Tail(s))
    <3>1. PICK i \in 1..Len(s) : s[i] = line
      BY <2>1 DEF Among
    <3>2. i = 1 \/ (i - 1 \in 1..Len(Tail(s)) /\ Tail(s)[i - 1] = s[i])
      BY <1>1
    <3> QED
      BY <1>1, <3>1, <3>2 DEF Among
  <2>2. line = Head(s) => Among(line, s)
    <3>1. 1 \in 1..Len(s)
      BY <1>1
    <3> QED
      BY <1>1, <3>1 DEF Among
  <2>3. Among(line, Tail(s)) => Among(line, s)
    BY <1>1 DEF Among
  <2> QED
    BY <2>1, <2>2, <2>3
<1>3. ASSUME NEW kind
      PROVE  KindAmong(kind, s) <=> kind = Head(s).kind \/ KindAmong(kind, Tail(s))
  BY <1>1 DEF KindAmong
<1>4. \A line : (line \in Members(s) <=> Among(line, s)) /\ (line \in Members(Tail(s)) <=> Among(line, Tail(s)))
  BY DEF Members, Among
<1> QED
  BY <1>1, <1>2, <1>3, <1>4

LEMMA AmongNone ==
  /\ \A line : ~Among(line, <<>>) /\ line \notin Members(<<>>)
  /\ \A kind : ~KindAmong(kind, <<>>)
  BY DEF Among, Members, KindAmong

LEMMA AmongOne ==
  ASSUME NEW line
  PROVE  /\ \A other : Among(other, <<line>>) <=> other = line
         /\ \A other : other \in Members(<<line>>) <=> other = line
         /\ \A kind : KindAmong(kind, <<line>>) <=> kind = line.kind
  BY DEF Among, Members, KindAmong

LEMMA MembersAre ==
  ASSUME NEW lines
  PROVE  /\ \A line : line \in Members(lines) <=> Among(line, lines)
         /\ \A i \in 1..Len(lines) : lines[i] \in Members(lines)
  BY DEF Members, Among

-----------------------------------------------------------------------------
(* Steps of the supervisor and of Podman, which leave the guest and the    *)
(* relay alone.  The one that does not is a launch, see Booting.           *)

HostSide ==
    \/ HostStep /\ pc' # "register"
    \/ RelayExit \/ WorldStep \/ BootDone \/ UNCHANGED bootVars

\* Nothing is read.
Unmoved ==
    /\ UNCHANGED <<parser, recorded, channel, watch>>
    /\ expired => expired'
    /\ verdict' = verdict \/ (verdict.kind = "completed" /\ verdict'.kind = "io")

\* Podman cannot be started, or a log cannot be created.
NeverBegins ==
    /\ pc = "launch" /\ channel' = <<>>
    /\ \/ verdict'.kind = "startup" /\ recorded' = {}
       \/ verdict'.kind = "io" /\ UNCHANGED recorded

\* The boot is given up, or ends by itself.
Stops ==
    /\ verdict.kind = "none" /\ channel' = <<>>
    /\ UNCHANGED <<recorded, watch, expired>>
    /\ \/ verdict'.kind \in {"cancelled", "timeout", "io", "harness"}
       \/ verdict'.kind = "capability" /\ channel # <<>> /\ NextLine.kind = "CAPABILITY"
       \/ /\ verdict'.kind = "malformed"
          /\ expired /\ watch # NoTest /\ ~Admissible(parser, About("FAIL", watch))
       \/ /\ verdict'.kind = "malformed"
          /\ channel # <<>> /\ NextLine.kind \in RecordKinds /\ ~Admissible(parser, NextLine)
       \/ /\ verdict' = FinishVerdict
          /\ child = "exited" /\ channel = <<>>

\* The watchdog completes a test.
Blames ==
    /\ verdict.kind = "none" /\ verdict'.kind = "testtimeout" /\ channel' = <<>>
    /\ UNCHANGED watch
    /\ recorded' = recorded \cup {About("FAIL", watch)}

\* A line is read and the boot goes on.
Takes ==
    /\ verdict.kind = "none" /\ UNCHANGED verdict
    /\ channel # <<>> /\ channel' = Tail(channel)
    /\ \/ /\ NextLine.kind \in InfraKinds /\ ~EndsBoot(NextLine)
          /\ UNCHANGED <<parser, recorded, watch>>
       \/ /\ Admissible(parser, NextLine)
          /\ parser' = Absorb(parser, NextLine)
          /\ recorded' = recorded \cup {NextLine}
          /\ watch' = CASE NextLine.kind = "RUN" -> NextLine.name
                        [] NextLine.kind \in {"PASS", "FAIL"} -> NoTest
                        [] OTHER -> watch

\* A record is read that ends the boot.
Concludes ==
    /\ verdict.kind = "none" /\ channel # <<>> /\ channel' = <<>>
    /\ verdict'.kind \in {"completed", "malformed"}
    /\ Admissible(parser, NextLine)
    /\ recorded' = recorded \cup {NextLine}
    /\ \/ NextLine.kind = "BEGIN_OTHER"
       \/ NextLine.kind \in {"PASS", "FAIL"} /\ termination # NoTest

\* Podman, and what it says of the relay.
Contained ==
    /\ container' = "absent" => container = "absent"
    /\ verdict'.kind = "none" => verdict.kind = "none"
    /\ container' = "gone" /\ verdict'.kind = "none" => container = "gone" \/ relay = "exited"
    /\ container' = "live" /\ verdict'.kind = "none" =>
          (container = "live" /\ child' = child) \/ child' = "running"

LEMMA HostEffects ==
  ASSUME IInv, HostSide
  PROVE  /\ Unmoved \/ NeverBegins \/ Stops \/ Blames \/ Takes \/ Concludes
         /\ Contained
         /\ UNCHANGED <<termination, guest, uart, relaying>>
<1>0. TypeOK /\ Control
  BY DEF IInv
<1>k. \A kind \in {"none", "completed"} \cup FailureKinds : Verdict(kind).kind = kind
  BY VerdictTyped
<1>f. UNCHANGED <<termination, guest, uart, relaying>>
  BY DEF HostSide, HostStep, RelayExit, WorldStep, BootDone, bootVars, vars
<1> DEFINE Goal == /\ Unmoved \/ NeverBegins \/ Stops \/ Blames \/ Takes \/ Concludes
                   /\ Contained
<1>1. CASE Launch
  BY <1>1 DEF Launch, HostSide, HostStep, RelayExit, WorldStep, BootDone, bootVars, vars,
              supervision, Expire, Interrupt, ContainerRegisters, ContainerExits, ChildExits,
              ClientFails
<1>2. CASE \E kind \in {"startup", "io"} : SpawnFails(kind)
  <2>1. /\ pc = "launch" /\ UNCHANGED <<child, container, channel>>
        /\ \/ verdict'.kind = "startup" /\ recorded' = {}
           \/ verdict'.kind = "io" /\ UNCHANGED recorded
    BY <1>2, <1>k DEF SpawnFails, FailureKinds
  <2>2. NeverBegins
    BY <1>0, <2>1 DEF Control, NeverBegins
  <2> QED
    BY <1>f, <2>1, <2>2 DEF Contained
<1>3. CASE Registration \/ Poll \/ Quiet \/ Disconnected \/ HandshakeErrorRead
  BY <1>3, <1>f
  DEF Registration, Poll, Quiet, Disconnected, HandshakeErrorRead, podman, Unmoved, Contained
<1>4. CASE ObserveCancel \/ DeadlineExpires \/ ReadFails
  <2>1. verdict'.kind \in {"cancelled", "timeout", "io"}
    BY <1>4, <1>k DEF ObserveCancel, DeadlineExpires, ReadFails, Abort, Terminating, FailureKinds
  <2> QED
    BY <1>0, <1>4, <1>f, <2>1
    DEF ObserveCancel, DeadlineExpires, ReadFails, Abort, Terminating, Control, Stops, Contained
<1>5. CASE WatchdogFires
  <2> DEFINE completion == About("FAIL", watch)
  <2>1. /\ pc = "check" /\ channel' = <<>> /\ expired /\ watch # NoTest
        /\ UNCHANGED <<watch, expired, child, container>>
        /\ \/ recorded' = recorded \cup {completion} /\ verdict' = WatchdogVerdict
           \/ UNCHANGED recorded /\ verdict' = Verdict("io")
           \/ UNCHANGED recorded /\ verdict' = Verdict("malformed")
              /\ ~Admissible(parser, completion)
    BY <1>5 DEF WatchdogFires, Abort, Terminating
  <2>2. WatchdogVerdict.kind = "testtimeout" /\ Verdict("io").kind = "io"
        /\ Verdict("malformed").kind = "malformed"
    BY <1>k DEF WatchdogVerdict, FailureKinds
  <2>3. verdict.kind = "none"
    BY <1>0, <2>1 DEF Control
  <2>4. Stops \/ Blames
    BY <2>1, <2>2, <2>3 DEF Stops, Blames
  <2> QED
    BY <2>1, <2>3, <2>4, <1>f DEF Contained
<1>6. CASE InfraFailure
  <2>1. verdict'.kind = "harness" \/ (verdict'.kind = "capability" /\ NextLine.kind = "CAPABILITY")
    BY <1>6, <1>k DEF InfraFailure, Abort, Terminating, FailureKinds
  <2> QED
    BY <1>0, <1>6, <1>f, <2>1
    DEF InfraFailure, Receive, Abort, Terminating, Control, Stops, Contained
<1>7. CASE Rejected
  <2>1. verdict'.kind = "malformed"
    BY <1>7, <1>k DEF Rejected, Abort, Terminating, FailureKinds
  <2> QED
    BY <1>0, <1>7, <1>f, <2>1
    DEF Rejected, Receive, Abort, Terminating, Control, Stops, Contained
<1>8. CASE Ignored
  <2>1. Takes
    BY <1>0, <1>8 DEF Ignored, Receive, Control, Takes
  <2> QED
    BY <1>8, <1>f, <2>1 DEF Ignored, Receive, Contained
<1>9. CASE RecordLost
  <2>1. verdict'.kind = "io"
    BY <1>9, <1>k DEF RecordLost, Abort, Terminating, FailureKinds
  <2> QED
    BY <1>0, <1>9, <1>f, <2>1
    DEF RecordLost, Receive, Abort, Terminating, Control, Stops, Contained
<1>10. CASE Recorded
  <2>1. /\ pc = "receive" /\ channel # <<>>
        /\ Admissible(parser, NextLine) /\ parser' = Absorb(parser, NextLine)
        /\ recorded' = recorded \cup {NextLine}
        /\ watch' = CASE NextLine.kind = "RUN" -> NextLine.name
                      [] NextLine.kind \in {"PASS", "FAIL"} -> NoTest
                      [] OTHER -> watch
        /\ UNCHANGED <<child, container>>
    BY <1>10 DEF Recorded, Receive
  <2>2. \/ channel' = Tail(channel) /\ UNCHANGED verdict
        \/ /\ channel' = <<>> /\ verdict'.kind \in {"completed", "malformed"}
           /\ \/ NextLine.kind = "BEGIN_OTHER"
              \/ NextLine.kind \in {"PASS", "FAIL"} /\ termination # NoTest
    BY <1>10, <1>k DEF Recorded, Concluding, Abort, Terminating, FailureKinds
  <2>3. verdict.kind = "none"
    BY <1>0, <2>1 DEF Control
  <2>4. Takes \/ Concludes
    BY <2>1, <2>2, <2>3 DEF Takes, Concludes
  <2> QED
    BY <2>1, <2>3, <2>4, <1>f DEF Contained
<1>11. CASE Finish
  <2>1. verdict.kind = "none" /\ channel = <<>>
    BY <1>0, <1>11 DEF Finish, Control
  <2> QED
    BY <1>11, <1>f, <2>1 DEF Finish, podman, Stops, Contained
<1>12. CASE StopContainer
  <2>1. verdict.kind # "none"
    BY <1>0, <1>12 DEF StopContainer, Control
  <2> QED
    BY <1>12, <1>f, <2>1 DEF StopContainer, Unmoved, Contained
<1>13. CASE KillChild
  <2>1. verdict.kind # "none" /\ verdict'.kind # "none"
    BY <1>0, <1>13, <1>k DEF KillChild, Control, FailureKinds
  <2>2. verdict' = verdict \/ (verdict.kind = "completed" /\ verdict'.kind = "io")
    BY <1>13, <1>k DEF KillChild, FailureKinds
  <2> QED
    BY <1>13, <1>f, <2>1, <2>2 DEF KillChild, Unmoved, Contained
<1>14. CASE Return
  BY <1>14, <1>f DEF Return, podman, Unmoved, Contained
<1>15. CASE Expire \/ Interrupt \/ ContainerRegisters \/ ChildExits(exitCode) \/ ClientFails
  BY <1>15, <1>f
  DEF Expire, Interrupt, ContainerRegisters, ChildExits, ClientFails, supervision, podman,
      Unmoved, Contained
<1>16. CASE RelayExit
  BY <1>16, <1>f DEF RelayExit, ContainerExits, supervision, Unmoved, Contained
<1>17. CASE BootDone \/ UNCHANGED bootVars
  BY <1>17 DEF BootDone, bootVars, vars, supervision, podman, Unmoved, Contained
<1> QED
  BY <1>1, <1>2, <1>3, <1>4, <1>5, <1>6, <1>7, <1>8, <1>9, <1>10, <1>11, <1>12, <1>13,
     <1>14, <1>15, <1>16, <1>17, <1>f
  DEF HostSide, HostStep, WorldStep, Host

LEMMA HostRelaying ==
  ASSUME IInv, HostSide, Relaying
  PROVE  Relaying'
<1>1. Contained /\ UNCHANGED <<guest, uart, relaying>>
  BY HostEffects
<1>2. Relay!TypeOK'
  BY <1>1 DEF Relaying, Relay!TypeOK, relaying
<1> QED
  BY <1>1, <1>2 DEF Relaying, Contained, guest, relaying, IInv, TypeOK

-----------------------------------------------------------------------------
(* Steps of the relay and the model.                                       *)

\* No line moves.
Stays ==
    /\ UNCHANGED <<channel, uart, sawEnd, panicked>>
    /\ \/ relay = "starting" /\ relay' = "exited" /\ UNCHANGED model
       \/ UNCHANGED relay /\ model # "off" /\ model' = "dead"

\* The model is started, or cannot be.
Starts ==
    /\ relay = "starting"
    /\ channel' = Append(channel, Plain("FVP_START"))
    /\ UNCHANGED <<uart, sawEnd, panicked>>
    /\ \/ relay' = "relaying" /\ model' = "running"
       \/ relay' = "exited" /\ UNCHANGED model

\* A line of the UART is printed.
Prints ==
    /\ Head(uart).kind # "PANIC"
    /\ channel' = Append(channel, Head(uart))
    /\ sawEnd' <=> sawEnd \/ Head(uart).kind = "END"
    /\ UNCHANGED panicked
    /\ model' = "off" => model = "off"

\* A panic after END is not reported.
Drops ==
    /\ Head(uart).kind = "PANIC" /\ (sawEnd \/ panicked)
    /\ UNCHANGED <<channel, panicked, model>> /\ (sawEnd' <=> sawEnd)

\* A panic is reported, and ends the model.
Reports ==
    /\ Head(uart).kind = "PANIC" /\ ~sawEnd /\ ~sawEnd'
    /\ channel' = Append(channel, Plain("HARNESS_FAILURE"))
    /\ panicked' /\ model' = "dead"

Loops ==
    /\ relay = "relaying" /\ UNCHANGED relay
    /\ uart # <<>> /\ uart' = Tail(uart)
    /\ Prints \/ Drops \/ Reports

\* The relay exits, whatever is still on its way to it.
Leaves ==
    /\ relay = "relaying" /\ relay' = "exited"
    /\ model = "dead" /\ uart' = <<>>
    /\ UNCHANGED <<channel, model, sawEnd, panicked>>

LEMMA RelayEffects ==
  ASSUME TypeOK, Guest, Relay!TypeOK, RelayStep
  PROVE  /\ Stays \/ Starts \/ Loops \/ Leaves
         /\ Relay!TypeOK'
         /\ container = "live" /\ pc \in {"register", "check", "receive"}
         /\ UNCHANGED <<termination, supervision, cancelled, child, container, status,
                        transient, guest>>
         /\ \/ UNCHANGED channel
            \/ \E line \in Lines : channel' = Append(channel, line) /\ Len(channel) < MaxQueued
<1>0. /\ container = "live" /\ pc \in {"register", "check", "receive"}
      /\ UNCHANGED <<termination, supervision, cancelled, child, container, status,
                     transient, guest>>
  BY DEF RelayStep, Observed
<1>1. /\ \A kind : Relay!Plain(kind) = Plain(kind)
      /\ Plain("FVP_START") \in Lines /\ Plain("HARNESS_FAILURE") \in Lines
  BY SameProtocol, NewParserTyped DEF Plain, Lines, InfraKinds, MaybeTest
<1>2. uart # <<>> => Head(uart) \in AllLines
  BY PipeTyped, AmongHead
<1>3. uart # <<>> /\ Head(uart).kind # "PANIC" => Head(uart) \in Lines
  BY <1>2, LinesTyped DEF AllLines
<1>t. sawEnd \in BOOLEAN /\ panicked \in BOOLEAN /\ exitCode \in {0, 20, 21}
      /\ relay \in {"starting", "relaying", "exited"}
      /\ model \in {"off", "running", "terminating", "dead"}
  BY DEF Relay!TypeOK
<1>4. CASE Relay!ImagesMissing
  BY <1>0, <1>t, <1>4 DEF Relay!ImagesMissing, Relay!Exits, Stays, Relay!TypeOK
<1>5. CASE Relay!StartModel
  BY <1>0, <1>1, <1>t, <1>5 DEF Relay!StartModel, Relay!Printing, Relay!Exits, Starts, Relay!TypeOK
<1>6. CASE Relay!Relay
  <2>1. /\ relay = "relaying" /\ UNCHANGED <<relay, exitCode>>
        /\ uart # <<>> /\ uart' = Tail(uart)
        /\ sawEnd' = (sawEnd \/ Head(uart).kind = "END")
    BY <1>6 DEF Relay!Relay
  <2>2. CASE Head(uart).kind = "PANIC" /\ (sawEnd \/ panicked)
    <3>1. UNCHANGED <<channel, panicked, model>>
      BY <1>6, <2>2 DEF Relay!Relay
    <3>2. (sawEnd' <=> sawEnd) /\ sawEnd' \in BOOLEAN
      BY <1>t, <2>1, <2>2
    <3>3. Drops
      BY <2>2, <3>1, <3>2 DEF Drops
    <3> QED
      BY <1>0, <1>t, <2>1, <3>1, <3>2, <3>3 DEF Loops, Relay!TypeOK
  <2>3. CASE Head(uart).kind = "PANIC" /\ ~(sawEnd \/ panicked)
    <3>1. /\ channel' = Append(channel, Plain("HARNESS_FAILURE")) /\ Len(channel) < MaxQueued
          /\ panicked' = TRUE /\ model' = "dead"
      BY <1>1, <1>6, <2>3 DEF Relay!Relay, Relay!Printing
    <3>2. ~sawEnd' /\ sawEnd' \in BOOLEAN
      BY <2>1, <2>3
    <3>3. Reports
      BY <2>3, <3>1, <3>2 DEF Reports
    <3> QED
      BY <1>0, <1>1, <1>t, <2>1, <3>1, <3>2, <3>3 DEF Loops, Relay!TypeOK
  <2>4. CASE Head(uart).kind # "PANIC"
    <3>1. /\ channel' = Append(channel, Head(uart)) /\ Len(channel) < MaxQueued
          /\ UNCHANGED panicked /\ model' \in {model, "terminating"}
          /\ model' = "off" => model = "off"
      BY <1>6, <2>4 DEF Relay!Relay, Relay!Printing
    <3>2. sawEnd' \in BOOLEAN /\ (sawEnd' <=> sawEnd \/ Head(uart).kind = "END")
      BY <1>t, <2>1
    <3> QED
      BY <1>0, <1>3, <1>t, <2>1, <2>4, <3>1, <3>2 DEF Loops, Prints, Relay!TypeOK
  <2> QED
    BY <2>2, <2>3, <2>4
<1>7. CASE Relay!ModelTerminates \/ Relay!ModelCrashes
  BY <1>0, <1>t, <1>7 DEF Relay!ModelTerminates, Relay!ModelCrashes, Stays, Relay!TypeOK
<1>8. CASE Relay!RelayEnds
  BY <1>0, <1>t, <1>8 DEF Relay!RelayEnds, Relay!Exits, Relay!ExitStatus, Leaves, Relay!TypeOK
<1> QED
  BY <1>4, <1>5, <1>6, <1>7, <1>8 DEF RelayStep, Relay!Next

\* Every step is one of the supervisor and its world.
LEMMA BootSteps ==
  ASSUME TypeOK, Guest, Relay!TypeOK, [BootNext]_bootVars
  PROVE  [SupervisorStep]_vars
<1>1. CASE HostStep
  BY <1>1 DEF HostStep, SupervisorStep
<1>2. CASE GuestStep \/ BootDone \/ UNCHANGED bootVars
  BY <1>2 DEF GuestStep, BootDone, bootVars
<1>3. CASE RelayStep
  <2>1. /\ container = "live" /\ pc \in {"register", "check", "receive"}
        /\ UNCHANGED <<termination, supervision, cancelled, child, container, status, transient>>
        /\ \/ UNCHANGED channel
           \/ \E line \in Lines : channel' = Append(channel, line) /\ Len(channel) < MaxQueued
    BY <1>3, RelayEffects
  <2>2. CASE UNCHANGED channel
    BY <2>1, <2>2 DEF vars, podman
  <2>3. CASE \E line \in Lines : channel' = Append(channel, line) /\ Len(channel) < MaxQueued
    BY <2>1, <2>3 DEF SupervisorStep, ContainerWrites
  <2> QED
    BY <2>1, <2>2, <2>3
<1>4. CASE RelayExit
  BY <1>4 DEF RelayExit, SupervisorStep, Environment
<1>5. CASE WorldStep
  BY <1>5 DEF WorldStep, SupervisorStep, Environment, Relay!TypeOK, Statuses
<1> QED
  BY <1>1, <1>2, <1>3, <1>4, <1>5 DEF BootNext

LEMMA RelayRelaying ==
  ASSUME TypeOK, Control, Guest, Relaying, RelayStep
  PROVE  Relaying'
<1>1. /\ Stays \/ Starts \/ Loops \/ Leaves
      /\ Relay!TypeOK'
      /\ container = "live"
      /\ UNCHANGED <<supervision, child, container, guest>>
  BY RelayEffects DEF Relaying
<1>2. CASE Stays \/ Starts
  BY <1>1, <1>2 DEF Stays, Starts, Relaying, Relay!TypeOK, supervision, guest
<1>3. CASE Loops
  <2>1. model' # "off" /\ relay = "relaying" /\ relay' = "relaying"
    BY <1>3 DEF Loops, Prints, Drops, Reports, Relaying
  <2> QED
    BY <1>1, <2>1 DEF Relaying, supervision
<1>4. CASE Leaves
  BY <1>1, <1>4 DEF Leaves, Relaying, supervision
<1> QED
  BY <1>1, <1>2, <1>3, <1>4

LEMMA GuestRelaying ==
  ASSUME Guest, Relaying, GuestStep
  PROVE  Relaying'
<1>1. model \in {"running", "terminating"} /\ UNCHANGED <<vars, relaying>>
  BY DEF GuestStep
<1> QED
  BY <1>1 DEF Relaying, Relay!TypeOK, relaying, vars, podman, supervision

-----------------------------------------------------------------------------
(* Lines that follow each other.                                           *)

LEMMA ChainedBoth ==
  ASSUME NEW S, NEW s \in Seq(S), NEW t \in Seq(S), NEW phase
  PROVE  /\ Chained(phase, s \o t) <=> Chained(phase, s) /\ Chained(EndOf(phase, s), t)
         /\ EndOf(phase, s \o t) = EndOf(EndOf(phase, s), t)
<1>1. /\ Len(s \o t) = Len(s) + Len(t) /\ Len(s) \in Nat /\ Len(t) \in Nat
      /\ \A i \in 1..Len(s) : (s \o t)[i] = s[i] /\ i \in 1..Len(s \o t)
      /\ \A i \in 1..Len(t) : (s \o t)[i + Len(s)] = t[i] /\ i + Len(s) \in 1..Len(s \o t)
      /\ \A i \in 1..Len(s \o t) :
            \/ i \in 1..Len(s) /\ (s \o t)[i] = s[i]
            \/ i - Len(s) \in 1..Len(t) /\ (s \o t)[i] = t[i - Len(s)]
  BY Positions
<1>2. s \o t \in Seq(S)
  OBVIOUS
<1>3. CASE s = <<>>
  <2>1. s \o t = t
    BY <1>3
  <2>2. EndOf(phase, s) = phase
    BY <1>3 DEF EndOf
  <2>3. Chained(phase, s)
    BY <1>3 DEF Chained
  <2> QED
    BY <2>1, <2>2, <2>3
<1>4. CASE t = <<>>
  <2>1. s \o t = s
    BY <1>4
  <2>2. \A p : EndOf(p, t) = p
    BY <1>4 DEF EndOf
  <2>3. \A p : Chained(p, t)
    BY <1>4 DEF Chained
  <2> QED
    BY <2>1, <2>2, <2>3
<1>5. CASE s # <<>> /\ t # <<>>
  <2>1. Len(s) >= 1 /\ Len(t) >= 1 /\ s \o t # <<>>
    BY <1>1, <1>2, <1>5
  <2>2. /\ (s \o t)[1] = s[1] /\ (s \o t)[Len(s)] = s[Len(s)] /\ (s \o t)[Len(s) + 1] = t[1]
        /\ (s \o t)[Len(s \o t)] = t[Len(t)]
    BY <1>1, <2>1
  <2>3. ASSUME Chained(phase, s \o t)
        PROVE  Chained(phase, s) /\ Chained(After(s[Len(s)]), t)
    <3>1. \A i \in 1..(Len(s) - 1) : Fits(After(s[i]), s[i + 1])
      <4> SUFFICES ASSUME NEW i \in 1..(Len(s) - 1) PROVE Fits(After(s[i]), s[i + 1])
        OBVIOUS
      <4>1. Fits(After((s \o t)[i]), (s \o t)[i + 1])
        BY <1>1, <2>3 DEF Chained
      <4> QED
        BY <1>1, <4>1
    <3>2. \A i \in 1..(Len(t) - 1) : Fits(After(t[i]), t[i + 1])
      <4> SUFFICES ASSUME NEW i \in 1..(Len(t) - 1) PROVE Fits(After(t[i]), t[i + 1])
        OBVIOUS
      <4>0. i + Len(s) \in 1..(Len(s \o t) - 1)
        BY <1>1
      <4>1. Fits(After((s \o t)[i + Len(s)]), (s \o t)[(i + Len(s)) + 1])
        BY <2>3, <4>0 DEF Chained
      <4>2. (s \o t)[(i + Len(s)) + 1] = t[i + 1] /\ (s \o t)[i + Len(s)] = t[i]
        BY <1>1
      <4> QED
        BY <4>1, <4>2
    <3>3. Fits(After((s \o t)[Len(s)]), (s \o t)[Len(s) + 1])
      <4>1. Len(s) \in 1..(Len(s \o t) - 1)
        BY <1>1, <2>1
      <4> QED
        BY <2>3, <4>1 DEF Chained
    <3> QED
      BY <2>1, <2>2, <2>3, <3>1, <3>2, <3>3 DEF Chained
  <2>4. ASSUME Chained(phase, s), Chained(After(s[Len(s)]), t)
        PROVE  Chained(phase, s \o t)
    <3> SUFFICES ASSUME NEW i \in 1..(Len(s \o t) - 1)
                 PROVE  Fits(After((s \o t)[i]), (s \o t)[i + 1])
      BY <1>5, <2>1, <2>2, <2>4 DEF Chained
    <3>1. CASE i < Len(s)
      <4>1. Fits(After(s[i]), s[i + 1])
        BY <1>1, <2>4, <3>1 DEF Chained
      <4> QED
        BY <1>1, <3>1, <4>1
    <3>2. CASE i = Len(s)
      BY <1>5, <2>2, <2>4, <3>2 DEF Chained
    <3>3. CASE i > Len(s)
      <4>1. i - Len(s) \in 1..(Len(t) - 1)
        BY <1>1, <3>3
      <4>2. Fits(After(t[i - Len(s)]), t[(i - Len(s)) + 1])
        BY <2>4, <4>1 DEF Chained
      <4>3. (s \o t)[i] = t[i - Len(s)] /\ (s \o t)[i + 1] = t[(i - Len(s)) + 1]
        BY <1>1, <3>3, <4>1
      <4> QED
        BY <4>2, <4>3
    <3> QED
      BY <1>1, <3>1, <3>2, <3>3
  <2> QED
    BY <1>5, <2>1, <2>2, <2>3, <2>4 DEF EndOf
<1> QED
  BY <1>3, <1>4, <1>5

LEMMA ChainedOne ==
  ASSUME NEW line, NEW phase
  PROVE  /\ Chained(phase, <<line>>) <=> Fits(phase, line)
         /\ EndOf(phase, <<line>>) = After(line)
  BY DEF Chained, EndOf

LEMMA ChainedHead ==
  ASSUME NEW S, NEW s \in Seq(S), s # <<>>, NEW phase
  PROVE  /\ Chained(phase, s) <=> Fits(phase, Head(s)) /\ Chained(After(Head(s)), Tail(s))
         /\ EndOf(phase, s) = EndOf(After(Head(s)), Tail(s))
<1>1. s = <<Head(s)>> \o Tail(s) /\ Head(s) \in S /\ Tail(s) \in Seq(S)
  OBVIOUS
<1>2. PICK line \in S, rest \in Seq(S) : line = Head(s) /\ rest = Tail(s) /\ s = <<line>> \o rest
  BY <1>1
<1>. <<line>> \in Seq(S)
  OBVIOUS
<1>3. PICK first \in Seq(S) : first = <<line>>
  OBVIOUS
<1>4. /\ Chained(phase, first \o rest) <=> Chained(phase, first) /\ Chained(EndOf(phase, first), rest)
      /\ EndOf(phase, first \o rest) = EndOf(EndOf(phase, first), rest)
  BY ChainedBoth
<1>5. /\ Chained(phase, first) <=> Fits(phase, line)
      /\ EndOf(phase, first) = After(line)
  BY <1>3, ChainedOne
<1>6. s = first \o rest
  BY <1>2, <1>3
<1> QED
  BY <1>2, <1>4, <1>5, <1>6

-----------------------------------------------------------------------------
(* What the supervisor reads.                                              *)

SameGuest == UNCHANGED <<termination, guest, uart, relaying>>

LEMMA GuestStill ==
  ASSUME UNCHANGED <<termination, guest>>
  PROVE  /\ \A line : Truthful(line)' <=> Truthful(line)
         /\ \A test : Started(test)' <=> Started(test)
         /\ (Silent' <=> Silent) /\ (Writing' <=> Writing) /\ (Unsupported' <=> Unsupported)
         /\ Here' = Here
<1>1. \A test : Started(test)' <=> Started(test)
  BY DEF Started, guest
<1>2. \A kind : JudgedAs(kind)' = JudgedAs(kind)
  BY DEF JudgedAs, guest
<1>3. (Silent' <=> Silent) /\ (Writing' <=> Writing) /\ (Unsupported' <=> Unsupported)
      /\ Here' = Here
  BY DEF Silent, Writing, Unsupported, Here, guest
<1>4. ASSUME NEW line PROVE Truthful(line)' <=> Truthful(line)
  BY <1>1, <1>2, <1>3 DEF Truthful, guest
<1> QED
  BY <1>1, <1>3, <1>4

LEMMA GuestSame ==
  ASSUME Guest, SameGuest
  PROVE  Guest'
<1>1. Runner!TypeOK'
  BY DEF Guest, SameGuest, guest, Runner!TypeOK
<1>2. \A test : Runner!Selected(test)' <=> Runner!Selected(test)
  BY DEF Runner!Selected, SameGuest
<1>3. \A kind : JudgedAs(kind)' = JudgedAs(kind)
  BY DEF JudgedAs, guest, SameGuest
<1>4. \A test : Started(test)' <=> Started(test)
  BY GuestStill DEF SameGuest
<1> QED
  BY <1>1, <1>2, <1>3, <1>4 DEF Guest, SameGuest, guest, InTest

\* The next line to be read is true, and continues the suite.
LEMMA NextIs ==
  ASSUME TypeOK, Guest, Truth, channel # <<>>
  PROVE  /\ NextLine \in Lines /\ Truthful(NextLine)
         /\ NextLine = Pipe[1] /\ Pipe # <<>> /\ NextLine = Head(Pipe)
         /\ NextLine \in Members(Pipe)
         /\ Tail(Pipe) = Tail(channel) \o uart
         /\ Len(channel) >= 1 /\ Len(channel) \in Nat /\ NextLine = channel[1]
         /\ (Continues /\ verdict.kind = "none" /\ ~Unsupported => Fits(Phase, NextLine))
<1>1. channel \in Seq(AllLines) /\ uart \in Seq(AllLines) /\ Pipe \in Seq(AllLines)
  BY PipeTyped
<1>2. NextLine \in Lines /\ NextLine = channel[1] /\ Len(channel) \in Nat /\ Len(channel) >= 1
  BY HeadTyped DEF TypeOK
<1>3. NextLine = Head(Pipe) /\ Pipe # <<>> /\ Tail(Pipe) = Tail(channel) \o uart
  BY <1>1 DEF Pipe, NextLine
<1>4. NextLine = Pipe[1] /\ NextLine \in Members(Pipe)
  BY <1>1, <1>3, AmongHead
<1> QED
  BY <1>2, <1>3, <1>4 DEF Truth, Continues, Chained

\* The parser is never behind the guest: a verdict that END reports was read.
LEMMA CountsAgreeAtEnd ==
  ASSUME IInv, Guest, Truth, Ends, Conserved, verdict.kind = "none",
         channel # <<>>, NextLine.kind = "END"
  PROVE  NextLine.counts = parser.counts
<1>1. /\ NextLine \in Lines /\ Truthful(NextLine) /\ NextLine = channel[1]
      /\ Len(channel) \in Nat /\ Len(channel) >= 1
  BY NextIs DEF IInv
<1>2. channel \in Seq(AllLines) /\ uart \in Seq(AllLines)
  BY PipeTyped DEF IInv
<1>3. Len(channel) = 1 /\ sawEnd
  <2>1. 1 \in 1..Len(channel)
    BY <1>1
  <2>2. KindAmong("END", channel)
    BY <1>1, <2>1 DEF KindAmong
  <2> QED
    BY <1>1, <2>1, <2>2 DEF Ends
<1>4. ASSUME NEW test \in Tests, judged[test] # "none"
      PROVE  Logged(judged[test], test)
  <2>1. judged[test] \in Completions
    BY <1>4, SameProtocol DEF Guest, Runner!TypeOK
  <2>2. About(judged[test], test).kind \in Completions
    BY <2>1 DEF About
  <2>3. ~Among(About(judged[test], test), channel)
    BY <1>1, <1>3, <2>2 DEF Among, Completions
  <2>4. ~Among(About(judged[test], test), uart)
    BY <1>3, <2>2 DEF Among, Ends, Completions
  <2>5. ~Among(About(judged[test], test), Pipe)
    BY <1>2, <2>3, <2>4, AmongBoth DEF Pipe
  <2> QED
    BY <1>3, <1>4, <2>5 DEF Conserved
<1>5. ASSUME NEW kind \in Completions
      PROVE  NextLine.counts[kind] = parser.counts[kind]
  <2>1. OfKind(kind) = JudgedAs(kind)
    <3>1. kind # "none"
      BY DEF Completions
    <3> QED
      BY <1>4, <3>1 DEF OfKind, JudgedAs, Truth, RecordsAreTrue
  <2>2. NextLine.counts[kind] = Cardinality(JudgedAs(kind))
    BY <1>1 DEF Truthful
  <2>3. parser.counts[kind] = Cardinality(OfKind(kind))
    BY DEF IInv, LogInv, InStep
  <2> QED
    BY <2>1, <2>2, <2>3
<1>6. NextLine.counts \in Counts /\ parser.counts \in Counts
  BY <1>1 DEF Lines, IInv, TypeOK, Parsers
<1> QED
  BY <1>5, <1>6 DEF Counts

\* A completion of a test that has none can be counted.
LEMMA RoomToCount ==
  ASSUME IInv, verdict.kind = "none", NEW test \in Tests, test \notin parser.completed,
         NEW kind \in Completions
  PROVE  Countable(parser.counts, kind)
<1>1. CounterMax \in Nat /\ IsFiniteSet(Tests) /\ Cardinality(Tests) <= CounterMax
      /\ Cardinality(Tests) \in Nat
  BY ProtocolAssumption, BootAssumption, FS_CardinalityType DEF ProtocolAssumption, BootAssumption
<1>2. parser.counts[kind] = Cardinality(OfKind(kind)) /\ ~Logged(kind, test)
  BY DEF IInv, LogInv, InStep, Judged
<1>3. OfKind(kind) \in SUBSET Tests /\ OfKind(kind) # Tests
  BY <1>2 DEF OfKind
<1>4. /\ IsFiniteSet(OfKind(kind)) /\ Cardinality(OfKind(kind)) <= Cardinality(Tests)
      /\ Cardinality(OfKind(kind)) # Cardinality(Tests)
  BY <1>1, <1>3, FS_Subset
<1>5. Cardinality(OfKind(kind)) \in Nat
  BY <1>4, FS_CardinalityType
<1> QED
  BY <1>1, <1>2, <1>4, <1>5 DEF Countable

\* The strict parser accepts what the guest writes.
LEMMA Understood ==
  ASSUME IInv, Guest, PipeInv, verdict.kind = "none", ~Unsupported,
         channel # <<>>, NextLine.kind \in RecordKinds
  PROVE  Admissible(parser, NextLine)
<1>1. /\ NextLine \in Lines /\ Truthful(NextLine) /\ Fits(Phase, NextLine)
      /\ NextLine \in Members(Pipe)
  BY NextIs DEF IInv, PipeInv
<1>2. /\ ~parser.began => parser = NewParser
      /\ \A test \in Tests :
            Logged("RUN", test) <=> test \in parser.completed \/ test = parser.active
  BY DEF IInv, LogInv, InStep
<1>p. parser \in Parsers
  BY DEF IInv, TypeOK
<1>3. NextLine.kind \in {"BEGIN", "CAP", "RUN", "INFRA", "END"} \cup Completions
  BY <1>1 DEF Truthful, RecordKinds, Completions
<1>4. CASE NextLine.kind = "BEGIN"
  <2>1. ~parser.began
    BY <1>1, <1>4 DEF Fits, Phase, Completions
  <2>2. ~parser.ended
    BY <1>2, <2>1 DEF NewParser
  <2> QED
    BY <1>4, <2>1, <2>2
    DEF Admissible, EnsureIdle, NamesActive, CountsAgree, RecordKinds, Completions
<1>5. CASE NextLine.kind \in {"CAP", "RUN", "END"}
  <2>1. parser.began /\ ~parser.ended /\ parser.active = NoTest
    BY <1>1, <1>5 DEF Fits, Phase, Completions
  <2>2. NextLine.kind = "RUN" => NextLine.name \notin parser.completed
    <3> SUFFICES ASSUME NextLine.kind = "RUN" PROVE NextLine.name \notin parser.completed
      OBVIOUS
    <3>1. NextLine.name \in Tests
      BY <1>1 DEF Truthful
    <3>2. ~Logged("RUN", NextLine.name)
      BY <1>1, <3>1 DEF PipeInv, Fresh
    <3> QED
      BY <1>2, <3>1, <3>2
  <2>3. NextLine.kind = "END" => NextLine.counts = parser.counts
    BY CountsAgreeAtEnd DEF PipeInv
  <2> QED
    BY <1>5, <2>1, <2>2, <2>3
    DEF Admissible, EnsureIdle, NamesActive, CountsAgree, RecordKinds, Completions
<1>6. CASE NextLine.kind \in {"INFRA"} \cup Completions
  <2>1. Phase = <<"test", NextLine.name>>
    BY <1>1, <1>6 DEF Fits, Completions
  <2>2. /\ parser.began /\ ~parser.ended
        /\ parser.active # NoTest /\ NextLine.name = parser.active
    BY <2>1 DEF Phase
  <2>3. NextLine.name \in Tests /\ NextLine.name \notin parser.completed
    BY <1>p, <2>2 DEF Parsers, MaybeTest, PipeInv, Watched
  <2>4. NextLine.kind \in Completions => Countable(parser.counts, NextLine.kind)
    BY <2>3, RoomToCount
  <2> QED
    BY <1>3, <1>6, <2>2, <2>3, <2>4
    DEF Admissible, EnsureIdle, NamesActive, CountsAgree, RecordKinds, Completions
<1> QED
  BY <1>3, <1>4, <1>5, <1>6

\* A step that reads nothing.
LEMMA UnmovedKeeps ==
  ASSUME IInv, Guest, PipeInv, RunnerIsUnderstood, PanicSeen, SameGuest, Unmoved
  PROVE  PipeInv' /\ RunnerIsUnderstood' /\ PanicSeen'
<1>1. /\ \A line : Truthful(line)' <=> Truthful(line)
      /\ \A test : Started(test)' <=> Started(test)
      /\ (Silent' <=> Silent) /\ (Writing' <=> Writing) /\ (Unsupported' <=> Unsupported)
      /\ Here' = Here
  BY GuestStill DEF SameGuest
<1>2. /\ UNCHANGED <<parser, recorded, channel, watch, uart, judged, capable, step,
                     relay, model, sawEnd, panicked, termination>>
      /\ Pipe' = Pipe /\ Phase' = Phase
  BY DEF Unmoved, SameGuest, guest, relaying, Pipe, Phase
<1>3. /\ \A kind, test : Logged(kind, test)' <=> Logged(kind, test)
      /\ \A kind : LoggedKind(kind)' <=> LoggedKind(kind)
  BY <1>2 DEF Logged, LoggedKind
<1>4. /\ verdict' = verdict \/ (verdict.kind = "completed" /\ verdict'.kind = "io")
      /\ expired => expired'
  BY DEF Unmoved
<1>5. Truth'
  <2>1. \A line \in Members(Pipe') : Truthful(line)'
    BY <1>1, <1>2 DEF PipeInv, Truth
  <2>2. RecordsAreTrue'
    BY <1>2, <1>3, <1>4 DEF PipeInv, Truth, RecordsAreTrue
  <2> QED
    BY <1>1, <1>3, <2>1, <2>2 DEF PipeInv, Truth
<1>6. Ends'
  BY <1>1, <1>2, <1>3, <1>4 DEF PipeInv, Ends, Spent
<1>7. Fresh' /\ Conserved' /\ Continues' /\ Watched'
  BY <1>1, <1>2, <1>3, <1>4 DEF PipeInv, Fresh, Conserved, Continues, Watched
<1>8. RunnerIsUnderstood' /\ PanicSeen'
  BY <1>1, <1>2, <1>3, <1>4 DEF RunnerIsUnderstood, PanicSeen
<1> QED
  BY <1>5, <1>6, <1>7, <1>8 DEF PipeInv

\* Once a boot has its verdict, nothing is read any more.
LEMMA EndedKeeps ==
  ASSUME TypeOK, Guest, PipeInv, SameGuest, channel' = <<>>, verdict'.kind # "none",
         LoggedKind("END")' => LoggedKind("END"),
         RecordsAreTrue',
         \A test \in Tests : Logged("RUN", test)' => Logged("RUN", test),
         verdict'.kind = "completed" /\ termination = NoTest =>
            sawEnd /\ \A test \in Tests : judged[test] # "none" => Logged(judged[test], test)'
  PROVE  PipeInv'
<1>1. /\ \A line : Truthful(line)' <=> Truthful(line)
      /\ \A test : Started(test)' <=> Started(test)
      /\ (Silent' <=> Silent) /\ (Writing' <=> Writing)
  BY GuestStill DEF SameGuest
<1>2. UNCHANGED <<uart, judged, step, relay, model, sawEnd, panicked, termination>>
  BY DEF SameGuest, guest, relaying
<1>3. channel \in Seq(AllLines) /\ uart \in Seq(AllLines)
  BY PipeTyped
<1>4. Pipe' = uart
  BY <1>2, <1>3 DEF Pipe
<1>5. Truth'
  <2>1. \A line \in Members(uart) : line \in Members(Pipe)
    BY <1>3, AmongBoth DEF Pipe
  <2>2. \A line \in Members(Pipe') : Truthful(line)'
    BY <1>1, <1>4, <2>1 DEF PipeInv, Truth
  <2>3. \A test \in Tests : Logged("RUN", test)' => Started(test)'
    BY <1>1 DEF PipeInv, Truth
  <2> QED
    BY <2>2, <2>3 DEF Truth
<1>6. Ends'
  BY <1>1, <1>2, AmongNone DEF PipeInv, Ends, Spent
<1>7. Fresh' /\ Conserved' /\ Continues' /\ Watched'
  BY <1>2 DEF Fresh, Conserved, Continues, Watched
<1> QED
  BY <1>5, <1>6, <1>7 DEF PipeInv

LEMMA StopsKeeps ==
  ASSUME IInv, Guest, Relaying, PipeInv, SameGuest, Stops
  PROVE  PipeInv' /\ RunnerIsUnderstood' /\ PanicSeen'
<1>0. TypeOK /\ Control /\ InStep
  BY DEF IInv, LogInv, Stops
<1>1. /\ \A kind, test : Logged(kind, test)' <=> Logged(kind, test)
      /\ \A kind : LoggedKind(kind)' <=> LoggedKind(kind)
      /\ verdict.kind = "none"
  BY DEF Stops, Logged, LoggedKind
<1>2. /\ UNCHANGED <<uart, judged, capable, relay, sawEnd, panicked, termination, watch, expired>>
      /\ Unsupported' <=> Unsupported
  BY GuestStill DEF SameGuest, guest, relaying, Stops
<1>3. RecordsAreTrue'
  BY <1>1, <1>2 DEF PipeInv, Truth, RecordsAreTrue
<1>4. CASE verdict'.kind \in {"cancelled", "timeout", "io", "harness"}
  <2>1. PipeInv'
    BY <1>0, <1>1, <1>3, <1>4, EndedKeeps DEF Stops
  <2> QED
    BY <1>4, <2>1 DEF RunnerIsUnderstood, PanicSeen
<1>5. CASE verdict'.kind = "capability" /\ channel # <<>> /\ NextLine.kind = "CAPABILITY"
  <2>1. PipeInv'
    BY <1>0, <1>1, <1>3, <1>5, EndedKeeps DEF Stops
  <2>2. ~capable.baseline
    BY <1>0, <1>5, NextIs DEF Truthful, PipeInv
  <2> QED
    BY <1>2, <1>5, <2>1, <2>2 DEF RunnerIsUnderstood, PanicSeen
<1>6. CASE /\ verdict'.kind = "malformed"
           /\ expired /\ watch # NoTest /\ ~Admissible(parser, About("FAIL", watch))
  <2>1. PipeInv'
    BY <1>0, <1>1, <1>3, <1>6, EndedKeeps DEF Stops
  <2>2. watch \in Tests
    BY <1>0, <1>6 DEF TypeOK, MaybeTest
  <2>3. watch # parser.active
    <3> SUFFICES ASSUME watch = parser.active PROVE Admissible(parser, About("FAIL", watch))
      BY <1>6
    <3>1. /\ parser.began /\ ~parser.ended /\ watch \notin parser.completed
      BY <1>0, <1>1, <1>6 DEF InStep, NewParser, PipeInv, Watched
    <3>2. Countable(parser.counts, "FAIL")
      BY <1>1, <2>2, <3>1, RoomToCount DEF Completions
    <3> QED
      BY <1>6, <3>1, <3>2
      DEF About, Admissible, EnsureIdle, NamesActive, CountsAgree, RecordKinds, Completions
  <2>4. Logged("SKIP", watch)'
    BY <1>1, <1>2, <2>2, <2>3 DEF PipeInv, Watched
  <2> QED
    BY <1>2, <1>6, <2>1, <2>2, <2>4 DEF RunnerIsUnderstood, PanicSeen
<1>7. CASE /\ verdict'.kind = "malformed"
           /\ channel # <<>> /\ NextLine.kind \in RecordKinds /\ ~Admissible(parser, NextLine)
  <2>1. PipeInv'
    BY <1>0, <1>1, <1>3, <1>7, EndedKeeps DEF Stops
  <2>2. Unsupported'
    BY <1>1, <1>2, <1>7, Understood
  <2> QED
    BY <1>7, <2>1, <2>2 DEF RunnerIsUnderstood, PanicSeen
<1>8. CASE verdict' = FinishVerdict /\ child = "exited" /\ channel = <<>>
  <2>1. /\ FinishVerdict.kind \in {"malformed", "completed", "build", "startup", "capability"}
        /\ FinishVerdict.kind = "completed" => termination = NoTest /\ Finished(parser)
    BY <1>0, FinishVerdictTyped DEF TypeOK
  <2>2. ~panicked /\ (sawEnd => parser.ended)
    BY <1>1, <1>8, AmongNone DEF PipeInv, Conserved
  <2>3. ASSUME verdict'.kind = "completed"
        PROVE  sawEnd /\ \A test \in Tests : judged[test] # "none" => Logged(judged[test], test)
    <3>1. sawEnd
      BY <1>0, <1>8, <2>1, <2>3 DEF Finished, InStep, PipeInv, Ends
    <3>2. Pipe = uart
      BY <1>0, <1>8, PipeTyped DEF Pipe
    <3>3. ASSUME NEW test \in Tests, judged[test] # "none"
          PROVE  ~Among(About(judged[test], test), Pipe)
      <4>1. About(judged[test], test).kind # "PANIC"
        BY <3>3, SameProtocol DEF Guest, Runner!TypeOK, Completions, About
      <4> QED
        BY <3>1, <3>2, <4>1 DEF Among, PipeInv, Ends
    <3> QED
      BY <1>1, <3>1, <3>3 DEF PipeInv, Conserved
  <2>4. PipeInv'
    BY <1>0, <1>1, <1>2, <1>3, <1>8, <2>1, <2>3, EndedKeeps DEF Stops
  <2>5. verdict'.kind = "malformed" /\ termination = NoTest => relay = "exited" /\ ~sawEnd
    <3> SUFFICES ASSUME verdict'.kind = "malformed", termination = NoTest
                 PROVE  relay = "exited" /\ ~sawEnd
      OBVIOUS
    <3>1. parser.began /\ ~parser.ended
      <4>1. \A kind \in {"build", "startup", "capability"} : Verdict(kind).kind # "malformed"
        BY VerdictTyped DEF FailureKinds
      <4>2. CASE parser.ended
        <5>1. Finished(parser)
          BY <1>0, <4>2 DEF InStep, Finished, NewParser
        <5> QED
          BY <1>8, <4>1, <4>2, <5>1 DEF FinishVerdict
      <4>3. CASE ~parser.ended /\ ~parser.began
        BY <1>8, <4>1, <4>3 DEF FinishVerdict
      <4> QED
        BY <4>2, <4>3
    <3>2. container # "absent"
      BY <1>0, <3>1 DEF Control, NewParser
    <3>3. container = "gone"
      BY <1>0, <1>1, <1>8, <3>2 DEF Relaying, TypeOK
    <3> QED
      BY <1>1, <2>2, <3>1, <3>3 DEF Relaying
  <2>6. RunnerIsUnderstood'
    BY <1>2, <2>2, <2>5 DEF RunnerIsUnderstood
  <2> QED
    BY <1>2, <2>2, <2>4, <2>6 DEF PanicSeen
<1> QED
  BY <1>4, <1>5, <1>6, <1>7, <1>8 DEF Stops

LEMMA BlamesKeeps ==
  ASSUME IInv, Guest, PipeInv, SameGuest, Blames
  PROVE  PipeInv' /\ RunnerIsUnderstood' /\ PanicSeen'
<1>1. /\ \A kind, test :
            Logged(kind, test)' <=> Logged(kind, test) \/ (kind = "FAIL" /\ test = watch)
      /\ \A kind : LoggedKind(kind)' <=> LoggedKind(kind) \/ kind = "FAIL"
  <2>1. recorded' = recorded \cup {About("FAIL", watch)}
    BY DEF Blames
  <2>2. About("FAIL", watch).kind = "FAIL" /\ About("FAIL", watch).name = watch
    BY DEF About
  <2> QED
    BY <2>1, <2>2 DEF Logged, LoggedKind
<1>2. UNCHANGED <<judged, watch>> /\ verdict'.kind = "testtimeout" /\ verdict.kind = "none"
  BY DEF SameGuest, guest, Blames
<1>3. RecordsAreTrue'
  BY <1>1, <1>2 DEF PipeInv, Truth, RecordsAreTrue
<1>4. PipeInv'
  BY <1>1, <1>2, <1>3, EndedKeeps DEF Blames, IInv
<1> QED
  BY <1>2, <1>4 DEF RunnerIsUnderstood, PanicSeen

LEMMA ConcludesKeeps ==
  ASSUME IInv, Guest, PipeInv, SameGuest, Concludes
  PROVE  PipeInv' /\ RunnerIsUnderstood' /\ PanicSeen'
<1>1. NextLine \in Lines /\ Truthful(NextLine) /\ TypeOK
  BY NextIs DEF IInv, Concludes, PipeInv
<1>2. NextLine.kind \in {"PASS", "FAIL"} /\ termination # NoTest
  BY <1>1 DEF Concludes, Truthful, Completions
<1>3. NextLine.name \in Tests /\ judged[NextLine.name] = NextLine.kind
  BY <1>1, <1>2 DEF Truthful, Completions
<1>4. /\ \A kind, test : Logged(kind, test)' <=>
            Logged(kind, test) \/ (kind = NextLine.kind /\ test = NextLine.name)
      /\ \A kind : LoggedKind(kind)' <=> LoggedKind(kind) \/ kind = NextLine.kind
  BY DEF Concludes, Logged, LoggedKind
<1>5. UNCHANGED <<judged, panicked, termination>> /\ verdict.kind = "none"
      /\ verdict'.kind \in {"completed", "malformed"} /\ channel' = <<>>
  BY DEF SameGuest, guest, relaying, Concludes
<1>6. RecordsAreTrue'
  BY <1>3, <1>4, <1>5 DEF PipeInv, Truth, RecordsAreTrue
<1>7. PipeInv'
  BY <1>1, <1>2, <1>4, <1>5, <1>6, EndedKeeps
<1>8. ~panicked
  BY <1>2, <1>3 DEF PipeInv, Ends, Silent
<1> QED
  BY <1>2, <1>5, <1>7, <1>8 DEF RunnerIsUnderstood, PanicSeen

\* The fields of the parser after a record.
LEMMA AbsorbedFields ==
  ASSUME NEW p \in Parsers, NEW line \in Lines, Admissible(p, line),
         NEW q, q = Absorb(p, line)
  PROVE  /\ q.began /\ ~p.ended
         /\ line.kind \in RecordKinds \ {"MALFORMED"} /\ line.kind \notin InfraKinds
         /\ line.kind = "RUN" =>
               /\ q.active = line.name /\ q.completed = p.completed /\ ~q.ended
               /\ line.name \notin p.completed
         /\ line.kind \in Completions =>
               /\ q.active = NoTest /\ q.completed = p.completed \cup {line.name} /\ ~q.ended
               /\ line.name = p.active /\ line.name \in Tests
         /\ line.kind = "END" => q.ended /\ q.active = p.active /\ q.completed = p.completed
         /\ line.kind \notin {"RUN", "END"} \cup Completions =>
               ~q.ended /\ q.active = p.active /\ q.completed = p.completed
<1>1. /\ q.began /\ ~p.ended
      /\ line.kind \in RecordKinds \ {"MALFORMED"} /\ line.kind \notin InfraKinds
  BY Absorbed DEF Admissible
<1>p. p = [began |-> p.began, ended |-> p.ended, active |-> p.active,
           completed |-> p.completed, counts |-> p.counts]
  BY DEF Parsers
<1>2. CASE line.kind = "RUN"
  <2>1. q = [p EXCEPT !.active = line.name] /\ line.name \notin p.completed
    BY <1>2, Absorbed
  <2>2. q.active = line.name /\ q.completed = p.completed /\ q.ended = p.ended
    BY <1>p, <2>1
  <2> QED
    BY <1>1, <1>2, <2>1, <2>2 DEF Completions
<1>3. CASE line.kind \in Completions
  <2>1. /\ q = [p EXCEPT !.active = NoTest,
                         !.completed = p.completed \cup {line.name},
                         !.counts = [p.counts EXCEPT ![line.kind] = p.counts[line.kind] + 1]]
        /\ line.name = p.active /\ line.name \in Tests
    BY <1>3, Absorbed
  <2>2. /\ q.active = NoTest /\ q.completed = p.completed \cup {line.name}
        /\ q.ended = p.ended
    BY <1>p, <2>1
  <2> QED
    BY <1>1, <1>3, <2>1, <2>2 DEF Completions
<1>4. CASE line.kind = "END"
  <2>1. q = [p EXCEPT !.ended = TRUE]
    BY <1>4, Absorbed
  <2>2. q.active = p.active /\ q.completed = p.completed /\ q.ended
    BY <1>p, <2>1
  <2> QED
    BY <1>1, <1>4, <2>2 DEF Completions
<1>5. CASE line.kind \in {"BEGIN", "BEGIN_OTHER"}
  <2>1. q = [p EXCEPT !.began = TRUE]
    BY <1>5, Absorbed
  <2>2. q.active = p.active /\ q.completed = p.completed /\ q.ended = p.ended
    BY <1>p, <2>1
  <2> QED
    BY <1>1, <1>5, <2>2 DEF Completions
<1>6. CASE line.kind \in {"CAP", "INFRA"}
  <2>1. q = p
    BY <1>6, Absorbed
  <2> QED
    BY <1>1, <1>6, <2>1 DEF Completions
<1> QED
  BY <1>1, <1>2, <1>3, <1>4, <1>5, <1>6 DEF RecordKinds

\* The parser follows the suite.
LEMMA PhaseFollows ==
  ASSUME IInv, Takes, Truthful(NextLine), Fits(Phase, NextLine)
  PROVE  Phase' = After(NextLine)
<1>1. NextLine \in Lines /\ parser \in Parsers
  BY HeadTyped DEF IInv, TypeOK, Takes
<1>2. CASE NextLine.kind \in InfraKinds /\ ~EndsBoot(NextLine) /\ UNCHANGED parser
  <2>1. NextLine.kind \in {"TEXT", "FVP_START", "CAPABILITY"}
    BY <1>2 DEF Truthful, InfraKinds, EndsBoot, Completions
  <2>2. Phase = <<"fresh", NoTest>>
    BY <2>1 DEF Fits, Completions
  <2>3. NextLine.kind # "CAPABILITY"
    BY <1>2, <2>2 DEF EndsBoot, Phase
  <2> QED
    BY <1>2, <2>1, <2>2, <2>3 DEF Phase, After, Completions
<1>3. CASE Admissible(parser, NextLine) /\ parser' = Absorb(parser, NextLine)
  <2>0. /\ NextLine.kind \in {"BEGIN", "CAP", "RUN", "INFRA", "END"} \cup Completions
        /\ parser'.began /\ ~parser.ended
    BY <1>1, <1>3, AbsorbedFields DEF Truthful, InfraKinds, RecordKinds, Completions
  <2>1. CASE NextLine.kind = "BEGIN"
    <3>1. parser' = [parser EXCEPT !.began = TRUE] /\ ~parser.began
      BY <1>1, <1>3, <2>1, Absorbed
    <3>2. parser = NewParser
      BY <3>1 DEF IInv, LogInv, InStep, Takes
    <3> QED
      BY <2>0, <2>1, <3>1, <3>2 DEF Phase, After, NewParser
  <2>2. CASE NextLine.kind = "RUN"
    <3>1. parser' = [parser EXCEPT !.active = NextLine.name]
      BY <1>1, <1>3, <2>2, Absorbed
    <3>2. NextLine.name # NoTest
      BY <2>2, ProtocolAssumption DEF Truthful, ProtocolAssumption
    <3> QED
      BY <1>1, <2>0, <2>2, <3>1, <3>2 DEF Phase, After, Completions, Parsers
  <2>3. CASE NextLine.kind \in Completions
    <3>1. parser'.active = NoTest /\ ~parser'.ended
      BY <1>1, <1>3, <2>3, AbsorbedFields
    <3> QED
      BY <2>0, <2>3, <3>1 DEF Phase, After
  <2>4. CASE NextLine.kind = "END"
    <3>1. parser'.ended
      BY <1>1, <1>3, <2>4, AbsorbedFields
    <3> QED
      BY <2>0, <2>4, <3>1 DEF Phase, After, Completions
  <2>5. CASE NextLine.kind \in {"CAP", "INFRA"}
    <3>1. parser' = parser
      BY <1>1, <1>3, <2>5, Absorbed
    <3>2. Phase' = Phase
      BY <3>1 DEF Phase
    <3> QED
      BY <2>5, <3>2 DEF Fits, After, Completions
  <2> QED
    BY <2>0, <2>1, <2>2, <2>3, <2>4, <2>5
<1> QED
  BY <1>2, <1>3 DEF Takes

\* What reading a line does to the log and to the parser.
LEMMA TakesEffect ==
  ASSUME IInv, Takes
  PROVE  /\ NextLine.kind \in InfraKinds =>
               ~EndsBoot(NextLine) /\ UNCHANGED <<parser, recorded, watch>>
         /\ NextLine.kind \notin InfraKinds =>
               /\ Admissible(parser, NextLine) /\ parser' = Absorb(parser, NextLine)
               /\ recorded' = recorded \cup {NextLine}
               /\ watch' = CASE NextLine.kind = "RUN" -> NextLine.name
                             [] NextLine.kind \in {"PASS", "FAIL"} -> NoTest
                             [] OTHER -> watch
         /\ \A kind, test : Logged(kind, test)' <=>
               \/ Logged(kind, test)
               \/ NextLine.kind \notin InfraKinds /\ kind = NextLine.kind /\ test = NextLine.name
         /\ \A kind : LoggedKind(kind)' <=>
               \/ LoggedKind(kind)
               \/ NextLine.kind \notin InfraKinds /\ kind = NextLine.kind
         /\ parser.ended => parser'.ended
         /\ NextLine.kind = "END" => parser'.ended
         /\ NextLine.kind # "END" => (parser'.ended <=> parser.ended)
<1>1. NextLine \in Lines /\ parser \in Parsers
  BY HeadTyped DEF IInv, TypeOK, Takes
<1>2. CASE NextLine.kind \in InfraKinds
  <2>1. ~Admissible(parser, NextLine)
    BY <1>1, <1>2, Absorbed
  <2>2. ~EndsBoot(NextLine) /\ UNCHANGED <<parser, recorded, watch>>
    BY <2>1 DEF Takes
  <2>3. NextLine.kind # "END"
    BY <1>2 DEF InfraKinds
  <2> QED
    BY <1>2, <2>2, <2>3 DEF Logged, LoggedKind
<1>3. CASE NextLine.kind \notin InfraKinds
  <2>1. /\ Admissible(parser, NextLine) /\ parser' = Absorb(parser, NextLine)
        /\ recorded' = recorded \cup {NextLine}
        /\ watch' = CASE NextLine.kind = "RUN" -> NextLine.name
                      [] NextLine.kind \in {"PASS", "FAIL"} -> NoTest
                      [] OTHER -> watch
    BY <1>3 DEF Takes
  <2>2. ~parser.ended /\ (NextLine.kind = "END" => parser'.ended)
    BY <1>1, <2>1, AbsorbedFields
  <2>3. NextLine.kind # "END" => ~parser'.ended
    BY <1>1, <2>1, AbsorbedFields
  <2>4. /\ \A kind, test : Logged(kind, test)' <=>
               Logged(kind, test) \/ (kind = NextLine.kind /\ test = NextLine.name)
        /\ \A kind : LoggedKind(kind)' <=> LoggedKind(kind) \/ kind = NextLine.kind
    BY <2>1 DEF Logged, LoggedKind
  <2> QED
    BY <1>3, <2>1, <2>2, <2>3, <2>4
<1> QED
  BY <1>2, <1>3

LEMMA TakesWatched ==
  ASSUME IInv, Takes, Watched
  PROVE  Watched'
<1>0. /\ NextLine \in Lines /\ parser \in Parsers /\ verdict.kind = "none"
      /\ parser.active \notin parser.completed
      /\ watch \in Tests => watch = parser.active \/ Logged("SKIP", watch)
      /\ NoTest \notin Tests
  BY HeadTyped, ProtocolAssumption DEF IInv, TypeOK, Takes, Watched, ProtocolAssumption
<1>1. CASE NextLine.kind \in InfraKinds
  <2>1. UNCHANGED <<parser, recorded, watch>>
    BY <1>1, TakesEffect
  <2> QED
    BY <1>0, <2>1 DEF Watched, Logged
<1>2. CASE NextLine.kind \notin InfraKinds
  <2>0. /\ Admissible(parser, NextLine) /\ parser' = Absorb(parser, NextLine)
        /\ watch' = CASE NextLine.kind = "RUN" -> NextLine.name
                      [] NextLine.kind \in {"PASS", "FAIL"} -> NoTest
                      [] OTHER -> watch
        /\ \A kind, test : Logged(kind, test)' <=>
              Logged(kind, test) \/ (kind = NextLine.kind /\ test = NextLine.name)
    BY <1>2, TakesEffect
  <2>1. CASE NextLine.kind = "RUN"
    <3>1. parser'.active = NextLine.name /\ parser'.completed = parser.completed
          /\ NextLine.name \notin parser.completed
      BY <1>0, <2>0, <2>1, AbsorbedFields
    <3>2. watch' = NextLine.name
      BY <2>0, <2>1
    <3> QED
      BY <3>1, <3>2 DEF Watched
  <2>2. CASE NextLine.kind \in Completions
    <3>1. /\ parser'.active = NoTest /\ parser'.completed = parser.completed \cup {NextLine.name}
          /\ NextLine.name = parser.active /\ NextLine.name \in Tests
      BY <1>0, <2>0, <2>2, AbsorbedFields
    <3>2. parser'.active \notin parser'.completed
      BY <1>0, <3>1 DEF Parsers
    <3>3. CASE NextLine.kind \in {"PASS", "FAIL"}
      <4>1. watch' = NoTest
        BY <2>0, <3>3
      <4> QED
        BY <1>0, <3>2, <4>1 DEF Watched
    <3>4. CASE NextLine.kind = "SKIP"
      <4>1. watch' = watch
        BY <2>0, <3>4
      <4>2. watch \in Tests => Logged("SKIP", watch)'
        BY <1>0, <2>0, <3>1, <3>4, <4>1
      <4> QED
        BY <3>2, <4>1, <4>2 DEF Watched
    <3> QED
      BY <2>2, <3>3, <3>4 DEF Completions
  <2>3. CASE NextLine.kind \notin {"RUN"} \cup Completions
    <3>1. parser'.active = parser.active /\ parser'.completed = parser.completed
      <4>1. NextLine.kind = "END" \/ NextLine.kind \notin {"RUN", "END"} \cup Completions
        BY <2>3
      <4> QED
        BY <1>0, <2>0, <4>1, AbsorbedFields
    <3>2. watch' = watch
      BY <2>0, <2>3 DEF Completions
    <3>3. watch \in Tests /\ Logged("SKIP", watch) => Logged("SKIP", watch)'
      BY <2>0, <3>2
    <3> QED
      BY <1>0, <3>1, <3>2, <3>3 DEF Watched
  <2> QED
    BY <2>1, <2>2, <2>3
<1> QED
  BY <1>1, <1>2

LEMMA TakesKeeps ==
  ASSUME IInv, Guest, PipeInv, SameGuest, Takes
  PROVE  PipeInv' /\ RunnerIsUnderstood' /\ PanicSeen'
<1>1. /\ \A line : Truthful(line)' <=> Truthful(line)
      /\ \A test : Started(test)' <=> Started(test)
      /\ (Silent' <=> Silent) /\ (Writing' <=> Writing) /\ (Unsupported' <=> Unsupported)
      /\ Here' = Here
  BY GuestStill DEF SameGuest
<1>2. /\ UNCHANGED <<uart, judged, step, relay, model, sawEnd, panicked, termination, verdict>>
      /\ verdict.kind = "none" /\ channel # <<>> /\ channel' = Tail(channel)
  BY DEF SameGuest, guest, relaying, Takes
<1>3. /\ channel \in Seq(AllLines) /\ uart \in Seq(AllLines) /\ Pipe \in Seq(AllLines)
      /\ Len(channel) \in Nat
  BY PipeTyped DEF IInv
<1>4. /\ NextLine \in Lines /\ Truthful(NextLine) /\ NextLine \in Members(Pipe)
      /\ Pipe # <<>> /\ NextLine = Head(Pipe) /\ NextLine = Pipe[1] /\ NextLine = channel[1]
      /\ Pipe' = Tail(Pipe)
      /\ ~Unsupported /\ Continues => Fits(Phase, NextLine)
  BY <1>2, NextIs DEF IInv, PipeInv, Pipe
<1>5. /\ \A line : Among(line, Pipe) <=> line = NextLine \/ Among(line, Pipe')
      /\ \A line : line \in Members(Pipe) <=> line = NextLine \/ line \in Members(Pipe')
      /\ Len(Pipe') = Len(Pipe) - 1 /\ Len(Pipe) \in Nat
      /\ \A i \in 1..Len(Pipe') : Pipe'[i] = Pipe[i + 1] /\ i + 1 \in 1..Len(Pipe)
  BY <1>3, <1>4, AmongHead
<1>6. /\ \A kind : KindAmong(kind, channel) <=> kind = NextLine.kind \/ KindAmong(kind, channel')
      /\ Len(channel') = Len(channel) - 1
      /\ \A i \in 1..Len(channel') : channel'[i] = channel[i + 1] /\ i + 1 \in 1..Len(channel)
      /\ Len(channel) >= 1 /\ channel' \in Seq(AllLines)
  BY <1>2, <1>3, AmongHead DEF NextLine
<1>7. /\ \A kind, test : Logged(kind, test)' <=>
               \/ Logged(kind, test)
               \/ NextLine.kind \notin InfraKinds /\ kind = NextLine.kind /\ test = NextLine.name
      /\ \A kind : LoggedKind(kind)' <=>
               \/ LoggedKind(kind)
               \/ NextLine.kind \notin InfraKinds /\ kind = NextLine.kind
      /\ parser.ended => parser'.ended
      /\ NextLine.kind = "END" => parser'.ended
      /\ NextLine.kind # "END" => (parser'.ended <=> parser.ended)
      /\ NextLine.kind \in InfraKinds => ~EndsBoot(NextLine)
  BY TakesEffect
<1>8. Truth'
  <2>1. \A line \in Members(Pipe') : Truthful(line)'
    BY <1>1, <1>5 DEF PipeInv, Truth
  <2>2. RecordsAreTrue'
    BY <1>2, <1>4, <1>7 DEF PipeInv, Truth, RecordsAreTrue, Truthful
  <2>3. \A test \in Tests : Logged("RUN", test)' => Started(test)'
    BY <1>1, <1>4, <1>7 DEF PipeInv, Truth, Truthful
  <2> QED
    BY <2>1, <2>2, <2>3 DEF Truth
<1>9. Ends'
  <2>1. KindAmong("END", channel') \/ LoggedKind("END")' => sawEnd
    BY <1>6, <1>7 DEF PipeInv, Ends
  <2>2. \A i \in 1..Len(channel') : channel'[i].kind = "END" => i = Len(channel')
    <3> SUFFICES ASSUME NEW i \in 1..Len(channel'), channel'[i].kind = "END"
                 PROVE  i = Len(channel')
      OBVIOUS
    <3>1. i + 1 = Len(channel)
      BY <1>6 DEF PipeInv, Ends
    <3> QED
      BY <1>3, <1>6, <3>1
  <2>3. parser'.ended => channel' = <<>>
    <3> SUFFICES ASSUME parser'.ended PROVE channel' = <<>>
      OBVIOUS
    <3>1. NextLine.kind = "END"
      BY <1>2, <1>7 DEF PipeInv, Ends
    <3>2. 1 = Len(channel)
      <4>1. 1 \in 1..Len(channel)
        BY <1>3, <1>6
      <4> QED
        BY <1>4, <3>1, <4>1 DEF PipeInv, Ends
    <3>3. Len(channel') = Len(channel) - 1 /\ channel' \in Seq(AllLines)
      BY <1>6
    <3>4. Len(channel') = 0
      BY <3>2, <3>3
    <3>5. \A s \in Seq(AllLines) : Len(s) = 0 => s = <<>>
      BY EmptySeq
    <3> QED
      BY <3>3, <3>4, <3>5
  <2>4. Spent' <=> Spent
    BY <1>1, <1>2 DEF Spent
  <2> QED
    BY <1>1, <1>2, <2>1, <2>2, <2>3, <2>4 DEF PipeInv, Ends
<1>10. Fresh'
  <2>1. \A i, j \in 1..Len(Pipe) :
           Pipe[i].kind = "RUN" /\ Pipe[j].kind = "RUN" /\ Pipe[i].name = Pipe[j].name => i = j
    BY <1>2 DEF PipeInv, Fresh
  <2>2. \A i, j \in 1..Len(Pipe') :
           Pipe'[i].kind = "RUN" /\ Pipe'[j].kind = "RUN" /\ Pipe'[i].name = Pipe'[j].name => i = j
    <3> SUFFICES ASSUME NEW i \in 1..Len(Pipe'), NEW j \in 1..Len(Pipe'),
                        Pipe'[i].kind = "RUN", Pipe'[j].kind = "RUN", Pipe'[i].name = Pipe'[j].name
                 PROVE  i = j
      OBVIOUS
    <3>1. i + 1 = j + 1
      BY <1>5, <2>1
    <3> QED
      BY <1>5, <3>1
  <2>3. ASSUME NEW line \in Members(Pipe'), line.kind = "RUN"
        PROVE  ~Logged("RUN", line.name)'
    <3>1. ~Logged("RUN", line.name)
      BY <1>2, <1>5, <2>3 DEF PipeInv, Fresh
    <3>2. PICK i \in 1..Len(Pipe') : Pipe'[i] = line
      BY DEF Members
    <3>3. ~(NextLine.kind = "RUN" /\ NextLine.name = line.name)
      <4> SUFFICES ASSUME NextLine.kind = "RUN", NextLine.name = line.name PROVE FALSE
        OBVIOUS
      <4>1. i + 1 \in 1..Len(Pipe) /\ Pipe[i + 1] = line /\ 1 \in 1..Len(Pipe)
        BY <1>5, <3>2
      <4>2. 1 = i + 1
        BY <1>4, <2>1, <2>3, <4>1
      <4> QED
        BY <1>5, <4>2
    <3> QED
      BY <1>7, <3>1, <3>3
  <2> QED
    BY <2>2, <2>3 DEF Fresh
<1>11. Conserved'
  <2>1. ASSUME relay # "exited" \/ sawEnd, NEW test \in Tests, judged[test] # "none"
        PROVE  \/ Logged(judged[test], test)'
               \/ Among(About(judged[test], test), Pipe)'
    <3>0. judged[test] \in Completions
      BY <2>1, SameProtocol DEF Guest, Runner!TypeOK
    <3>1. PICK line : line = About(judged[test], test)
      OBVIOUS
    <3>2. line.kind = judged[test] /\ line.name = test /\ line.kind \notin InfraKinds
      BY <3>0, <3>1 DEF About, Completions, InfraKinds
    <3>3. Logged(judged[test], test) \/ Among(line, Pipe)
      BY <1>2, <2>1, <3>1 DEF PipeInv, Conserved
    <3>4. Logged(line.kind, test)' \/ Among(line, Pipe')
      BY <1>5, <1>7, <3>2, <3>3
    <3> QED
      BY <1>2, <3>1, <3>2, <3>4
  <2>2. sawEnd => parser'.ended \/ KindAmong("END", channel')
    BY <1>2, <1>6, <1>7 DEF PipeInv, Conserved
  <2>3. panicked => KindAmong("HARNESS_FAILURE", channel')
    <3>1. NextLine.kind # "HARNESS_FAILURE"
      BY <1>7 DEF EndsBoot, InfraKinds
    <3> QED
      BY <1>2, <1>6, <3>1 DEF PipeInv, Conserved
  <2> QED
    BY <1>2, <2>1, <2>2, <2>3 DEF Conserved
<1>12. Continues'
  <2> SUFFICES ASSUME ~Unsupported
               PROVE  /\ Chained(Phase, Pipe)'
                      /\ relay # "exited" /\ Writing => Here' = EndOf(Phase, Pipe)'
    BY <1>1, <1>2 DEF Continues
  <2>1. /\ Chained(Phase, Pipe) /\ Fits(Phase, NextLine)
        /\ relay # "exited" /\ Writing => Here = EndOf(Phase, Pipe)
    BY <1>2, <1>4 DEF PipeInv, Continues
  <2>2. Phase' = After(NextLine)
    BY <1>4, <2>1, PhaseFollows
  <2>3. /\ Chained(Phase, Pipe) <=> Fits(Phase, NextLine) /\ Chained(After(NextLine), Tail(Pipe))
        /\ EndOf(Phase, Pipe) = EndOf(After(NextLine), Tail(Pipe))
    BY <1>3, <1>4, ChainedHead
  <2> QED
    BY <1>1, <1>4, <2>1, <2>2, <2>3
<1>13. Watched'
  BY TakesWatched DEF PipeInv
<1>14. RunnerIsUnderstood' /\ PanicSeen'
  BY <1>2 DEF RunnerIsUnderstood, PanicSeen
<1> QED
  BY <1>8, <1>9, <1>10, <1>11, <1>12, <1>13, <1>14 DEF PipeInv

\* A line written before the guest has started.
LEMMA EarlyLine ==
  ASSUME IInv, Guest, PipeInv, verdict.kind = "none",
         uart = <<>>, step = "entry", relay # "exited", ~sawEnd, ~panicked,
         \A test \in Tests : judged[test] = "none",
         UNCHANGED <<termination, guest, uart, sawEnd, panicked,
                     parser, recorded, watch, verdict>>,
         NEW line \in AllLines, line.kind \in {"TEXT", "FVP_START"},
         channel' = Append(channel, line)
  PROVE  PipeInv'
<1>1. /\ \A l : Truthful(l)' <=> Truthful(l)
      /\ \A test : Started(test)' <=> Started(test)
      /\ (Writing' <=> Writing) /\ (Unsupported' <=> Unsupported) /\ Here' = Here
  BY GuestStill
<1>2. UNCHANGED <<judged, step>>
  BY DEF guest
<1>3. channel \in Seq(AllLines) /\ Pipe \in Seq(AllLines) /\ Pipe = channel
  BY PipeTyped DEF IInv, Pipe
<1>4. PICK last \in Seq(AllLines) : last = <<line>>
  <2>1. <<line>> \in Seq(AllLines)
    OBVIOUS
  <2> QED
    BY <2>1
<1>5. channel' = channel \o last /\ channel' \in Seq(AllLines)
  BY <1>3, <1>4
<1>6. Pipe' = Pipe \o last /\ Pipe' = channel'
  BY <1>3, <1>5 DEF Pipe
<1>7. /\ \A l : l \in Members(Pipe') <=> l \in Members(Pipe) \/ l = line
      /\ \A kind : KindAmong(kind, channel') <=> KindAmong(kind, channel) \/ kind = line.kind
  <2>1. /\ \A l : l \in Members(channel \o last) <=> l \in Members(channel) \/ l \in Members(last)
        /\ \A kind : KindAmong(kind, channel \o last) <=>
                         KindAmong(kind, channel) \/ KindAmong(kind, last)
    BY <1>3, AmongBoth
  <2>2. /\ \A l : l \in Members(last) <=> l = line
        /\ \A kind : KindAmong(kind, last) <=> kind = line.kind
    BY <1>4, AmongOne
  <2> QED
    BY <1>3, <1>5, <1>6, <2>1, <2>2
<1>8. /\ \A kind, test : Logged(kind, test)' <=> Logged(kind, test)
      /\ \A kind : LoggedKind(kind)' <=> LoggedKind(kind)
  BY DEF Logged, LoggedKind
<1>9. Truthful(line)
  BY DEF Truthful, Completions
<1>10. \A l \in Members(Pipe') : Truthful(l)
  BY <1>7, <1>9 DEF PipeInv, Truth
<1>11. \A l \in Members(Pipe') : l.kind # "RUN" /\ l.kind # "END"
  BY <1>10 DEF Truthful, Writing, Started, Guest
<1>12. \A i \in 1..Len(Pipe') : Pipe'[i].kind # "RUN" /\ Pipe'[i].kind # "END"
  BY <1>11, MembersAre
<1>13. Truth'
  <2>1. RecordsAreTrue'
    BY <1>2, <1>8 DEF PipeInv, Truth, RecordsAreTrue
  <2> QED
    BY <1>1, <1>8, <1>10, <2>1 DEF PipeInv, Truth
<1>14. Ends'
  <2>1. ~KindAmong("END", channel')
    BY <1>6, <1>12 DEF KindAmong
  <2>2. ~LoggedKind("END")' /\ ~parser'.ended
    BY <1>8 DEF PipeInv, Ends, IInv, LogInv, InStep
  <2> QED
    BY <1>2, <1>6, <1>12, <2>1, <2>2 DEF Ends
<1>15. Fresh'
  BY <1>11, <1>12 DEF Fresh
<1>16. Conserved'
  BY <1>2 DEF Conserved
<1>17. Continues'
  <2> SUFFICES ASSUME ~Unsupported
               PROVE  /\ Chained(Phase, Pipe)'
                      /\ Here' = EndOf(Phase, Pipe)'
    BY <1>1 DEF Continues
  <2>1. Chained(Phase, Pipe) /\ Here = EndOf(Phase, Pipe) /\ Here = <<"fresh", NoTest>>
    BY DEF PipeInv, Continues, Here, Writing
  <2>2. /\ Chained(Phase, Pipe \o last) <=> Chained(Phase, Pipe) /\ Chained(Here, last)
        /\ EndOf(Phase, Pipe \o last) = EndOf(Here, last)
    <3>1. /\ Chained(Phase, Pipe \o last) <=>
                Chained(Phase, Pipe) /\ Chained(EndOf(Phase, Pipe), last)
          /\ EndOf(Phase, Pipe \o last) = EndOf(EndOf(Phase, Pipe), last)
      BY <1>3, ChainedBoth
    <3> QED
      BY <2>1, <3>1
  <2>3. (Chained(Here, last) <=> Fits(Here, line)) /\ EndOf(Here, last) = After(line)
    BY <1>4, ChainedOne
  <2>4. Fits(Here, line) /\ After(line) = Here
    BY <2>1 DEF Fits, After, Completions
  <2>5. Phase' = Phase
    BY DEF Phase
  <2> QED
    BY <1>1, <1>6, <2>1, <2>2, <2>3, <2>4, <2>5
<1>18. Watched'
  BY <1>8 DEF PipeInv, Watched
<1> QED
  BY <1>13, <1>14, <1>15, <1>16, <1>17, <1>18 DEF PipeInv

\* What is left of an earlier launch, if there was one, has no verdict of
\* the host, and it did not panic.
LEMMA NeverBeginsKeeps ==
  ASSUME IInv, Guest, Relaying, PipeInv, PanicSeen, SameGuest, NeverBegins
  PROVE  PipeInv' /\ RunnerIsUnderstood' /\ PanicSeen'
<1>1. TypeOK /\ verdict'.kind \in {"startup", "io"} /\ channel' = <<>>
  BY DEF IInv, NeverBegins
<1>2. \/ container = "absent" /\ recorded = {} /\ ~panicked
      \/ verdict.kind = "startup" /\ ~panicked
  BY DEF NeverBegins, IInv, Control, Repeatable, Relaying, PanicSeen
<1>3. \/ recorded' = {}
      \/ UNCHANGED recorded /\ (recorded = {} \/ verdict.kind = "startup")
  BY <1>2 DEF NeverBegins
<1>4. /\ \A kind, test : Logged(kind, test)' => Logged(kind, test)
      /\ \A kind : LoggedKind(kind)' => LoggedKind(kind)
  BY <1>3 DEF Logged, LoggedKind
<1>5. RecordsAreTrue'
  <2> SUFFICES ASSUME NEW test \in Tests, NEW kind \in Completions, Logged(kind, test)'
               PROVE  judged'[test] = kind
    BY DEF RecordsAreTrue
  <2>1. Logged(kind, test) /\ verdict.kind = "startup"
    BY <1>3, <1>4 DEF Logged
  <2>2. judged[test] = kind
    BY <2>1 DEF PipeInv, Truth, RecordsAreTrue
  <2> QED
    BY <2>2 DEF SameGuest, guest
<1>6. PipeInv'
  BY <1>1, <1>4, <1>5, EndedKeeps
<1>7. ~panicked'
  BY <1>2 DEF SameGuest, relaying
<1> QED
  BY <1>1, <1>6, <1>7 DEF RunnerIsUnderstood, PanicSeen

LEMMA HostKeeps ==
  ASSUME BootInv, HostSide
  PROVE  Guest' /\ Relaying' /\ PipeInv' /\ RunnerIsUnderstood' /\ PanicSeen'
<1>1. /\ Unmoved \/ NeverBegins \/ Stops \/ Blames \/ Takes \/ Concludes
      /\ SameGuest
  BY HostEffects DEF BootInv, SameGuest
<1>2. Guest' /\ Relaying'
  BY <1>1, GuestSame, HostRelaying DEF BootInv
<1> QED
  BY <1>1, <1>2, UnmovedKeeps, NeverBeginsKeeps, StopsKeeps, BlamesKeeps, TakesKeeps,
     ConcludesKeeps
  DEF BootInv

-----------------------------------------------------------------------------
(* What the guest writes.                                                  *)

\* What is true stays true.
LEMMA EmissionKeepsTruth ==
  ASSUME Guest, NEW lines \in Seq(AllLines), Emission(lines)
  PROVE  /\ \A line : Truthful(line) => Truthful(line)' /\ line.kind # "PANIC"
         /\ \A test \in Tests : judged[test] # "none" => judged'[test] = judged[test]
         /\ Unsupported => Unsupported'
         /\ Silent' => Silent
         /\ ~Writing => (Silent => Silent')
<1>1. \A test \in Tests : judged[test] # "none" => judged'[test] = judged[test]
  BY DEF Emission
<1>2. ~Writing => ~Writing' /\ UNCHANGED judged
  BY DEF Emission
<1>3. ~Writing => \A kind : JudgedAs(kind)' = JudgedAs(kind)
  BY <1>2 DEF JudgedAs
<1>4. ASSUME NEW line, Truthful(line)
      PROVE  Truthful(line)' /\ line.kind # "PANIC"
  <2>1. line.kind # "PANIC"
    BY <1>4 DEF Truthful, Emission
  <2>2. line.kind = "RUN" => Started(line.name)'
    BY <1>4 DEF Truthful, Emission
  <2>3. line.kind \in Completions => judged'[line.name] = line.kind
    BY <1>1, <1>4 DEF Truthful, Completions
  <2>4. line.kind = "CAPABILITY" => ~capable'.baseline
    BY <1>4 DEF Truthful, Emission
  <2>5. line.kind = "END" =>
          ~Writing' /\ \A kind \in Completions : line.counts[kind] = Cardinality(JudgedAs(kind))'
    BY <1>2, <1>3, <1>4 DEF Truthful
  <2> QED
    BY <1>4, <2>1, <2>2, <2>3, <2>4, <2>5 DEF Truthful
<1>5. Unsupported => Unsupported'
  BY <1>1 DEF Unsupported, Emission
<1>6. Silent' => Silent
  BY <1>1 DEF Silent, Emission
<1>7. ~Writing => (Silent => Silent')
  BY <1>2 DEF Silent, Emission
<1> QED
  BY <1>4, <1>1, <1>5, <1>6, <1>7

LEMMA GuestKeeps ==
  ASSUME BootInv, GuestStep
  PROVE  PipeInv' /\ RunnerIsUnderstood' /\ PanicSeen'
<1>1. /\ model \in {"running", "terminating"} /\ pc \in {"register", "check", "receive"}
      /\ UNCHANGED <<termination, parser, recorded, channel, watch, verdict, expired,
                     relay, model, sawEnd, panicked>>
      /\ Guest /\ Runner!Next
  BY DEF GuestStep, Observed, vars, supervision, podman, relaying, BootInv
<1>2. PICK lines \in Seq(AllLines) : Emission(lines)
  BY <1>1, GuestEmits
<1>3. /\ \A line : Truthful(line) => Truthful(line)' /\ line.kind # "PANIC"
      /\ \A test \in Tests : judged[test] # "none" => judged'[test] = judged[test]
      /\ Unsupported => Unsupported'
      /\ ~Writing => (Silent => Silent')
  BY <1>1, <1>2, EmissionKeepsTruth
<1>4. /\ channel \in Seq(AllLines) /\ uart \in Seq(AllLines) /\ Pipe \in Seq(AllLines)
      /\ uart' = uart \o lines
      /\ Len(lines) \in Nat /\ Len(uart) \in Nat
  BY <1>1, <1>2, PipeTyped DEF BootInv, IInv, Emission
<1>5. Pipe' = Pipe \o lines
  BY <1>1, <1>4 DEF Pipe
<1>6. /\ \A l : l \in Members(Pipe') <=> l \in Members(Pipe) \/ l \in Members(lines)
      /\ \A l : Among(l, Pipe') <=> Among(l, Pipe) \/ Among(l, lines)
  BY <1>4, <1>5, AmongBoth
<1>7. \A kind : KindAmong(kind, uart') <=> KindAmong(kind, uart) \/ KindAmong(kind, lines)
  BY <1>4, AmongBoth
<1>8. /\ \A kind, test : Logged(kind, test)' <=> Logged(kind, test)
      /\ \A kind : LoggedKind(kind)' <=> LoggedKind(kind)
      /\ Phase' = Phase
  BY <1>1 DEF Logged, LoggedKind, Phase
<1>9. /\ verdict.kind = "none" /\ relay # "exited" /\ ~panicked
      /\ PipeInv
  BY <1>1 DEF BootInv, IInv, Control, Relaying, PipeInv, Ends
<1>10. \A l \in Members(lines) : Truthful(l)'
  <2> SUFFICES ASSUME NEW l \in Members(lines) PROVE Truthful(l)'
    OBVIOUS
  <2>1. PICK i \in 1..Len(lines) : lines[i] = l
    BY DEF Members
  <2> QED
    BY <1>2, <2>1 DEF Emission
<1>11. Truth'
  <2>1. \A l \in Members(Pipe') : Truthful(l)'
    BY <1>3, <1>6, <1>9, <1>10 DEF PipeInv, Truth
  <2>2. RecordsAreTrue'
    <3> SUFFICES ASSUME NEW test \in Tests, NEW kind \in Completions, Logged(kind, test)
                 PROVE  judged'[test] = kind
      BY <1>8 DEF RecordsAreTrue
    <3>1. judged[test] = kind
      BY <1>9 DEF PipeInv, Truth, RecordsAreTrue
    <3> QED
      BY <1>3, <3>1 DEF Completions
  <2>3. \A test \in Tests : Logged("RUN", test)' => Started(test)'
    BY <1>2, <1>8, <1>9 DEF PipeInv, Truth, Emission
  <2> QED
    BY <2>1, <2>2, <2>3 DEF Truth
<1>12. /\ \A i \in 1..Len(uart) : uart'[i] = uart[i]
       /\ \A i \in 1..Len(uart') :
            \/ i \in 1..Len(uart)
            \/ i - Len(uart) \in 1..Len(lines) /\ uart'[i] = lines[i - Len(uart)]
       /\ Len(uart') = Len(uart) + Len(lines)
  BY <1>4, Positions
<1>13. \A i \in 1..Len(uart) : Truthful(uart[i]) /\ uart[i].kind # "PANIC"
  <2> SUFFICES ASSUME NEW i \in 1..Len(uart) PROVE Truthful(uart[i]) /\ uart[i].kind # "PANIC"
    OBVIOUS
  <2>1. PICK l : l = uart[i]
    OBVIOUS
  <2>2. l \in Members(Pipe)
    BY <1>4, <2>1, MembersAre, AmongBoth DEF Pipe
  <2> QED
    BY <1>3, <1>9, <2>1, <2>2 DEF PipeInv, Truth
<1>14. Ends'
  <2>1. KindAmong("END", channel') \/ LoggedKind("END")' => sawEnd'
    BY <1>1, <1>8, <1>9 DEF PipeInv, Ends
  <2>2. ~Writing => lines = <<Runner!FirmwarePanic>> /\ ~Writing'
    BY <1>2 DEF Emission
  <2>3. ~Writing => \A i \in 1..Len(lines) : lines[i].kind = "PANIC"
    <3>1. PICK line : line = Runner!FirmwarePanic /\ line.kind = "PANIC"
      BY LinesTyped
    <3>2. ~Writing => lines = <<line>>
      BY <2>2, <3>1
    <3>3. Len(<<line>>) = 1 /\ <<line>>[1] = line
      OBVIOUS
    <3>4. ASSUME ~Writing, NEW i \in 1..Len(lines) PROVE lines[i].kind = "PANIC"
      <4>1. lines = <<line>>
        BY <3>2, <3>4
      <4>2. i = 1 /\ lines[1] = line
        BY <3>3, <3>4, <4>1
      <4> QED
        BY <3>1, <4>2
    <3> QED
      BY <3>4
  <2>4. sawEnd' => ~Writing' /\ \A i \in 1..Len(uart') : uart'[i].kind = "PANIC"
    BY <1>1, <1>9, <1>12, <2>2, <2>3 DEF PipeInv, Ends
  <2>5. \A i \in 1..Len(lines) : lines[i].kind \in {"END", "PANIC"} => Len(lines) = 1
    BY <1>2 DEF Emission
  <2>6. ASSUME NEW i \in 1..Len(uart'), NEW j \in 1..Len(uart'), uart'[i].kind = "END", i < j
        PROVE  uart'[j].kind = "PANIC"
    <3>1. CASE i \in 1..Len(uart)
      <4>1. ~Writing
        BY <1>12, <1>13, <2>6, <3>1 DEF Truthful
      <4> QED
        BY <1>9, <1>12, <2>3, <2>6, <3>1, <4>1 DEF PipeInv, Ends
    <3>2. CASE i \notin 1..Len(uart)
      <4>1. Len(lines) = 1
        BY <1>12, <2>5, <2>6, <3>2
      <4> QED
        BY <1>4, <1>12, <2>6, <3>2, <4>1
    <3> QED
      BY <3>1, <3>2
  <2>7. step = "returned" => Spent'
    <3> SUFFICES ASSUME step = "returned" PROVE Spent'
      OBVIOUS
    <3>1. sawEnd \/ KindAmong("END", uart) \/ Silent
      BY <1>9 DEF PipeInv, Ends, Spent
    <3>2. ~Writing
      BY DEF Writing
    <3> QED
      BY <1>1, <1>3, <1>7, <3>1, <3>2 DEF Spent
  <2>8. ASSUME NEW i \in 1..Len(uart'), uart'[i].kind = "PANIC"
        PROVE  i = Len(uart') /\ Spent'
    <3>1. i \notin 1..Len(uart) /\ i - Len(uart) \in 1..Len(lines)
          /\ lines[i - Len(uart)].kind = "PANIC"
      BY <1>12, <1>13, <2>8
    <3>2. Len(lines) = 1 /\ (step = "returned" \/ Silent')
      BY <1>2, <3>1 DEF Emission
    <3>3. i = Len(uart')
      BY <1>4, <1>12, <3>1, <3>2
    <3> QED
      BY <2>7, <3>2, <3>3 DEF Spent
  <2>9. step' = "returned" => Spent'
    BY <1>2, <1>7 DEF Emission, Spent
  <2> QED
    BY <1>1, <1>9, <2>1, <2>4, <2>6, <2>8, <2>9 DEF PipeInv, Ends
<1>15. Fresh'
  <2>1. ASSUME NEW i \in 1..Len(lines), lines[i].kind = "RUN"
        PROVE  Len(lines) = 1 /\ ~Started(lines[i].name) /\ lines[i].name \in Tests
    <3>1. Truthful(lines[i])' /\ Len(lines) = 1 /\ ~Started(lines[i].name)
      BY <1>2, <2>1 DEF Emission
    <3> QED
      BY <2>1, <3>1 DEF Truthful
  <2>2. ASSUME NEW l \in Members(Pipe'), l.kind = "RUN"
        PROVE  ~Logged("RUN", l.name)'
    <3>1. CASE l \in Members(Pipe)
      BY <1>8, <1>9, <2>2, <3>1 DEF PipeInv, Fresh
    <3>2. CASE l \in Members(lines)
      <4>1. PICK i \in 1..Len(lines) : lines[i] = l
        BY <3>2 DEF Members
      <4> QED
        BY <1>8, <1>9, <2>1, <2>2, <4>1 DEF PipeInv, Truth
    <3> QED
      BY <1>6, <3>1, <3>2
  <2>3. /\ \A i \in 1..Len(Pipe) : Pipe'[i] = Pipe[i]
        /\ \A i \in 1..Len(Pipe') :
            \/ i \in 1..Len(Pipe)
            \/ i - Len(Pipe) \in 1..Len(lines) /\ Pipe'[i] = lines[i - Len(Pipe)]
        /\ Len(Pipe) \in Nat
    BY <1>4, <1>5, Positions
  <2>4. ASSUME NEW i \in 1..Len(Pipe), Pipe[i].kind = "RUN"
        PROVE  Started(Pipe[i].name)
    <3>1. PICK l : l = Pipe[i]
      OBVIOUS
    <3>2. l \in Members(Pipe)
      BY <3>1, MembersAre
    <3> QED
      BY <1>9, <2>4, <3>1, <3>2 DEF PipeInv, Truth, Truthful
  <2>5. ASSUME NEW i \in 1..Len(Pipe'), NEW j \in 1..Len(Pipe'),
               Pipe'[i].kind = "RUN", Pipe'[j].kind = "RUN", Pipe'[i].name = Pipe'[j].name
        PROVE  i = j
    <3>1. CASE i \in 1..Len(Pipe) /\ j \in 1..Len(Pipe)
      BY <1>9, <2>3, <2>5, <3>1 DEF PipeInv, Fresh
    <3>2. CASE i \in 1..Len(Pipe) /\ j \notin 1..Len(Pipe)
      <4>1. Started(Pipe[i].name) /\ Pipe'[i] = Pipe[i]
        BY <2>3, <2>4, <2>5, <3>2
      <4>2. j - Len(Pipe) \in 1..Len(lines) /\ Pipe'[j] = lines[j - Len(Pipe)]
        BY <2>3, <3>2
      <4> QED
        BY <2>1, <2>5, <4>1, <4>2
    <3>3. CASE i \notin 1..Len(Pipe) /\ j \in 1..Len(Pipe)
      <4>1. Started(Pipe[j].name) /\ Pipe'[j] = Pipe[j]
        BY <2>3, <2>4, <2>5, <3>3
      <4>2. i - Len(Pipe) \in 1..Len(lines) /\ Pipe'[i] = lines[i - Len(Pipe)]
        BY <2>3, <3>3
      <4> QED
        BY <2>1, <2>5, <4>1, <4>2
    <3>4. CASE i \notin 1..Len(Pipe) /\ j \notin 1..Len(Pipe)
      <4>1. /\ i - Len(Pipe) \in 1..Len(lines) /\ Pipe'[i] = lines[i - Len(Pipe)]
            /\ j - Len(Pipe) \in 1..Len(lines)
        BY <2>3, <3>4
      <4>2. Len(lines) = 1
        BY <2>1, <2>5, <4>1
      <4> QED
        BY <2>3, <4>1, <4>2
    <3> QED
      BY <3>1, <3>2, <3>3, <3>4
  <2> QED
    BY <2>2, <2>5 DEF Fresh
<1>16. Conserved'
  <2>1. ASSUME NEW test \in Tests, judged'[test] # "none"
        PROVE  \/ Logged(judged[test], test)'
               \/ Among(About(judged[test], test), Pipe)'
    <3>1. PICK line : line = About(judged'[test], test)
      OBVIOUS
    <3>2. PICK kind : kind = judged'[test]
      OBVIOUS
    <3>3. CASE judged'[test] = judged[test]
      <4>1. Logged(kind, test) \/ Among(line, Pipe)
        BY <1>9, <2>1, <3>1, <3>2, <3>3 DEF PipeInv, Conserved
      <4>2. Logged(kind, test)' \/ Among(line, Pipe')
        BY <1>6, <1>8, <4>1
      <4> QED
        BY <3>1, <3>2, <4>2
    <3>4. CASE judged'[test] # judged[test]
      <4>1. Among(line, lines)
        BY <1>2, <3>1, <3>4 DEF Emission
      <4> QED
        BY <1>6, <3>1, <4>1
    <3> QED
      BY <3>3, <3>4
  <2> QED
    BY <1>1, <1>9, <2>1 DEF PipeInv, Conserved
<1>17. Continues'
  <2> SUFFICES ASSUME ~Unsupported'
               PROVE  /\ Chained(Phase, Pipe)'
                      /\ Writing' => Here' = EndOf(Phase, Pipe)'
    BY <1>1 DEF Continues
  <2>1. /\ Chained(Phase, Pipe)
        /\ Writing => Here = EndOf(Phase, Pipe)
    BY <1>3, <1>9 DEF PipeInv, Continues
  <2>2. /\ Chained(Phase, Pipe \o lines) <=>
              Chained(Phase, Pipe) /\ Chained(EndOf(Phase, Pipe), lines)
        /\ EndOf(Phase, Pipe \o lines) = EndOf(EndOf(Phase, Pipe), lines)
    BY <1>4, ChainedBoth
  <2>3. CASE Writing
    <3>1. Chained(Here, lines) /\ (Writing' => Here' = EndOf(Here, lines))
      BY <1>2, <2>3 DEF Emission
    <3> QED
      BY <1>5, <1>8, <2>1, <2>2, <2>3, <3>1
  <2>4. CASE ~Writing
    <3>1. lines = <<Runner!FirmwarePanic>> /\ ~Writing'
      BY <1>2, <2>4 DEF Emission
    <3>2. PICK line : line = Runner!FirmwarePanic /\ line.kind = "PANIC"
      BY LinesTyped
    <3>3. Fits(EndOf(Phase, Pipe), line)
      BY <3>2 DEF Fits
    <3>4. Chained(EndOf(Phase, Pipe), lines)
      BY <3>1, <3>2, <3>3, ChainedOne
    <3> QED
      BY <1>5, <1>8, <2>1, <2>2, <3>1, <3>4
  <2> QED
    BY <2>3, <2>4
<1>18. Watched'
  BY <1>1, <1>8, <1>9 DEF PipeInv, Watched
<1>19. RunnerIsUnderstood' /\ PanicSeen'
  BY <1>1, <1>9 DEF RunnerIsUnderstood, PanicSeen
<1> QED
  BY <1>11, <1>14, <1>15, <1>16, <1>17, <1>18, <1>19 DEF PipeInv

-----------------------------------------------------------------------------
(* What the relay passes on.                                               *)

\* Lines are dropped from the end of the pipe: channel' is the pipe.
LEMMA ShorterPipe ==
  ASSUME IInv, Guest, PipeInv, verdict.kind = "none",
         UNCHANGED <<termination, guest, parser, recorded, watch, verdict, channel, sawEnd, panicked>>,
         uart' = <<>>,
         relay' # "exited" \/ sawEnd =>
            sawEnd /\ relay # "exited" /\ \A i \in 1..Len(uart) : uart[i].kind = "PANIC",
         panicked => model' = "dead",
         relay' # "exited" /\ step = "returned" => Spent'
  PROVE  PipeInv'
<1>1. /\ \A l : Truthful(l)' <=> Truthful(l)
      /\ \A test : Started(test)' <=> Started(test)
      /\ (Silent' <=> Silent) /\ (Writing' <=> Writing) /\ (Unsupported' <=> Unsupported)
      /\ Here' = Here
  BY GuestStill
<1>2. UNCHANGED <<judged, step>>
  BY DEF guest
<1>3. channel \in Seq(AllLines) /\ uart \in Seq(AllLines) /\ Pipe \in Seq(AllLines)
  BY PipeTyped DEF IInv
<1>4. Pipe' = channel /\ Pipe = channel \o uart
  BY <1>3 DEF Pipe
<1>5. /\ \A kind, test : Logged(kind, test)' <=> Logged(kind, test)
      /\ \A kind : LoggedKind(kind)' <=> LoggedKind(kind)
      /\ Phase' = Phase
  BY DEF Logged, LoggedKind, Phase
<1>6. /\ \A l : l \in Members(channel) => l \in Members(Pipe)
      /\ \A l : Among(l, Pipe) <=> Among(l, channel) \/ Among(l, uart)
  BY <1>3, <1>4, AmongBoth
<1>7. Truth'
  <2>1. RecordsAreTrue'
    BY <1>2, <1>5 DEF PipeInv, Truth, RecordsAreTrue
  <2>2. \A l \in Members(Pipe') : Truthful(l)'
    BY <1>1, <1>4, <1>6 DEF PipeInv, Truth
  <2> QED
    BY <1>1, <1>5, <2>1, <2>2 DEF PipeInv, Truth
<1>8. Ends'
  BY <1>1, <1>2, <1>5 DEF PipeInv, Ends
<1>9. Fresh'
  <2>1. /\ \A i \in 1..Len(channel) : Pipe[i] = channel[i] /\ i \in 1..Len(Pipe)
    BY <1>3, <1>4, Positions
  <2> QED
    BY <1>4, <1>5, <1>6, <2>1 DEF PipeInv, Fresh
<1>10. Conserved'
  <2>1. ASSUME NEW test \in Tests, judged[test] # "none", relay' # "exited" \/ sawEnd
        PROVE  Logged(judged[test], test) \/ Among(About(judged[test], test), channel)
    <3>1. About(judged[test], test).kind # "PANIC"
      BY <2>1, SameProtocol DEF Guest, Runner!TypeOK, Completions, About
    <3>2. ~Among(About(judged[test], test), uart)
      BY <2>1, <3>1 DEF Among
    <3> QED
      BY <1>6, <2>1, <3>2 DEF PipeInv, Conserved
  <2> QED
    BY <1>2, <1>4, <1>5, <2>1 DEF PipeInv, Conserved
<1>11. Continues'
  <2> SUFFICES ASSUME ~Unsupported PROVE Chained(Phase, Pipe)'
    BY <1>1 DEF Continues, PipeInv, Ends
  <2>1. Chained(Phase, Pipe)
    BY DEF PipeInv, Continues
  <2>2. Chained(Phase, channel \o uart) <=>
           Chained(Phase, channel) /\ Chained(EndOf(Phase, channel), uart)
    BY <1>3, ChainedBoth
  <2> QED
    BY <1>4, <1>5, <2>1, <2>2
<1>12. Watched'
  BY <1>5 DEF PipeInv, Watched
<1> QED
  BY <1>7, <1>8, <1>9, <1>10, <1>11, <1>12 DEF PipeInv

LEMMA StaysKeeps ==
  ASSUME PipeInv, Stays, Relaying,
         UNCHANGED <<termination, guest, parser, recorded, watch, verdict>>
  PROVE  PipeInv'
<1>1. /\ \A l : Truthful(l)' <=> Truthful(l)
      /\ \A test : Started(test)' <=> Started(test)
      /\ (Silent' <=> Silent) /\ (Writing' <=> Writing) /\ (Unsupported' <=> Unsupported)
      /\ Here' = Here
  BY GuestStill
<1>2. /\ UNCHANGED <<judged, step, channel, uart, sawEnd, panicked>>
      /\ Pipe' = Pipe /\ Phase' = Phase
  BY DEF guest, Stays, Pipe, Phase
<1>3. /\ \A kind, test : Logged(kind, test)' <=> Logged(kind, test)
      /\ \A kind : LoggedKind(kind)' <=> LoggedKind(kind)
  BY DEF Logged, LoggedKind
<1>4. relay' # "exited" => relay # "exited"
  BY DEF Stays
<1>5. panicked => model' = "dead"
  BY DEF PipeInv, Ends, Stays
<1>6. Truth'
  <2>1. RecordsAreTrue'
    BY <1>2, <1>3 DEF PipeInv, Truth, RecordsAreTrue
  <2> QED
    BY <1>1, <1>2, <1>3, <2>1 DEF PipeInv, Truth
<1>7. Ends'
  BY <1>1, <1>2, <1>3, <1>4, <1>5 DEF PipeInv, Ends, Spent
<1>8. Fresh' /\ Conserved' /\ Continues' /\ Watched'
  BY <1>1, <1>2, <1>3, <1>4 DEF PipeInv, Fresh, Conserved, Continues, Watched
<1> QED
  BY <1>6, <1>7, <1>8 DEF PipeInv

LEMMA PrintsKeeps ==
  ASSUME IInv, Guest, PipeInv, Relaying, verdict.kind = "none",
         relay = "relaying", relay' = relay, uart # <<>>, uart' = Tail(uart), Prints,
         UNCHANGED <<termination, guest, parser, recorded, watch, verdict>>
  PROVE  PipeInv'
<1>1. /\ \A l : Truthful(l)' <=> Truthful(l)
      /\ \A test : Started(test)' <=> Started(test)
      /\ (Silent' <=> Silent) /\ (Writing' <=> Writing) /\ (Unsupported' <=> Unsupported)
      /\ Here' = Here
  BY GuestStill
<1>2. UNCHANGED <<judged, step, panicked>>
  BY DEF guest, Prints
<1>3. /\ channel \in Seq(AllLines) /\ uart \in Seq(AllLines) /\ Pipe = channel \o uart
      /\ Len(channel) \in Nat /\ Len(uart) \in Nat
  BY PipeTyped DEF IInv, Pipe
<1>4. /\ Head(uart) = uart[1] /\ Head(uart) \in AllLines /\ Len(uart) >= 1
      /\ Tail(uart) \in Seq(AllLines) /\ Len(Tail(uart)) = Len(uart) - 1
      /\ \A i \in 1..Len(Tail(uart)) : Tail(uart)[i] = uart[i + 1] /\ i + 1 \in 1..Len(uart)
      /\ \A kind : KindAmong(kind, uart) <=> kind = Head(uart).kind \/ KindAmong(kind, Tail(uart))
      /\ Head(uart) \in Members(uart)
  BY <1>3, AmongHead
<1>5. PICK line \in AllLines : line = Head(uart) /\ line.kind # "PANIC"
  BY <1>4 DEF Prints
<1>6. /\ channel' = Append(channel, line) /\ uart' = Tail(uart)
      /\ sawEnd' <=> sawEnd \/ line.kind = "END"
  BY <1>5 DEF Prints
<1>7. Pipe' = Pipe
  <2>1. uart = <<line>> \o Tail(uart)
    BY <1>3, <1>5
  <2>2. Append(channel, line) \o Tail(uart) = channel \o (<<line>> \o Tail(uart))
    BY <1>3, <1>4
  <2> QED
    BY <1>3, <1>6, <2>1, <2>2 DEF Pipe
<1>8. /\ \A kind, test : Logged(kind, test)' <=> Logged(kind, test)
      /\ \A kind : LoggedKind(kind)' <=> LoggedKind(kind)
      /\ Phase' = Phase
  BY DEF Logged, LoggedKind, Phase
<1>9. ~sawEnd /\ ~panicked /\ ~KindAmong("END", channel) /\ ~LoggedKind("END") /\ ~parser.ended
  <2>1. ~sawEnd
    <3>1. 1 \in 1..Len(uart)
      BY <1>3, <1>4
    <3> QED
      BY <1>4, <1>5, <3>1 DEF PipeInv, Ends
  <2> QED
    BY <2>1 DEF PipeInv, Ends, IInv, LogInv, InStep
<1>10. Truthful(line)
  BY <1>3, <1>4, <1>5, AmongBoth DEF PipeInv, Truth
<1>11. \A kind : KindAmong(kind, channel') <=> KindAmong(kind, channel) \/ kind = line.kind
  <2>1. <<line>> \in Seq(AllLines) /\ channel' = channel \o <<line>>
    BY <1>3, <1>6
  <2>2. \A kind : KindAmong(kind, channel \o <<line>>) <=>
                     KindAmong(kind, channel) \/ KindAmong(kind, <<line>>)
    BY <1>3, <2>1, AmongBoth
  <2> QED
    BY <2>1, <2>2, AmongOne
<1>12. Truth'
  <2>1. RecordsAreTrue'
    BY <1>2, <1>8 DEF PipeInv, Truth, RecordsAreTrue
  <2> QED
    BY <1>1, <1>7, <1>8, <2>1 DEF PipeInv, Truth
<1>13. Ends'
  <2>1. KindAmong("END", channel') \/ LoggedKind("END")' => sawEnd'
    BY <1>6, <1>8, <1>9, <1>11
  <2>2. sawEnd' => ~Writing' /\ \A i \in 1..Len(uart') : uart'[i].kind = "PANIC"
    <3> SUFFICES ASSUME line.kind = "END"
                 PROVE  ~Writing /\ \A i \in 1..Len(Tail(uart)) : Tail(uart)[i].kind = "PANIC"
      BY <1>1, <1>6, <1>9
    <3>1. ~Writing
      BY <1>10 DEF Truthful
    <3>2. ASSUME NEW i \in 1..Len(Tail(uart)) PROVE Tail(uart)[i].kind = "PANIC"
      <4>1. 1 \in 1..Len(uart) /\ i + 1 \in 1..Len(uart) /\ 1 < i + 1
        BY <1>3, <1>4
      <4>2. uart[i + 1].kind = "PANIC"
        BY <1>4, <1>5, <4>1 DEF PipeInv, Ends
      <4> QED
        BY <1>4, <4>2
    <3> QED
      BY <3>1, <3>2
  <2>3. \A i, j \in 1..Len(uart') : uart'[i].kind = "END" /\ i < j => uart'[j].kind = "PANIC"
    <3> SUFFICES ASSUME NEW i \in 1..Len(Tail(uart)), NEW j \in 1..Len(Tail(uart)),
                        Tail(uart)[i].kind = "END", i < j
                 PROVE  Tail(uart)[j].kind = "PANIC"
      BY <1>6
    <3>1. i + 1 \in 1..Len(uart) /\ j + 1 \in 1..Len(uart) /\ i + 1 < j + 1
          /\ Tail(uart)[i] = uart[i + 1] /\ Tail(uart)[j] = uart[j + 1]
      BY <1>4
    <3> QED
      BY <3>1 DEF PipeInv, Ends
  <2>4. Spent => Spent'
    BY <1>1, <1>4, <1>5, <1>6 DEF Spent
  <2>5. \A i \in 1..Len(uart') : uart'[i].kind = "PANIC" => i = Len(uart') /\ Spent'
    <3> SUFFICES ASSUME NEW i \in 1..Len(Tail(uart)), Tail(uart)[i].kind = "PANIC"
                 PROVE  i = Len(Tail(uart)) /\ Spent'
      BY <1>6
    <3>1. i + 1 = Len(uart) /\ Spent
      BY <1>4 DEF PipeInv, Ends
    <3> QED
      BY <1>3, <1>4, <2>4, <3>1
  <2>6. \A i \in 1..Len(channel') : channel'[i].kind = "END" => i = Len(channel')
    <3> SUFFICES ASSUME NEW i \in 1..Len(channel'), channel'[i].kind = "END"
                 PROVE  i = Len(channel')
      OBVIOUS
    <3>1. Len(channel') = Len(channel) + 1 /\ (i <= Len(channel) => channel'[i] = channel[i])
      BY <1>3, <1>6
    <3>2. ~(i <= Len(channel))
      BY <1>3, <1>9, <3>1 DEF KindAmong
    <3> QED
      BY <1>3, <3>1, <3>2
  <2>7. relay' # "exited" /\ step' = "returned" => Spent'
    BY <1>2, <2>4 DEF PipeInv, Ends
  <2> QED
    BY <1>2, <1>9, <2>1, <2>2, <2>3, <2>5, <2>6, <2>7 DEF Ends
<1>14. Fresh'
  BY <1>7, <1>8 DEF PipeInv, Fresh
<1>15. Conserved'
  <2>1. sawEnd' => KindAmong("END", channel')
    BY <1>6, <1>9, <1>11
  <2>2. \A test \in Tests : judged[test] # "none" =>
             Logged(judged[test], test) \/ Among(About(judged[test], test), Pipe)
    BY DEF PipeInv, Conserved
  <2> QED
    BY <1>2, <1>7, <1>8, <1>9, <2>1, <2>2 DEF Conserved
<1>16. Continues'
  BY <1>1, <1>7, <1>8 DEF PipeInv, Continues
<1>17. Watched'
  BY <1>8 DEF PipeInv, Watched
<1> QED
  BY <1>12, <1>13, <1>14, <1>15, <1>16, <1>17 DEF PipeInv

\* A panic is the last line of the UART.
LEMMA PanicIsLast ==
  ASSUME TypeOK, Guest, Ends, uart # <<>>, Head(uart).kind = "PANIC"
  PROVE  /\ Len(uart) = 1 /\ uart[1].kind = "PANIC" /\ Tail(uart) = <<>>
         /\ Spent /\ ~KindAmong("END", uart) /\ ~panicked
<1>1. Tail(uart) \in Seq(AllLines) /\ Head(uart) = uart[1] /\ Len(uart) >= 1
  BY PipeTyped, AmongHead
<1>2. Len(Tail(uart)) = Len(uart) - 1 /\ Len(uart) \in Nat
  BY PipeTyped, AmongHead
<1>3. 1 \in 1..Len(uart) /\ uart[1].kind = "PANIC"
  BY <1>1, <1>2
<1>4. Len(uart) = 1 /\ Spent /\ ~panicked
  BY <1>3 DEF Ends
<1>5. Len(Tail(uart)) = 0
  BY <1>2, <1>4
<1>6. Tail(uart) = <<>>
  BY <1>1, <1>5, EmptySeq
<1>7. ~KindAmong("END", uart)
  <2>1. \A i \in 1..Len(uart) : i = 1
    BY <1>4
  <2> QED
    BY <1>3, <2>1 DEF KindAmong
<1> QED
  BY <1>3, <1>4, <1>6, <1>7

LEMMA ReportsKeeps ==
  ASSUME IInv, Guest, PipeInv, verdict.kind = "none",
         relay = "relaying", relay' = relay, uart # <<>>, uart' = Tail(uart), Reports,
         sawEnd' = FALSE,
         UNCHANGED <<termination, guest, parser, recorded, watch, verdict>>
  PROVE  PipeInv'
<1>1. /\ \A l : Truthful(l)' <=> Truthful(l)
      /\ \A test : Started(test)' <=> Started(test)
      /\ (Silent' <=> Silent) /\ (Writing' <=> Writing) /\ (Unsupported' <=> Unsupported)
      /\ Here' = Here
  BY GuestStill
<1>2. UNCHANGED <<judged, step>>
  BY DEF guest
<1>3. /\ channel \in Seq(AllLines) /\ uart \in Seq(AllLines) /\ Pipe = channel \o uart
      /\ Len(channel) \in Nat
  BY PipeTyped DEF IInv, Pipe
<1>4. /\ Len(uart) = 1 /\ uart[1].kind = "PANIC" /\ uart' = <<>>
      /\ Spent /\ ~KindAmong("END", uart) /\ ~panicked
  BY PanicIsLast DEF IInv, PipeInv, Reports
<1>5. Silent /\ ~sawEnd /\ panicked' /\ model' = "dead"
  BY <1>4 DEF Spent, Reports
<1>6. PICK line \in AllLines : line = Plain("HARNESS_FAILURE") /\ line.kind = "HARNESS_FAILURE"
  BY LinesTyped DEF InfraKinds
<1>7. PICK last \in Seq(AllLines) : last = <<line>>
  <2>1. <<line>> \in Seq(AllLines)
    OBVIOUS
  <2> QED
    BY <2>1
<1>8. channel' = channel \o last /\ Pipe' = channel \o last /\ channel' \in Seq(AllLines)
  <2>1. channel' = channel \o last /\ channel' \in Seq(AllLines)
    BY <1>3, <1>6, <1>7 DEF Reports
  <2>2. Pipe' = channel' \o <<>>
    BY <1>4 DEF Pipe
  <2>3. channel' \o <<>> = channel'
    BY <2>1, ConcatEmptySeq
  <2> QED
    BY <2>1, <2>2, <2>3
<1>9. /\ \A l : l \in Members(channel \o last) <=> l \in Members(channel) \/ l = line
      /\ \A l : Among(l, channel \o last) <=> Among(l, channel) \/ l = line
      /\ \A kind : KindAmong(kind, channel \o last) <=> KindAmong(kind, channel) \/ kind = line.kind
  <2>1. /\ \A l : l \in Members(channel \o last) <=> l \in Members(channel) \/ l \in Members(last)
        /\ \A l : Among(l, channel \o last) <=> Among(l, channel) \/ Among(l, last)
        /\ \A kind : KindAmong(kind, channel \o last) <=>
                         KindAmong(kind, channel) \/ KindAmong(kind, last)
    BY <1>3, AmongBoth
  <2>2. /\ \A l : l \in Members(last) <=> l = line
        /\ \A l : Among(l, last) <=> l = line
        /\ \A kind : KindAmong(kind, last) <=> kind = line.kind
    BY <1>7, AmongOne
  <2> QED
    BY <2>1, <2>2
<1>10. /\ \A l : l \in Members(Pipe) <=> l \in Members(channel) \/ l \in Members(uart)
       /\ \A l : Among(l, Pipe) <=> Among(l, channel) \/ Among(l, uart)
  BY <1>3, AmongBoth
<1>11. /\ \A kind, test : Logged(kind, test)' <=> Logged(kind, test)
       /\ \A kind : LoggedKind(kind)' <=> LoggedKind(kind)
       /\ Phase' = Phase
  BY DEF Logged, LoggedKind, Phase
<1>12. step = "spinning" /\ ~Writing
  <2>1. PICK l : l = uart[1]
    OBVIOUS
  <2>2. 1 \in 1..Len(uart)
    BY <1>4
  <2>3. l \in Members(Pipe)
    BY <1>10, <2>1, <2>2, MembersAre
  <2> QED
    BY <1>4, <2>1, <2>3 DEF PipeInv, Truth, Truthful, Writing
<1>13. Truth'
  <2>1. RecordsAreTrue'
    BY <1>2, <1>11 DEF PipeInv, Truth, RecordsAreTrue
  <2>2. Truthful(line)
    BY <1>6 DEF Truthful, Completions
  <2>3. \A l \in Members(Pipe') : Truthful(l)'
    BY <1>1, <1>8, <1>9, <1>10, <2>2 DEF PipeInv, Truth
  <2> QED
    BY <1>1, <1>11, <2>1, <2>3 DEF PipeInv, Truth
<1>14. ~KindAmong("END", channel) /\ ~LoggedKind("END") /\ ~parser.ended
  BY <1>5 DEF PipeInv, Ends, IInv, LogInv, InStep
<1>15. Ends'
  <2>1. ~KindAmong("END", channel')
    BY <1>6, <1>8, <1>9, <1>14
  <2>2. \A i \in 1..Len(channel') : channel'[i].kind # "END"
    BY <2>1 DEF KindAmong
  <2>3. ~LoggedKind("END")' /\ ~parser'.ended /\ ~sawEnd'
    BY <1>11, <1>14
  <2>4. uart' = <<>> /\ Len(uart') = 0 /\ 1..Len(uart') = {}
    <3>1. Len(uart') = 0
      BY <1>4
    <3>2. 1..0 = {}
      OBVIOUS
    <3> QED
      BY <1>4, <3>1, <3>2
  <2>5. Silent' /\ model' = "dead" /\ step' = "spinning" /\ Spent'
    BY <1>1, <1>2, <1>5, <1>12 DEF Spent
  <2> QED
    BY <2>1, <2>2, <2>3, <2>4, <2>5 DEF Ends
<1>16. Fresh'
  <2>1. /\ \A i \in 1..Len(channel) : Pipe[i] = channel[i] /\ i \in 1..Len(Pipe)
    BY <1>3, Positions
  <2>2. \A i \in 1..Len(Pipe') :
           \/ i \in 1..Len(channel) /\ Pipe'[i] = channel[i]
           \/ Pipe'[i] = line
    <3>1. \A i \in 1..Len(channel \o last) :
             \/ i \in 1..Len(channel) /\ (channel \o last)[i] = channel[i]
             \/ i - Len(channel) \in 1..Len(last) /\ (channel \o last)[i] = last[i - Len(channel)]
      BY <1>3, Positions
    <3>2. \A i \in 1..Len(last) : last[i] = line
      BY <1>7
    <3> QED
      BY <1>8, <3>1, <3>2
  <2>3. ASSUME NEW i \in 1..Len(Pipe'), NEW j \in 1..Len(Pipe'), Pipe'[i].kind = "RUN",
               Pipe'[j].kind = "RUN", Pipe'[i].name = Pipe'[j].name
        PROVE  i = j
    <3>1. /\ i \in 1..Len(channel) /\ Pipe'[i] = channel[i]
          /\ j \in 1..Len(channel) /\ Pipe'[j] = channel[j]
      BY <1>6, <2>2, <2>3
    <3> QED
      BY <2>1, <2>3, <3>1 DEF PipeInv, Fresh
  <2>4. \A l \in Members(Pipe') : l.kind = "RUN" => ~Logged("RUN", l.name)'
    BY <1>6, <1>8, <1>9, <1>10, <1>11 DEF PipeInv, Fresh
  <2> QED
    BY <2>3, <2>4 DEF Fresh
<1>17. Conserved'
  <2>1. ASSUME NEW test \in Tests, judged[test] # "none"
        PROVE  Logged(judged[test], test) \/ Among(About(judged[test], test), channel \o last)
    <3>1. Logged(judged[test], test) \/ Among(About(judged[test], test), Pipe)
      BY <2>1 DEF PipeInv, Conserved
    <3>2. About(judged[test], test).kind # "PANIC"
      BY <2>1, SameProtocol DEF Guest, Runner!TypeOK, Completions, About
    <3>3. ~Among(About(judged[test], test), uart)
      <4>1. \A i \in 1..Len(uart) : i = 1
        BY <1>4
      <4> QED
        BY <1>4, <3>2, <4>1 DEF Among
    <3> QED
      BY <1>9, <1>10, <3>1, <3>3
  <2> QED
    BY <1>2, <1>5, <1>6, <1>8, <1>9, <1>11, <2>1 DEF Conserved
<1>18. Continues'
  <2> SUFFICES ASSUME ~Unsupported PROVE Chained(Phase, Pipe)'
    BY <1>1, <1>12 DEF Continues
  <2>1. Chained(Phase, channel)
    <3>1. Chained(Phase, Pipe)
      BY DEF PipeInv, Continues
    <3>2. Chained(Phase, channel \o uart) <=>
             Chained(Phase, channel) /\ Chained(EndOf(Phase, channel), uart)
      BY <1>3, ChainedBoth
    <3> QED
      BY <1>3, <3>1, <3>2
  <2>2. Chained(Phase, channel \o last) <=>
             Chained(Phase, channel) /\ Chained(EndOf(Phase, channel), last)
    BY <1>3, ChainedBoth
  <2>3. Fits(EndOf(Phase, channel), line)
    BY <1>6 DEF Fits
  <2>4. Chained(EndOf(Phase, channel), last)
    BY <1>7, <2>3, ChainedOne
  <2> QED
    BY <1>8, <1>11, <2>1, <2>2, <2>4
<1>19. Watched'
  BY <1>11 DEF PipeInv, Watched
<1> QED
  BY <1>13, <1>15, <1>16, <1>17, <1>18, <1>19 DEF PipeInv

LEMMA RelayKeeps ==
  ASSUME BootInv, RelayStep
  PROVE  PipeInv' /\ RunnerIsUnderstood' /\ PanicSeen'
<1>1. IInv /\ TypeOK /\ Control /\ Guest /\ Relaying /\ Relay!TypeOK /\ PipeInv
  BY DEF BootInv, IInv, Relaying
<1>2. /\ Stays \/ Starts \/ Loops \/ Leaves
      /\ pc \in {"register", "check", "receive"}
      /\ UNCHANGED <<termination, supervision, guest>>
      /\ sawEnd \in BOOLEAN /\ sawEnd' \in BOOLEAN
  BY <1>1, RelayEffects DEF Relay!TypeOK
<1>3. verdict.kind = "none"
  BY <1>1, <1>2 DEF Control
<1>4. UNCHANGED <<termination, guest, parser, recorded, watch, verdict>>
  BY <1>2 DEF supervision
<1> SUFFICES PipeInv'
  BY <1>3, <1>4 DEF RunnerIsUnderstood, PanicSeen
<1>5. CASE Stays
  BY <1>1, <1>4, <1>5, StaysKeeps
<1>6. CASE Starts
  <2>1. /\ model = "off" /\ uart = <<>> /\ step = "entry" /\ ~sawEnd /\ ~panicked
        /\ \A test \in Tests : judged[test] = "none"
    BY <1>1, <1>6 DEF Relaying, Starts
  <2>2. PICK line \in AllLines : line = Plain("FVP_START") /\ line.kind = "FVP_START"
    BY LinesTyped DEF InfraKinds
  <2>3. /\ UNCHANGED <<uart, sawEnd, panicked>> /\ channel' = Append(channel, line)
        /\ relay # "exited"
    BY <1>6, <2>2 DEF Starts
  <2> QED
    BY <1>1, <1>3, <1>4, <2>1, <2>2, <2>3, EarlyLine
<1>7. CASE Loops /\ Prints
  BY <1>1, <1>3, <1>4, <1>7, PrintsKeeps DEF Loops
<1>8. CASE Loops /\ Drops
  <2>1. relay = "relaying" /\ relay' = relay /\ uart # <<>> /\ uart' = Tail(uart)
    BY <1>8 DEF Loops
  <2>2. /\ Len(uart) = 1 /\ uart[1].kind = "PANIC" /\ uart' = <<>> /\ ~panicked
    BY <1>1, <1>8, <2>1, PanicIsLast DEF PipeInv, Drops
  <2>3. sawEnd /\ UNCHANGED <<channel, sawEnd, panicked>>
    BY <1>2, <1>8, <2>2 DEF Drops
  <2>4. \A i \in 1..Len(uart) : uart[i].kind = "PANIC"
    <3>1. \A i \in 1..Len(uart) : i = 1
      BY <2>2
    <3> QED
      BY <2>2, <3>1
  <2>5. Spent'
    BY <2>3 DEF Spent
  <2> QED
    BY <1>1, <1>3, <1>4, <2>1, <2>2, <2>3, <2>4, <2>5, ShorterPipe
<1>9. CASE Loops /\ Reports
  <2>1. sawEnd' = FALSE
    BY <1>2, <1>9 DEF Reports
  <2> QED
    BY <1>1, <1>3, <1>4, <1>9, <2>1, ReportsKeeps DEF Loops
<1>10. CASE Leaves
  <2>1. /\ UNCHANGED <<channel, sawEnd, panicked>> /\ uart' = <<>>
        /\ relay # "exited" /\ relay' = "exited" /\ model' = "dead"
    BY <1>10 DEF Leaves
  <2>2. sawEnd => \A i \in 1..Len(uart) : uart[i].kind = "PANIC"
    BY <1>1 DEF PipeInv, Ends
  <2> QED
    BY <1>1, <1>3, <1>4, <2>1, <2>2, ShorterPipe
<1> QED
  BY <1>2, <1>5, <1>6, <1>7, <1>8, <1>9, <1>10 DEF Loops

-----------------------------------------------------------------------------
(* The invariant.                                                          *)

LEMMA RelayGuest ==
  ASSUME TypeOK, Guest, Relay!TypeOK, RelayStep
  PROVE  Guest'
<1>1. /\ UNCHANGED <<termination, guest>>
      /\ Stays \/ Starts \/ Loops \/ Leaves
  BY RelayEffects
<1>2. uart \in Seq(AllLines) /\ Runner!TypeOK /\ AllLines = Runner!Lines \cup {Runner!FirmwarePanic}
  BY PipeTyped, SameProtocol DEF Guest, AllLines
<1>3. uart' \in Seq(AllLines)
  <2>1. CASE Stays \/ Starts
    BY <1>2, <2>1 DEF Stays, Starts
  <2>2. CASE Loops
    BY <1>2, <2>2, AmongHead DEF Loops
  <2>3. CASE Leaves
    BY <2>3 DEF Leaves
  <2> QED
    BY <1>1, <2>1, <2>2, <2>3
<1>4. Runner!TypeOK'
  BY <1>1, <1>2, <1>3 DEF Runner!TypeOK, guest
<1>5. \A test : Runner!Selected(test)' <=> Runner!Selected(test)
  BY <1>1 DEF Runner!Selected
<1>6. \A kind : JudgedAs(kind)' = JudgedAs(kind)
  BY <1>1 DEF JudgedAs, guest
<1>7. \A test : Started(test)' <=> Started(test)
  BY <1>1, GuestStill
<1> QED
  BY <1>1, <1>4, <1>5, <1>6, <1>7 DEF Guest, guest, InTest

\* A boot of which nothing was seen yet: at first, and after every launch.
Booting ==
    /\ verdict.kind = "none" /\ parser = NewParser /\ recorded = {} /\ watch = NoTest
    /\ channel = <<>> /\ container = "absent"
    /\ step = "entry" /\ at = 0 /\ result = "none"
    /\ cleanup = FALSE /\ foreign = FALSE /\ corrupted = FALSE
    /\ adapter = "Ready" /\ outcome = "none" /\ tally = ZeroCounts
    /\ judged = [test \in Tests |-> "none"]
    /\ uart = <<>>
    /\ capable \in [baseline : BOOLEAN, tests : SUBSET Tests]
    /\ relay = "starting" /\ model = "off"
    /\ sawEnd = FALSE /\ panicked = FALSE /\ exitCode = 0

LEMMA BootingGuest == Booting => Guest
<1> SUFFICES ASSUME Booting PROVE Guest
  OBVIOUS
<1>1. step = "entry" /\ at = 0 /\ \A test \in Tests : judged[test] = "none"
  BY DEF Booting
<1>2. Runner!TypeOK
  <2>1. ZeroCounts \in Runner!Counts
    BY SameProtocol, NewParserTyped
  <2>2. 0 \in 0..Len(Catalog)
    BY BootAssumption DEF BootAssumption
  <2>3. judged \in [Tests -> Runner!Completions \cup {"none"}]
    BY DEF Booting
  <2>4. uart \in Seq(Runner!Lines \cup {Runner!FirmwarePanic})
    BY DEF Booting
  <2> QED
    BY <2>1, <2>2, <2>3, <2>4 DEF Booting, Runner!TypeOK
<1>3. ASSUME NEW kind \in Completions
      PROVE  tally[kind] = Cardinality(JudgedAs(kind))
  <2>1. JudgedAs(kind) = {}
    BY <1>1 DEF JudgedAs, Completions
  <2> QED
    BY <2>1, FS_EmptySet DEF Booting, ZeroCounts
<1>4. Destructive \subseteq Tests
  BY SupervisorAssumption DEF SupervisorAssumption
<1>5. \A test \in Destructive : judged[test] # "PASS"
  BY <1>1, <1>4
<1> QED
  BY <1>1, <1>2, <1>3, <1>5 DEF Guest, InTest

LEMMA BootingInductive == IInv /\ Booting => BootInv
<1> SUFFICES ASSUME IInv, Booting PROVE BootInv
  OBVIOUS
<1>1. Guest
  BY BootingGuest
<1>2. /\ verdict.kind = "none" /\ parser = NewParser /\ recorded = {} /\ watch = NoTest
      /\ channel = <<>> /\ container = "absent"
  BY DEF Booting
<1>3. /\ step = "entry" /\ uart = <<>> /\ \A test \in Tests : judged[test] = "none"
  BY DEF Booting
<1>4. /\ relay = "starting" /\ model = "off" /\ sawEnd = FALSE /\ panicked = FALSE
      /\ exitCode = 0
  BY DEF Booting
<1>5. Pipe = <<>>
  BY <1>2, <1>3 DEF Pipe
<1>6. /\ NewParser.began = FALSE /\ NewParser.ended = FALSE
      /\ NewParser.active = NoTest /\ NewParser.completed = {}
  BY DEF NewParser
<1>7. /\ \A kind, test : ~Logged(kind, test)
      /\ \A kind : ~LoggedKind(kind)
  BY <1>2 DEF Logged, LoggedKind
<1>8. Relaying
  BY <1>2, <1>3, <1>4 DEF Relaying, Relay!TypeOK
<1>9. Truth
  BY <1>5, <1>7, AmongNone DEF Truth, RecordsAreTrue
<1>10. Ends
  BY <1>2, <1>3, <1>4, <1>6, <1>7, AmongNone DEF Ends
<1>11. Fresh
  BY <1>5, AmongNone DEF Fresh
<1>12. Conserved
  BY <1>2, <1>3, <1>4 DEF Conserved
<1>13. Continues
  BY <1>2, <1>3, <1>5, <1>6 DEF Continues, Chained, EndOf, Phase, Here
<1>14. Watched
  BY <1>2, <1>6, ProtocolAssumption DEF Watched, ProtocolAssumption
<1> QED
  BY <1>1, <1>2, <1>4, <1>8, <1>9, <1>10, <1>11, <1>12, <1>13, <1>14
  DEF BootInv, PipeInv, RunnerIsUnderstood, PanicSeen

\* For the state a launch leads to.
LEMMA BootingInductiveNext == IInv' /\ Booting' => BootInv'
  BY BootingInductive, PTL

LEMMA BootInductiveInit == BootInit => BootInv
<1> SUFFICES ASSUME BootInit PROVE BootInv
  OBVIOUS
<1>1. IInv
  BY InitInductive DEF BootInit
<1>2. Booting
  BY VerdictTyped, SameProtocol DEF BootInit, Init, Runner!Init, Relay!Init, Booting
<1> QED
  BY <1>1, <1>2, BootingInductive

\* Only a launch waits for the container to be registered.
LEMMA OnlyLaunches ==
  ASSUME Host, pc' = "register"
  PROVE  Launch
  BY DEF Host, SpawnFails, Registration, ObserveCancel, DeadlineExpires, WatchdogFires, Poll,
         InfraFailure, Ignored, Rejected, RecordLost, Recorded, Concluding, HandshakeErrorRead,
         ReadFails, Quiet, Disconnected, Finish, StopContainer, KillChild, Return, Receive,
         Abort, Terminating

LEMMA Relaunched ==
  ASSUME BootInv, HostStep, pc' = "register"
  PROVE  Booting'
<1>1. Launch /\ Rebooted
  BY OnlyLaunches DEF HostStep
<1>2. verdict'.kind = "none" /\ channel' = <<>>
  BY <1>1, VerdictTyped DEF Launch, BootInv, IInv, Control
<1>3. capable' \in [baseline : BOOLEAN, tests : SUBSET Tests]
  BY <1>1 DEF Rebooted, BootInv, Guest, Runner!TypeOK
<1> QED
  BY <1>1, <1>2, <1>3 DEF Launch, Rebooted, Booting

LEMMA BootInductive ==
  ASSUME BootInv, [BootNext]_bootVars
  PROVE  BootInv'
<1>1. IInv /\ TypeOK /\ Control /\ Guest /\ Relaying /\ Relay!TypeOK
  BY DEF BootInv, IInv, Relaying
<1>2. IInv'
  BY <1>1, BootSteps, InductiveStep
<1>3. CASE HostSide
  BY <1>2, <1>3, HostKeeps DEF BootInv
<1>6. CASE HostStep /\ pc' = "register"
  BY <1>2, <1>6, Relaunched, BootingInductiveNext
<1>4. CASE GuestStep
  <2>1. Runner!Next /\ UNCHANGED termination
    BY <1>4 DEF GuestStep, vars
  <2>2. Guest'
    BY <1>1, <2>1, GuestKept
  <2>3. Relaying'
    BY <1>1, <1>4, GuestRelaying
  <2> QED
    BY <1>2, <1>4, <2>2, <2>3, GuestKeeps DEF BootInv
<1>5. CASE RelayStep
  <2>1. Guest'
    BY <1>1, <1>5, RelayGuest
  <2>2. Relaying'
    BY <1>1, <1>5, RelayRelaying
  <2> QED
    BY <1>2, <1>5, <2>1, <2>2, RelayKeeps DEF BootInv
<1> QED
  BY <1>3, <1>4, <1>5, <1>6 DEF BootNext, HostSide

LEMMA BootInductiveCorrect == BootSpec => []BootInv
<1>1. BootInit => BootInv
  BY BootInductiveInit
<1>2. BootInv /\ [BootNext]_bootVars => BootInv'
  BY BootInductive
<1> QED
  BY <1>1, <1>2, PTL DEF BootSpec

-----------------------------------------------------------------------------
(* What a boot promises.                                                   *)

\* Whatever the guest, the relay, Podman and the user do, and in whatever
\* order: no counter, state or line of the three parts leaves its type.
THEOREM BootTypeOKCorrect == BootSpec => []BootTypeOK
<1>1. BootInv => BootTypeOK
  BY DEF BootInv, IInv, Guest, Relaying, BootTypeOK
<1> QED
  BY <1>1, BootInductiveCorrect, PTL

\* Parser::parse_line and record_line log no verdict run_suite did not reach,
\* but for the FAIL with which supervise completes a test at its deadline.
THEOREM RecordsAreTrueCorrect == BootSpec => []RecordsAreTrue
<1>1. BootInv => RecordsAreTrue
  BY DEF BootInv, PipeInv, Truth
<1> QED
  BY <1>1, BootInductiveCorrect, PTL

\* The strict parser has a place for everything run_suite writes but the SKIP
\* of a test the model does not support: an ordinary boot is otherwise only
\* malformed after a crash of its model or an expired deadline.
THEOREM RunnerIsUnderstoodCorrect == BootSpec => []RunnerIsUnderstood
<1>1. BootInv => RunnerIsUnderstood
  BY DEF BootInv
<1> QED
  BY <1>1, BootInductiveCorrect, PTL

\* The HARNESS_FAILURE that run_fvp makes of a firmware panic is what the
\* boot ends with, unless something the host saw earlier ended it.
THEOREM PanicIsReportedCorrect == BootSpec => []PanicIsReported
<1>1. BootInv => PanicIsReported
  BY DEF BootInv, IInv, Control, PanicSeen, PanicIsReported
<1> QED
  BY <1>1, BootInductiveCorrect, PTL

LEMMA PassFollows ==
  ASSUME BootInv, Passed
  PROVE  /\ \E test \in Tests : judged[test] = "PASS"
         /\ \A test \in Tests : judged[test] # "FAIL"
         /\ IF termination = NoTest THEN sawEnd
            ELSE step = "spinning" /\ judged[termination] = "PASS"
<1>1. IInv /\ Guest /\ RecordsAreTrue /\ Conserved
  BY DEF BootInv, PipeInv, Truth
<1>2. /\ verdict.kind = "completed"
      /\ verdict.counts["FAIL"] \in Nat /\ verdict.counts["PASS"] \in Nat
      /\ ~(verdict.counts["FAIL"] > 0) /\ verdict.counts["PASS"] > 0
  <2>1. Classes!Classify(verdict).outcome = "passed" /\ verdict \in Verdicts
    BY <1>1 DEF Passed, Reported, IInv, TypeOK
  <2>2. verdict.kind = "completed"
    BY <2>1 DEF Classes!Classify, Classes!Class, Verdicts, FailureKinds
  <2>3. Classes!ByCounts(verdict.counts).outcome = "passed"
    BY <2>1, <2>2 DEF Classes!Classify
  <2>4. ~(verdict.counts["FAIL"] > 0) /\ verdict.counts["PASS"] > 0
    BY <2>3 DEF Classes!ByCounts, Classes!Class
  <2>5. verdict.counts["FAIL"] \in Nat /\ verdict.counts["PASS"] \in Nat
    BY <2>1, ProtocolAssumption DEF Verdicts, Counts, Completions, ProtocolAssumption
  <2> QED
    BY <2>2, <2>4, <2>5
<1>3. /\ verdict.counts["FAIL"] = Cardinality({test \in Tests : Logged("FAIL", test)})
      /\ verdict.counts["PASS"] = Cardinality({test \in Tests : Logged("PASS", test)})
  BY <1>1, <1>2, CountsFollow DEF CountsMatchLog, Completions
<1>4. PICK passed \in Tests : Logged("PASS", passed)
  <2>1. {test \in Tests : Logged("PASS", test)} # {}
    BY <1>2, <1>3, FS_EmptySet
  <2> QED
    BY <2>1
<1>5. \A test \in Tests : ~Logged("FAIL", test)
  <2>1. IsFiniteSet({test \in Tests : Logged("FAIL", test)})
    BY OfKindFinite DEF OfKind
  <2>2. Cardinality({test \in Tests : Logged("FAIL", test)}) = 0
    BY <1>2, <1>3
  <2>3. {test \in Tests : Logged("FAIL", test)} = {}
    BY <2>1, <2>2, FS_EmptySet
  <2> QED
    BY <2>3
<1>6. judged[passed] = "PASS"
  BY <1>1, <1>4 DEF RecordsAreTrue, Completions
<1>7. CASE termination = NoTest
  <2>1. sawEnd /\ \A test \in Tests : judged[test] # "none" => Logged(judged[test], test)
    BY <1>1, <1>2, <1>7 DEF Conserved
  <2>2. \A test \in Tests : judged[test] # "FAIL"
    BY <1>5, <2>1
  <2> QED
    BY <1>6, <1>7, <2>1, <2>2
<1>8. CASE termination # NoTest
  <2>1. passed = termination /\ \A test \in Tests : judged[test] # "none" => test = termination
    BY <1>1, <1>6, <1>8, OnlyNamed
  <2>2. termination \in Destructive
    BY <1>1, <1>8 DEF IInv, TypeOK
  <2>3. step = "spinning"
    BY <1>1, <1>6, <2>1, <2>2 DEF Guest
  <2> QED
    BY <1>6, <1>8, <2>1, <2>3
<1> QED
  BY <1>7, <1>8

\* run_target only reports a boot as passed when the guest passed a test,
\* failed none, and reached END, or the fatal exception of its destructive
\* test: for every catalog, every pipe and every order of events.
THEOREM PassIsTrueCorrect == BootSpec => []PassIsTrue
<1>1. BootInv => PassIsTrue
  BY PassFollows DEF PassIsTrue
<1> QED
  BY <1>1, BootInductiveCorrect, PTL

-----------------------------------------------------------------------------
(* The supervisor's promises hold of a boot.                               *)

\* Whatever the real relay prints, the supervisor sees a container it was
\* made for: every step of a boot is one of run_with_limits or of what it
\* must expect of Podman, whatever the guest does.
THEOREM BootIsSupervised == BootSpec => Init /\ [][SupervisorStep]_vars
<1>1. BootInv /\ [BootNext]_bootVars => [SupervisorStep]_vars
  BY BootSteps DEF BootInv, IInv, Relaying
<1>2. BootInit => Init
  BY DEF BootInit
<1> QED
  BY <1>1, <1>2, BootInductiveCorrect, PTL DEF BootSpec

\* What holds of supervise, finish and terminate for any container holds when
\* run.py and run_suite are in it, and of each retry by run_target.
THEOREM SupervisionCarries ==
  BootSpec =>
    /\ [](/\ CompletionIsEarned /\ CountsMatchLog /\ WatchdogBlamesRunningTest
         /\ DestructiveCompletion /\ PermitIsReturned /\ UnsupportedHidesNothing)
    /\ RetryDiscardsNoVerdict
<1>1. BootInv => /\ CompletionIsEarned /\ CountsMatchLog /\ WatchdogBlamesRunningTest
                 /\ DestructiveCompletion /\ PermitIsReturned /\ UnsupportedHidesNothing
  BY CompletionFollows, CountsFollow, WatchdogFollows, DestructiveFollows, PermitFollows,
     UnsupportedFollows DEF BootInv
<1>2. BootInv /\ [BootNext]_bootVars => [SupervisorStep]_vars
  BY BootSteps DEF BootInv, IInv, Relaying
<1>3. BootInv /\ [BootNext]_bootVars =>
        [attempt' # attempt /\ attempt > 0 =>
            /\ termination = NoTest
            /\ \/ recorded = {} /\ status \notin {20, 22}
               \/ /\ LoggedKind("END") /\ status \notin {0, 20}
                  /\ \A test \in Tests : Standing(test) # "running"]_vars
  BY <1>2, RetryStep DEF BootInv
<1> QED
  BY <1>1, <1>3, BootInductiveCorrect, PTL DEF BootSpec, RetryDiscardsNoVerdict

\* The log that record_line writes of a boot is a suite's ledger.
THEOREM BootLedgerCorrect == BootSpec => LedgerSpec
<1>1. BootInit => Ledger!Init
  BY LedgerInit DEF BootInit
<1>2. BootInv /\ BootInv' /\ [BootNext]_bootVars => [Ledger!Next]_(Ledger!ledger)
  BY BootSteps, LedgerStep DEF BootInv, IInv, Relaying
<1> QED
  BY <1>1, <1>2, BootInductiveCorrect, PTL DEF BootSpec, LedgerSpec, Ledger!Spec
=============================================================================
