---------------------------- MODULE SmmuOutline ----------------------------
(***************************************************************************)
(* The sequential run of a live SMMU test on a conforming SMMU: a sheet    *)
(* for each place of its script that is reached where nothing is late,     *)
(* with what is then known of lines, registers and locals.  The sheets     *)
(* follow from one another; a copy ends where the test has waited for it.  *)
(***************************************************************************)
EXTENDS SmmuDiscipline

CONSTANT Sheets     \* for each test, the sheets of the places it reaches

\* The one test that tells what the SMMU remembers; the others must not depend on it.
Remembers(n) == n[2] = "TlbInvalidate"
Held(n, leaves) == IF Remembers(n) THEN {leaves} ELSE SUBSET leaves

\* A line is "written" (to memory sooner or later), "settled" (whatever the
\* caches hold of it is in memory) or "foreign" (written past the caches).
NoCopy == [to |-> "destination", sid |-> 0, read |-> Refused("none"),
           write |-> Refused("none"), data |-> "zero"]
FirstSheet ==
    [mode |-> [l \in Lines |-> "settled"], value |-> [l \in Lines |-> "zero"],
     tlb |-> {}, size |-> 0, fault |-> "none", fresh |-> TRUE,
     copy |-> NoCopy, started |-> FALSE, working |-> FALSE, recorded |-> "none",
     completed |-> FALSE, actual |-> "zero", good |-> TRUE]

IsSheet(x) ==
    /\ x = [mode |-> x.mode, value |-> x.value, tlb |-> x.tlb, size |-> x.size,
            fault |-> x.fault, fresh |-> x.fresh, copy |-> x.copy, started |-> x.started,
            working |-> x.working, recorded |-> x.recorded, completed |-> x.completed,
            actual |-> x.actual, good |-> x.good]
    /\ x.mode = [l \in Lines |-> x.mode[l]] /\ x.value = [l \in Lines |-> x.value[l]]
    /\ \A l \in Lines : x.mode[l] \in {"written", "settled", "foreign"}
    /\ x.recorded \in {"none", "due", "seen"}
    /\ x.working \/ x.recorded # "none" => x.started
    /\ x.recorded # "none" => x.mode["events"] # "written"

\* How a copy ends.
Reaches(copy) == copy.read.status = "ok" /\ copy.write.status = "ok"
Status(copy) == IF copy.read.status # "ok" THEN copy.read.status ELSE copy.write.status

\* The copy that starts where a sheet holds.
CopyFrom(n, x, s) ==
    LET read == Answer("nothing", n, x.value["tables"], x.tlb, "source", "read")
        write == Answer("nothing", n, x.value["tables"], x.tlb \cup read.leaf, s.to, "write")
    IN  IF read.status # "ok"
        THEN [NoCopy EXCEPT !.to = s.to, !.sid = s.sid, !.read = read]
        ELSE [to |-> s.to, sid |-> s.sid, read |-> read, write |-> write,
              data |-> x.value[read.page]]

\* While a copy is under way, the agent gets the answers of the sheet whatever the SMMU
\* has forgotten, and nothing else touches what it reads and writes.
CopyFits(n, x) ==
    LET c == x.copy
    IN  /\ x.working /\ x.recorded = "none"
        /\ x.mode["tables"] # "written"
        /\ n[1] = "v3" => /\ x.mode["stream"] # "written" /\ x.value["stream"] = "entry"
                          /\ c.sid <= x.size /\ c.sid \in SidsOf(n)
                          /\ ~Reaches(c) => x.mode["events"] = "foreign"
        /\ \A held \in Held(n, x.tlb) :
              Answer("nothing", n, x.value["tables"], held, "source", "read") = c.read
        /\ IF c.read.status = "ok"
           THEN /\ c.read.page \in Lines \ {"events"}
                /\ x.mode[c.read.page] # "written" /\ x.value[c.read.page] = c.data
                /\ \A held \in Held(n, x.tlb \cup c.read.leaf) :
                      Answer("nothing", n, x.value["tables"], held, c.to, "write") = c.write
           ELSE c.read.leaf = {} /\ c.write.leaf = {}
        /\ IF c.write.status = "ok"
           THEN c.write.page \in {"destination", "alternate"}
                /\ x.mode[c.write.page] = "foreign"
           ELSE c.write.leaf = {}

\* The sheet after a wait for the copy.
Copied(n, x) ==
    LET c == x.copy
    IN  [x EXCEPT !.working = FALSE,
                  !.value = IF Reaches(c) THEN [@ EXCEPT ![c.write.page] = c.data] ELSE @,
                  !.tlb = @ \cup c.read.leaf \cup c.write.leaf,
                  !.fault = IF Reaches(c) THEN @ ELSE Status(c),
                  !.recorded = IF Reaches(c) \/ n[1] = "v2" THEN @ ELSE "due"]

Started(n, x, s) ==
    LET c == CopyFrom(n, x, s)
    IN  [x EXCEPT !.copy = c, !.started = TRUE, !.working = TRUE,
                  !.mode = IF Reaches(c) THEN [@ EXCEPT ![c.write.page] = "foreign"]
                           ELSE IF n[1] = "v3" THEN [@ EXCEPT !["events"] = "foreign"]
                           ELSE @]

\* After a poll for what the copy writes and nothing else the caches have that, or nothing.
Only(copy) == [l \in {copy.write.page} |-> {copy.data}]

Registering == {"context", "client", "restore", "size", "control"}

\* What a step needs of the sheet before it.
Known(x, lines) == \A l \in lines : x.mode[l] # "foreign"
Fits(n, x, s) ==
    IF s.do \in {"poll", "engine"}
    THEN /\ CopyFits(n, x)
         /\ IF s.do = "engine" THEN Reaches(x.copy) => s.event = "none"
            ELSE LET then == Copied(n, x).value
                 IN  /\ \A l \in DOMAIN s.wanted :
                            l \in Lines \ {"events"} /\ x.mode[l] # "written"
                     /\ IF Reaches(x.copy)
                        THEN \E l \in DOMAIN s.wanted : then[l] \in s.wanted[l]
                        ELSE \A l \in DOMAIN s.wanted :
                                x.mode[l] = "settled" /\ then[l] \notin s.wanted[l]
    ELSE /\ ~x.working
         /\ s.do = "baseline" =>
               x.fresh /\ ~x.started /\ Known(x, Lines) /\ \A l \in Lines : x.value[l] = "zero"
         /\ s.do = "store" => s.line \in Lines /\ (s.line = "events" => ~x.started)
         /\ s.do = "clean" => s.line \in Lines /\ x.mode[s.line] # "foreign"
         /\ s.do = "drop" => /\ s.line \in Lines /\ x.mode[s.line] # "written"
                             /\ s.line = "events" => x.recorded # "due"
         /\ s.do = "start" =>
               LET c == CopyFrom(n, x, s)
               IN  /\ x.started => Remembers(n)
                   /\ x.recorded = "none"
                   /\ n[1] = "v2" => x.mode["program"] # "written" /\ x.value["program"] = "copy"
                   /\ x.mode["events"] # "written"
                   /\ Reaches(c) => x.mode[c.write.page] # "written"
         /\ s.do \in Registering => x.recorded = "none"
         /\ s.do = "observe" => x.recorded = "none" /\ Known(x, {"destination"})
         /\ s.do = "expect" => /\ x.recorded = "none" /\ Known(x, DOMAIN s.holds)
                               /\ DOMAIN s.holds \subseteq Lines \ {"events"}
         /\ s.do = "judge" => x.recorded = "none"
         /\ s.do = "producer" => x.recorded = "due"
         \* The three that end a test find what they look for.
         /\ s.do = "conclude" => x.recorded = "none" /\ x.good
         /\ s.do = "event" =>
               /\ x.recorded = "seen" /\ x.completed /\ x.fault = s.event /\ s.event # "none"
               /\ Known(x, {"destination", "events"}) /\ x.value["destination"] = "zero"
         /\ s.do = "copied" =>
               Known(x, {"source", "destination"}) /\ x.value["source"] = x.value["destination"]

\* Where the test is after a step, and with which sheet.
Onto(p, x, s) ==
    CASE s.do = "observe" -> IF x.completed THEN p + 1 ELSE p + 1 + s.over
      [] s.do = "engine" -> IF Reaches(x.copy) THEN p + 1 + s.events ELSE p + 1
      [] OTHER -> p + 1
After(n, x, s) ==
    CASE s.do = "store" -> [x EXCEPT !.mode = [@ EXCEPT ![s.line] = "written"],
                                      !.value = [@ EXCEPT ![s.line] = s.value]]
      [] s.do \in {"clean", "drop"} -> [x EXCEPT !.mode = [@ EXCEPT ![s.line] = "settled"]]
      [] s.do \in Registering ->
            [x EXCEPT !.fresh = FALSE,
                      !.fault = IF s.do \in {"context", "restore"} THEN "none" ELSE @,
                      !.size = IF s.do = "size" THEN s.size ELSE @]
      [] s.do = "initialise" -> [x EXCEPT !.tlb = {}]
      [] s.do = "invalidate" -> [x EXCEPT !.tlb = {l \in @ : l.at # s.at}]
      [] s.do = "start" -> Started(n, x, s)
      [] s.do = "poll" ->
            [Copied(n, x) EXCEPT !.completed = Reaches(x.copy),
                                 !.mode = IF Reaches(x.copy) /\ s.wanted = Only(x.copy)
                                          THEN [@ EXCEPT ![x.copy.write.page] = "settled"]
                                          ELSE @]
      [] s.do = "engine" -> [Copied(n, x) EXCEPT !.completed = IF Reaches(x.copy) THEN @ ELSE TRUE]
      [] s.do = "producer" -> [x EXCEPT !.recorded = "seen"]
      [] s.do = "observe" ->
            [x EXCEPT !.actual = x.value["destination"], !.good = x.completed]
      [] s.do = "expect" ->
            [x EXCEPT !.good = @ /\ \A l \in DOMAIN s.holds : x.value[l] = s.holds[l]]
      [] s.do = "judge" ->
            [x EXCEPT !.good = IF s.fault THEN ~@ /\ x.fault # "none" /\ x.actual = "zero"
                               ELSE @ /\ x.fault = "none" /\ x.actual = "a"]
      [] OTHER -> x

Ending == {"conclude", "event", "copied"}
IsSheets(n) ==
    /\ 1 \in DOMAIN Sheets[n] /\ Sheets[n][1] = FirstSheet
    /\ DOMAIN Sheets[n] \subseteq 1..Len(Body(n))
    /\ \A p \in DOMAIN Sheets[n] :
          LET x == Sheets[n][p]
              s == Body(n)[p]
          IN  /\ IsSheet(x) /\ Fits(n, x, s)
              /\ s.do \notin Ending =>
                    /\ Onto(p, x, s) \in DOMAIN Sheets[n]
                    /\ Sheets[n][Onto(p, x, s)] = After(n, x, s)

ASSUME SheetsAssumption == \A n \in Names : IsSheets(n)
=============================================================================
