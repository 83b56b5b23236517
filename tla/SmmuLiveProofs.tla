--------------------------- MODULE SmmuLiveProofs ---------------------------
(***************************************************************************)
(* Two theorems about the live SMMU tests, however late the caches write   *)
(* back and the SMMU acknowledges, translates, forgets and reports.  The   *)
(* agent never works past the SMMU, for any scripts that keep to           *)
(* SmmuDiscipline; and on a conforming SMMU a test whose sequential run    *)
(* passes (SmmuOutline) passes.                                            *)
(***************************************************************************)
EXTENDS SmmuOutline, TLAPS

Pages == {"source", "destination", "alternate"}
Buffers == Lines \ {"events"}
OnTime == "late" \notin chance
Busy == agent.state \in {"reading", "writing"}

IsLine(r) ==
    r = Copy(r.state, r.value) /\ r.state \in {"absent", "clean", "dirty"}

IsTest(t) ==
    t = [name |-> t.name, pc |-> t.pc, completed |-> t.completed, actual |-> t.actual,
         good |-> t.good]

Types ==
    /\ memory = [l \in Lines |-> memory[l]]
    /\ cache = [l \in Lines |-> cache[l]]
    /\ \A l \in Lines : IsLine(cache[l])
    /\ smmu = [asked |-> smmu.asked, acked |-> smmu.acked, context |-> smmu.context,
               size |-> smmu.size, fault |-> smmu.fault, pending |-> smmu.pending,
               producer |-> smmu.producer, silent |-> smmu.silent, defect |-> smmu.defect]
    /\ agent = [state |-> agent.state, to |-> agent.to, sid |-> agent.sid,
                data |-> agent.data]
    /\ agent.state \in {"idle", "reading", "writing", "ending", "aborted"}
    /\ IsTest(test)
    /\ test.name \in Names /\ test.pc \in Nat \ {0}

\* Every table there is, or may come to memory, leads to one of the test's pages.
Tidy ==
    /\ memory["tables"] \in TableValues /\ cache["tables"].value \in TableValues
    /\ \A l \in tlb : l.page \in Pages

\* The registers at a place from which a copy may still start.
Registers ==
    StartsFrom(test.name, test.pc) =>
        /\ Asked(test.name, test.pc) => "on" \in smmu.asked
        /\ Enabled(test.name, test.pc) => "on" \in smmu.acked
        /\ Configured(test.name, test.pc) => smmu.context = TRUE

\* A line holds a value: the cache does, and memory does or will.
Holds(line, value) ==
    /\ ~Dirty(line) => memory[line] = value
    /\ cache[line].state # "absent" => cache[line].value = value

\* The lines at such a place.
Contents ==
    StartsFrom(test.name, test.pc) =>
        \A l \in Buffers, i \in 1..(test.pc - 1) :
            /\ Written(test.name, i, test.pc, l) => Holds(l, Body(test.name)[i].value)
            /\ Cleaned(test.name, i, test.pc, l) => memory[l] = Body(test.name)[i].value

\* The SMMU translates what the agent does.
Guarded ==
    /\ "on" \in smmu.asked /\ "on" \in smmu.acked
    /\ test.name[1] = "v2" => smmu.context = TRUE /\ agent.sid \in SidsOf(test.name)

\* What the test waits for has not come.
Awaited(step) ==
    /\ step.do \in {"poll", "engine"}
    /\ step.do = "poll" =>
          \A l \in DOMAIN step.wanted :
              /\ l \in Buffers
              /\ memory[l] \notin step.wanted[l]
              /\ cache[l].state # "absent" => cache[l].value \notin step.wanted[l]

\* While the agent works the test waits for it, on a step that leaves the registers alone.
AtWork ==
    Busy =>
        /\ test.pc \in 2..Len(Body(test.name))
        /\ Body(test.name)[test.pc - 1].do = "start"
        /\ Guarded
        /\ Awaited(Body(test.name)[test.pc])

Contained == Types /\ Tidy /\ Registers /\ Contents /\ AtWork /\ "stray" \notin chance
Inv == OnTime => Contained

-----------------------------------------------------------------------------
(* The scripts.                                                            *)

LEMMA Disciplined ==
    ASSUME NEW n \in Names
    PROVE  IsDisciplined(n)
  BY DisciplineAssumption

\* What one more step adds to what the script has done, and takes away.
LEMMA OneMoreRange ==
    ASSUME NEW p \in Nat \ {0}
    PROVE  /\ 1..((p + 1) - 1) = 1..(p - 1) \cup {p}
           /\ \A i \in 1..(p - 1) : (i + 1)..((p + 1) - 1) = (i + 1)..(p - 1) \cup {p}
           /\ (p + 1)..((p + 1) - 1) = {}
  OBVIOUS

LEMMA OneMoreRequest ==
    ASSUME NEW n, NEW p \in Nat \ {0}, NEW i, Requests(n, i, p + 1)
    PROVE  \/ i = p /\ Body(n)[p].do \in Enabling /\ "on" \in Body(n)[p].on
           \/ Requests(n, i, p) /\ Body(n)[p].do \notin Switching
  BY OneMoreRange DEF Requests, NoneBetween

LEMMA OneMoreAsked ==
    ASSUME NEW n, NEW p \in Nat \ {0}, Asked(n, p + 1)
    PROVE  \/ Body(n)[p].do \in Enabling /\ "on" \in Body(n)[p].on
           \/ Asked(n, p) /\ Body(n)[p].do \notin Switching
  <1>1. PICK i \in 1..((p + 1) - 1) : Requests(n, i, p + 1)
    BY DEF Asked
  <1> QED
    BY <1>1, OneMoreRequest DEF Asked, Requests

LEMMA OneMoreEnabled ==
    ASSUME NEW n, NEW p \in Nat \ {0}, Enabled(n, p + 1)
    PROVE  \/ Body(n)[p].do = "client" /\ "on" \in Body(n)[p].on
           \/ Body(n)[p].do = "acknowledged" /\ Asked(n, p)
           \/ Enabled(n, p) /\ Body(n)[p].do \notin Switching
  <1>1. PICK i \in 1..((p + 1) - 1) :
            /\ Requests(n, i, p + 1)
            /\ \/ Body(n)[i].do = "client"
               \/ \E k \in (i + 1)..((p + 1) - 1) : Body(n)[k].do = "acknowledged"
    BY DEF Enabled
  <1>2. CASE i = p
    <2>1. Body(n)[p].do \in Enabling /\ "on" \in Body(n)[p].on
      BY <1>1, <1>2 DEF Requests
    <2> QED
      BY <1>1, <1>2, <2>1, OneMoreRange
  <1>3. CASE i # p
    <2>1. Requests(n, i, p) /\ Body(n)[p].do \notin Switching
      BY <1>1, <1>3, OneMoreRequest
    <2>2. i \in 1..(p - 1)
      BY <2>1 DEF Requests
    <2>3. CASE Body(n)[i].do = "client"
      BY <2>1, <2>2, <2>3 DEF Enabled
    <2>4. CASE \E k \in (i + 1)..((p + 1) - 1) : Body(n)[k].do = "acknowledged"
      <3>1. PICK k \in (i + 1)..(p - 1) \cup {p} : Body(n)[k].do = "acknowledged"
        BY <2>2, <2>4, OneMoreRange
      <3> QED
        BY <2>1, <2>2, <3>1 DEF Enabled, Asked
    <2> QED
      BY <1>1, <2>3, <2>4
  <1> QED
    BY <1>2, <1>3

LEMMA OneMoreConfigured ==
    ASSUME NEW n, NEW p \in Nat \ {0}, Configured(n, p + 1)
    PROVE  \/ Body(n)[p].do = "context"
           \/ Configured(n, p) /\ Body(n)[p].do # "restore"
  BY OneMoreRange DEF Configured, NoneBetween

LEMMA OneMoreWritten ==
    ASSUME NEW n, NEW p \in Nat \ {0}, NEW i, NEW l, Written(n, i, p + 1, l)
    PROVE  \/ i = p /\ Body(n)[p].do = "store" /\ Body(n)[p].line = l
           \/ /\ i \in 1..(p - 1)
              /\ Written(n, i, p, l)
              /\ Body(n)[p].do \notin Unsettling
              /\ Body(n)[p].do = "store" => Body(n)[p].line # l
  BY OneMoreRange DEF Written, NoneBetween

LEMMA OneMoreCleaned ==
    ASSUME NEW n, NEW p \in Nat \ {0}, NEW i, NEW l, Cleaned(n, i, p + 1, l)
    PROVE  /\ i \in 1..(p - 1)
           /\ Written(n, i, p, l)
           /\ Body(n)[p].do \notin Unsettling
           /\ Body(n)[p].do = "store" => Body(n)[p].line # l
           /\ \/ Body(n)[p].do = "clean" /\ Body(n)[p].line = l
              \/ Cleaned(n, i, p, l)
  <1>1. /\ Written(n, i, p + 1, l)
        /\ \E k \in (i + 1)..((p + 1) - 1) : Body(n)[k].do = "clean" /\ Body(n)[k].line = l
    BY DEF Cleaned
  <1>2. i # p
    BY <1>1, OneMoreRange
  <1>3. /\ i \in 1..(p - 1)
        /\ Written(n, i, p, l)
        /\ Body(n)[p].do \notin Unsettling
        /\ Body(n)[p].do = "store" => Body(n)[p].line # l
    BY <1>1, <1>2, OneMoreWritten
  <1>4. PICK k \in (i + 1)..(p - 1) \cup {p} : Body(n)[k].do = "clean" /\ Body(n)[k].line = l
    BY <1>1, <1>3, OneMoreRange
  <1> QED
    BY <1>3, <1>4 DEF Cleaned

LEMMA OneMoreStarts ==
    ASSUME NEW n \in Names, NEW p \in Nat \ {0}, StartsFrom(n, p + 1)
    PROVE  StartsFrom(n, p)
  <1>1. Len(Body(n)) \in Nat
    BY Disciplined DEF IsDisciplined
  <1> QED
    BY <1>1 DEF StartsFrom

\* Nothing is known to be written once a copy has started.
LEMMA StartUnsettles ==
    ASSUME NEW n, NEW p \in Nat \ {0}, NEW i, NEW l,
           p > 1, Body(n)[p - 1].do = "start"
    PROVE  ~Written(n, i, p, l) /\ ~Cleaned(n, i, p, l)
  <1>1. ~Written(n, i, p, l)
    <2> SUFFICES ASSUME Written(n, i, p, l) PROVE FALSE
      OBVIOUS
    <2>1. i = p - 1 \/ p - 1 \in (i + 1)..(p - 1)
      BY DEF Written
    <2> QED
      BY <2>1 DEF Written, NoneBetween, Unsettling
  <1> QED
    BY <1>1 DEF Cleaned

-----------------------------------------------------------------------------
(* What the SMMU makes of an access.                                       *)

LEMMA TablesLead ==
    ASSUME NEW n \in Names, NEW written \in TableValues
    PROVE  \A l \in TablesOf(n, written).leaves : l.page \in Pages
  <1>1. CASE written = "zero"
    BY <1>1 DEF TablesOf, NoTables
  <1>2. CASE written # "zero" /\ n[1] = "v2"
    <2>1. TablesOf(n, written).leaves \subseteq
              {V2Leaf(n[2], "source", "source"), V2Leaf(n[2], "destination", written)}
      BY <1>2 DEF TablesOf, V2Tables
    <2>2. \A at, page : V2Leaf(n[2], at, page).page = page
      BY DEF V2Leaf, Leaf
    <2> QED
      BY <1>2, <2>1, <2>2 DEF Pages, TableValues
  <1>3. CASE written # "zero" /\ n[1] # "v2"
    <2> DEFINE c == V3Cases[n[2]]
    <2> HIDE DEF c
    <2>1. TablesOf(n, written) = V3Tables(c)
      BY <1>3 DEF TablesOf, c
    <2>2. \A l \in V3Tables(c).leaves : l.page \in Pages
      BY DEF V3Tables, Leaf, Pages
    <2> QED
      BY <2>1, <2>2
  <1> QED
    BY <1>1, <1>2, <1>3

LEMMA WalkLeads ==
    ASSUME NEW n \in Names, NEW written \in TableValues, NEW defect, NEW at
    PROVE  \A l \in Walk(defect, n, written, at) : l.page \in Pages
  BY TablesLead DEF Walk

LEMMA AllowedLeads ==
    ASSUME NEW leaf, NEW kind, NEW defect, leaf.page \in Pages
    PROVE  LET x == Allowed(defect, leaf, kind)
           IN  /\ \A l \in x.leaf : l.page \in Pages
               /\ x.status = "ok" => x.page \in Pages
               /\ x.page # "elsewhere"
  BY DEF Allowed, Refused, Pages

LEMMA AnswerLeads ==
    ASSUME NEW n \in Names, NEW written \in TableValues, NEW defect, NEW at, NEW kind,
           NEW held, \A l \in held : l.page \in Pages
    PROVE  LET x == Answer(defect, n, written, held, at, kind)
           IN  /\ \A l \in x.leaf : l.page \in Pages
               /\ x.status = "ok" => x.page \in Pages \cup {"elsewhere"}
               /\ defect # "unmapped" => x.page # "elsewhere"
  <1> DEFINE kept == {l \in held : l.at = at}
             found == Walk(defect, n, written, at)
             x == Answer(defect, n, written, held, at, kind)
             old == CHOOSE l \in kept : TRUE
             new == CHOOSE l \in found : TRUE
  <1>1. kept # {} => old.page \in Pages
    OBVIOUS
  <1>2. found # {} => new.page \in Pages
    BY WalkLeads
  <1>3. \/ x = Raw /\ defect = "unmapped"
        \/ \E status \in {"AddressSize", "Translation", "AccessFlag"} : x = Refused(status)
        \/ kept # {} /\ x = Allowed(defect, old, kind)
        \/ found # {} /\ x = Allowed(defect, new, kind)
    <2> HIDE DEF kept, found
    <2> QED
      BY DEF Answer, kept, found
  <1> HIDE DEF kept, found, old, new, x
  <1>4. CASE x = Raw /\ defect = "unmapped"
    BY <1>4 DEF x, Raw
  <1>5. CASE \E status \in {"AddressSize", "Translation", "AccessFlag"} : x = Refused(status)
    BY <1>5 DEF Refused, x
  <1>6. CASE kept # {} /\ x = Allowed(defect, old, kind)
    BY <1>1, <1>6, AllowedLeads DEF x
  <1>7. CASE found # {} /\ x = Allowed(defect, new, kind)
    BY <1>2, <1>7, AllowedLeads DEF x
  <1> QED
    BY <1>3, <1>4, <1>5, <1>6, <1>7

LEMMA TranslateLeads ==
    ASSUME Types, Tidy, NEW at, NEW kind
    PROVE  LET x == Translate(at, kind)
           IN  /\ \A l \in x.leaf : l.page \in Pages
               /\ x.status = "ok" => x.page \in Pages \cup {"elsewhere"}
               /\ Guarded /\ smmu.defect = "nothing" => x.page # "elsewhere"
  <1> DEFINE x == Translate(at, kind)
             answer == Answer(smmu.defect, test.name, memory["tables"], tlb, at, kind)
  <1>1. test.name[1] = "v2" /\ Guarded /\ smmu.defect = "nothing" => StreamMatches
    BY DEF Guarded, StreamMatches
  <1>2. \/ x = Raw /\ ~(Guarded /\ smmu.defect = "nothing")
        \/ x = Refused("BadStream")
        \/ x = answer
    BY <1>1 DEF Translate, Guarded
  <1>3. /\ \A l \in answer.leaf : l.page \in Pages
        /\ answer.status = "ok" => answer.page \in Pages \cup {"elsewhere"}
        /\ smmu.defect # "unmapped" => answer.page # "elsewhere"
    <2>1. /\ test.name \in Names /\ memory["tables"] \in TableValues
          /\ \A l \in tlb : l.page \in Pages
      BY DEF Types, Tidy
    <2> QED
      BY ONLY <2>1, AnswerLeads
  <1> HIDE DEF answer, x
  <1>4. CASE x = Raw /\ ~(Guarded /\ smmu.defect = "nothing")
    BY <1>4 DEF Raw, x
  <1>5. CASE x = Refused("BadStream")
    BY <1>5 DEF Refused, x
  <1>6. CASE x = answer
    BY <1>3, <1>6 DEF x
  <1> QED
    BY <1>2, <1>4, <1>5, <1>6

-----------------------------------------------------------------------------
(* Caches, SMMU and agent.                                                 *)

LEMMA WriteBackKeeps ==
    ASSUME Contained, WriteBack
    PROVE  Contained'
  <1> USE DEF Contained
  <1>1. PICK l \in Lines :
            /\ Dirty(l)
            /\ memory' = [memory EXCEPT ![l] = cache[l].value]
            /\ cache' = [cache EXCEPT ![l] = Kept(l)]
            /\ UNCHANGED <<smmu, tlb, agent, test, verdict, chance>>
    BY DEF WriteBack
  <1>2. Kept(l) = Copy("clean", cache[l].value) /\ IsLine(Kept(l))
    BY <1>1 DEF Kept, IsLine, Copy
  <1>3. Types'
    BY <1>1, <1>2 DEF Types
  <1>4. /\ \A k \in Lines \ {l} : memory'[k] = memory[k] /\ cache'[k] = cache[k]
        /\ memory'[l] = cache[l].value
        /\ cache'[l].state = "clean" /\ cache'[l].value = cache[l].value
    BY <1>1, <1>2 DEF Types, Copy
  <1>5. Tidy'
    BY <1>1, <1>4 DEF Tidy, Lines
  <1>6. Registers'
    BY <1>1 DEF Registers
  <1>7. \A k \in Lines : \A v : Holds(k, v) => Holds(k, v)' /\ (memory[k] = v => memory'[k] = v)
    BY <1>1, <1>4 DEF Holds, Dirty
  <1>8. Contents'
    <2>1. \A k \in Buffers : \A i : Cleaned(test.name, i, test.pc, k) => Written(test.name, i, test.pc, k)
      BY DEF Cleaned
    <2> QED
      BY <1>1, <1>7, <2>1 DEF Contents, Buffers
  <1>9. AtWork'
    BY <1>1, <1>4 DEF AtWork, Busy, Guarded, Awaited, Buffers, Dirty
  <1> QED
    BY <1>1, <1>3, <1>5, <1>6, <1>8, <1>9

LEMMA RefillKeeps ==
    ASSUME Contained, Refill
    PROVE  Contained'
  <1> USE DEF Contained
  <1>1. PICK l \in {"destination", "alternate", "events"} :
            /\ ~Dirty(l)
            /\ cache' = [cache EXCEPT ![l] = Copy("clean", memory[l])]
            /\ UNCHANGED <<memory, smmu, tlb, agent, test, verdict, chance>>
    BY DEF Refill
  <1>2. l \in Lines /\ l # "tables"
    BY DEF Lines
  <1>3. /\ \A k \in Lines \ {l} : cache'[k] = cache[k]
        /\ cache'[l].state = "clean" /\ cache'[l].value = memory[l]
    BY <1>1, <1>2 DEF Types, Copy
  <1>4. Types'
    <2>1. IsLine(Copy("clean", memory[l]))
      BY DEF IsLine, Copy
    <2> QED
      BY <1>1, <1>2, <2>1 DEF Types
  <1>5. Tidy'
    BY <1>1, <1>2, <1>3 DEF Tidy, Lines
  <1>6. Registers'
    BY <1>1 DEF Registers
  <1>7. \A k \in Lines : \A v : Holds(k, v) => Holds(k, v)'
    BY <1>1, <1>3 DEF Holds, Dirty
  <1>8. Contents'
    BY <1>1, <1>7 DEF Contents, Buffers
  <1>9. AtWork'
    BY <1>1, <1>3 DEF AtWork, Busy, Guarded, Awaited, Buffers
  <1> QED
    BY <1>1, <1>4, <1>5, <1>6, <1>8, <1>9

LEMMA AcknowledgeKeeps ==
    ASSUME Contained, Acknowledge
    PROVE  Contained'
  <1> USE DEF Contained
  <1>1. Types' /\ smmu'.asked = smmu.asked /\ smmu'.acked = smmu.asked
        /\ smmu'.context = smmu.context
    BY DEF Acknowledge, Types
  <1>2. \A n, p : Enabled(n, p) => Asked(n, p)
    BY DEF Enabled, Asked
  <1>3. Registers'
    BY <1>1, <1>2 DEF Registers, Acknowledge
  <1>4. Tidy' /\ Contents'
    BY DEF Acknowledge, Tidy, Contents, Holds, Dirty
  <1>5. AtWork'
    BY <1>1 DEF Acknowledge, AtWork, Busy, Guarded, Awaited
  <1> QED
    BY <1>1, <1>3, <1>4, <1>5 DEF Acknowledge

LEMMA ForgetKeeps ==
    ASSUME Contained, Forget
    PROVE  Contained'
  BY DEF Contained, Forget, Types, Tidy, Registers, Contents, Holds, Dirty, AtWork,
         Busy, Guarded, Awaited

LEMMA AgentEndsKeeps ==
    ASSUME Contained, AgentEnds
    PROVE  Contained'
  <1>1. Types' /\ ~Busy'
    BY DEF Contained, AgentEnds, Types, Busy
  <1> QED
    BY <1>1 DEF Contained, AgentEnds, Tidy, Registers, Contents, Holds, Dirty, AtWork

LEMMA CommitEventKeeps ==
    ASSUME Contained, CommitEvent
    PROVE  Contained'
  <1> USE DEF Contained
  <1>1. /\ Types'
        /\ smmu'.asked = smmu.asked /\ smmu'.acked = smmu.acked
        /\ smmu'.context = smmu.context
        /\ \A l \in Buffers : memory'[l] = memory[l]
    BY DEF CommitEvent, Types, Buffers
  <1>2. "tables" \in Buffers
    BY DEF Buffers, Lines
  <1>3. Tidy' /\ Registers' /\ Contents'
    BY <1>1, <1>2 DEF CommitEvent, Tidy, Registers, Contents, Holds, Dirty
  <1>4. AtWork'
    BY <1>1 DEF CommitEvent, AtWork, Busy, Guarded, Awaited
  <1> QED
    BY <1>1, <1>3, <1>4 DEF CommitEvent

LEMMA TerminatedKeeps ==
    ASSUME Contained, NEW x, Terminated(x), UNCHANGED <<cache, test>>,
           "stray" \notin chance'
    PROVE  Contained'
  <1> USE DEF Contained
  <1>1. /\ Types'
        /\ smmu'.asked = smmu.asked /\ smmu'.acked = smmu.acked
        /\ smmu'.context = smmu.context
        /\ ~Busy'
    BY DEF Terminated, Types, Busy
  <1> QED
    BY <1>1 DEF Terminated, Tidy, Registers, Contents, Holds, Dirty, AtWork

LEMMA AtWorkUnsettled ==
    ASSUME Contained, Busy
    PROVE  \A i, l : ~Written(test.name, i, test.pc, l) /\ ~Cleaned(test.name, i, test.pc, l)
  <1>1. test.pc \in Nat \ {0} /\ test.pc > 1 /\ Body(test.name)[test.pc - 1].do = "start"
    BY Disciplined DEF Contained, AtWork, Types, IsDisciplined
  <1> QED
    BY <1>1, StartUnsettles

LEMMA AgentReadsKeeps ==
    ASSUME Contained, AgentReads
    PROVE  Contained'
  <1> USE DEF Contained
  <1> DEFINE x == Translate("source", "read")
  <1>1. Busy /\ Guarded
    BY DEF AgentReads, AtWork, Busy
  <1>2. /\ \A l \in x.leaf : l.page \in Pages
        /\ smmu.defect = "nothing" => x.page # "elsewhere"
    BY <1>1, TranslateLeads
  <1> HIDE DEF x
  <1>3. chance' = chance
    BY <1>2 DEF AgentReads, Strays, x
  <1>4. CASE x.status # "ok"
    BY <1>3, <1>4, TerminatedKeeps DEF AgentReads, x
  <1>5. CASE x.status = "ok"
    <2>1. /\ agent' = [agent EXCEPT !.state = "writing",
                         !.data = IF x.page = "elsewhere" THEN "junk" ELSE memory[x.page]]
          /\ tlb' = tlb \cup x.leaf
          /\ UNCHANGED <<memory, smmu, cache, test>>
      BY <1>5 DEF AgentReads, x
    <2>2. Types' /\ Busy' /\ agent'.sid = agent.sid
      BY <2>1 DEF Types, Busy
    <2>3. Tidy' /\ Registers' /\ Contents'
      BY <1>2, <2>1 DEF Tidy, Registers, Contents, Holds, Dirty
    <2>4. AtWork'
      BY <1>1, <2>1, <2>2 DEF AtWork, Guarded, Awaited
    <2> QED
      BY <1>3, <2>2, <2>3, <2>4
  <1> QED
    BY <1>4, <1>5

LEMMA AgentWritesKeeps ==
    ASSUME Contained, AgentWrites
    PROVE  Contained'
  <1> USE DEF Contained
  <1> DEFINE x == Translate(agent.to, "write")
  <1>1. Busy /\ Guarded
    BY DEF AgentWrites, AtWork, Busy
  <1>2. /\ \A l \in x.leaf : l.page \in Pages
        /\ x.status = "ok" => x.page \in Pages \cup {"elsewhere"}
        /\ smmu.defect = "nothing" => x.page # "elsewhere"
    BY <1>1, TranslateLeads
  <1> HIDE DEF x
  <1>3. chance' = chance
    BY <1>2 DEF AgentWrites, Strays, x
  <1>4. CASE x.status # "ok"
    BY <1>3, <1>4, TerminatedKeeps DEF AgentWrites, x
  <1>5. CASE x.status = "ok"
    <2>1. /\ agent' = [agent EXCEPT !.state = "ending"]
          /\ memory' = IF x.page = "elsewhere" THEN memory
                       ELSE [memory EXCEPT ![x.page] = agent.data]
          /\ tlb' = tlb \cup x.leaf
          /\ UNCHANGED <<smmu, cache, test>>
      BY <1>5 DEF AgentWrites, x
    <2>2. Types' /\ ~Busy' /\ memory'["tables"] = memory["tables"]
      BY <1>2, <1>5, <2>1 DEF Types, Busy, Pages, Lines
    <2>3. Tidy' /\ Registers'
      BY <1>2, <2>1, <2>2 DEF Tidy, Registers
    <2>4. Contents'
      BY <1>1, <2>1, AtWorkUnsettled DEF Contents
    <2> QED
      BY <1>3, <2>2, <2>3, <2>4 DEF AtWork
  <1> QED
    BY <1>4, <1>5

LEMMA EnvironmentKeeps ==
    ASSUME Contained, Environment
    PROVE  Contained'
  BY WriteBackKeeps, RefillKeeps, AcknowledgeKeeps, AgentReadsKeeps, AgentWritesKeeps,
     AgentEndsKeeps, CommitEventKeeps, ForgetKeeps DEF Environment

-----------------------------------------------------------------------------
(* The steps of a body.                                                    *)

\* The body stays where it is, goes on from a step of none of these kinds, or goes
\* where no copy starts any more.
Proceeds(kinds) ==
    /\ Types'
    /\ test'.name = test.name
    /\ \/ test'.pc = test.pc
       \/ test'.pc = test.pc + 1 /\ Step.do \notin kinds
       \/ ~StartsFrom(test.name, test'.pc)

\* The same place, with other locals; and the next.
Located(locals) == IsTest(locals) /\ locals.name = test.name /\ locals.pc = test.pc
Onward ==
    /\ IsTest(test')
    /\ test'.name = test.name /\ test'.pc = test.pc + 1 /\ test'.pc \in Nat \ {0}

LEMMA Locals ==
    ASSUME Types
    PROVE  /\ Located(test)
           /\ \A done : Located([test EXCEPT !.completed = done])
           /\ \A fine : Located([test EXCEPT !.good = fine])
  BY DEF Types, Located, IsTest

LEMMA GoesOn ==
    ASSUME Types, NEW locals, Goes(locals), Located(locals)
    PROVE  Onward
  BY DEF Types, Goes, Located, Onward, IsTest

LEMMA RegistersStay ==
    ASSUME Contained, UNCHANGED smmu,
           Proceeds(Enabling \cup {"context", "acknowledged"})
    PROVE  Registers'
  <1> USE DEF Contained
  <1> SUFFICES ASSUME StartsFrom(test.name, test'.pc)
               PROVE  /\ Asked(test.name, test'.pc) => "on" \in smmu.asked
                      /\ Enabled(test.name, test'.pc) => "on" \in smmu.acked
                      /\ Configured(test.name, test'.pc) => smmu.context = TRUE
    BY DEF Registers, Proceeds
  <1>1. CASE test'.pc = test.pc
    BY <1>1 DEF Registers
  <1>2. CASE test'.pc = test.pc + 1 /\ Step.do \notin Enabling \cup {"context", "acknowledged"}
    <2> DEFINE n == test.name
               p == test.pc
    <2>1. n \in Names /\ p \in Nat \ {0}
      BY DEF Types
    <2>2. Body(n)[p].do \notin Enabling \cup {"context", "acknowledged", "client"}
      BY <1>2 DEF Step, Enabling
    <2>3. StartsFrom(n, p)
      BY <1>2, <2>1, OneMoreStarts
    <2>4. /\ Asked(n, p + 1) => Asked(n, p)
          /\ Enabled(n, p + 1) => Enabled(n, p)
          /\ Configured(n, p + 1) => Configured(n, p)
      BY <2>1, <2>2, OneMoreAsked, OneMoreEnabled, OneMoreConfigured
    <2> QED
      BY <1>2, <2>3, <2>4 DEF Registers
  <1> QED
    BY <1>1, <1>2 DEF Proceeds

LEMMA ContentsStay ==
    ASSUME Contained, UNCHANGED <<memory, cache>>, Proceeds({"store", "clean"})
    PROVE  Contents'
  <1> USE DEF Contained
  <1> SUFFICES ASSUME StartsFrom(test.name, test'.pc),
                      NEW l \in Buffers, NEW i \in 1..(test'.pc - 1)
               PROVE  /\ Written(test.name, i, test'.pc, l)
                             => Holds(l, Body(test.name)[i].value)
                      /\ Cleaned(test.name, i, test'.pc, l)
                             => memory[l] = Body(test.name)[i].value
    BY DEF Contents, Holds, Dirty, Proceeds
  <1>1. CASE test'.pc = test.pc
    BY <1>1 DEF Contents
  <1>2. CASE test'.pc = test.pc + 1 /\ Step.do \notin {"store", "clean"}
    <2> DEFINE n == test.name
               p == test.pc
    <2>1. n \in Names /\ p \in Nat \ {0}
      BY DEF Types
    <2>2. Body(n)[p].do \notin {"store", "clean"}
      BY <1>2 DEF Step
    <2>3. StartsFrom(n, p)
      BY <1>2, <2>1, OneMoreStarts
    <2>4. /\ Written(n, i, p + 1, l) => i \in 1..(p - 1) /\ Written(n, i, p, l)
          /\ Cleaned(n, i, p + 1, l) => i \in 1..(p - 1) /\ Cleaned(n, i, p, l)
      BY <2>1, <2>2, OneMoreWritten, OneMoreCleaned
    <2> QED
      BY <1>2, <2>3, <2>4 DEF Contents
  <1> QED
    BY <1>1, <1>2 DEF Proceeds

\* After one of these steps nothing is known of the lines.
LEMMA ContentsUnknown ==
    ASSUME Contained, Types', test'.name = test.name, test'.pc = test.pc + 1,
           Step.do \in Unsettling
    PROVE  Contents'
  <1> DEFINE n == test.name
             p == test.pc
  <1>1. p \in Nat \ {0} /\ Body(n)[p].do \in Unsettling /\ Body(n)[p].do # "store"
    BY DEF Contained, Types, Step, Unsettling
  <1>2. \A i, l : ~Written(n, i, p + 1, l) /\ ~Cleaned(n, i, p + 1, l)
    BY <1>1, OneMoreWritten, OneMoreCleaned
  <1> QED
    BY <1>2 DEF Contents

\* A step that does not wait is not reached while the agent works.
LEMMA Rests ==
    ASSUME Contained, Step.do \notin {"poll", "engine"}
    PROVE  ~Busy
  BY DEF Contained, AtWork, Awaited, Step

\* A step that leaves memory, caches, SMMU and agent alone.
Telling == Enabling \cup {"context", "acknowledged", "store", "clean"}

LEMMA QuietKeeps ==
    ASSUME Contained, UNCHANGED <<memory, cache, smmu, agent>>, tlb' \subseteq tlb, ~Busy,
           "stray" \notin chance', Proceeds(Telling)
    PROVE  Contained'
  <1> USE DEF Contained
  <1>1. /\ Proceeds(Enabling \cup {"context", "acknowledged"})
        /\ Proceeds({"store", "clean"})
    BY DEF Proceeds, Telling
  <1>2. Registers' /\ Contents'
    BY <1>1, RegistersStay, ContentsStay
  <1>3. Tidy' /\ AtWork'
    BY DEF Tidy, AtWork, Busy
  <1> QED
    BY <1>2, <1>3 DEF Proceeds

LEMMA DoStoreKeeps ==
    ASSUME Contained, DoStore
    PROVE  Contained'
  <1> USE DEF Contained
  <1> DEFINE n == test.name
             p == test.pc
  <1>1. /\ Step.do = "store" /\ p <= Len(Body(n))
        /\ cache' = [cache EXCEPT ![Step.line] = Copy("dirty", Step.value)]
        /\ Goes(test)
        /\ UNCHANGED <<memory, smmu, tlb, agent, chance>>
    BY DEF DoStore, AtStep
  <1>2. Types' /\ test'.name = n /\ test'.pc = p + 1
    <2>1. IsLine(Copy("dirty", Step.value))
      BY DEF IsLine, Copy
    <2>2. Onward
      BY <1>1, GoesOn, Locals
    <2> QED
      BY <1>1, <2>1, <2>2 DEF Types, Onward
  <1>3. ~Busy
    BY <1>1, Rests
  <1>4. Registers'
    BY <1>1, <1>2, RegistersStay DEF Proceeds, Enabling
  <1>5. /\ \A l \in Lines \ {Step.line} : cache'[l] = cache[l]
        /\ Step.line \in Lines => /\ cache'[Step.line].state = "dirty"
                                  /\ cache'[Step.line].value = Step.value
    BY <1>1 DEF Types, Copy
  <1>6. Tidy'
    <2>1. Step.line = "tables" => Step.value \in TableValues
      BY <1>1, Disciplined DEF IsDisciplined, Step, Types
    <2>2. "tables" \in Lines
      BY DEF Lines
    <2> QED
      BY <1>1, <1>5, <2>1, <2>2 DEF Tidy
  <1>7. Contents'
    <2> SUFFICES ASSUME StartsFrom(n, p + 1), NEW l \in Buffers, NEW i
                 PROVE  /\ Written(n, i, p + 1, l) => Holds(l, Body(n)[i].value)'
                        /\ Cleaned(n, i, p + 1, l) => memory[l] = Body(n)[i].value
      BY <1>1, <1>2 DEF Contents
    <2>1. n \in Names /\ p \in Nat \ {0} /\ Body(n)[p].do = "store" /\ l \in Lines
      BY <1>1 DEF Types, Step, Buffers
    <2>2. StartsFrom(n, p)
      BY <2>1, OneMoreStarts
    <2>3. CASE i = p /\ Body(n)[p].line = l
      <3>1. Holds(l, Body(n)[i].value)'
        BY <1>1, <1>2, <1>5, <2>1, <2>3 DEF Holds, Dirty, Step
      <3>2. ~Cleaned(n, i, p + 1, l)
        BY <2>1, <2>3, OneMoreCleaned
      <3> QED
        BY <3>1, <3>2
    <2>4. CASE i \in 1..(p - 1) /\ Written(n, i, p, l) /\ Body(n)[p].line # l
      <3>1. Holds(l, Body(n)[i].value)
        BY <2>2, <2>4 DEF Contents
      <3>2. Holds(l, Body(n)[i].value)'
        BY <1>1, <1>2, <1>5, <2>1, <2>4, <3>1 DEF Holds, Dirty, Step
      <3>3. Cleaned(n, i, p + 1, l) => Cleaned(n, i, p, l)
        BY <2>1, OneMoreCleaned
      <3> QED
        BY <2>2, <2>4, <3>2, <3>3 DEF Contents
    <2>5. Cleaned(n, i, p + 1, l) => Written(n, i, p + 1, l)
      BY DEF Cleaned
    <2> QED
      BY <2>1, <2>3, <2>4, <2>5, OneMoreWritten
  <1>8. AtWork'
    BY <1>1, <1>3 DEF AtWork, Busy
  <1> QED
    BY <1>1, <1>2, <1>4, <1>6, <1>7, <1>8

LEMMA DoCleanKeeps ==
    ASSUME Contained, DoClean
    PROVE  Contained'
  <1> USE DEF Contained
  <1> DEFINE n == test.name
             p == test.pc
             line == Step.line
  <1>1. /\ Step.do = "clean" /\ p <= Len(Body(n))
        /\ memory' = [memory EXCEPT ![line] = IF Dirty(line) THEN Seen(line) ELSE memory[line]]
        /\ cache' = [cache EXCEPT ![line] = Kept(line)]
        /\ Goes(test)
        /\ UNCHANGED <<smmu, tlb, agent, chance>>
    BY DEF DoClean, AtStep
  <1>2. line \in Lines => /\ IsLine(Kept(line))
                          /\ Kept(line).state # "dirty"
                          /\ Kept(line).state = "absent" <=> cache[line].state = "absent"
                          /\ Kept(line).value = cache[line].value
    BY DEF Types, Kept, IsLine, Copy, Dirty
  <1>3. Types' /\ test'.name = n /\ test'.pc = p + 1
    <2>1. Onward
      BY <1>1, GoesOn, Locals
    <2>2. /\ memory' = [l \in Lines |-> memory'[l]] /\ cache' = [l \in Lines |-> cache'[l]]
          /\ \A l \in Lines : IsLine(cache'[l])
      BY <1>1, <1>2 DEF Types
    <2> QED
      BY <1>1, <2>1, <2>2 DEF Types, Onward
  <1>4. ~Busy
    BY <1>1, Rests
  <1>5. Registers'
    BY <1>1, <1>3, RegistersStay DEF Proceeds, Enabling
  <1>6. /\ \A l \in Lines \ {line} : cache'[l] = cache[l] /\ memory'[l] = memory[l]
        /\ line \in Lines => /\ cache'[line] = Kept(line)
                             /\ memory'[line] = IF Dirty(line) THEN cache[line].value
                                                ELSE memory[line]
    BY <1>1 DEF Types, Seen, Dirty
  <1>7. Tidy'
    <2>1. "tables" \in Lines
      BY DEF Lines
    <2>2. cache'["tables"].value = cache["tables"].value
      BY <1>2, <1>6, <2>1
    <2>3. memory'["tables"] \in {memory["tables"], cache["tables"].value}
      BY <1>6, <2>1
    <2> QED
      BY <1>1, <2>2, <2>3 DEF Tidy
  <1>8. \A l \in Lines : \A v : Holds(l, v) => /\ Holds(l, v)'
                                               /\ memory[l] = v => memory'[l] = v
                                               /\ l = line => memory'[l] = v
    <2> SUFFICES ASSUME NEW l \in Lines, NEW v, Holds(l, v)
                 PROVE  /\ Holds(l, v)'
                        /\ memory[l] = v => memory'[l] = v
                        /\ l = line => memory'[l] = v
      OBVIOUS
    <2>1. CASE l = line
      <3>1. memory'[l] = v
        BY <1>6, <2>1 DEF Holds, Dirty
      <3>2. cache'[l].state # "absent" => cache'[l].value = v
        BY <1>2, <1>6, <2>1 DEF Holds
      <3> QED
        BY <3>1, <3>2 DEF Holds
    <2>2. CASE l # line
      BY <1>6, <2>2 DEF Holds, Dirty
    <2> QED
      BY <2>1, <2>2
  <1>9. Contents'
    <2> SUFFICES ASSUME StartsFrom(n, p + 1), NEW l \in Buffers, NEW i
                 PROVE  /\ Written(n, i, p + 1, l) => Holds(l, Body(n)[i].value)'
                        /\ Cleaned(n, i, p + 1, l) => memory'[l] = Body(n)[i].value
      BY <1>1, <1>3 DEF Contents
    <2>1. /\ n \in Names /\ p \in Nat \ {0} /\ l \in Lines
          /\ Body(n)[p].do = "clean" /\ Body(n)[p].line = line
      BY <1>1 DEF Types, Step, Buffers
    <2>2. StartsFrom(n, p)
      BY <2>1, OneMoreStarts
    <2>3. Written(n, i, p + 1, l) => i \in 1..(p - 1) /\ Written(n, i, p, l)
      BY <2>1, OneMoreWritten
    <2>4. Written(n, i, p + 1, l) => Holds(l, Body(n)[i].value)
      BY <2>2, <2>3 DEF Contents
    <2>5. Cleaned(n, i, p + 1, l) => Written(n, i, p + 1, l) /\ (l = line \/ Cleaned(n, i, p, l))
      BY <2>1, OneMoreCleaned DEF Cleaned
    <2>6. Cleaned(n, i, p, l) => Written(n, i, p, l) /\ i \in 1..(p - 1)
      BY DEF Cleaned, Written
    <2>7. Cleaned(n, i, p, l) => memory[l] = Body(n)[i].value
      BY <2>2, <2>6 DEF Contents
    <2> QED
      BY <1>3, <1>8, <2>1, <2>4, <2>5, <2>7
  <1>10. AtWork'
    BY <1>1, <1>4 DEF AtWork, Busy
  <1> QED
    BY <1>1, <1>3, <1>5, <1>7, <1>9, <1>10

LEMMA DoDropKeeps ==
    ASSUME Contained, DoDrop
    PROVE  Contained'
  <1> USE DEF Contained
  <1>1. /\ Step.do = "drop"
        /\ cache' = [cache EXCEPT ![Step.line] = Absent]
        /\ Goes(test)
        /\ UNCHANGED <<memory, smmu, tlb, agent, chance>>
    BY DEF DoDrop, AtStep
  <1>2. Types' /\ test'.name = test.name /\ test'.pc = test.pc + 1
    <2>1. IsLine(Absent)
      BY DEF IsLine, Absent, Copy
    <2>2. Onward
      BY <1>1, GoesOn, Locals
    <2> QED
      BY <1>1, <2>1, <2>2 DEF Types, Onward
  <1>3. Registers'
    BY <1>1, <1>2, RegistersStay DEF Proceeds, Enabling
  <1>4. Contents'
    BY <1>1, <1>2, ContentsUnknown DEF Unsettling
  <1>5. Tidy' /\ AtWork'
    <2>1. cache'["tables"].value \in TableValues
      BY <1>1 DEF Types, Tidy, Absent, TableValues, Lines
    <2> QED
      BY <1>1, <2>1, Rests DEF Tidy, AtWork, Busy
  <1> QED
    BY <1>1, <1>2, <1>3, <1>4, <1>5

\* A register step: what it leaves, and what the script then knows.
LEMMA DoRegisterKeeps ==
    ASSUME Contained, DoRegister
    PROVE  Contained'
  <1> USE DEF Contained
  <1> DEFINE n == test.name
             p == test.pc
  <1>1. /\ Step.do \in {"context", "client", "restore", "size", "control"}
        /\ Goes(test)
        /\ UNCHANGED <<memory, cache, tlb, agent, chance>>
    BY DEF DoRegister, AtStep
  <1>2. /\ n \in Names /\ p \in Nat \ {0} /\ Step = Body(n)[p]
    BY DEF Types, Step
  <1>3. Onward /\ test'.name = n /\ test'.pc = p + 1
    BY <1>1, GoesOn, Locals DEF Onward
  <1>4. ~Busy
    BY <1>1, Rests
  <1>5. \/ /\ Step.do = "context"
           /\ smmu' = [smmu EXCEPT !.context = TRUE, !.fault = "none"]
        \/ /\ Step.do = "client"
           /\ smmu' = [smmu EXCEPT !.asked = Step.on, !.acked = Step.on]
        \/ /\ Step.do = "restore"
           /\ smmu' = [smmu EXCEPT !.asked = {}, !.acked = {}, !.context = FALSE,
                                   !.fault = "none"]
        \/ /\ Step.do = "size"
           /\ smmu' = [smmu EXCEPT !.size = Step.size]
        \/ /\ Step.do = "control"
           /\ smmu' = [smmu EXCEPT !.asked = Step.on]
    BY DEF DoRegister, AtStep
  <1>6. Types'
    BY <1>1, <1>3, <1>5 DEF Types, Onward
  <1>7. Registers'
    <2> SUFFICES ASSUME StartsFrom(n, p + 1)
                 PROVE  /\ Asked(n, p + 1) => "on" \in smmu'.asked
                        /\ Enabled(n, p + 1) => "on" \in smmu'.acked
                        /\ Configured(n, p + 1) => smmu'.context = TRUE
      BY <1>3 DEF Registers
    <2>1. StartsFrom(n, p)
      BY <1>2, OneMoreStarts
    <2>2. /\ Asked(n, p) => "on" \in smmu.asked
          /\ Enabled(n, p) => "on" \in smmu.acked
          /\ Configured(n, p) => smmu.context = TRUE
      BY <2>1 DEF Registers
    <2>3. /\ Step.do = "client" => smmu'.asked = Step.on /\ smmu'.acked = Step.on
          /\ Step.do = "control" => smmu'.asked = Step.on
          /\ Step.do \notin Switching => smmu'.asked = smmu.asked
          /\ Step.do \notin {"client", "restore"} => smmu'.acked = smmu.acked
      BY <1>5 DEF Types, Switching, Enabling
    <2>4. /\ Step.do = "context" => smmu'.context = TRUE
          /\ Step.do \notin {"context", "restore"} => smmu'.context = smmu.context
      <3>1. CASE Step.do = "context"
        BY <1>5, <3>1 DEF Types
      <3>2. CASE Step.do \notin {"context", "restore"}
        BY <1>5, <3>2 DEF Types
      <3> QED
        BY <3>1, <3>2
    <2>5. Asked(n, p + 1) => "on" \in smmu'.asked
      BY <1>2, <2>2, <2>3, OneMoreAsked DEF Enabling
    <2>6. Enabled(n, p + 1) => "on" \in smmu'.acked
      BY <1>1, <1>2, <2>2, <2>3, OneMoreEnabled DEF Switching, Enabling
    <2>7. Configured(n, p + 1) => smmu'.context = TRUE
      BY <1>2, <2>2, <2>4, OneMoreConfigured
    <2> QED
      BY <2>5, <2>6, <2>7
  <1>8. Contents'
    BY <1>1, <1>3, <1>6, ContentsStay DEF Proceeds
  <1>9. Tidy' /\ AtWork'
    BY <1>1, <1>4 DEF Tidy, AtWork, Busy
  <1> QED
    BY <1>1, <1>6, <1>7, <1>8, <1>9

LEMMA AwaitAckKeeps ==
    ASSUME Contained, AwaitAck, OnTime'
    PROVE  Contained'
  <1> USE DEF Contained
  <1> DEFINE n == test.name
             p == test.pc
  <1>1. /\ Step.do = "acknowledged" /\ smmu.acked = smmu.asked /\ Goes(test)
        /\ UNCHANGED <<memory, cache, smmu, tlb, agent, chance>>
    BY DEF AwaitAck, AtStep, OnTime
  <1>2. Onward /\ test'.name = n /\ test'.pc = p + 1
    BY <1>1, GoesOn, Locals DEF Onward
  <1>3. Types'
    BY <1>1, <1>2 DEF Types, Onward
  <1>4. Registers'
    <2> SUFFICES ASSUME StartsFrom(n, p + 1)
                 PROVE  /\ Asked(n, p + 1) => "on" \in smmu.asked
                        /\ Enabled(n, p + 1) => "on" \in smmu.acked
                        /\ Configured(n, p + 1) => smmu.context = TRUE
      BY <1>1, <1>2 DEF Registers
    <2>1. /\ n \in Names /\ p \in Nat \ {0} /\ Body(n)[p].do = "acknowledged"
      BY <1>1 DEF Types, Step
    <2>2. StartsFrom(n, p)
      BY <2>1, OneMoreStarts
    <2>3. /\ Asked(n, p + 1) => Asked(n, p)
          /\ Enabled(n, p + 1) => Asked(n, p) \/ Enabled(n, p)
          /\ Configured(n, p + 1) => Configured(n, p)
      BY <2>1, OneMoreAsked, OneMoreEnabled, OneMoreConfigured DEF Enabling
    <2> QED
      BY <1>1, <2>2, <2>3 DEF Registers
  <1>5. Contents'
    BY <1>1, <1>2, <1>3, ContentsStay DEF Proceeds
  <1>6. Tidy' /\ AtWork'
    BY <1>1, Rests DEF Tidy, AtWork, Busy
  <1> QED
    BY <1>1, <1>3, <1>4, <1>5, <1>6

\* A copy starts: what the script made sure of is what the agent needs.
LEMMA DoStartKeeps ==
    ASSUME Contained, DoStart, OnTime'
    PROVE  Contained'
  <1> USE DEF Contained
  <1> DEFINE n == test.name
             p == test.pc
  <1>1. /\ Step.do = "start" /\ p <= Len(Body(n)) /\ Goes(test)
        /\ UNCHANGED <<memory, cache, smmu, tlb>>
        /\ \/ /\ agent' = [agent EXCEPT !.to = Step.to, !.sid = Step.sid,
                   !.state = IF n[1] = "v2" /\ memory["program"] # "copy"
                             THEN "aborted" ELSE "reading"]
              /\ UNCHANGED chance
           \/ UNCHANGED agent /\ chance' = chance \cup {"missed"}
    BY DEF DoStart, AtStep
  <1>2. /\ n \in Names /\ p \in Nat \ {0} /\ Step = Body(n)[p]
    BY DEF Types, Step
  <1>3. Onward /\ test'.name = n /\ test'.pc = p + 1
    BY <1>1, GoesOn, Locals DEF Onward
  <1>4. Types'
    <2>1. /\ agent' = [state |-> agent'.state, to |-> agent'.to, sid |-> agent'.sid,
                       data |-> agent'.data]
          /\ agent'.state \in {"idle", "reading", "writing", "ending", "aborted"}
      BY <1>1 DEF Types
    <2> QED
      BY <1>1, <1>3, <2>1 DEF Types, Onward
  <1>5. ~Busy
    BY <1>1, Rests
  <1>6. Registers'
    BY <1>1, <1>3, <1>4, RegistersStay DEF Proceeds, Enabling
  <1>7. Contents'
    BY <1>1, <1>3, <1>4, ContentsUnknown DEF Unsettling
  <1>8. StartsSafely(n, p) /\ Len(Body(n)) \in Nat
    BY <1>1, <1>2, Disciplined DEF IsDisciplined
  <1>9. StartsFrom(n, p)
    BY <1>1, <1>2, <1>8 DEF StartsFrom
  <1>10. Awaited(Body(n)[p + 1])
    <2> DEFINE next == Body(n)[p + 1]
    <2>1. next.do \in {"poll", "engine"}
      BY <1>8 DEF StartsSafely
    <2>2. ASSUME next.do = "poll", NEW l \in DOMAIN next.wanted
          PROVE  /\ l \in Buffers
                 /\ memory[l] \notin next.wanted[l]
                 /\ cache[l].state # "absent" => cache[l].value \notin next.wanted[l]
      <3>1. /\ l \in Buffers
            /\ \E i \in 1..(p - 1) : Cleaned(n, i, p, l) /\ Body(n)[i].value \notin next.wanted[l]
        BY <1>8, <2>2 DEF StartsSafely, Buffers
      <3>2. PICK i \in 1..(p - 1) : Cleaned(n, i, p, l) /\ Body(n)[i].value \notin next.wanted[l]
        BY <3>1
      <3>3. Written(n, i, p, l)
        BY <3>2 DEF Cleaned
      <3>4. memory[l] = Body(n)[i].value /\ Holds(l, Body(n)[i].value)
        BY <1>9, <3>1, <3>2, <3>3 DEF Contents
      <3> QED
        BY <3>1, <3>2, <3>4 DEF Holds
    <2> QED
      BY <2>1, <2>2 DEF Awaited
  <1>11. AtWork'
    <2> SUFFICES ASSUME Busy'
                 PROVE  AtWork'
      BY DEF AtWork
    <2>1. agent'.sid = Step.sid
      BY <1>1, <1>5 DEF Types, Busy
    <2>2. Enabled(n, p) /\ (n[1] = "v2" => Configured(n, p) /\ Step.sid \in SidsOf(n))
      BY <1>2, <1>8 DEF StartsSafely
    <2>3. Asked(n, p)
      BY <2>2 DEF Enabled, Asked
    <2>4. Guarded'
      BY <1>1, <1>3, <1>9, <2>1, <2>2, <2>3 DEF Guarded, Registers
    <2>5. p + 1 \in 2..Len(Body(n)) /\ Body(n)[(p + 1) - 1].do = "start"
      BY <1>1, <1>2, <1>8 DEF StartsSafely
    <2> QED
      BY <1>1, <1>3, <1>10, <2>4, <2>5 DEF AtWork, Awaited
  <1> QED
    BY <1>1, <1>4, <1>6, <1>7, <1>11 DEF Tidy

\* Nothing awaited comes while the agent is at work, and a test that gives up on it
\* is late: so a wait that ends in time has an agent that is done.
LEMMA DoPollKeeps ==
    ASSUME Contained, DoPoll, OnTime'
    PROVE  Contained'
  <1> USE DEF Contained
  <1>1. Step.do = "poll" /\ UNCHANGED <<memory, smmu, tlb, agent>>
    BY DEF DoPoll, AtStep
  <1>2. chance' = chance /\ ~Busy
    <2>1. CASE Arrived([l \in Lines |-> Seen(l)]) /\ UNCHANGED chance
      <3> SUFFICES ASSUME Busy PROVE FALSE
        BY <2>1
      <3>1. PICK l \in DOMAIN Step.wanted : [k \in Lines |-> Seen(k)][l] \in Step.wanted[l]
        BY <2>1 DEF Arrived
      <3>2. /\ l \in Lines /\ memory[l] \notin Step.wanted[l]
            /\ cache[l].state # "absent" => cache[l].value \notin Step.wanted[l]
        BY <1>1, <3>1 DEF AtWork, Awaited, Step, Buffers
      <3> QED
        BY <3>1, <3>2 DEF Seen
    <2>2. CASE Arrived(memory) /\ UNCHANGED chance
      <3> SUFFICES ASSUME Busy PROVE FALSE
        BY <2>2
      <3>1. PICK l \in DOMAIN Step.wanted : memory[l] \in Step.wanted[l]
        BY <2>2 DEF Arrived
      <3> QED
        BY <1>1, <3>1 DEF AtWork, Awaited, Step
    <2>3. CASE chance' = IF Quiet THEN chance ELSE chance \cup {"late"}
      BY <2>3 DEF Quiet, OnTime, Busy
    <2> QED
      BY <2>1, <2>2, <2>3 DEF DoPoll
  <1>3. Onward /\ test'.name = test.name /\ test'.pc = test.pc + 1
    <2>1. PICK done \in {TRUE, FALSE} : Goes([test EXCEPT !.completed = done])
      BY DEF DoPoll
    <2> QED
      BY <2>1, GoesOn, Locals DEF Onward
  <1>4. \/ cache' = cache
        \/ cache' = [l \in Lines |-> IF l \in DOMAIN Step.wanted THEN Absent ELSE cache[l]]
    BY DEF DoPoll
  <1>5. Types' /\ Tidy'
    <2>1. IsLine(Absent) /\ Absent.value = "zero"
      BY DEF IsLine, Absent, Copy
    <2>2. \A l \in Lines : cache'[l] \in {cache[l], Absent}
      BY <1>4
    <2>3. cache' = [l \in Lines |-> cache'[l]]
      BY <1>4 DEF Types
    <2>4. \A l \in Lines : IsLine(cache'[l])
      BY <2>1, <2>2 DEF Types
    <2>5. cache'["tables"].value \in TableValues
      BY <2>1, <2>2 DEF Tidy, Lines, TableValues
    <2> QED
      BY <1>1, <1>3, <2>3, <2>4, <2>5 DEF Types, Tidy, Onward
  <1>6. Registers'
    BY <1>1, <1>3, <1>5, RegistersStay DEF Proceeds, Enabling
  <1>7. Contents'
    BY <1>1, <1>3, <1>5, ContentsUnknown DEF Unsettling
  <1>8. AtWork'
    BY <1>1, <1>2 DEF AtWork, Busy
  <1> QED
    BY <1>1, <1>2, <1>5, <1>6, <1>7, <1>8

LEMMA GoesProceeds ==
    ASSUME Types, UNCHANGED <<memory, cache, smmu, agent>>, Step.do \notin Telling,
           NEW locals, Goes(locals), Located(locals)
    PROVE  Proceeds(Telling)
  BY GoesOn DEF Proceeds, Types, Onward

LEMMA ReturnProceeds ==
    ASSUME Types, UNCHANGED <<memory, cache, smmu, agent, test>>
    PROVE  Proceeds(Telling)
  BY DEF Proceeds, Types

LEMMA CheckResetKeeps ==
    ASSUME Contained, CheckReset
    PROVE  Contained'
  <1>1. /\ Step.do = "baseline"
        /\ UNCHANGED <<memory, cache, smmu, tlb, agent, chance>>
        /\ Goes(test) \/ UNCHANGED test
    BY DEF CheckReset, AtStep, Return
  <1>2. Proceeds(Telling)
    BY <1>1, GoesProceeds, ReturnProceeds, Locals DEF Contained, Telling, Enabling
  <1> QED
    BY <1>1, <1>2, Rests, QuietKeeps DEF Contained, Telling

LEMMA InvalidationKeeps ==
    ASSUME Contained, InvalidateEverything \/ DoInvalidate
    PROVE  Contained'
  <1>1. /\ Step.do \in {"initialise", "invalidate"}
        /\ UNCHANGED <<memory, cache, smmu, agent, chance>>
        /\ tlb' \subseteq tlb
        /\ Goes(test)
    BY DEF InvalidateEverything, DoInvalidate, AtStep
  <1>2. Proceeds(Telling)
    BY <1>1, GoesProceeds, Locals DEF Contained, Telling, Enabling
  <1> QED
    BY <1>1, <1>2, Rests, QuietKeeps DEF Contained, Telling

\* Without a first copy the body goes to its end, where no copy starts.
LEMMA DoObserveKeeps ==
    ASSUME Contained, DoObserve
    PROVE  Contained'
  <1> USE DEF Contained
  <1> DEFINE n == test.name
             p == test.pc
  <1>1. /\ Step.do = "observe" /\ p <= Len(Body(n))
        /\ test' = [test EXCEPT !.actual = Seen("destination"), !.good = test.completed,
                                !.pc = IF test.completed THEN p + 1 ELSE p + 1 + Step.over]
        /\ UNCHANGED <<memory, cache, smmu, tlb, agent, chance>>
    BY DEF DoObserve, AtStep
  <1>2. n \in Names /\ p \in Nat \ {0} /\ Step = Body(n)[p]
    BY DEF Types, Step
  <1>3. Step.over \in Nat /\ ~StartsFrom(n, p + 1 + Step.over)
    BY <1>1, <1>2, Disciplined DEF IsDisciplined
  <1>4. /\ test'.name = n
        /\ test'.pc \in {p + 1, p + 1 + Step.over}
        /\ IsTest(test')
    BY <1>1 DEF Types, IsTest
  <1>5. Types'
    BY <1>1, <1>2, <1>3, <1>4 DEF Types
  <1>6. Proceeds(Telling)
    BY <1>1, <1>3, <1>4, <1>5 DEF Proceeds, Telling, Enabling
  <1> QED
    BY <1>1, <1>6, Rests, QuietKeeps DEF Telling

LEMMA JudgementKeeps ==
    ASSUME Contained, DoExpect \/ JudgeV2
    PROVE  Contained'
  <1>1. /\ Step.do \in {"expect", "judge"}
        /\ UNCHANGED <<memory, cache, smmu, tlb, agent, chance>>
    BY DEF DoExpect, JudgeV2, AtStep
  <1>2. PICK fine : Goes([test EXCEPT !.good = fine])
    BY DEF DoExpect, JudgeV2
  <1>3. Proceeds(Telling)
    BY <1>1, <1>2, GoesProceeds, Locals DEF Contained, Telling, Enabling
  <1> QED
    BY <1>1, <1>3, Rests, QuietKeeps DEF Contained, Telling

LEMMA ConclusionKeeps ==
    ASSUME Contained, Conclude \/ JudgeEvent \/ JudgeCopy
    PROVE  Contained'
  <1>1. /\ Step.do \in {"conclude", "event", "copied"}
        /\ UNCHANGED <<memory, cache, smmu, tlb, agent, chance, test>>
    BY DEF Conclude, JudgeEvent, JudgeCopy, AtStep, Return
  <1>2. Proceeds(Telling)
    BY <1>1, ReturnProceeds DEF Contained
  <1> QED
    BY <1>1, <1>2, Rests, QuietKeeps DEF Contained, Telling

LEMMA PollEngineKeeps ==
    ASSUME Contained, PollEngine, OnTime'
    PROVE  Contained'
  <1> USE DEF Contained
  <1> DEFINE n == test.name
             p == test.pc
  <1>1. /\ Step.do = "engine" /\ p <= Len(Body(n))
        /\ UNCHANGED <<memory, cache, smmu, tlb, agent, chance>>
        /\ ~Busy
        /\ \/ UNCHANGED test
           \/ Goes([test EXCEPT !.pc = p + Step.events])
           \/ Goes([test EXCEPT !.completed = TRUE])
    BY DEF PollEngine, AtStep, OnTime, Busy, Return
  <1>2. n \in Names /\ p \in Nat \ {0} /\ Step = Body(n)[p]
    BY DEF Types, Step
  <1>3. CASE UNCHANGED test
    BY <1>1, <1>3, ReturnProceeds, QuietKeeps DEF Telling
  <1>4. CASE Goes([test EXCEPT !.completed = TRUE])
    <2>1. Proceeds(Telling)
      BY <1>1, <1>4, GoesProceeds, Locals DEF Telling, Enabling
    <2> QED
      BY <1>1, <2>1, QuietKeeps DEF Telling
  <1>5. CASE Goes([test EXCEPT !.pc = p + Step.events])
    <2>1. Step.events \in Nat /\ ~StartsFrom(n, p + 1) /\ Len(Body(n)) \in Nat
      BY <1>1, <1>2, Disciplined DEF IsDisciplined
    <2>2. test' = [test EXCEPT !.pc = p + Step.events + 1]
      BY <1>5 DEF Goes, Types, IsTest
    <2>3. /\ test'.name = n
          /\ test'.pc = p + Step.events + 1
          /\ IsTest(test')
      BY <2>2 DEF Types, IsTest
    <2>4. Types'
      BY <1>1, <1>2, <2>1, <2>3 DEF Types
    <2>5. ~StartsFrom(n, p + Step.events + 1)
      BY <1>2, <2>1 DEF StartsFrom
    <2>6. Proceeds(Telling)
      BY <2>3, <2>4, <2>5 DEF Proceeds
    <2> QED
      BY <1>1, <2>6, QuietKeeps DEF Telling
  <1> QED
    BY <1>1, <1>3, <1>4, <1>5

LEMMA PollProducerKeeps ==
    ASSUME Contained, PollProducer, OnTime'
    PROVE  Contained'
  <1>1. /\ Step.do = "producer"
        /\ UNCHANGED <<memory, cache, smmu, tlb, agent, chance>>
    BY DEF PollProducer, AtStep, OnTime
  <1>2. PICK fine : Goes([test EXCEPT !.good = fine])
    BY DEF PollProducer
  <1>3. Proceeds(Telling)
    BY <1>1, <1>2, GoesProceeds, Locals DEF Contained, Telling, Enabling
  <1> QED
    BY <1>1, <1>3, Rests, QuietKeeps DEF Contained, Telling

LEMMA PayloadKeeps ==
    ASSUME Contained, Payload, OnTime'
    PROVE  Contained'
  BY DoStoreKeeps, DoCleanKeeps, DoDropKeeps, CheckResetKeeps, DoRegisterKeeps,
     AwaitAckKeeps, InvalidationKeeps, DoStartKeeps, DoPollKeeps, DoObserveKeeps,
     JudgementKeeps, ConclusionKeeps, PollEngineKeeps, PollProducerKeeps DEF Payload

-----------------------------------------------------------------------------
(* The theorem.                                                            *)

LEMMA InitContained ==
    ASSUME Init
    PROVE  Inv
  <1>1. PICK n \in Names, silent \in BOOLEAN, d \in {"nothing"} \cup Defects :
            /\ smmu = [asked |-> {}, acked |-> {}, context |-> FALSE, size |-> 0,
                       fault |-> "none", pending |-> "none", producer |-> 0,
                       silent |-> silent, defect |-> d]
            /\ test = [name |-> n, pc |-> 1, completed |-> FALSE, actual |-> "zero",
                       good |-> TRUE]
    BY DEF Init
  <1>2. /\ memory = [l \in Lines |-> "zero"]
        /\ cache = [l \in Lines |-> Absent]
        /\ tlb = {} /\ chance = {}
        /\ agent = [state |-> "idle", to |-> "destination", sid |-> 0, data |-> "zero"]
    BY DEF Init
  <1>3. IsLine(Absent)
    BY DEF IsLine, Absent, Copy
  <1>4. Types
    BY <1>1, <1>2, <1>3 DEF Types, IsTest
  <1>5. Tidy
    BY <1>2 DEF Tidy, TableValues, Lines, Absent
  <1>6. /\ test.pc = 1 /\ 1..(test.pc - 1) = {}
    BY <1>1
  <1>7. Registers /\ Contents
    BY <1>6 DEF Registers, Contents, Asked, Enabled, Configured
  <1>8. AtWork
    BY <1>2 DEF AtWork, Busy
  <1> QED
    BY <1>2, <1>4, <1>5, <1>7, <1>8 DEF Inv, Contained

\* What has happened has happened.
LEMMA ChancesAdd ==
    ASSUME Next
    PROVE  chance \subseteq chance'
  BY DEF Next, Environment, WriteBack, Refill, Acknowledge, AgentReads, AgentWrites, AgentEnds,
         CommitEvent, Forget, Payload, DoStore, DoClean, DoDrop, CheckReset, DoRegister,
         AwaitAck, InvalidateEverything, DoInvalidate, DoStart, DoPoll, DoObserve, DoExpect,
         JudgeV2, Conclude, PollEngine, PollProducer, JudgeEvent, JudgeCopy

LEMMA Inductive ==
    ASSUME Inv, [Next]_vars
    PROVE  Inv'
  <1>1. CASE Next
    <2> SUFFICES ASSUME OnTime'
                 PROVE  Contained'
      BY DEF Inv
    <2>1. Contained
      BY <1>1, ChancesAdd DEF Inv, OnTime
    <2> QED
      BY <1>1, <2>1, EnvironmentKeeps, PayloadKeeps DEF Next
  <1>2. CASE UNCHANGED vars
    BY <1>2 DEF vars, Inv, OnTime, Contained, Types, Tidy, Registers, Contents, Holds, Dirty,
                AtWork, Busy, Guarded, Awaited
  <1> QED
    BY <1>1, <1>2

\* The agent never reaches memory past an SMMU that is not enabled yet or that has
\* its old registers back, unless a loop gave up on it: of any scripts that keep the
\* discipline.
THEOREM AgentIsContainedCorrect == Spec => []AgentIsContained
  <1>1. Init => Inv
    BY InitContained
  <1>2. Inv /\ [Next]_vars => Inv'
    BY Inductive
  <1>3. Inv => AgentIsContained
    BY DEF Inv, Contained, OnTime, AgentIsContained
  <1> QED
    BY <1>1, <1>2, <1>3, PTL DEF Spec

-----------------------------------------------------------------------------
(* A state follows a sheet.                                                *)

\* The cases in which a test may fail.
Excused ==
    \/ smmu.defect # "nothing"
    \/ "late" \in chance
    \/ Remembers(test.name) /\ chance # {}

\* The agent has copied, or the SMMU has a fault of it to record.
Ended == agent.state \in {"ending", "idle"}
Due(n, x) == n[1] = "v3" /\ (x.recorded = "due" \/ (x.working /\ agent.state = "aborted"))

\* What memory has of a line that has left the caches.
Stored(x, l) ==
    IF x.working /\ Reaches(x.copy) /\ l = x.copy.write.page /\ Ended
    THEN x.copy.data ELSE x.value[l]

LineFollows(x, l) ==
    IF x.mode[l] = "written" THEN Holds(l, x.value[l])
    ELSE /\ ~Dirty(l)
         /\ x.mode[l] = "settled" /\ cache[l].state # "absent" => cache[l].value = memory[l]
         /\ l # "events" \/ ~x.started => memory[l] = Stored(x, l)
LinesFollow(x) == \A l \in Lines : LineFollows(x, l)

AgentRests(n, x) ==
    /\ ~Busy /\ (~x.started => agent.state = "idle")
    /\ tlb \in Held(n, x.tlb) /\ smmu.fault = x.fault
AgentCopies(n, x) ==
    LET c == x.copy
    IN  /\ agent.to = c.to /\ agent.sid = c.sid
        /\ agent.state = "reading" => tlb \in Held(n, x.tlb)
        /\ agent.state = "writing" => /\ c.read.status = "ok" /\ agent.data = c.data
                                      /\ tlb \in Held(n, x.tlb \cup c.read.leaf)
        /\ ~Busy => tlb \in Held(n, x.tlb \cup c.read.leaf \cup c.write.leaf)
        /\ Ended => Reaches(c)
        /\ agent.state = "aborted" => ~Reaches(c)
        /\ smmu.fault = IF agent.state = "aborted" THEN Status(c) ELSE x.fault
AgentFollows(n, x) == IF x.working THEN AgentCopies(n, x) ELSE AgentRests(n, x)

\* The SMMU has recorded the fault, or will not.
Told == smmu.pending = "none" /\ (smmu.producer # 0 => memory["events"] = smmu.fault)
Reporting == smmu.pending = smmu.fault /\ smmu.producer = 0
EventsFollow(n, x) ==
    /\ IF x.recorded = "seen" THEN Told
       ELSE IF Due(n, x) THEN Told \/ Reporting
       ELSE smmu.pending = "none" /\ smmu.producer = 0
    /\ smmu.pending # "none" => x.mode["events"] = "foreign"

LocalsFollow(x) ==
    /\ test.completed = x.completed /\ test.actual = x.actual
    /\ test.good = IF x.recorded = "seen" THEN smmu.producer # 0 ELSE x.good
    /\ smmu.size = x.size
    /\ x.fresh => smmu.asked = {} /\ smmu.acked = {}

Follows(n, x) ==
    LinesFollow(x) /\ AgentFollows(n, x) /\ EventsFollow(n, x) /\ LocalsFollow(x)

-----------------------------------------------------------------------------
(* Frames.                                                                 *)

LEMMA LinesSame ==
    ASSUME NEW x, NEW y, LinesFollow(x), UNCHANGED <<memory, cache, agent>>,
           y.mode = x.mode, y.value = x.value, y.started = x.started,
           y.working = x.working, y.copy = x.copy
    PROVE  LinesFollow(y)'
  BY DEF LinesFollow, LineFollows, Stored, Ended, Holds, Dirty

LEMMA AgentSame ==
    ASSUME NEW n, NEW x, NEW y, AgentFollows(n, x), UNCHANGED <<agent, tlb>>,
           smmu'.fault = smmu.fault,
           y.tlb = x.tlb, y.fault = x.fault, y.started = x.started,
           y.working = x.working, y.copy = x.copy
    PROVE  AgentFollows(n, y)'
  BY DEF AgentFollows, AgentRests, AgentCopies, Ended, Busy

LEMMA EventsSame ==
    ASSUME NEW n, NEW x, NEW y, EventsFollow(n, x), UNCHANGED agent,
           memory'["events"] = memory["events"],
           smmu'.fault = smmu.fault, smmu'.pending = smmu.pending,
           smmu'.producer = smmu.producer,
           y.recorded = x.recorded, y.working = x.working, y.mode["events"] = x.mode["events"]
    PROVE  EventsFollow(n, y)'
  BY DEF EventsFollow, Told, Reporting, Due

LEMMA LocalsSame ==
    ASSUME NEW x, LocalsFollow(x), UNCHANGED test,
           smmu'.producer = smmu.producer, smmu'.size = smmu.size,
           smmu'.asked = smmu.asked, smmu'.acked = smmu.acked
    PROVE  LocalsFollow(x)'
  BY DEF LocalsFollow

LEMMA HeldAdds ==
    ASSUME NEW n, NEW held, NEW leaves, NEW more, held \in Held(n, leaves)
    PROVE  held \cup more \in Held(n, leaves \cup more)
  BY DEF Held

-----------------------------------------------------------------------------
(* Caches, SMMU and agent.                                                 *)

Apart(n, x) ==
    /\ n = test.name /\ IsSheet(x) /\ (x.working => CopyFits(n, x))
    /\ Contained /\ Follows(n, x)

LEMMA WriteBackFollows ==
    ASSUME NEW n, NEW x, Apart(n, x), WriteBack
    PROVE  Follows(n, x)'
  <1> USE DEF Apart, Follows, Contained
  <1>1. PICK k \in Lines :
            /\ Dirty(k)
            /\ memory' = [memory EXCEPT ![k] = cache[k].value]
            /\ cache' = [cache EXCEPT ![k] = Kept(k)]
            /\ UNCHANGED <<smmu, tlb, agent, test, verdict, chance>>
    BY DEF WriteBack
  <1>2. x.mode[k] = "written" /\ cache[k].value = x.value[k]
    BY <1>1 DEF LinesFollow, LineFollows, Holds, Dirty
  <1>3. /\ \A l \in Lines \ {k} : memory'[l] = memory[l] /\ cache'[l] = cache[l]
        /\ memory'[k] = cache[k].value
        /\ cache'[k].state = "clean" /\ cache'[k].value = cache[k].value
    BY <1>1 DEF Types, Kept, Copy
  <1>4. LineFollows(x, k)'
    BY <1>2, <1>3 DEF LineFollows, Holds, Dirty
  <1>5. \A l \in Lines \ {k} : LineFollows(x, l)'
    BY <1>1, <1>3 DEF LinesFollow, LineFollows, Holds, Dirty, Stored, Ended
  <1>6. EventsFollow(n, x)'
    <2>1. CASE k # "events"
      <3>1. memory'["events"] = memory["events"]
        BY <1>3, <2>1 DEF Lines
      <3> QED
        BY <1>1, <3>1, EventsSame
    <2>2. CASE k = "events"
      <3>1. x.recorded = "none" /\ ~Due(n, x)
        BY <1>2, <2>2 DEF IsSheet, Due, CopyFits, AgentFollows, AgentCopies
      <3> QED
        BY <1>1, <3>1 DEF EventsFollow, Due
    <2> QED
      BY <2>1, <2>2
  <1>7. AgentFollows(n, x)' /\ LocalsFollow(x)'
    BY <1>1, AgentSame, LocalsSame
  <1> QED
    BY <1>4, <1>5, <1>6, <1>7 DEF LinesFollow

LEMMA RefillFollows ==
    ASSUME NEW n, NEW x, Apart(n, x), Refill
    PROVE  Follows(n, x)'
  <1> USE DEF Apart, Follows, Contained
  <1>1. PICK k \in Lines :
            /\ ~Dirty(k)
            /\ cache' = [cache EXCEPT ![k] = Copy("clean", memory[k])]
            /\ UNCHANGED <<memory, smmu, tlb, agent, test, verdict, chance>>
    BY DEF Refill, Lines
  <1>2. /\ \A l \in Lines \ {k} : cache'[l] = cache[l]
        /\ cache'[k].state = "clean" /\ cache'[k].value = memory[k]
    BY <1>1 DEF Types, Copy
  <1>3. \A l \in Lines : LineFollows(x, l)'
    BY <1>1, <1>2 DEF LinesFollow, LineFollows, Holds, Dirty, Stored, Ended
  <1>4. AgentFollows(n, x)' /\ LocalsFollow(x)' /\ EventsFollow(n, x)'
    BY <1>1, AgentSame, LocalsSame, EventsSame
  <1> QED
    BY <1>3, <1>4 DEF LinesFollow

LEMMA AcknowledgeFollows ==
    ASSUME NEW n, NEW x, Apart(n, x), Acknowledge
    PROVE  Follows(n, x)'
  <1> USE DEF Apart, Follows, Contained
  <1>1. /\ smmu' = [smmu EXCEPT !.acked = smmu.asked]
        /\ UNCHANGED <<memory, cache, tlb, agent, test, verdict, chance>>
    BY DEF Acknowledge
  <1>2. /\ smmu'.fault = smmu.fault /\ smmu'.pending = smmu.pending
        /\ smmu'.producer = smmu.producer /\ smmu'.size = smmu.size
        /\ smmu'.asked = smmu.asked /\ smmu'.acked = smmu.asked
    BY <1>1 DEF Types
  <1>3. LinesFollow(x)' /\ AgentFollows(n, x)' /\ EventsFollow(n, x)'
    BY <1>1, <1>2, LinesSame, AgentSame, EventsSame
  <1>4. LocalsFollow(x)'
    BY <1>1, <1>2 DEF LocalsFollow
  <1> QED
    BY <1>3, <1>4

LEMMA AgentEndsFollows ==
    ASSUME NEW n, NEW x, Apart(n, x), AgentEnds
    PROVE  Follows(n, x)'
  <1> USE DEF Apart, Follows, Contained
  <1>1. /\ agent.state = "ending" /\ agent'.state = "idle"
        /\ agent'.to = agent.to /\ agent'.sid = agent.sid /\ agent'.data = agent.data
        /\ UNCHANGED <<memory, cache, smmu, tlb, test, verdict, chance>>
    BY DEF AgentEnds, Types
  <1>2. LinesFollow(x)'
    BY <1>1 DEF LinesFollow, LineFollows, Holds, Dirty, Stored, Ended
  <1>3. AgentFollows(n, x)'
    BY <1>1 DEF AgentFollows, AgentRests, AgentCopies, Ended, Busy
  <1>4. EventsFollow(n, x)' /\ LocalsFollow(x)'
    BY <1>1, LocalsSame DEF EventsFollow, Due, Told, Reporting
  <1> QED
    BY <1>2, <1>3, <1>4

LEMMA CommitEventFollows ==
    ASSUME NEW n, NEW x, Apart(n, x), CommitEvent
    PROVE  Follows(n, x)'
  <1> USE DEF Apart, Follows, Contained
  <1>1. /\ smmu.pending # "none"
        /\ memory' = [memory EXCEPT !["events"] = smmu.pending]
        /\ smmu' = [smmu EXCEPT !.pending = "none", !.producer = 1]
        /\ UNCHANGED <<cache, tlb, agent, test, verdict, chance>>
    BY DEF CommitEvent
  <1>2. /\ smmu'.fault = smmu.fault /\ smmu'.pending = "none"
        /\ smmu'.producer = 1 /\ smmu'.size = smmu.size
        /\ smmu'.asked = smmu.asked /\ smmu'.acked = smmu.acked
        /\ memory'["events"] = smmu.pending
        /\ \A l \in Lines \ {"events"} : memory'[l] = memory[l]
    BY <1>1 DEF Types, Lines
  <1>3. /\ x.recorded # "seen" /\ Due(n, x) /\ Reporting
        /\ x.mode["events"] = "foreign"
    BY <1>1 DEF EventsFollow, Told
  <1>4. x.started
    BY <1>3 DEF IsSheet, Due
  <1>5. LinesFollow(x)'
    BY <1>1, <1>2, <1>3, <1>4 DEF LinesFollow, LineFollows, Holds, Dirty, Stored, Ended
  <1>6. EventsFollow(n, x)'
    BY <1>1, <1>2, <1>3 DEF EventsFollow, Due, Told, Reporting
  <1>7. AgentFollows(n, x)' /\ LocalsFollow(x)'
    BY <1>1, <1>2, <1>3, AgentSame DEF LocalsFollow
  <1> QED
    BY <1>5, <1>6, <1>7

LEMMA ForgetFollows ==
    ASSUME NEW n, NEW x, Apart(n, x), Forget, ~Excused'
    PROVE  Follows(n, x)'
  <1> USE DEF Apart, Follows, Contained
  <1>1. /\ tlb' \subseteq tlb
        /\ UNCHANGED <<memory, cache, smmu, agent, test, verdict>>
    BY DEF Forget
  <1>2. ~Remembers(n)
    BY <1>1 DEF Forget, Excused
  <1>3. \A leaves : tlb \in Held(n, leaves) => tlb' \in Held(n, leaves)
    BY <1>1, <1>2 DEF Held
  <1>4. AgentFollows(n, x)'
    BY <1>1, <1>3 DEF AgentFollows, AgentRests, AgentCopies, Ended, Busy
  <1> QED
    BY <1>1, <1>4, LinesSame, EventsSame, LocalsSame

\* The agent gets the answers of the sheet.
LEMMA TranslateAnswers ==
    ASSUME NEW n, NEW x, Apart(n, x), Busy, ~Excused, NEW at, NEW kind
    PROVE  Translate(at, kind) = Answer("nothing", n, x.value["tables"], tlb, at, kind)
  <1> USE DEF Apart, Follows, Contained
  <1>1. x.working /\ CopyFits(n, x) /\ agent.sid = x.copy.sid /\ smmu.size = x.size
    BY DEF AgentFollows, AgentRests, AgentCopies, LocalsFollow
  <1>2. Guarded /\ smmu.defect = "nothing"
    BY DEF AtWork, Excused
  <1>3. \A l \in Lines \ {"events"} : x.mode[l] # "written" => memory[l] = x.value[l]
    BY DEF LinesFollow, LineFollows, Stored, Ended, Busy
  <1>4. memory["tables"] = x.value["tables"]
    BY <1>1, <1>3 DEF CopyFits, Lines
  <1>5. StreamMatches
    <2>1. CASE n[1] = "v2"
      BY <1>2, <2>1 DEF Guarded, StreamMatches
    <2>2. CASE n[1] # "v2"
      <3>1. n[1] = "v3"
        BY <2>2 DEF Types, Names
      <3>2. memory["stream"] = "entry"
        BY <1>1, <1>3, <3>1 DEF CopyFits, Lines
      <3> QED
        BY <1>1, <1>2, <2>2, <3>1, <3>2 DEF CopyFits, StreamMatches
    <2> QED
      BY <2>1, <2>2
  <1> QED
    BY <1>2, <1>4, <1>5 DEF Translate, Guarded

\* An access that is refused ends the copy as the sheet has it.
LEMMA TerminatedFollows ==
    ASSUME NEW n, NEW x, Apart(n, x), Busy, x.working, ~Reaches(x.copy),
           NEW y, Terminated(y), y.status = Status(x.copy),
           tlb \in Held(n, x.tlb \cup x.copy.read.leaf \cup x.copy.write.leaf),
           UNCHANGED <<cache, test>>
    PROVE  Follows(n, x)'
  <1> USE DEF Apart, Follows, Contained
  <1>1. /\ agent'.state = "aborted" /\ agent'.to = agent.to /\ agent'.sid = agent.sid
        /\ smmu'.fault = y.status
        /\ smmu'.pending = IF n[1] = "v3" /\ ~smmu.silent THEN y.status ELSE "none"
        /\ smmu'.producer = smmu.producer /\ smmu'.size = smmu.size
        /\ smmu'.asked = smmu.asked /\ smmu'.acked = smmu.acked
        /\ UNCHANGED <<memory, tlb>>
    BY DEF Terminated, Types
  <1>2. CopyFits(n, x) /\ x.recorded = "none" /\ smmu.pending = "none" /\ smmu.producer = 0
    BY DEF CopyFits, EventsFollow, Due, Busy
  <1>3. LinesFollow(x)'
    BY <1>1 DEF LinesFollow, LineFollows, Holds, Dirty, Stored, Ended
  <1>4. AgentFollows(n, x)'
    BY <1>1 DEF AgentFollows, AgentCopies, Busy, Ended
  <1>5. EventsFollow(n, x)'
    BY <1>1, <1>2 DEF EventsFollow, CopyFits, Due, Told, Reporting
  <1>6. LocalsFollow(x)'
    BY <1>1 DEF LocalsFollow
  <1> QED
    BY <1>3, <1>4, <1>5, <1>6

LEMMA AgentReadsFollows ==
    ASSUME NEW n, NEW x, Apart(n, x), AgentReads, ~Excused
    PROVE  Follows(n, x)'
  <1> USE DEF Apart, Follows, Contained
  <1> DEFINE c == x.copy
             y == Translate("source", "read")
  <1>1. Busy /\ agent.state = "reading" /\ UNCHANGED <<cache, test, verdict>>
    BY DEF AgentReads, Busy
  <1>2. /\ x.working /\ CopyFits(n, x) /\ tlb \in Held(n, x.tlb)
        /\ agent.to = c.to /\ agent.sid = c.sid /\ smmu.fault = x.fault
    BY <1>1 DEF AgentFollows, AgentRests, AgentCopies
  <1>3. y = c.read
    BY <1>1, <1>2, TranslateAnswers DEF CopyFits
  <1>4. CASE c.read.status # "ok"
    <2>1. /\ c.read.leaf = {} /\ c.write.leaf = {}
      BY <1>2, <1>4 DEF CopyFits
    <2>2. x.tlb \cup c.read.leaf \cup c.write.leaf = x.tlb
      BY <2>1
    <2>3. Terminated(y)
      BY <1>3, <1>4 DEF AgentReads
    <2>4. ~Reaches(c) /\ y.status = Status(c)
      BY <1>3, <1>4 DEF Reaches, Status
    <2> HIDE DEF y
    <2> QED
      BY <1>1, <1>2, <2>2, <2>3, <2>4, TerminatedFollows
  <1>5. CASE c.read.status = "ok"
    <2>1. c.read.page \in Buffers /\ memory[c.read.page] = c.data /\ c.read.page # "elsewhere"
      BY <1>1, <1>2, <1>5 DEF CopyFits, LinesFollow, LineFollows, Stored, Ended, Buffers, Lines
    <2>2. /\ agent' = [agent EXCEPT !.state = "writing", !.data = memory[c.read.page]]
          /\ tlb' = tlb \cup c.read.leaf
          /\ UNCHANGED <<memory, smmu>>
      BY <1>3, <1>5, <2>1 DEF AgentReads
    <2>3. /\ agent'.state = "writing" /\ agent'.data = c.data
          /\ agent'.to = c.to /\ agent'.sid = c.sid
      BY <1>2, <2>1, <2>2 DEF Types
    <2>4. tlb' \in Held(n, x.tlb \cup c.read.leaf)
      BY <1>2, <2>2, HeldAdds
    <2>5. LinesFollow(x)'
      BY <1>1, <2>2, <2>3 DEF LinesFollow, LineFollows, Holds, Dirty, Stored, Ended
    <2>6. AgentFollows(n, x)'
      BY <1>2, <1>5, <2>2, <2>3, <2>4 DEF AgentFollows, AgentCopies, Busy, Ended
    <2>7. EventsFollow(n, x)' /\ LocalsFollow(x)'
      BY <1>1, <2>2, <2>3, LocalsSame DEF EventsFollow, Due, Told, Reporting
    <2> QED
      BY <2>5, <2>6, <2>7
  <1> QED
    BY <1>4, <1>5

LEMMA AgentWritesFollows ==
    ASSUME NEW n, NEW x, Apart(n, x), AgentWrites, ~Excused
    PROVE  Follows(n, x)'
  <1> USE DEF Apart, Follows, Contained
  <1> DEFINE c == x.copy
             y == Translate(agent.to, "write")
  <1>1. Busy /\ agent.state = "writing" /\ UNCHANGED <<cache, test, verdict>>
    BY DEF AgentWrites, Busy
  <1>2. /\ x.working /\ CopyFits(n, x) /\ c.read.status = "ok"
        /\ tlb \in Held(n, x.tlb \cup c.read.leaf)
        /\ agent.to = c.to /\ agent.sid = c.sid /\ agent.data = c.data
        /\ smmu.fault = x.fault
    BY <1>1 DEF AgentFollows, AgentRests, AgentCopies
  <1>3. y = c.write
    BY <1>1, <1>2, TranslateAnswers DEF CopyFits
  <1>4. CASE c.write.status # "ok"
    <2>1. c.write.leaf = {}
      BY <1>2, <1>4 DEF CopyFits
    <2>2. x.tlb \cup c.read.leaf \cup c.write.leaf = x.tlb \cup c.read.leaf
      BY <2>1
    <2>3. Terminated(y)
      BY <1>3, <1>4 DEF AgentWrites
    <2>4. ~Reaches(c) /\ y.status = Status(c)
      BY <1>2, <1>3, <1>4 DEF Reaches, Status
    <2> HIDE DEF y
    <2> QED
      BY <1>1, <1>2, <2>2, <2>3, <2>4, TerminatedFollows
  <1>5. CASE c.write.status = "ok"
    <2>1. /\ c.write.page \in Buffers /\ c.write.page # "elsewhere"
          /\ x.mode[c.write.page] = "foreign" /\ Reaches(c)
      BY <1>2, <1>5 DEF CopyFits, Buffers, Lines, Reaches
    <2>2. /\ agent' = [agent EXCEPT !.state = "ending"]
          /\ memory' = [memory EXCEPT ![c.write.page] = agent.data]
          /\ tlb' = tlb \cup c.write.leaf
          /\ UNCHANGED smmu
      BY <1>3, <1>5, <2>1 DEF AgentWrites
    <2>3. /\ agent'.state = "ending" /\ agent'.to = c.to /\ agent'.sid = c.sid
          /\ memory'[c.write.page] = c.data
          /\ \A l \in Lines \ {c.write.page} : memory'[l] = memory[l]
      BY <1>2, <2>1, <2>2 DEF Types, Buffers
    <2>4. tlb' \in Held(n, x.tlb \cup c.read.leaf \cup c.write.leaf)
      BY <1>2, <2>2, HeldAdds
    <2>5. LinesFollow(x)'
      BY <1>1, <1>2, <2>1, <2>3 DEF LinesFollow, LineFollows, Holds, Dirty, Stored, Ended
    <2>6. AgentFollows(n, x)'
      BY <1>2, <2>1, <2>2, <2>3, <2>4 DEF AgentFollows, AgentCopies, Busy, Ended
    <2>7. memory'["events"] = memory["events"]
      BY <2>1, <2>3 DEF Buffers, Lines
    <2>8. EventsFollow(n, x)' /\ LocalsFollow(x)'
      BY <1>1, <2>2, <2>3, <2>7, LocalsSame DEF EventsFollow, Due, Told, Reporting
    <2> QED
      BY <2>5, <2>6, <2>8
  <1> QED
    BY <1>4, <1>5

\* Whatever comes late, the state follows the sheet it followed.
LEMMA EnvironmentFollows ==
    ASSUME NEW n, NEW x, Apart(n, x), Environment, ~Excused, ~Excused'
    PROVE  Follows(n, x)'
  BY WriteBackFollows, RefillFollows, AcknowledgeFollows, AgentReadsFollows,
     AgentWritesFollows, AgentEndsFollows, CommitEventFollows, ForgetFollows DEF Environment

-----------------------------------------------------------------------------
(* The steps of a body.                                                    *)

\* The test is at a place of its script and follows the sheet of it.
Stands(n, p, x, s) ==
    /\ n = test.name /\ p = test.pc /\ s = Step /\ s = Body(n)[p]
    /\ IsSheet(x) /\ Fits(n, x, s)
    /\ Contained /\ Follows(n, x) /\ verdict = "running"

\* It passes, or goes to the next place and follows the sheet of that.
Advances(n, p, x, s) ==
    \/ verdict' = "pass"
    \/ /\ verdict' = "running" /\ s.do \notin Ending
       /\ test'.name = n /\ test'.pc = Onto(p, x, s)
       /\ Follows(n, After(n, x, s))'

LEMMA StandsApart ==
    ASSUME NEW n, NEW p, NEW x, NEW s, Stands(n, p, x, s)
    PROVE  Apart(n, x)
  BY DEF Stands, Apart, Fits

\* Two sheets that agree on all but lines.
Alike(x, y) ==
    /\ y.tlb = x.tlb /\ y.size = x.size /\ y.fault = x.fault /\ y.fresh = x.fresh
    /\ y.copy = x.copy /\ y.started = x.started /\ y.working = x.working
    /\ y.recorded = x.recorded /\ y.completed = x.completed /\ y.actual = x.actual
    /\ y.good = x.good

\* Steps that go to the next place, and their sheets.
LEMMA GoesTo ==
    ASSUME Types, NEW locals, IsTest(locals), Goes(locals)
    PROVE  /\ test'.name = locals.name /\ test'.pc = locals.pc + 1
           /\ test'.completed = locals.completed /\ test'.actual = locals.actual
           /\ test'.good = locals.good
           /\ verdict' = verdict
  BY DEF Goes, IsTest

LEMMA GoesBy ==
    ASSUME NEW n, NEW p, NEW x, NEW s, Stands(n, p, x, s), Goes(test)
    PROVE  /\ test'.name = n /\ test'.pc = p + 1 /\ verdict' = "running"
           /\ test'.completed = test.completed /\ test'.actual = test.actual
           /\ test'.good = test.good
  <1>1. Types /\ IsTest(test) /\ n = test.name /\ p = test.pc /\ verdict = "running"
    BY DEF Stands, Contained, Types
  <1> QED
    BY ONLY <1>1, GoesTo, Goes(test)

\* No copy is under way but where the test waits for it.
LEMMA Resting ==
    ASSUME NEW n, NEW p, NEW x, NEW s, Stands(n, p, x, s), s.do \notin {"poll", "engine"}
    PROVE  ~x.working /\ ~Busy /\ AgentRests(n, x) /\ Onto(p, x, s) \in {p + 1, p + 1 + s.over}
           /\ (s.do # "observe" => Onto(p, x, s) = p + 1)
  BY DEF Stands, Fits, Follows, AgentFollows, AgentRests, Onto

LEMMA DoStoreFollows ==
    ASSUME NEW n, NEW p, NEW x, NEW s, Stands(n, p, x, s), DoStore
    PROVE  Advances(n, p, x, s)
  <1> DEFINE y == After(n, x, s)
  <1>1. /\ s.do = "store" /\ Goes(test)
        /\ cache' = [cache EXCEPT ![s.line] = Copy("dirty", s.value)]
        /\ UNCHANGED <<memory, smmu, tlb, agent, chance>>
    BY DEF DoStore, AtStep, Stands
  <1>2. s.line \in Lines /\ (s.line = "events" => ~x.started)
    BY <1>1 DEF Stands, Fits
  <1>3. y = [x EXCEPT !.mode = [@ EXCEPT ![s.line] = "written"],
                      !.value = [@ EXCEPT ![s.line] = s.value]]
    BY <1>1 DEF After, Registering
  <1>4. /\ y.mode[s.line] = "written" /\ y.value[s.line] = s.value
        /\ \A l \in Lines \ {s.line} : y.mode[l] = x.mode[l] /\ y.value[l] = x.value[l]
        /\ Alike(x, y)
    <2>1. IsSheet(x)
      BY DEF Stands
    <2> HIDE DEF y
    <2> QED
      BY ONLY <1>2, <1>3, <2>1 DEF IsSheet, Alike
  <1> HIDE DEF y
  <1>5. /\ \A l \in Lines \ {s.line} : cache'[l] = cache[l]
        /\ cache'[s.line].state = "dirty" /\ cache'[s.line].value = s.value
    BY <1>1, <1>2 DEF Stands, Contained, Types, Copy
  <1>6. ~x.working
    BY <1>1, Resting
  <1>7. LinesFollow(y)'
    BY <1>1, <1>4, <1>5, <1>6
       DEF Stands, Follows, LinesFollow, LineFollows, Holds, Dirty, Stored, Ended, Alike
  <1>8. AgentFollows(n, y)'
    BY <1>1, <1>4, AgentSame DEF Stands, Follows, Alike
  <1>9. EventsFollow(n, y)'
    <2>1. smmu.pending # "none" => y.mode["events"] = x.mode["events"]
      BY <1>2, <1>4 DEF Stands, Follows, EventsFollow, Due, IsSheet, Lines
    <2> QED
      BY <1>1, <1>4, <2>1 DEF Stands, Follows, EventsFollow, Told, Reporting, Due, Alike
  <1>10. LocalsFollow(y)'
    BY <1>1, <1>4, GoesBy DEF Stands, Follows, LocalsFollow, Alike
  <1> QED
    BY <1>1, <1>7, <1>8, <1>9, <1>10, Resting, GoesBy DEF y, Advances, Follows, Ending

LEMMA DoCleanFollows ==
    ASSUME NEW n, NEW p, NEW x, NEW s, Stands(n, p, x, s), DoClean
    PROVE  Advances(n, p, x, s)
  <1> DEFINE y == After(n, x, s)
             k == s.line
  <1>1. /\ s.do = "clean" /\ Goes(test)
        /\ memory' = [memory EXCEPT ![k] = IF Dirty(k) THEN Seen(k) ELSE @]
        /\ cache' = [cache EXCEPT ![k] = Kept(k)]
        /\ UNCHANGED <<smmu, tlb, agent, chance>>
    BY DEF DoClean, AtStep, Stands
  <1>2. k \in Lines /\ x.mode[k] # "foreign"
    BY <1>1 DEF Stands, Fits
  <1>3. y = [x EXCEPT !.mode = [@ EXCEPT ![k] = "settled"]]
    BY <1>1 DEF After, Registering
  <1>4. /\ y.mode[k] = "settled"
        /\ \A l \in Lines \ {k} : y.mode[l] = x.mode[l]
        /\ y.value = x.value
        /\ Alike(x, y)
    <2>1. IsSheet(x)
      BY DEF Stands
    <2> HIDE DEF y
    <2> QED
      BY ONLY <1>2, <1>3, <2>1 DEF IsSheet, Alike
  <1> HIDE DEF y
  <1>5. /\ \A l \in Lines \ {k} : cache'[l] = cache[l] /\ memory'[l] = memory[l]
        /\ memory'[k] = IF Dirty(k) THEN cache[k].value ELSE memory[k]
        /\ cache'[k].value = cache[k].value
        /\ cache'[k].state = IF Dirty(k) THEN "clean" ELSE cache[k].state
    BY <1>1, <1>2 DEF Stands, Contained, Types, Kept, Copy, Seen, Dirty
  <1>6. ~x.working
    BY <1>1, Resting
  <1>7. LinesFollow(y)'
    <2>1. /\ \A l \in Lines : LineFollows(x, l)
          /\ x.mode[k] \in {"written", "settled"}
          /\ ~x.working /\ ~y.working /\ y.started = x.started
      BY <1>2, <1>4, <1>6 DEF Stands, Follows, LinesFollow, IsSheet, Alike
    <2>2. LineFollows(y, k)'
      BY <1>2, <1>4, <1>5, <2>1 DEF LineFollows, Holds, Dirty, Stored
    <2>3. \A l \in Lines \ {k} : LineFollows(y, l)'
      BY <1>4, <1>5, <2>1 DEF LineFollows, Holds, Dirty, Stored
    <2> QED
      BY <2>2, <2>3 DEF LinesFollow
  <1>8. AgentFollows(n, y)'
    BY <1>1, <1>4, AgentSame DEF Stands, Follows, Alike
  <1>9. EventsFollow(n, y)'
    <2>1. smmu.pending # "none" => y.mode["events"] = x.mode["events"]
      BY <1>2, <1>4 DEF Stands, Follows, EventsFollow, Lines
    <2>2. x.recorded # "none" => memory'["events"] = memory["events"]
      BY <1>2, <1>5 DEF Stands, Follows, IsSheet, LinesFollow, LineFollows, Lines
    <2> QED
      BY <1>1, <1>4, <1>6, <2>1, <2>2
         DEF Stands, Follows, EventsFollow, Told, Reporting, Due, IsSheet, Alike
  <1>10. LocalsFollow(y)'
    BY <1>1, <1>4, GoesBy DEF Stands, Follows, LocalsFollow, Alike
  <1> QED
    BY <1>1, <1>7, <1>8, <1>9, <1>10, Resting, GoesBy DEF y, Advances, Follows, Ending

LEMMA DoDropFollows ==
    ASSUME NEW n, NEW p, NEW x, NEW s, Stands(n, p, x, s), DoDrop
    PROVE  Advances(n, p, x, s)
  <1> DEFINE y == After(n, x, s)
             k == s.line
  <1>1. /\ s.do = "drop" /\ Goes(test)
        /\ cache' = [cache EXCEPT ![k] = Absent]
        /\ UNCHANGED <<memory, smmu, tlb, agent, chance>>
    BY DEF DoDrop, AtStep, Stands
  <1>2. k \in Lines /\ x.mode[k] # "written" /\ (k = "events" => x.recorded # "due")
    BY <1>1 DEF Stands, Fits
  <1>3. y = [x EXCEPT !.mode = [@ EXCEPT ![k] = "settled"]]
    BY <1>1 DEF After, Registering
  <1>4. /\ y.mode[k] = "settled"
        /\ \A l \in Lines \ {k} : y.mode[l] = x.mode[l]
        /\ y.value = x.value
        /\ Alike(x, y)
    <2>1. IsSheet(x)
      BY DEF Stands
    <2> HIDE DEF y
    <2> QED
      BY ONLY <1>2, <1>3, <2>1 DEF IsSheet, Alike
  <1> HIDE DEF y
  <1>5. /\ \A l \in Lines \ {k} : cache'[l] = cache[l]
        /\ cache'[k].state = "absent"
    BY <1>1, <1>2 DEF Stands, Contained, Types, Absent
  <1>6. ~x.working
    BY <1>1, Resting
  <1>7. LinesFollow(y)'
    BY <1>1, <1>2, <1>4, <1>5, <1>6
       DEF Stands, Follows, LinesFollow, LineFollows, Holds, Dirty, Stored, Alike
  <1>8. AgentFollows(n, y)'
    BY <1>1, <1>4, AgentSame DEF Stands, Follows, Alike
  <1>9. EventsFollow(n, y)'
    <2>1. smmu.pending # "none" => y.mode["events"] = x.mode["events"]
      BY <1>2, <1>4, <1>6 DEF Stands, Follows, EventsFollow, Due, Told, Lines
    <2> QED
      BY <1>1, <1>4, <2>1 DEF Stands, Follows, EventsFollow, Told, Reporting, Due, Alike
  <1>10. LocalsFollow(y)'
    BY <1>1, <1>4, GoesBy DEF Stands, Follows, LocalsFollow, Alike
  <1> QED
    BY <1>1, <1>7, <1>8, <1>9, <1>10, Resting, GoesBy DEF y, Advances, Follows, Ending

\* A step of the test alone: nothing it does not read has changed.
LEMMA OthersFollow ==
    ASSUME NEW n, NEW x, NEW y, Follows(n, x),
           y.mode = x.mode, y.value = x.value, y.started = x.started, y.working = x.working,
           y.copy = x.copy, y.recorded = x.recorded, y.tlb = x.tlb, y.fault = x.fault,
           UNCHANGED <<memory, cache, tlb, agent>>,
           smmu'.fault = smmu.fault, smmu'.pending = smmu.pending,
           smmu'.producer = smmu.producer
    PROVE  LinesFollow(y)' /\ AgentFollows(n, y)' /\ EventsFollow(n, y)'
  BY LinesSame, AgentSame, EventsSame DEF Follows

LEMMA CheckResetFollows ==
    ASSUME NEW n, NEW p, NEW x, NEW s, Stands(n, p, x, s), CheckReset
    PROVE  Advances(n, p, x, s)
  <1>1. s.do = "baseline" /\ UNCHANGED <<memory, cache, smmu, tlb, agent, chance>>
    BY DEF CheckReset, AtStep, Stands
  <1>2. /\ x.fresh /\ ~x.started
        /\ \A l \in Lines : x.mode[l] # "foreign" /\ x.value[l] = "zero"
    BY <1>1 DEF Stands, Fits, Known
  <1>3. IsSheet(x) /\ LinesFollow(x) /\ AgentRests(n, x) /\ EventsFollow(n, x)
        /\ LocalsFollow(x) /\ ~x.working
    BY <1>1, Resting DEF Stands, Follows
  <1>4. \A l \in Lines : Seen(l) = "zero"
    BY <1>2, <1>3 DEF LinesFollow, LineFollows, Holds, Dirty, Stored, Seen, IsSheet
  <1>5. agent.state = "idle" /\ smmu.asked = {} /\ smmu.acked = {} /\ smmu.producer = 0
    BY <1>2, <1>3 DEF AgentRests, LocalsFollow, EventsFollow, Due, IsSheet
  <1>6. Goes(test)
    BY <1>4, <1>5 DEF CheckReset
  <1>7. After(n, x, s) = x
    BY <1>1 DEF After, Registering
  <1>8. LinesFollow(x)' /\ AgentFollows(n, x)' /\ EventsFollow(n, x)'
    BY <1>1, OthersFollow DEF Stands
  <1>9. LocalsFollow(x)'
    BY <1>1, <1>3, <1>6, GoesBy DEF LocalsFollow
  <1> QED
    BY <1>1, <1>6, <1>7, <1>8, <1>9, GoesBy, Resting DEF Advances, Follows, Ending

LEMMA DoRegisterFollows ==
    ASSUME NEW n, NEW p, NEW x, NEW s, Stands(n, p, x, s), DoRegister
    PROVE  Advances(n, p, x, s)
  <1> DEFINE y == After(n, x, s)
  <1>1. /\ s.do \in Registering
        /\ Goes(test) /\ UNCHANGED <<memory, cache, tlb, agent, chance>>
    BY DEF DoRegister, AtStep, Stands, Registering
  <1>2. /\ IsSheet(x) /\ Types /\ Follows(n, x) /\ s = Step
        /\ ~x.working /\ smmu.fault = x.fault /\ s.do \notin Ending /\ s.do # "observe"
    BY <1>1, Resting DEF Stands, Contained, AgentRests, Registering, Ending
  <1>3. /\ smmu'.pending = smmu.pending /\ smmu'.producer = smmu.producer
        /\ smmu'.fault = IF s.do \in {"context", "restore"} THEN "none" ELSE smmu.fault
        /\ smmu'.size = IF s.do = "size" THEN s.size ELSE smmu.size
    BY <1>2 DEF DoRegister, AtStep, Types
  <1>4. y = [x EXCEPT !.fresh = FALSE,
                      !.fault = IF s.do \in {"context", "restore"} THEN "none" ELSE @,
                      !.size = IF s.do = "size" THEN s.size ELSE @]
    BY <1>1 DEF After, Registering
  <1> HIDE DEF y
  <1>5. /\ y.fault = smmu'.fault /\ y.fresh = FALSE
        /\ y.size = IF s.do = "size" THEN s.size ELSE x.size
        /\ y.mode = x.mode /\ y.value = x.value /\ y.started = x.started
        /\ y.working = x.working /\ y.copy = x.copy /\ y.recorded = x.recorded
        /\ y.tlb = x.tlb /\ y.completed = x.completed /\ y.actual = x.actual
        /\ y.good = x.good
    BY <1>2, <1>3, <1>4 DEF IsSheet
  <1>6. LinesFollow(y)'
    BY <1>1, <1>2, <1>5, LinesSame DEF Follows
  <1>7. AgentFollows(n, y)'
    BY <1>1, <1>2, <1>5 DEF Follows, AgentFollows, AgentRests, Busy
  <1>8. EventsFollow(n, y)'
    <2>1. x.recorded = "none"
      BY <1>1, <1>2 DEF Stands, Fits, Registering
    <2> QED
      BY <1>1, <1>2, <1>3, <1>5, <2>1 DEF Follows, EventsFollow, Due, Told, Reporting
  <1>9. LocalsFollow(y)'
    BY <1>1, <1>2, <1>3, <1>5, GoesBy DEF Follows, LocalsFollow
  <1>10. Onto(p, x, s) = p + 1
    BY <1>1, Resting DEF Registering
  <1> QED
    BY <1>1, <1>2, <1>6, <1>7, <1>8, <1>9, <1>10, GoesBy DEF y, Advances, Follows

LEMMA AwaitAckFollows ==
    ASSUME NEW n, NEW p, NEW x, NEW s, Stands(n, p, x, s), AwaitAck, ~Excused'
    PROVE  Advances(n, p, x, s)
  <1>1. /\ s.do = "acknowledged" /\ Goes(test)
        /\ UNCHANGED <<memory, cache, smmu, tlb, agent, chance>>
    BY DEF AwaitAck, AtStep, Stands, Excused
  <1>2. After(n, x, s) = x
    BY <1>1 DEF After, Registering
  <1>3. LinesFollow(x)' /\ AgentFollows(n, x)' /\ EventsFollow(n, x)'
    BY <1>1, OthersFollow DEF Stands
  <1>4. LocalsFollow(x)'
    BY <1>1, GoesBy DEF Stands, Follows, LocalsFollow
  <1> QED
    BY <1>1, <1>2, <1>3, <1>4, GoesBy, Resting DEF Advances, Follows, Ending

LEMMA InvalidationFollows ==
    ASSUME NEW n, NEW p, NEW x, NEW s, Stands(n, p, x, s),
           InvalidateEverything \/ DoInvalidate, ~Excused'
    PROVE  Advances(n, p, x, s)
  <1> DEFINE y == After(n, x, s)
             Spared(leaves) == IF s.do = "initialise" THEN {} ELSE {l \in leaves : l.at # s.at}
  <1>1. /\ s.do \in {"initialise", "invalidate"} /\ Goes(test)
        /\ UNCHANGED <<memory, cache, smmu, agent, chance>>
    BY DEF InvalidateEverything, DoInvalidate, AtStep, Stands
  <1>2. tlb' = Spared(tlb)
    BY <1>1 DEF InvalidateEverything, DoInvalidate, AtStep, Stands, Excused
  <1>3. IsSheet(x) /\ AgentRests(n, x) /\ ~x.working /\ LinesFollow(x) /\ EventsFollow(n, x)
        /\ LocalsFollow(x)
    BY <1>1, Resting DEF Stands, Follows
  <1>4. y = [x EXCEPT !.tlb = Spared(x.tlb)]
    BY <1>1, <1>3 DEF After, Registering, IsSheet
  <1> HIDE DEF y
  <1>5. /\ y.tlb = Spared(x.tlb)
        /\ y.mode = x.mode /\ y.value = x.value /\ y.started = x.started
        /\ y.working = x.working /\ y.copy = x.copy /\ y.recorded = x.recorded
        /\ y.fault = x.fault /\ y.fresh = x.fresh /\ y.size = x.size
        /\ y.completed = x.completed /\ y.actual = x.actual /\ y.good = x.good
    BY <1>3, <1>4 DEF IsSheet
  <1>6. tlb' \in Held(n, y.tlb)
    BY <1>2, <1>3, <1>5 DEF AgentRests, Held
  <1> HIDE DEF Spared
  <1>7. AgentFollows(n, y)'
    BY <1>1, <1>3, <1>5, <1>6 DEF AgentFollows, AgentRests, Busy
  <1>8. LinesFollow(y)' /\ EventsFollow(n, y)'
    BY <1>1, <1>3, <1>5, LinesSame, EventsSame
  <1>9. LocalsFollow(y)'
    BY <1>1, <1>3, <1>5, GoesBy DEF LocalsFollow
  <1> QED
    BY <1>1, <1>7, <1>8, <1>9, GoesBy, Resting DEF y, Advances, Follows, Ending

LEMMA DoStartFollows ==
    ASSUME NEW n, NEW p, NEW x, NEW s, Stands(n, p, x, s), DoStart, ~Excused'
    PROVE  Advances(n, p, x, s)
  <1> DEFINE y == After(n, x, s)
             c == CopyFrom(n, x, s)
  <1>1. /\ s.do = "start" /\ Goes(test) /\ UNCHANGED <<memory, cache, smmu, tlb>>
    BY DEF DoStart, AtStep, Stands
  <1>2. /\ IsSheet(x) /\ AgentRests(n, x) /\ ~x.working /\ LinesFollow(x) /\ EventsFollow(n, x)
        /\ LocalsFollow(x) /\ n = test.name /\ Types
    BY <1>1, Resting DEF Stands, Follows, Contained
  <1>3. /\ x.started => Remembers(n)
        /\ x.recorded = "none" /\ x.mode["events"] # "written"
        /\ n[1] = "v2" => x.mode["program"] # "written" /\ x.value["program"] = "copy"
        /\ Reaches(c) => x.mode[c.write.page] # "written"
    BY <1>1 DEF Stands, Fits
  <1>4. agent.state \in {"idle", "aborted"}
    <2> SUFFICES ASSUME agent.state \notin {"idle", "aborted"}
                 PROVE  FALSE
      OBVIOUS
    <2>1. x.started
      BY <1>2 DEF AgentRests
    <2>2. "missed" \in chance' /\ test'.name = n
      BY <1>1, <1>2, GoesBy DEF DoStart
    <2> QED
      BY <1>3, <2>1, <2>2 DEF Excused
  <1>5. n[1] = "v2" => memory["program"] = "copy"
    BY <1>2, <1>3 DEF LinesFollow, LineFollows, Stored, Lines
  <1>6. agent' = [agent EXCEPT !.to = s.to, !.sid = s.sid, !.state = "reading"]
    BY <1>2, <1>4, <1>5 DEF DoStart, Stands
  <1>7. agent'.state = "reading" /\ agent'.to = s.to /\ agent'.sid = s.sid
    BY <1>2, <1>6 DEF Types
  <1>8. c.to = s.to /\ c.sid = s.sid
    BY DEF CopyFrom, NoCopy
  <1>9. y = Started(n, x, s)
    BY <1>1 DEF After, Registering
  <1>10. /\ y.copy = c /\ y.started = TRUE /\ y.working = TRUE
         /\ y.value = x.value /\ y.tlb = x.tlb /\ y.recorded = x.recorded
         /\ y.fault = x.fault /\ y.fresh = x.fresh /\ y.size = x.size
         /\ y.completed = x.completed /\ y.actual = x.actual /\ y.good = x.good
         /\ y.mode = IF Reaches(c) THEN [x.mode EXCEPT ![c.write.page] = "foreign"]
                     ELSE IF n[1] = "v3" THEN [x.mode EXCEPT !["events"] = "foreign"]
                     ELSE x.mode
    <2> HIDE DEF c
    <2>1. y = [x EXCEPT !.copy = c, !.started = TRUE, !.working = TRUE,
                  !.mode = IF Reaches(c) THEN [@ EXCEPT ![c.write.page] = "foreign"]
                           ELSE IF n[1] = "v3" THEN [@ EXCEPT !["events"] = "foreign"]
                           ELSE @]
      BY <1>9 DEF Started, c
    <2> HIDE DEF y
    <2> QED
      BY <1>2, <2>1 DEF IsSheet
  <1> HIDE DEF c, y
  <1>11. \A l \in Lines : \/ y.mode[l] = x.mode[l]
                          \/ y.mode[l] = "foreign" /\ x.mode[l] # "written"
    BY <1>2, <1>3, <1>10 DEF IsSheet
  <1>12. LinesFollow(y)'
    BY <1>1, <1>2, <1>7, <1>10, <1>11
       DEF LinesFollow, LineFollows, Holds, Dirty, Stored, Ended
  <1>13. AgentFollows(n, y)'
    BY <1>1, <1>2, <1>7, <1>8, <1>10
       DEF AgentFollows, AgentRests, AgentCopies, Busy, Ended
  <1>14. EventsFollow(n, y)'
    BY <1>1, <1>2, <1>3, <1>7, <1>10 DEF EventsFollow, Due, Told, Reporting
  <1>15. LocalsFollow(y)'
    BY <1>1, <1>2, <1>3, <1>10, GoesBy DEF LocalsFollow
  <1> QED
    BY <1>1, <1>12, <1>13, <1>14, <1>15, GoesBy, Resting DEF y, Advances, Follows, Ending

\* What a wait for a copy adds to a sheet.
Waited(n, x, y) ==
    LET c == x.copy
    IN  /\ y.working = FALSE /\ y.started = x.started
        /\ y.value = IF Reaches(c) THEN [x.value EXCEPT ![c.write.page] = c.data] ELSE x.value
        /\ y.tlb = x.tlb \cup c.read.leaf \cup c.write.leaf
        /\ y.fault = IF Reaches(c) THEN x.fault ELSE Status(c)
        /\ y.recorded = IF Reaches(c) \/ n[1] = "v2" THEN x.recorded ELSE "due"
        /\ y.fresh = x.fresh /\ y.size = x.size /\ y.actual = x.actual /\ y.good = x.good

\* When the agent is done, it has done what the sheet has of the copy.
LEMMA CopyEnds ==
    ASSUME NEW n, NEW p, NEW x, NEW s, Stands(n, p, x, s), s.do \in {"poll", "engine"}, ~Busy,
           NEW y, Waited(n, x, y), y.mode["events"] = x.mode["events"]
    PROVE  /\ Ended <=> Reaches(x.copy)
           /\ \A l \in Buffers : x.mode[l] # "written" => memory[l] = y.value[l]
           /\ UNCHANGED <<memory, smmu, tlb, agent>> =>
                 AgentFollows(n, y)' /\ EventsFollow(n, y)'
  <1> DEFINE c == x.copy
  <1>1. /\ IsSheet(x) /\ CopyFits(n, x) /\ LinesFollow(x) /\ AgentFollows(n, x)
        /\ EventsFollow(n, x) /\ Types /\ n \in Names
    BY DEF Stands, Fits, Follows, Contained, Types
  <1>2. /\ x.working /\ x.recorded = "none" /\ x.started
        /\ Reaches(c) => c.write.page \in Buffers
        /\ n[1] \in {"v2", "v3"}
    BY <1>1 DEF CopyFits, IsSheet, Reaches, Buffers, Lines, Names
  <1>3. /\ agent.state \in {"idle", "ending", "aborted"}
        /\ Ended => Reaches(c)
        /\ agent.state = "aborted" => ~Reaches(c)
        /\ tlb \in Held(n, y.tlb) /\ smmu.fault = y.fault
    BY <1>1, <1>2 DEF AgentFollows, AgentCopies, Busy, Types, Waited, Ended
  <1>4. Ended <=> Reaches(c)
    BY <1>3 DEF Ended
  <1>5. \A l \in Buffers : x.mode[l] # "written" => memory[l] = y.value[l]
    <2>1. ASSUME NEW l \in Buffers, x.mode[l] # "written"
          PROVE  memory[l] = Stored(x, l)
      BY <1>1, <2>1 DEF LinesFollow, LineFollows, Buffers
    <2>2. ASSUME NEW l \in Buffers
          PROVE  y.value[l] = IF Reaches(c) /\ l = c.write.page THEN c.data ELSE x.value[l]
      BY <1>1, <1>2, <2>2 DEF Waited, IsSheet, Buffers
    <2> QED
      BY <1>2, <1>4, <2>1, <2>2 DEF Stored
  <1>6. ASSUME UNCHANGED <<memory, smmu, tlb, agent>>
        PROVE  AgentFollows(n, y)' /\ EventsFollow(n, y)'
    <2>1. AgentFollows(n, y)'
      BY <1>2, <1>3, <1>6 DEF AgentFollows, AgentRests, Busy, Waited
    <2>2. Due(n, y)' <=> Due(n, x)
      BY <1>2, <1>3, <1>4, <1>6 DEF Due, Waited, Ended
    <2>3. y.recorded # "seen"
      BY <1>2 DEF Waited
    <2> QED
      BY <1>1, <1>2, <1>6, <2>1, <2>2, <2>3 DEF EventsFollow, Told, Reporting
  <1> QED
    BY <1>4, <1>5, <1>6

LEMMA PollEngineFollows ==
    ASSUME NEW n, NEW p, NEW x, NEW s, Stands(n, p, x, s), PollEngine, ~Excused'
    PROVE  Advances(n, p, x, s)
  <1> DEFINE y == After(n, x, s)
             c == x.copy
  <1>1. s.do = "engine" /\ UNCHANGED <<memory, cache, smmu, tlb, agent>>
    BY DEF PollEngine, AtStep, Stands
  <1>2. /\ IsSheet(x) /\ CopyFits(n, x) /\ LinesFollow(x) /\ LocalsFollow(x) /\ Types
        /\ n = test.name /\ p = test.pc /\ n \in Names /\ p \in Nat /\ verdict = "running"
        /\ Reaches(c) => s.event = "none"
        /\ s = Step
    BY <1>1 DEF Stands, Fits, Follows, Contained, Types
  <1>3. ~Busy
    BY <1>1 DEF PollEngine, Excused, Quiet, Busy
  <1>4. Waited(n, x, y) /\ y.mode = x.mode /\ y.completed = IF Reaches(c) THEN x.completed ELSE TRUE
    <2> DEFINE k == Copied(n, x)
               done == IF Reaches(c) THEN k.completed ELSE TRUE
    <2>1. y = [k EXCEPT !.completed = done]
      BY <1>1 DEF After, Registering
    <2>2. k.completed = x.completed
      BY ONLY <1>2 DEF IsSheet, Copied
    <2>3. Waited(n, x, y) /\ y.mode = x.mode /\ y.completed = done
      <3> HIDE DEF done, y
      <3>1. y = [Copied(n, x) EXCEPT !.completed = done]
        BY <2>1
      <3> QED
        BY ONLY <1>2, <3>1 DEF IsSheet, Copied, Waited
    <2> QED
      BY <2>2, <2>3
  <1> HIDE DEF y
  <1>5. /\ Ended <=> Reaches(c)
        /\ \A l \in Buffers : x.mode[l] # "written" => memory[l] = y.value[l]
        /\ AgentFollows(n, y)' /\ EventsFollow(n, y)'
    BY <1>1, <1>3, <1>4, CopyEnds
  <1>6. LinesFollow(y)'
    <2>1. \A l \in Lines : x.mode[l] = "written" => y.value[l] = x.value[l]
      BY <1>2, <1>4 DEF Waited, CopyFits, Reaches, IsSheet, Lines
    <2>2. x.started /\ y.started /\ ~y.working
      BY <1>2, <1>4 DEF Waited, CopyFits, IsSheet
    <2> QED
      BY <1>1, <1>2, <1>4, <1>5, <2>1, <2>2
         DEF LinesFollow, LineFollows, Holds, Dirty, Stored, Buffers
  <1>7. \/ /\ Reaches(c) /\ Goes([test EXCEPT !.pc = p + s.events])
        \/ ~Reaches(c) /\ Goes([test EXCEPT !.completed = TRUE])
    <2>1. CASE Ended
      <3>1. s.event = "none" /\ agent.state # "aborted" /\ Quiet
        BY <1>2, <1>5, <2>1 DEF Ended, Quiet
      <3>2. Goes([test EXCEPT !.pc = @ + Step.events])
        BY <1>2, <3>1 DEF PollEngine
      <3> QED
        BY <1>2, <1>5, <2>1, <3>2 DEF Types, IsTest
    <2>2. CASE ~Ended
      <3>1. agent.state \notin {"ending", "idle"} /\ Quiet
        BY <1>2, <1>3, <2>2 DEF Ended, Quiet, Busy, Types
      <3> QED
        BY <1>5, <2>2, <3>1 DEF PollEngine
    <2> QED
      BY <2>1, <2>2
  <1>8. /\ test'.name = n /\ test'.pc = Onto(p, x, s) /\ verdict' = "running"
        /\ test'.completed = y.completed /\ test'.actual = test.actual /\ test'.good = test.good
    <2>1. CASE Reaches(c)
      <3>1. IsTest([test EXCEPT !.pc = p + s.events])
        BY <1>2 DEF Types, IsTest
      <3>2. s.events \in Nat
        BY <1>1, <1>2, Disciplined DEF IsDisciplined, PollEngine, AtStep, Step, Types
      <3>3. Onto(p, x, s) = p + s.events + 1
        BY <1>1, <1>2, <2>1, <3>2 DEF Onto
      <3>4. /\ test'.name = test.name /\ test'.pc = p + s.events + 1
            /\ test'.completed = test.completed /\ test'.actual = test.actual
            /\ test'.good = test.good /\ verdict' = verdict
        BY <1>2, <1>7, <2>1, <3>1 DEF Goes, Types, IsTest
      <3> QED
        BY <1>2, <1>4, <2>1, <3>3, <3>4 DEF LocalsFollow
    <2>2. CASE ~Reaches(c)
      <3>1. /\ test'.name = test.name /\ test'.pc = p + 1
            /\ test'.completed = TRUE /\ test'.actual = test.actual
            /\ test'.good = test.good /\ verdict' = verdict
        BY <1>2, <1>7, <2>2 DEF Goes, Types, IsTest
      <3>2. Onto(p, x, s) = p + 1
        BY <1>1, <2>2 DEF Onto
      <3> QED
        BY <1>2, <1>4, <2>2, <3>1, <3>2
    <2> QED
      BY <2>1, <2>2
  <1>9. LocalsFollow(y)'
    <2>1. x.recorded = "none" /\ y.recorded # "seen"
      BY <1>2, <1>4 DEF CopyFits, Waited
    <2> QED
      BY <1>1, <1>2, <1>4, <1>8, <2>1 DEF LocalsFollow, Waited
  <1> QED
    BY <1>1, <1>5, <1>6, <1>8, <1>9 DEF y, Advances, Follows, Ending

\* While the agent works, what the poll waits for has not come; so a poll that ends in
\* time ends with the agent.
LEMMA PollWaits ==
    ASSUME NEW n, NEW p, NEW x, NEW s, Stands(n, p, x, s), DoPoll, ~Excused'
    PROVE  ~Busy
  <1> SUFFICES ASSUME Busy
               PROVE  FALSE
    OBVIOUS
  <1>1. s.do = "poll" /\ s = Step /\ s = Body(n)[p] /\ n = test.name /\ p = test.pc
    BY DEF DoPoll, AtStep, Stands
  <1>2. Awaited(s)
    BY <1>1 DEF Stands, Contained, AtWork
  <1>3. ~Arrived(memory) /\ ~Arrived([l \in Lines |-> Seen(l)])
    BY <1>1, <1>2 DEF Awaited, Arrived, Seen, Buffers
  <1>4. "late" \in chance'
    BY <1>3 DEF DoPoll, Quiet, Busy
  <1> QED
    BY <1>4 DEF Excused

LEMMA DoPollFollows ==
    ASSUME NEW n, NEW p, NEW x, NEW s, Stands(n, p, x, s), DoPoll, ~Excused'
    PROVE  Advances(n, p, x, s)
  <1> DEFINE y == After(n, x, s)
             c == x.copy
             D == DOMAIN s.wanted
             mode == IF Reaches(c) /\ s.wanted = Only(c)
                     THEN [x.mode EXCEPT ![c.write.page] = "settled"] ELSE x.mode
  <1>1. s.do = "poll" /\ UNCHANGED <<memory, smmu, tlb, agent>>
    BY DEF DoPoll, AtStep, Stands
  <1>2. /\ IsSheet(x) /\ CopyFits(n, x) /\ LinesFollow(x) /\ LocalsFollow(x) /\ Types
        /\ n = test.name /\ p = test.pc /\ verdict = "running" /\ s = Step
    BY <1>1 DEF Stands, Fits, Follows, Contained
  <1>3. ~Busy
    BY PollWaits
  <1>4. /\ Waited(n, x, y) /\ y.mode = mode /\ y.completed = Reaches(c)
        /\ y.value = Copied(n, x).value
    <2>1. y = [Copied(n, x) EXCEPT !.completed = Reaches(c),
                                   !.mode = IF Reaches(c) /\ s.wanted = Only(c)
                                            THEN [@ EXCEPT ![c.write.page] = "settled"]
                                            ELSE @]
      BY <1>1 DEF After, Registering
    <2>2. Copied(n, x).mode = x.mode
      BY ONLY <1>2 DEF IsSheet, Copied
    <2>3. y = [Copied(n, x) EXCEPT !.completed = Reaches(c), !.mode = mode]
      BY <2>1, <2>2
    <2> HIDE DEF mode, y
    <2> QED
      BY ONLY <1>2, <2>3 DEF IsSheet, Copied, Waited
  <1>5. /\ \A l \in D : l \in Buffers /\ x.mode[l] # "written"
        /\ IF Reaches(c) THEN \E l \in D : y.value[l] \in s.wanted[l]
           ELSE \A l \in D : x.mode[l] = "settled" /\ y.value[l] \notin s.wanted[l]
    BY <1>1, <1>4 DEF Stands, Fits, Buffers
  <1> HIDE DEF y
  <1>6. /\ Reaches(c) => c.write.page \in Buffers /\ x.mode[c.write.page] = "foreign"
        /\ x.working /\ x.started /\ x.recorded = "none"
    BY <1>2 DEF CopyFits, Reaches, IsSheet, Buffers, Lines
  <1>7. /\ y.mode["events"] = x.mode["events"]
        /\ \A l \in Lines : \/ y.mode[l] = x.mode[l]
                            \/ /\ Reaches(c) /\ s.wanted = Only(c) /\ l = c.write.page
                               /\ y.mode[l] = "settled" /\ x.mode[l] # "written"
    BY <1>2, <1>4, <1>6 DEF IsSheet, Buffers, Lines
  <1> HIDE DEF mode
  <1>8. /\ Ended <=> Reaches(c)
        /\ \A l \in Buffers : x.mode[l] # "written" => memory[l] = y.value[l]
        /\ AgentFollows(n, y)' /\ EventsFollow(n, y)'
    BY <1>1, <1>3, <1>4, <1>7, CopyEnds
  <1>9. Arrived(memory) <=> Reaches(c)
    BY <1>2, <1>5, <1>8 DEF Arrived
  <1>10. ~Reaches(c) => ~Arrived([l \in Lines |-> Seen(l)])
    <2>1. ~Reaches(c) => \A l \in D : l \in Lines /\ Seen(l) = y.value[l]
      BY <1>2, <1>5, <1>8 DEF Seen, LinesFollow, LineFollows, Buffers
    <2> QED
      BY <1>2, <1>5, <2>1 DEF Arrived
  <1>11. /\ Goes([test EXCEPT !.completed = Reaches(c)])
         /\ \/ UNCHANGED cache /\ Arrived([l \in Lines |-> Seen(l)])
            \/ cache' = [l \in Lines |-> IF l \in D THEN Absent ELSE cache[l]]
    <2>1. CASE /\ Arrived([l \in Lines |-> Seen(l)])
               /\ Goes([test EXCEPT !.completed = TRUE]) /\ UNCHANGED <<cache, chance>>
      <3>1. Reaches(c) = TRUE
        BY <1>10, <2>1 DEF Reaches
      <3> QED
        BY <2>1, <3>1
    <2>2. CASE /\ Arrived(memory) /\ Goes([test EXCEPT !.completed = TRUE])
               /\ cache' = [l \in Lines |-> IF l \in DOMAIN Step.wanted THEN Absent ELSE cache[l]]
      <3>1. Reaches(c) = TRUE
        BY <1>9, <2>2 DEF Reaches
      <3> QED
        BY <1>2, <2>2, <3>1
    <2>3. CASE /\ ~Arrived(memory) /\ Goes([test EXCEPT !.completed = FALSE])
               /\ cache' = [l \in Lines |-> IF l \in DOMAIN Step.wanted THEN Absent ELSE cache[l]]
      <3>1. Reaches(c) = FALSE
        BY <1>9, <2>3 DEF Reaches
      <3> QED
        BY <1>2, <2>3, <3>1
    <2> QED
      BY <2>1, <2>2, <2>3 DEF DoPoll
  <1>12. /\ test'.name = n /\ test'.pc = p + 1 /\ verdict' = "running"
         /\ test'.completed = Reaches(c) /\ test'.actual = test.actual
         /\ test'.good = test.good
    BY <1>2, <1>11 DEF Goes, Types, IsTest
  <1>13. LinesFollow(y)'
    <2> SUFFICES ASSUME NEW l \in Lines
                 PROVE  LineFollows(y, l)'
      BY DEF LinesFollow
    <2>1. /\ y.started /\ ~y.working /\ LineFollows(x, l)
          /\ x.mode[l] = "written" => y.value[l] = x.value[l]
      BY <1>2, <1>4, <1>6 DEF Waited, LinesFollow, IsSheet
    <2>2. \/ cache'[l] = cache[l]
          \/ cache'[l].state = "absent" /\ x.mode[l] # "written"
      BY <1>5, <1>11 DEF Absent
    <2>3. CASE y.mode[l] = x.mode[l]
      BY <1>1, <1>8, <2>1, <2>2, <2>3
         DEF LineFollows, Holds, Dirty, Stored, Buffers
    <2>4. CASE y.mode[l] # x.mode[l]
      <3>1. /\ Reaches(c) /\ l = c.write.page /\ y.mode[l] = "settled" /\ x.mode[l] # "written"
            /\ D = {l} /\ s.wanted[l] = {c.data}
        BY <1>7, <2>4 DEF Only
      <3>2. memory[l] = c.data /\ y.value[l] = c.data
        BY <1>2, <1>4, <1>6, <1>8, <3>1 DEF Waited, IsSheet
      <3>3. cache'[l].state # "absent" => cache'[l].value = c.data
        <4>1. CASE UNCHANGED cache /\ Arrived([k \in Lines |-> Seen(k)])
          BY <1>2, <3>1, <4>1 DEF Arrived, Seen
        <4>2. CASE cache' = [k \in Lines |-> IF k \in D THEN Absent ELSE cache[k]]
          BY <3>1, <4>2 DEF Absent
        <4> QED
          BY <1>11, <4>1, <4>2
      <3>4. ~Dirty(l)
        BY <2>1, <3>1 DEF LineFollows
      <3> QED
        BY <1>1, <2>1, <2>2, <3>1, <3>2, <3>3, <3>4 DEF LineFollows, Dirty, Stored
    <2> QED
      BY <2>3, <2>4
  <1>14. LocalsFollow(y)'
    <2>1. y.recorded # "seen"
      BY <1>4, <1>6 DEF Waited
    <2> QED
      BY <1>1, <1>2, <1>4, <1>6, <1>12, <2>1 DEF LocalsFollow, Waited
  <1>15. Onto(p, x, s) = p + 1
    BY <1>1 DEF Onto
  <1> QED
    BY <1>1, <1>8, <1>12, <1>13, <1>14, <1>15 DEF y, Advances, Follows, Ending

\* What the test reads of a line that nothing has written past the caches.
LEMMA SeenOf ==
    ASSUME NEW x, IsSheet(x), LinesFollow(x), ~x.working, NEW l \in Lines,
           x.mode[l] # "foreign", l # "events" \/ ~x.started
    PROVE  Seen(l) = x.value[l]
  BY DEF LinesFollow, LineFollows, IsSheet, Holds, Dirty, Stored, Seen

LEMMA DoObserveFollows ==
    ASSUME NEW n, NEW p, NEW x, NEW s, Stands(n, p, x, s), DoObserve
    PROVE  Advances(n, p, x, s)
  <1> DEFINE y == After(n, x, s)
  <1>1. /\ s.do = "observe" /\ verdict' = verdict
        /\ test' = [test EXCEPT !.actual = Seen("destination"), !.good = test.completed,
                                !.pc = IF test.completed THEN @ + 1 ELSE @ + 1 + s.over]
        /\ UNCHANGED <<memory, cache, smmu, tlb, agent, chance>>
    BY DEF DoObserve, AtStep, Stands
  <1>2. /\ IsSheet(x) /\ Types /\ Follows(n, x) /\ LinesFollow(x) /\ LocalsFollow(x)
        /\ ~x.working /\ x.recorded = "none" /\ x.mode["destination"] # "foreign"
        /\ n = test.name /\ p = test.pc /\ verdict = "running"
    BY <1>1, Resting DEF Stands, Fits, Contained, Follows, Known
  <1>3. y = [x EXCEPT !.actual = x.value["destination"], !.good = x.completed]
    BY <1>1 DEF After, Registering
  <1>4. /\ y.actual = x.value["destination"] /\ y.good = x.completed
        /\ y.mode = x.mode /\ y.value = x.value /\ y.started = x.started
        /\ y.working = x.working /\ y.copy = x.copy /\ y.recorded = x.recorded
        /\ y.tlb = x.tlb /\ y.fault = x.fault /\ y.completed = x.completed
        /\ y.size = x.size /\ y.fresh = x.fresh
    <2> HIDE DEF y
    <2> QED
      BY ONLY <1>2, <1>3 DEF IsSheet
  <1> HIDE DEF y
  <1>5. Seen("destination") = x.value["destination"]
    BY <1>2, SeenOf DEF Lines
  <1>6. /\ test'.name = n /\ test'.actual = y.actual /\ test'.good = y.good
        /\ test'.completed = x.completed
        /\ test'.pc = IF x.completed THEN p + 1 ELSE p + 1 + s.over
    BY <1>1, <1>2, <1>4, <1>5 DEF Types, IsTest, LocalsFollow
  <1>7. LinesFollow(y)' /\ AgentFollows(n, y)' /\ EventsFollow(n, y)'
    BY <1>1, <1>2, <1>4, OthersFollow
  <1>8. LocalsFollow(y)'
    BY <1>1, <1>2, <1>4, <1>6 DEF LocalsFollow
  <1>9. test'.pc = Onto(p, x, s)
    BY <1>1, <1>6 DEF Onto
  <1> QED
    BY <1>1, <1>2, <1>6, <1>7, <1>8, <1>9 DEF y, Advances, Follows, Ending

LEMMA DoExpectFollows ==
    ASSUME NEW n, NEW p, NEW x, NEW s, Stands(n, p, x, s), DoExpect
    PROVE  Advances(n, p, x, s)
  <1> DEFINE y == After(n, x, s)
             good == x.good /\ \A l \in DOMAIN s.holds : x.value[l] = s.holds[l]
             locals == [test EXCEPT !.good = good]
  <1>1. /\ s.do = "expect"
        /\ Goes([test EXCEPT !.good = @ /\ \A l \in DOMAIN s.holds : Seen(l) = s.holds[l]])
        /\ UNCHANGED <<memory, cache, smmu, tlb, agent, chance>>
    BY DEF DoExpect, AtStep, Stands
  <1>2. /\ IsSheet(x) /\ Types /\ Follows(n, x) /\ LinesFollow(x) /\ LocalsFollow(x)
        /\ ~x.working /\ x.recorded = "none"
        /\ \A l \in DOMAIN s.holds : x.mode[l] # "foreign" /\ l \in Lines \ {"events"}
        /\ n = test.name /\ p = test.pc /\ verdict = "running"
    BY <1>1, Resting DEF Stands, Fits, Contained, Follows, Known
  <1>3. y = [x EXCEPT !.good = good]
    BY <1>1 DEF After, Registering
  <1>4. /\ y.good = good
        /\ y.mode = x.mode /\ y.value = x.value /\ y.started = x.started
        /\ y.working = x.working /\ y.copy = x.copy /\ y.recorded = x.recorded
        /\ y.tlb = x.tlb /\ y.fault = x.fault /\ y.completed = x.completed
        /\ y.size = x.size /\ y.fresh = x.fresh /\ y.actual = x.actual
    <2> HIDE DEF y, good
    <2> QED
      BY ONLY <1>2, <1>3 DEF IsSheet
  <1> HIDE DEF y
  <1>5. \A l \in DOMAIN s.holds : Seen(l) = x.value[l]
    BY <1>2, SeenOf
  <1>6. Goes(locals) /\ IsTest(test)
    BY <1>1, <1>2, <1>5 DEF LocalsFollow, Types
  <1> HIDE DEF good
  <1>7. IsTest(locals) /\ locals.name = n /\ locals.pc = p /\ locals.completed = test.completed
        /\ locals.actual = test.actual /\ locals.good = good
    BY <1>2, <1>6 DEF IsTest
  <1> HIDE DEF locals
  <1>8. /\ test'.name = n /\ test'.pc = p + 1 /\ verdict' = "running"
        /\ test'.completed = test.completed /\ test'.actual = test.actual /\ test'.good = y.good
    BY <1>2, <1>4, <1>6, <1>7, GoesTo
  <1>9. LinesFollow(y)' /\ AgentFollows(n, y)' /\ EventsFollow(n, y)'
    BY <1>1, <1>2, <1>4, OthersFollow
  <1>10. LocalsFollow(y)'
    BY <1>1, <1>2, <1>4, <1>8 DEF LocalsFollow
  <1> QED
    BY <1>1, <1>8, <1>9, <1>10, Resting DEF y, Advances, Follows, Ending

LEMMA JudgeV2Follows ==
    ASSUME NEW n, NEW p, NEW x, NEW s, Stands(n, p, x, s), JudgeV2
    PROVE  Advances(n, p, x, s)
  <1> DEFINE y == After(n, x, s)
             good == IF s.fault THEN ~x.good /\ x.fault # "none" /\ x.actual = "zero"
                     ELSE x.good /\ x.fault = "none" /\ x.actual = "a"
             locals == [test EXCEPT !.good = good]
  <1>1. /\ s.do = "judge"
        /\ Goes([test EXCEPT !.good =
                 IF s.fault THEN ~test.good /\ FaultSeen /\ test.actual = "zero"
                 ELSE test.good /\ ~FaultSeen /\ test.actual = "a"])
        /\ UNCHANGED <<memory, cache, smmu, tlb, agent, chance>>
    BY DEF JudgeV2, AtStep, Stands
  <1>2. /\ IsSheet(x) /\ Types /\ Follows(n, x) /\ LinesFollow(x) /\ LocalsFollow(x)
        /\ ~x.working /\ x.recorded = "none" /\ smmu.fault = x.fault
        /\ n = test.name /\ p = test.pc /\ verdict = "running"
    BY <1>1, Resting DEF Stands, Fits, Contained, Follows, AgentRests
  <1>3. y = [x EXCEPT !.good = IF s.fault THEN ~@ /\ x.fault # "none" /\ x.actual = "zero"
                               ELSE @ /\ x.fault = "none" /\ x.actual = "a"]
    BY <1>1 DEF After, Registering
  <1>4. /\ y.good = good
        /\ y.mode = x.mode /\ y.value = x.value /\ y.started = x.started
        /\ y.working = x.working /\ y.copy = x.copy /\ y.recorded = x.recorded
        /\ y.tlb = x.tlb /\ y.fault = x.fault /\ y.completed = x.completed
        /\ y.size = x.size /\ y.fresh = x.fresh /\ y.actual = x.actual
    <2> HIDE DEF y
    <2> QED
      BY ONLY <1>2, <1>3 DEF IsSheet
  <1> HIDE DEF y
  <1>5. Goes(locals) /\ IsTest(test)
    <2>1. test.good = x.good /\ test.actual = x.actual /\ smmu.fault = x.fault /\ IsTest(test)
      BY <1>2 DEF LocalsFollow, Types
    <2>2. good = IF s.fault THEN ~test.good /\ FaultSeen /\ test.actual = "zero"
                 ELSE test.good /\ ~FaultSeen /\ test.actual = "a"
      BY <2>1 DEF FaultSeen
    <2> HIDE DEF good
    <2> QED
      BY <1>1, <2>1, <2>2
  <1> HIDE DEF good
  <1>7. IsTest(locals) /\ locals.name = n /\ locals.pc = p /\ locals.completed = test.completed
        /\ locals.actual = test.actual /\ locals.good = good
    BY <1>2, <1>5 DEF IsTest
  <1> HIDE DEF locals
  <1>8. /\ test'.name = n /\ test'.pc = p + 1 /\ verdict' = "running"
        /\ test'.completed = test.completed /\ test'.actual = test.actual /\ test'.good = y.good
    BY <1>2, <1>4, <1>5, <1>7, GoesTo
  <1>9. LinesFollow(y)' /\ AgentFollows(n, y)' /\ EventsFollow(n, y)'
    BY <1>1, <1>2, <1>4, OthersFollow
  <1>10. LocalsFollow(y)'
    BY <1>1, <1>2, <1>4, <1>8 DEF LocalsFollow
  <1> QED
    BY <1>1, <1>8, <1>9, <1>10, Resting DEF y, Advances, Follows, Ending

LEMMA ConcludePasses ==
    ASSUME NEW n, NEW p, NEW x, NEW s, Stands(n, p, x, s), Conclude
    PROVE  Advances(n, p, x, s)
  <1>1. s.do = "conclude" /\ Return(IF test.good THEN "pass" ELSE "fail")
    BY DEF Conclude, AtStep, Stands
  <1>2. test.good
    BY <1>1 DEF Stands, Fits, Follows, LocalsFollow
  <1> QED
    BY <1>1, <1>2 DEF Return, Advances

LEMMA PollProducerFollows ==
    ASSUME NEW n, NEW p, NEW x, NEW s, Stands(n, p, x, s), PollProducer, ~Excused'
    PROVE  Advances(n, p, x, s)
  <1> DEFINE y == After(n, x, s)
             locals == [test EXCEPT !.good = smmu.producer # 0]
  <1>1. /\ s.do = "producer" /\ Goes(locals)
        /\ UNCHANGED <<memory, cache, smmu, tlb, agent>>
        /\ smmu.producer = 0 => smmu.pending = "none"
    BY DEF PollProducer, AtStep, Stands, Excused
  <1>2. /\ IsSheet(x) /\ Types /\ Follows(n, x) /\ LinesFollow(x) /\ LocalsFollow(x)
        /\ AgentFollows(n, x) /\ EventsFollow(n, x)
        /\ ~x.working /\ x.recorded = "due" /\ IsTest(test)
        /\ n = test.name /\ p = test.pc /\ verdict = "running"
    BY <1>1, Resting DEF Stands, Fits, Contained, Follows, Types
  <1>3. y = [x EXCEPT !.recorded = "seen"]
    BY <1>1 DEF After, Registering
  <1>4. /\ y.recorded = "seen"
        /\ y.mode = x.mode /\ y.value = x.value /\ y.started = x.started
        /\ y.working = x.working /\ y.copy = x.copy /\ y.good = x.good
        /\ y.tlb = x.tlb /\ y.fault = x.fault /\ y.completed = x.completed
        /\ y.size = x.size /\ y.fresh = x.fresh /\ y.actual = x.actual
    <2> HIDE DEF y
    <2> QED
      BY ONLY <1>2, <1>3 DEF IsSheet
  <1> HIDE DEF y
  <1>5. /\ test'.name = n /\ test'.pc = p + 1 /\ verdict' = "running"
        /\ test'.completed = test.completed /\ test'.actual = test.actual
        /\ test'.good = (smmu.producer # 0)
    <2>1. IsTest(locals) /\ locals.name = n /\ locals.pc = p
          /\ locals.completed = test.completed /\ locals.actual = test.actual
          /\ locals.good = (smmu.producer # 0)
      BY <1>2 DEF IsTest
    <2> HIDE DEF locals
    <2> QED
      BY <1>1, <1>2, <2>1, GoesTo
  <1>6. LinesFollow(y)' /\ AgentFollows(n, y)'
    BY <1>1, <1>2, <1>4, LinesSame, AgentSame
  <1>7. EventsFollow(n, y)'
    BY <1>1, <1>2, <1>4 DEF EventsFollow, Told, Reporting
  <1>8. LocalsFollow(y)'
    BY <1>1, <1>2, <1>4, <1>5 DEF LocalsFollow
  <1> QED
    BY <1>1, <1>5, <1>6, <1>7, <1>8, Resting DEF y, Advances, Follows, Ending

LEMMA JudgeEventPasses ==
    ASSUME NEW n, NEW p, NEW x, NEW s, Stands(n, p, x, s), JudgeEvent
    PROVE  Advances(n, p, x, s)
  <1>1. s.do = "event" /\ s = Step
    BY DEF JudgeEvent, AtStep, Stands
  <1>2. /\ x.recorded = "seen" /\ x.completed /\ x.fault = s.event /\ s.event # "none"
        /\ x.mode["destination"] # "foreign" /\ x.mode["events"] # "foreign"
        /\ x.value["destination"] = "zero"
    BY <1>1 DEF Stands, Fits, Known
  <1>3. /\ IsSheet(x) /\ LinesFollow(x) /\ LocalsFollow(x) /\ EventsFollow(n, x)
        /\ ~x.working /\ smmu.fault = x.fault
    BY <1>1, Resting DEF Stands, Follows, AgentRests
  <1>4. Seen("destination") = "zero"
    BY <1>2, <1>3, SeenOf DEF Lines
  <1>5. x.mode["events"] = "settled"
    BY <1>2, <1>3 DEF IsSheet, Lines
  <1>6. Seen("events") = memory["events"]
    BY <1>3, <1>5 DEF LinesFollow, LineFollows, Seen, Lines
  <1>7. test.completed /\ (test.good <=> smmu.producer # 0)
        /\ (smmu.producer # 0 => memory["events"] = s.event)
    BY <1>2, <1>3 DEF LocalsFollow, EventsFollow, Told
  <1>8. Return("pass")
    BY <1>1, <1>2, <1>4, <1>6, <1>7 DEF JudgeEvent
  <1> QED
    BY <1>8 DEF Return, Advances

LEMMA JudgeCopyPasses ==
    ASSUME NEW n, NEW p, NEW x, NEW s, Stands(n, p, x, s), JudgeCopy
    PROVE  Advances(n, p, x, s)
  <1>1. s.do = "copied" /\ Return(IF Seen("source") = Seen("destination") THEN "pass" ELSE "fail")
    BY DEF JudgeCopy, AtStep, Stands
  <1>2. /\ IsSheet(x) /\ LinesFollow(x) /\ ~x.working
        /\ x.mode["source"] # "foreign" /\ x.mode["destination"] # "foreign"
        /\ x.value["source"] = x.value["destination"]
    BY <1>1, Resting DEF Stands, Fits, Follows, Known
  <1>3. Seen("source") = Seen("destination")
    BY <1>2, SeenOf DEF Lines
  <1> QED
    BY <1>1, <1>3 DEF Return, Advances

\* And a step of the test goes to the next sheet.
LEMMA PayloadFollows ==
    ASSUME NEW n, NEW p, NEW x, NEW s, Stands(n, p, x, s), Payload, ~Excused'
    PROVE  Advances(n, p, x, s)
  BY DoStoreFollows, DoCleanFollows, DoDropFollows, CheckResetFollows, DoRegisterFollows,
     AwaitAckFollows, InvalidationFollows, DoStartFollows, DoPollFollows, DoObserveFollows,
     DoExpectFollows, JudgeV2Follows, ConcludePasses, PollEngineFollows, PollProducerFollows,
     JudgeEventPasses, JudgeCopyPasses DEF Payload

-----------------------------------------------------------------------------
(* All steps together.                                                     *)

\* The test has passed, or it is at a place of its sequential run.
Passing ==
    \/ verdict = "pass"
    \/ /\ verdict = "running" /\ test.pc \in DOMAIN Sheets[test.name]
       /\ Follows(test.name, Sheets[test.name][test.pc])
OnSheet == ~Excused => Passing

LEMMA InitOnSheet ==
    ASSUME Init
    PROVE  OnSheet
  <1> DEFINE n == test.name
             x == Sheets[n][test.pc]
  <1>1. /\ n \in Names /\ test.pc = 1 /\ test.completed = FALSE /\ test.actual = "zero"
        /\ test.good = TRUE
        /\ smmu.asked = {} /\ smmu.acked = {} /\ smmu.size = 0 /\ smmu.fault = "none"
        /\ smmu.pending = "none" /\ smmu.producer = 0
    BY DEF Init
  <1>2. /\ memory = [l \in Lines |-> "zero"] /\ cache = [l \in Lines |-> Absent]
        /\ tlb = {} /\ agent.state = "idle" /\ verdict = "running"
    BY DEF Init
  <1>3. x = FirstSheet /\ 1 \in DOMAIN Sheets[n]
    BY <1>1, SheetsAssumption DEF IsSheets
  <1>4. /\ x.mode = [l \in Lines |-> "settled"] /\ x.value = [l \in Lines |-> "zero"]
        /\ x.tlb = {} /\ x.size = 0 /\ x.fault = "none" /\ ~x.working /\ ~x.started
        /\ x.recorded = "none" /\ x.completed = FALSE /\ x.actual = "zero" /\ x.good = TRUE
    BY <1>3 DEF FirstSheet
  <1> HIDE DEF x, n
  <1>5. LinesFollow(x)
    BY <1>2, <1>4 DEF LinesFollow, LineFollows, Dirty, Absent, Stored
  <1>6. AgentFollows(n, x)
    BY <1>1, <1>2, <1>4 DEF AgentFollows, AgentRests, Busy, Held
  <1>7. EventsFollow(n, x) /\ LocalsFollow(x)
    BY <1>1, <1>4 DEF EventsFollow, Due, LocalsFollow
  <1> QED
    BY <1>1, <1>2, <1>3, <1>5, <1>6, <1>7 DEF OnSheet, Passing, Follows, n, x

\* A test keeps its name and an SMMU its defect.
LEMMA NameStays ==
    ASSUME Types, Next
    PROVE  test'.name = test.name /\ smmu'.defect = smmu.defect
  <1>1. CASE Environment
    BY <1>1 DEF Types, Environment, WriteBack, Refill, Acknowledge, AgentReads, AgentWrites,
                AgentEnds, CommitEvent, Forget, Terminated
  <1>2. CASE Payload
    <2>1. smmu'.defect = smmu.defect
      BY <1>2 DEF Types, Payload, DoStore, DoClean, DoDrop, CheckReset, DoRegister,
         AwaitAck, InvalidateEverything, DoInvalidate, DoStart, DoPoll, DoObserve, DoExpect,
         JudgeV2, Conclude, PollEngine, PollProducer, JudgeEvent, JudgeCopy
    <2>2. test'.name = test.name
      BY <1>2 DEF Types, IsTest, Goes, Return, Payload, DoStore, DoClean, DoDrop, CheckReset,
         DoRegister, AwaitAck, InvalidateEverything, DoInvalidate, DoStart, DoPoll, DoObserve,
         DoExpect, JudgeV2, Conclude, PollEngine, PollProducer, JudgeEvent, JudgeCopy
    <2> QED
      BY <2>1, <2>2
  <1> QED
    BY <1>1, <1>2 DEF Next

LEMMA ExcusesStay ==
    ASSUME Types, Next, ~Excused'
    PROVE  ~Excused
  BY NameStays, ChancesAdd DEF Excused

\* A test that steps is within its script.
LEMMA PayloadAt ==
    ASSUME Payload
    PROVE  verdict = "running" /\ test.pc <= Len(Body(test.name))
  BY DEF Payload, DoStore, DoClean, DoDrop, CheckReset, DoRegister, AwaitAck,
         InvalidateEverything, DoInvalidate, DoStart, DoPoll, DoObserve, DoExpect,
         JudgeV2, Conclude, PollEngine, PollProducer, JudgeEvent, JudgeCopy, AtStep

LEMMA OnSheetInductive ==
    ASSUME Inv, OnSheet, [Next]_vars
    PROVE  OnSheet'
  <1>1. CASE Next
    <2> SUFFICES ASSUME ~Excused'
                 PROVE  Passing'
      BY DEF OnSheet
    <2>0. PICK n, p, x, s : n = test.name /\ p = test.pc /\ x = Sheets[n][p] /\ s = Body(n)[p]
      OBVIOUS
    <2>1. Contained
      BY <1>1, ChancesAdd DEF Inv, OnTime, Excused
    <2>2. n \in Names /\ ~Excused
      BY <1>1, <2>0, <2>1, ExcusesStay DEF Contained, Types
    <2>3. CASE Environment
      <3>1. UNCHANGED <<test, verdict>>
        BY <2>3 DEF Environment, WriteBack, Refill, Acknowledge, AgentReads, AgentWrites,
                    AgentEnds, CommitEvent, Forget
      <3>2. CASE verdict = "pass"
        BY <3>1, <3>2 DEF Passing
      <3>3. CASE verdict # "pass"
        <4>1. verdict = "running" /\ p \in DOMAIN Sheets[n] /\ Follows(n, x)
          BY <2>0, <2>2, <3>3 DEF OnSheet, Passing
        <4>2. IsSheet(x) /\ Fits(n, x, s)
          BY <2>0, <2>2, <4>1, SheetsAssumption DEF IsSheets
        <4>3. Apart(n, x)
          BY <2>0, <2>1, <4>1, <4>2 DEF Apart, Fits
        <4>4. Follows(n, x)'
          BY <2>2, <2>3, <4>3, EnvironmentFollows
        <4> QED
          BY <2>0, <3>1, <4>1, <4>4 DEF Passing
      <3> QED
        BY <3>2, <3>3
    <2>4. CASE Payload
      <3>1. verdict = "running" /\ p \in DOMAIN Sheets[n] /\ Follows(n, x)
        BY <2>0, <2>2, <2>4, PayloadAt DEF OnSheet, Passing
      <3>2. /\ IsSheet(x) /\ Fits(n, x, s)
            /\ s.do \notin Ending =>
                  Onto(p, x, s) \in DOMAIN Sheets[n] /\ Sheets[n][Onto(p, x, s)] = After(n, x, s)
        BY <2>0, <2>2, <3>1, SheetsAssumption DEF IsSheets
      <3>3. Stands(n, p, x, s)
        BY <2>0, <2>1, <3>1, <3>2 DEF Stands, Step
      <3>4. Advances(n, p, x, s)
        BY <2>4, <3>3, PayloadFollows
      <3> QED
        BY <3>2, <3>4 DEF Advances, Passing
    <2> QED
      BY <1>1, <2>3, <2>4 DEF Next
  <1>2. CASE UNCHANGED vars
    BY <1>2 DEF vars, OnSheet, Excused, Passing, Follows, LinesFollow, LineFollows, Holds, Dirty,
                Stored, Ended, AgentFollows, AgentRests, AgentCopies, Busy, EventsFollow, Told,
                Reporting, Due, LocalsFollow
  <1> QED
    BY <1>1, <1>2

\* On a conforming SMMU no test fails, however late the caches write back and the agent,
\* the acknowledgements and the events come, as long as they come within the loops'
\* budgets: of any scripts whose sequential run passes.
THEOREM ConformingSmmuPassesCorrect == Spec => []ConformingSmmuPasses
  <1>1. Init => Inv /\ OnSheet
    BY InitContained, InitOnSheet
  <1>2. Inv /\ OnSheet /\ [Next]_vars => (Inv /\ OnSheet)'
    BY Inductive, OnSheetInductive
  <1>3. Inv /\ OnSheet => ConformingSmmuPasses
    BY DEF OnSheet, Passing, Excused, Remembers, ConformingSmmuPasses
  <1> QED
    BY <1>1, <1>2, <1>3, PTL DEF Spec
=============================================================================
