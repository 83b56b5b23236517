------------------------------ MODULE SmmuLive ------------------------------
(***************************************************************************)
(* The live SMMU tests of target/payloads/common/smmu.rs.  The test writes *)
(* tables through the caches of its PE, programs an SMMU (v2: MMU-500, v3: *)
(* the architected one), lets a DMA agent copy from one input address to   *)
(* another, and judges what reached memory and what the SMMU recorded.     *)
(* Agent, SMMU and caches run at their own speed; each live test has a     *)
(* boot of its own (IsolationPolicy::SeparateBoot).                        *)
(***************************************************************************)
EXTENDS SmmuBodies

VARIABLES
    memory,     \* what the agent and the SMMU read
    cache,      \* the PE's copy of a line, if it has one
    smmu,       \* the registers, and what the SMMU is about to do
    tlb,        \* leaves the SMMU keeps
    agent,      \* the DMA engine
    test,       \* the body: name, pc, locals
    verdict,    \* "running", "pass" or "fail"
    chance      \* what the test cannot control and has happened

vars == <<memory, cache, smmu, tlb, agent, test, verdict, chance>>

Defects == {"bypass", "permission", "accessflag", "unmapped", "invalidate", "match",
            "stream", "endian", "root", "granule", "format", "range", "hint", "event"}

\* A dirty copy is to be written back; a clean one is not.
Absent == [state |-> "absent", value |-> "zero"]
Copy(state, value) == [state |-> state, value |-> value]
Dirty(line) == cache[line].state = "dirty"
Seen(line) == IF cache[line].state = "absent" THEN memory[line] ELSE cache[line].value
Kept(line) == IF Dirty(line) THEN Copy("clean", cache[line].value) ELSE cache[line]
Step == Body(test.name)[test.pc]
AtStep(what) ==
    verdict = "running" /\ test.pc <= Len(Body(test.name)) /\ Step.do = what
Quiet == agent.state \in {"idle", "ending", "aborted"}

Init ==
    /\ memory = [l \in Lines |-> "zero"]
    /\ cache = [l \in Lines |-> Absent]
    /\ \E n \in Names, silent \in BOOLEAN :
       \E d \in {"nothing"} \cup {d \in Defects : n \in DetectedBy[d] \cup DetectedByEvent[d]} :
          /\ silent => n \in Faulting /\ n[1] = "v3"
          /\ smmu = [asked |-> {}, acked |-> {}, context |-> FALSE, size |-> 0,
                     fault |-> "none", pending |-> "none", producer |-> 0,
                     silent |-> silent, defect |-> d]
          /\ test = [name |-> n, pc |-> 1, completed |-> FALSE, actual |-> "zero",
                     good |-> TRUE]
    /\ tlb = {}
    /\ agent = [state |-> "idle", to |-> "destination", sid |-> 0, data |-> "zero"]
    /\ verdict = "running"
    /\ chance = {}

Goes(locals) == test' = [locals EXCEPT !.pc = @ + 1] /\ UNCHANGED verdict
Return(outcome) == verdict' = outcome /\ UNCHANGED test

-----------------------------------------------------------------------------
(* Caches and time.                                                        *)

\* A dirty line may go to memory at any time, and a line the PE has not
\* written may be fetched, or dropped and fetched again, at any time.
WriteBack ==
    \E l \in Lines :
        /\ Dirty(l)
        /\ memory' = [memory EXCEPT ![l] = cache[l].value]
        /\ cache' = [cache EXCEPT ![l] = Kept(l)]
        /\ UNCHANGED <<smmu, tlb, agent, test, verdict, chance>>

Refill ==
    \E l \in {"destination", "alternate", "events"} :
        /\ ~Dirty(l)
        /\ cache' = [cache EXCEPT ![l] = Copy("clean", memory[l])]
        /\ UNCHANGED <<memory, smmu, tlb, agent, test, verdict, chance>>

-----------------------------------------------------------------------------
(* The SMMU.                                                               *)

Acknowledge ==
    /\ smmu.asked # smmu.acked
    /\ smmu' = [smmu EXCEPT !.acked = smmu.asked]
    /\ UNCHANGED <<memory, cache, tlb, agent, test, verdict, chance>>

\* The SMMU has a configuration for the agent's stream: v2 in registers, v3 in
\* the stream table.
StreamMatches ==
    IF test.name[1] = "v2"
    THEN /\ smmu.context
         /\ agent.sid \in (IF smmu.defect = "match" THEN {1} ELSE SidsOf(test.name))
    ELSE /\ memory["stream"] = "entry" /\ agent.sid <= smmu.size
         /\ (IF smmu.defect = "stream" THEN 0 ELSE agent.sid) \in SidsOf(test.name)

\* What an SMMU makes of a form it does not walk as it should.
Form(defect, form) ==
    [form EXCEPT !.root = IF defect = "root" THEN "usual" ELSE @,
                 !.granule = IF defect = "granule" THEN "4k" ELSE @,
                 !.format = IF defect = "format" THEN "vmsa64" ELSE @]

\* The leaves for an input that a walk finds in the tables as they are written.
Walk(defect, name, written, at) ==
    LET context == ContextOf(name)
        tables == TablesOf(name, written)
        readable == /\ Form(defect, context.form) = tables.form
                    /\ (IF defect = "endian" THEN FALSE ELSE context.big) = tables.big
    IN  IF readable THEN {l \in tables.leaves : l.at = at} ELSE {}

\* An address past the SMMU, and none at all.
Raw == [status |-> "ok", page |-> "elsewhere", leaf |-> {}]
Refused(status) == [status |-> status, page |-> "none", leaf |-> {}]

Allowed(defect, leaf, kind) ==
    IF kind \in leaf.rights \/ defect = "permission"
    THEN [status |-> "ok", page |-> leaf.page, leaf |-> {leaf}]
    ELSE Refused(IF defect = "event" THEN "Translation" ELSE "Permission")

\* What an SMMU with some leaves in its TLB answers to an access of the stream.
Answer(defect, name, written, held, at, kind) ==
    LET kept == {l \in held : l.at = at}
        found == Walk(defect, name, written, at)
    IN  IF at = "beyond" /\ defect # "range" THEN Refused("AddressSize")
        ELSE IF kept # {} THEN Allowed(defect, CHOOSE l \in kept : TRUE, kind)
        ELSE IF found = {}
        THEN IF defect = "unmapped" THEN Raw ELSE Refused("Translation")
        ELSE LET leaf == CHOOSE l \in found : TRUE
             IN  IF ~leaf.af /\ ~ContextOf(name).affd /\ defect # "accessflag"
                 THEN Refused("AccessFlag")
                 ELSE IF leaf.hint /\ defect = "hint" THEN Refused("Translation")
                 ELSE Allowed(defect, leaf, kind)

\* The address an access reaches, or why it does not.
Translate(at, kind) ==
    IF "on" \notin smmu.acked \/ smmu.defect = "bypass" THEN Raw
    ELSE IF ~StreamMatches
    THEN IF test.name[1] = "v2" THEN Raw ELSE Refused("BadStream")
    ELSE Answer(smmu.defect, test.name, memory["tables"], tlb, at, kind)

\* The SMMU terminates the access; v2 has the status in FSR at once, v3 writes
\* an event to memory, if this one writes events.
Terminated(x) ==
    /\ agent' = [agent EXCEPT !.state = "aborted"]
    /\ smmu' = [smmu EXCEPT !.fault = x.status,
                            !.pending = IF test.name[1] = "v3" /\ ~smmu.silent
                                        THEN x.status ELSE "none"]
    /\ UNCHANGED <<memory, tlb>>

\* The agent has gone through an SMMU that was not told to let it.
Strays(x) == x.page = "elsewhere" /\ smmu.defect = "nothing"

AgentReads ==
    /\ agent.state = "reading"
    /\ LET x == Translate("source", "read")
       IN  /\ IF x.status # "ok" THEN Terminated(x)
              ELSE /\ agent' = [agent EXCEPT !.state = "writing",
                           !.data = IF x.page = "elsewhere" THEN "junk" ELSE memory[x.page]]
                   /\ tlb' = tlb \cup x.leaf
                   /\ UNCHANGED <<memory, smmu>>
           /\ chance' = IF Strays(x) THEN chance \cup {"stray"} ELSE chance
    /\ UNCHANGED <<cache, test, verdict>>

AgentWrites ==
    /\ agent.state = "writing"
    /\ LET x == Translate(agent.to, "write")
       IN  /\ IF x.status # "ok" THEN Terminated(x)
              ELSE /\ agent' = [agent EXCEPT !.state = "ending"]
                   /\ memory' = IF x.page = "elsewhere" THEN memory
                                ELSE [memory EXCEPT ![x.page] = agent.data]
                   /\ tlb' = tlb \cup x.leaf
                   /\ UNCHANGED smmu
           /\ chance' = IF Strays(x) THEN chance \cup {"stray"} ELSE chance
    /\ UNCHANGED <<cache, test, verdict>>

AgentEnds ==
    /\ agent.state = "ending"
    /\ agent' = [agent EXCEPT !.state = "idle"]
    /\ UNCHANGED <<memory, cache, smmu, tlb, test, verdict, chance>>

CommitEvent ==
    /\ smmu.pending # "none"
    /\ memory' = [memory EXCEPT !["events"] = smmu.pending]
    /\ smmu' = [smmu EXCEPT !.pending = "none", !.producer = 1]
    /\ UNCHANGED <<cache, tlb, agent, test, verdict, chance>>

\* An SMMU may forget a translation at any time.
Forget ==
    /\ tlb # {}
    /\ tlb' \in {tlb \ {l} : l \in tlb}
    /\ chance' = chance \cup {"forgot"}
    /\ UNCHANGED <<memory, cache, smmu, agent, test, verdict>>

Environment ==
    \/ WriteBack \/ Refill \/ Acknowledge \/ AgentReads \/ AgentWrites
    \/ AgentEnds \/ CommitEvent \/ Forget

-----------------------------------------------------------------------------
(* The steps of a body.                                                    *)

DoStore ==
    /\ AtStep("store")
    /\ cache' = [cache EXCEPT ![Step.line] = Copy("dirty", Step.value)]
    /\ Goes(test)
    /\ UNCHANGED <<memory, smmu, tlb, agent, chance>>

\* Bug: the line is invalidated, not cleaned.
DoClean_Bug ==
    /\ AtStep("clean")
    /\ cache' = [cache EXCEPT ![Step.line] = Absent]
    /\ Goes(test)
    /\ UNCHANGED <<memory, smmu, tlb, agent, chance>>
\* clean_data_range, CleanData.
DoClean ==
    /\ AtStep("clean")
    /\ memory' = [memory EXCEPT ![Step.line] = IF Dirty(Step.line) THEN Seen(Step.line) ELSE @]
    /\ cache' = [cache EXCEPT ![Step.line] = Kept(Step.line)]
    /\ Goes(test)
    /\ UNCHANGED <<smmu, tlb, agent, chance>>

\* invalidate_data_range, InvalidateData.
DoDrop ==
    /\ AtStep("drop")
    /\ cache' = [cache EXCEPT ![Step.line] = Absent]
    /\ Goes(test)
    /\ UNCHANGED <<memory, smmu, tlb, agent, chance>>

\* reset_memory_is_zero, reset_test_engine_is_baseline, reset_values.
CheckReset ==
    /\ AtStep("baseline")
    /\ IF /\ \A l \in Lines : Seen(l) = "zero"
          /\ agent.state = "idle"
          /\ smmu.asked = {} /\ smmu.acked = {} /\ smmu.producer = 0
       THEN Goes(test) ELSE Return("fail")
    /\ UNCHANGED <<memory, cache, smmu, tlb, agent, chance>>

\* Register writes of v2 take effect in order; v3 acknowledges CR0.
DoRegister ==
    /\ \/ /\ AtStep("context")
          /\ smmu' = [smmu EXCEPT !.context = TRUE, !.fault = "none"]
       \/ /\ AtStep("client")
          /\ smmu' = [smmu EXCEPT !.asked = Step.on, !.acked = Step.on]
       \/ /\ AtStep("restore")
          /\ smmu' = [smmu EXCEPT !.asked = {}, !.acked = {}, !.context = FALSE, !.fault = "none"]
       \/ /\ AtStep("size")
          /\ smmu' = [smmu EXCEPT !.size = Step.size]
       \/ /\ AtStep("control")
          /\ smmu' = [smmu EXCEPT !.asked = Step.on]
    /\ Goes(test)
    /\ UNCHANGED <<memory, cache, tlb, agent, chance>>

\* Bug: the registers are taken to be in effect once written.
AwaitAck_Bug ==
    /\ AtStep("acknowledged")
    /\ Goes(test)
    /\ UNCHANGED <<memory, cache, smmu, tlb, agent, chance>>
\* wait32 on CR0ACK and IRQ_CTRLACK.
AwaitAck ==
    /\ AtStep("acknowledged")
    /\ \/ smmu.acked = smmu.asked /\ Goes(test) /\ UNCHANGED chance
       \/ /\ smmu.acked # smmu.asked
          /\ Return("fail")
          /\ chance' = chance \cup {"late"}
    /\ UNCHANGED <<memory, cache, smmu, tlb, agent>>

\* S_INIT.INV_ALL.
InvalidateEverything ==
    /\ AtStep("initialise")
    /\ tlb' = {}
    /\ Goes(test)
    /\ UNCHANGED <<memory, cache, smmu, agent, chance>>

\* TLBIIPAS2L and TLBSYNC.
DoInvalidate ==
    /\ AtStep("invalidate")
    /\ tlb' = IF smmu.defect = "invalidate" THEN tlb
              ELSE {l \in tlb : l.at # Step.at}
    /\ Goes(test)
    /\ UNCHANGED <<memory, cache, smmu, agent, chance>>

\* The start of a copy.  The PL330 ignores DMAGO for a channel that has not
\* stopped, and its program comes from memory.
DoStart ==
    /\ AtStep("start")
    /\ IF agent.state \in {"idle", "aborted"}
       THEN /\ agent' = [agent EXCEPT !.to = Step.to, !.sid = Step.sid,
                   !.state = IF test.name[1] = "v2" /\ memory["program"] # "copy"
                             THEN "aborted" ELSE "reading"]
            /\ UNCHANGED chance
       ELSE UNCHANGED agent /\ chance' = chance \cup {"missed"}
    /\ Goes(test)
    /\ UNCHANGED <<memory, cache, smmu, tlb>>

\* A loop that reads lines, invalidating them now and then, until one of them
\* has what it waits for, or its budget is spent.  Giving up on an agent that
\* is still at work is a chance event.
Arrived(read) == \E l \in DOMAIN Step.wanted : read[l] \in Step.wanted[l]

DoPoll ==
    /\ AtStep("poll")
    /\ \/ /\ Arrived([l \in Lines |-> Seen(l)])
          /\ Goes([test EXCEPT !.completed = TRUE])
          /\ UNCHANGED <<cache, chance>>
       \/ /\ Arrived(memory)
          /\ Goes([test EXCEPT !.completed = TRUE])
          /\ cache' = [l \in Lines |-> IF l \in DOMAIN Step.wanted THEN Absent ELSE cache[l]]
          /\ UNCHANGED chance
       \/ /\ ~Arrived(memory)
          /\ Goes([test EXCEPT !.completed = FALSE])
          /\ cache' = [l \in Lines |-> IF l \in DOMAIN Step.wanted THEN Absent ELSE cache[l]]
          /\ chance' = IF Quiet THEN chance ELSE chance \cup {"late"}
    /\ UNCHANGED <<memory, smmu, tlb, agent>>

\* What the destination holds after the first copy of v2; a body without a
\* second copy, or without a first one, goes to the end.
DoObserve ==
    /\ AtStep("observe")
    /\ verdict' = verdict
    /\ test' = [test EXCEPT !.actual = Seen("destination"), !.good = test.completed,
                            !.pc = IF test.completed THEN @ + 1 ELSE @ + 1 + Step.over]
    /\ UNCHANGED <<memory, cache, smmu, tlb, agent, chance>>

\* tlb_ok.
DoExpect ==
    /\ AtStep("expect")
    /\ Goes([test EXCEPT !.good = @ /\ \A l \in DOMAIN Step.holds : Seen(l) = Step.holds[l]])
    /\ UNCHANGED <<memory, cache, smmu, tlb, agent, chance>>

FaultSeen == smmu.fault # "none"

\* The end of smmu_v2_live_stage2.  FSR is read before the registers go back.
JudgeV2 ==
    /\ AtStep("judge")
    /\ Goes([test EXCEPT !.good =
            IF Step.fault THEN ~test.good /\ FaultSeen /\ test.actual = "zero"
            ELSE test.good /\ ~FaultSeen /\ test.actual = "a"])
    /\ UNCHANGED <<memory, cache, smmu, tlb, agent, chance>>

Conclude ==
    /\ AtStep("conclude")
    /\ Return(IF test.good THEN "pass" ELSE "fail")
    /\ UNCHANGED <<memory, cache, smmu, tlb, agent, chance>>

\* The test engine of v3 is done, terminated, or out of time; the body goes on
\* to the copied data or to the event queue.
PollEngine ==
    /\ AtStep("engine")
    /\ \/ /\ agent.state \in {"ending", "idle"}
          /\ IF Step.event # "none" THEN Return("fail")
             ELSE Goes([test EXCEPT !.pc = @ + Step.events])
          /\ UNCHANGED chance
       \/ /\ agent.state = "aborted"
          /\ Goes([test EXCEPT !.completed = TRUE])
          /\ UNCHANGED chance
       \/ /\ ~Quiet
          /\ Goes([test EXCEPT !.completed = FALSE])
          /\ chance' = chance \cup {"late"}
    /\ UNCHANGED <<memory, cache, smmu, tlb, agent>>

PollProducer ==
    /\ AtStep("producer")
    /\ Goes([test EXCEPT !.good = smmu.producer # 0])
    /\ \/ smmu.producer # 0 /\ UNCHANGED chance
       \/ smmu.producer = 0 /\ chance' = IF smmu.pending = "none" THEN chance
                                         ELSE chance \cup {"late"}
    /\ UNCHANGED <<memory, cache, smmu, tlb, agent>>

\* Bug: any event will do.
JudgeEvent_Bug ==
    /\ AtStep("event")
    /\ Return(IF Step.event # "none" /\ (test.good \/ test.completed)
                 /\ Seen("destination") = "zero"
              THEN "pass" ELSE "fail")
    /\ UNCHANGED <<memory, cache, smmu, tlb, agent, chance>>
\* exact_event, terminated_without_event, destination_unchanged.
JudgeEvent ==
    /\ AtStep("event")
    /\ LET exact == test.good /\ Seen("events") = Step.event
           without == ~test.good /\ test.completed
       IN  Return(IF Step.event # "none" /\ (exact \/ without)
                     /\ Seen("destination") = "zero"
                  THEN "pass" ELSE "fail")
    /\ UNCHANGED <<memory, cache, smmu, tlb, agent, chance>>

JudgeCopy ==
    /\ AtStep("copied")
    /\ Return(IF Seen("source") = Seen("destination") THEN "pass" ELSE "fail")
    /\ UNCHANGED <<memory, cache, smmu, tlb, agent, chance>>

Payload ==
    \/ DoStore \/ DoClean \/ DoDrop \/ CheckReset \/ DoRegister \/ AwaitAck
    \/ InvalidateEverything \/ DoInvalidate \/ DoStart \/ DoPoll \/ DoObserve
    \/ DoExpect \/ JudgeV2 \/ Conclude \/ PollEngine \/ PollProducer
    \/ JudgeEvent \/ JudgeCopy

Next == Environment \/ Payload

Spec == Init /\ [][Next]_vars

-----------------------------------------------------------------------------
(* Properties.                                                             *)

\* On a conforming SMMU no test fails, however late the caches write back and
\* the agent, the acknowledgements and the events come, as long as they come
\* within the loops' budgets.  The TLB test also fails on an SMMU that forgot
\* the old leaf or an agent that had not stopped.
ConformingSmmuPasses ==
    verdict = "fail" /\ smmu.defect = "nothing" =>
        \/ "late" \in chance
        \/ test.name[2] = "TlbInvalidate" /\ chance # {}

\* The tests that are there for a part of the translation fail on an SMMU that
\* gets it wrong; some only if the SMMU writes events, in time.
SmmuDefectsAreReported ==
    verdict = "pass" /\ smmu.defect # "nothing" =>
        /\ \/ test.name \notin DetectedBy[smmu.defect]
           \/ smmu.defect = "invalidate" /\ "forgot" \in chance
        /\ test.name \notin DetectedByEvent[smmu.defect] \/ smmu.silent \/ "late" \in chance

\* The agent never reaches memory past an SMMU that is not enabled yet or that
\* has its old registers back, unless a loop gave up on it.
AgentIsContained == "stray" \in chance => "late" \in chance
=============================================================================
