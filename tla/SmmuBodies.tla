----------------------------- MODULE SmmuBodies -----------------------------
(***************************************************************************)
(* The scripts of the live SMMU tests (target/payloads/common/smmu.rs):    *)
(* smmu_v2_live_stage2 for each SmmuV2LiveCase and smmu_v3_live_stage2_for *)
(* for each of its callers.  A line is one of the test's static buffers.   *)
(***************************************************************************)
EXTENDS Naturals, Sequences

Lines == {"tables", "stream", "source", "destination", "alternate", "program", "events"}

\* What a descriptor tree is written as, and what a context expects.
Usual == [format |-> "vmsa64", granule |-> "4k", root |-> "usual"]
NoTables == [form |-> Usual, big |-> FALSE, leaves |-> {}]

Leaf(at, page, rights, af, hint) ==
    [at |-> at, page |-> page, rights |-> rights, af |-> af, hint |-> hint]
RW == {"read", "write"}

Store(line, value) == [do |-> "store", line |-> line, value |-> value]
Clean(line) == [do |-> "clean", line |-> line]
Drop(line) == [do |-> "drop", line |-> line]
Simple(what) == [do |-> what]
Poll(wanted) == [do |-> "poll", wanted |-> wanted]
Expect(holds) == [do |-> "expect", holds |-> holds]
Start(to, sid) == [do |-> "start", to |-> to, sid |-> sid]
Enable(on) == [do |-> "client", on |-> on]

-----------------------------------------------------------------------------
(* SMMUv2.                                                                 *)

V2Cases == {"Page4k", "Page4kBigEndian", "Block4k", "Page64k", "Block64k",
            "ReadPermissionFault", "WritePermissionFault", "TranslationFault",
            "AccessFlagFault", "TlbInvalidate", "StreamMask", "ReadAllocateReserved",
            "WriteAllocateReserved", "ReadWriteAllocateReserved", "Root4kL2", "Root64kL1"}
V2Faults == {"ReadPermissionFault", "WritePermissionFault", "TranslationFault",
             "AccessFlagFault"}

V2Form(case) ==
    [Usual EXCEPT !.granule = IF case \in {"Page64k", "Block64k", "Root64kL1"}
                              THEN "64k" ELSE "4k",
                  !.root = IF case \in {"Root4kL2", "Root64kL1"} THEN "other" ELSE "usual"]
V2Context(case) ==
    [form |-> V2Form(case), big |-> case = "Page4kBigEndian", affd |-> FALSE]
V2Match(case) == IF case = "StreamMask" THEN {0, 1} ELSE {0}

V2Leaf(case, at, page) ==
    Leaf(at, page,
         IF at = "source" /\ case = "ReadPermissionFault" THEN {}
         ELSE IF at = "destination" /\ case = "WritePermissionFault" THEN {"read"} ELSE RW,
         case # "AccessFlagFault",
         \/ at = "source" /\ case \in {"ReadAllocateReserved", "ReadWriteAllocateReserved"}
         \/ at = "destination" /\ case \in {"WriteAllocateReserved",
                                            "ReadWriteAllocateReserved"})

\* Translation tables whose destination leads to a page.
V2Tables(case, page) ==
    [form |-> V2Form(case), big |-> case = "Page4kBigEndian",
     leaves |-> {V2Leaf(case, "source", "source")}
                \cup (IF case = "TranslationFault" THEN {}
                      ELSE {V2Leaf(case, "destination", page)})]

\* DBGINST and DBGCMD: the agent runs the same program each time.
Go == Start("destination", 0)

\* After the first copy the leaf of the destination is rewritten: the SMMU is
\* to keep the old one until it is told to drop it, and then to use the new.
Rewritten ==
    <<Store("tables", "alternate"),
      Store("destination", "zero"), Store("alternate", "zero"), Store("source", "b"),
      Clean("tables"), Clean("source"), Clean("destination"), Clean("alternate"), Go,
      Poll([destination |-> {"b"}, alternate |-> {"a", "b", "junk"}]),
      Drop("destination"), Drop("alternate"),
      Expect([destination |-> "b", alternate |-> "zero"]),
      Store("destination", "zero"), Store("alternate", "zero"), Store("source", "c"),
      Clean("source"), Clean("destination"), Clean("alternate")>>
Remapped ==
    <<Poll([alternate |-> {"c"}]), Drop("destination"),
      Expect([destination |-> "zero", alternate |-> "c"])>>
TlbInvalidate ==
    Rewritten \o <<[do |-> "invalidate", at |-> "destination"], Go>> \o Remapped

smmu_v2_live_stage2(case) ==
    LET again == IF case = "TlbInvalidate" THEN TlbInvalidate ELSE <<>>
    IN  <<Store("tables", "destination"), Store("destination", "zero"),
          Store("program", "zero"), Store("source", "a"),
          Clean("tables"), Clean("source"), Clean("destination"), Enable({}),
          Simple("context"),
          Enable({"on"}), Store("program", "copy"), Clean("program"), Go,
          Poll([destination |-> {"a"}]), Drop("destination"),
          [do |-> "observe", over |-> Len(again)]>>
        \o again
        \o <<[do |-> "judge", fault |-> case \in V2Faults], Simple("restore"),
             Simple("conclude")>>

-----------------------------------------------------------------------------
(* SMMUv3.                                                                 *)

\* SmmuLiveFaultSetup and the arguments of smmu_v3_live_stage2_for.
V3Plain ==
    [bank |-> "nonsecure", form |-> Usual, big |-> FALSE, sid |-> 0, event |-> "none",
     rights |-> RW, flag |-> TRUE, affd |-> TRUE, install |-> TRUE, to |-> "destination"]

V3Cases ==
    [stage2 |-> V3Plain,
     stage2_lpa2 |-> [V3Plain EXCEPT !.form.format = "lpa2"],
     stage2_d128 |-> [V3Plain EXCEPT !.form.format = "d128"],
     stage2_16k |-> [V3Plain EXCEPT !.form.granule = "16k"],
     stage2_64k |-> [V3Plain EXCEPT !.form.granule = "64k"],
     stage2_block |-> V3Plain,
     stage2_big_endian |-> [V3Plain EXCEPT !.big = TRUE],
     stage2_table_access_flag |-> V3Plain,
     stage2_stream_id_1 |-> [V3Plain EXCEPT !.sid = 1],
     stage2_translation_fault |->
         [V3Plain EXCEPT !.event = "Translation", !.install = FALSE],
     stage2_address_size_fault |->
         [V3Plain EXCEPT !.event = "AddressSize", !.to = "beyond"],
     stage2_access_fault |->
         [V3Plain EXCEPT !.event = "AccessFlag", !.flag = FALSE, !.affd = FALSE],
     stage2_permission_fault |->
         [V3Plain EXCEPT !.event = "Permission", !.rights = {"read"}],
     stage1 |-> [V3Plain EXCEPT !.form.format = "stage1"],
     stage1_16k |-> [V3Plain EXCEPT !.form = [@ EXCEPT !.format = "stage1", !.granule = "16k"]],
     stage1_64k |-> [V3Plain EXCEPT !.form = [@ EXCEPT !.format = "stage1", !.granule = "64k"]],
     stage1_big_endian |-> [V3Plain EXCEPT !.form.format = "stage1", !.big = TRUE],
     secure_stage1 |-> [V3Plain EXCEPT !.form.format = "stage1", !.bank = "secure"],
     secure_stage2 |-> [V3Plain EXCEPT !.bank = "secure"],
     realm_stage1 |-> [V3Plain EXCEPT !.form.format = "stage1", !.bank = "realm"],
     realm_stage2 |-> [V3Plain EXCEPT !.bank = "realm"]]

V3Context(c) == [form |-> c.form, big |-> c.big, affd |-> c.affd]
V3Tables(c) ==
    [form |-> c.form, big |-> c.big,
     leaves |-> {Leaf("source", "source", RW, TRUE, FALSE)}
                \cup (IF c.install
                      THEN {Leaf("destination", "destination", c.rights, c.flag, FALSE)}
                      ELSE {})]

\* What the SMMU and the engine read is cleaned to memory first.
CleanedLines == <<"tables", "stream", "events", "source", "destination">>

Each(lines, Of(_)) == [i \in DOMAIN lines |-> Of(lines[i])]

smmu_v3_live_stage2_for(c) ==
    LET tail == <<Simple("producer"), Drop("events"), Drop("destination"),
                  [do |-> "event", event |-> c.event]>>
    IN  <<Simple("baseline"),
          Store("stream", "zero"), Store("events", "zero"), Store("destination", "zero"),
          Store("source", "a"), Store("tables", "destination"), Store("stream", "entry")>>
        \o Each(CleanedLines, Clean)
        \o (IF c.bank = "secure" THEN <<Simple("initialise")>> ELSE <<>>)
        \o <<[do |-> "control", on |-> {}], Simple("acknowledged"),
             [do |-> "size", size |-> IF c.sid # 0 THEN 1 ELSE 0],
             [do |-> "control", on |-> {"on"}], Simple("acknowledged"),
             Start(c.to, c.sid),
             [do |-> "engine", event |-> c.event, events |-> Len(tail)]>>
        \o tail
        \o <<Drop("destination"), Simple("copied")>>

-----------------------------------------------------------------------------

Names == ({"v2"} \X V2Cases) \cup ({"v3"} \X DOMAIN V3Cases)
Scripts ==
    [n \in Names |-> IF n[1] = "v2" THEN smmu_v2_live_stage2(n[2])
                     ELSE smmu_v3_live_stage2_for(V3Cases[n[2]])]
Body(name) == Scripts[name]

\* What a body's tables, stream table and context hold once they are written.
TablesOf(name, written) ==
    IF written = "zero" THEN NoTables
    ELSE IF name[1] = "v2" THEN V2Tables(name[2], written) ELSE V3Tables(V3Cases[name[2]])
ContextOf(name) == IF name[1] = "v2" THEN V2Context(name[2]) ELSE V3Context(V3Cases[name[2]])
SidsOf(name) == IF name[1] = "v2" THEN V2Match(name[2]) ELSE {V3Cases[name[2]].sid}

Of(version, cases) == {version} \X cases
DetectedBy ==
    [bypass |-> Names,
     permission |-> Of("v2", {"ReadPermissionFault", "WritePermissionFault"})
                    \cup Of("v3", {"stage2_permission_fault"}),
     accessflag |-> Of("v2", {"AccessFlagFault"}) \cup Of("v3", {"stage2_access_fault"}),
     unmapped |-> Of("v2", {"TranslationFault"}) \cup Of("v3", {"stage2_translation_fault"}),
     invalidate |-> Of("v2", {"TlbInvalidate"}),
     match |-> Of("v2", V2Cases),
     stream |-> Of("v3", {"stage2_stream_id_1"}),
     endian |-> Of("v2", {"Page4kBigEndian"})
                \cup Of("v3", {"stage2_big_endian", "stage1_big_endian"}),
     root |-> Of("v2", {"Root4kL2", "Root64kL1"}),
     granule |-> {n \in Names : n[1] = "v2" /\ V2Form(n[2]).granule # "4k"}
                 \cup {n \in Names : n[1] = "v3" /\ V3Cases[n[2]].form.granule # "4k"},
     format |-> {n \in Names : n[1] = "v3" /\ V3Cases[n[2]].form.format # "vmsa64"},
     range |-> {}, event |-> {},
     hint |-> Of("v2", {"ReadAllocateReserved", "WriteAllocateReserved",
                        "ReadWriteAllocateReserved"})]
\* These can be told only from the event, which not every SMMU writes.
DetectedByEvent ==
    [d \in DOMAIN DetectedBy |->
        CASE d = "range" -> Of("v3", {"stage2_address_size_fault"})
          [] d = "event" -> Of("v3", {"stage2_permission_fault"})
          [] OTHER -> {}]
Faulting == Of("v2", V2Faults) \cup {n \in Names : n[1] = "v3" /\ V3Cases[n[2]].event # "none"}
=============================================================================
