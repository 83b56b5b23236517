--------------------------- MODULE BodiesFormats ---------------------------
(***************************************************************************)
(* The bodies about descriptor formats, granules and leaf levels           *)
(* (formats_live.rs), hardware updates of descriptors                      *)
(* (hardware_updates.rs) and damaged descriptors (malformed_descriptors.rs *)
(* and faults.rs, target/payloads/common).                                 *)
(***************************************************************************)
EXTENDS LiveTranslation

\* Input addresses of 2^46 and 2^50 stand at page 2^30: TLC's integers are narrow.
High == 2^30
AlignDown(page, size) == page - (page % size)
Pages(granule) == GranuleSpan(granule, 3)

-----------------------------------------------------------------------------
(* The sandbox a current-level translation is entered through              *)
(* (prepare_transition_runtime): aliases of a stack and a mailbox.         *)

Marker == 99
StackAlias == \h6b000
MailboxAlias == \h6b100

PrepareSandbox(root, stack, mailbox, size) ==
    <<Poke(mailbox, Marker), OfflineLeaf(root, StackAlias, stack, size, RW),
      OfflineLeaf(root, MailboxAlias, mailbox, size, RW)>>
SandboxActive == <<Read("self", MailboxAlias, Marker), Read("self", StackAlias, 0)>>
SandboxRestored(stack, mailbox) == <<Peek(mailbox, Marker), Peek(stack, 0)>>

-----------------------------------------------------------------------------
(* formats_live.rs                                                         *)

\* One leaf of any level, read through or asked for.
active_stage1_leaf_case(granule, covered, observation) ==
    LET size == Pages(granule)
        page == Arena(size)                   \* after the root
        stack == Arena(2 * size)
        mailbox == Arena(3 * size)
        output == AlignDown(page, covered)
        access == High + (page - output)
    IN  <<AllocateRoot("root", Arena(0)), Poke(page, 1),
          OfflineLeaf("root", High, output, covered, RW)>>
        \o PrepareSandbox("root", stack, mailbox, size)
        \o <<Install("current", "root", 0),
             IF observation = "access" THEN Read("self", access, 1)
             ELSE Translates("self", access, page),
             Restore("current")>>
        \o SandboxRestored(stack, mailbox)

active_granule_at(granule, first) ==
    LET size == Pages(granule)
        address == \h6a000
        fault == \h6d000
        page == first + size
        stack == first + 2 * size
        mailbox == first + 3 * size
    IN  <<AllocateRoot(granule, first), Poke(page, 1),
          OfflineLeaf(granule, address, page, size, RW)>>
        \o PrepareSandbox(granule, stack, mailbox, size)
        \o <<Install("current", granule, 0)>> \o SandboxActive
        \o <<Faults("self", fault, "read", "Translation", 1)>> \o SandboxActive
        \o <<Read("self", address, 1),
             Protect("current", address, RO),
             Faults("self", address, "write", "Permission", 0),
             Protect("current", address, RW), Read("self", address, 1),
             Restore("current")>>
        \o SandboxRestored(stack, mailbox)

active_granule(granule) == active_granule_at(granule, Arena(0))

vmsa64_stage1_leaf(granule, level, observation) ==
    active_stage1_leaf_case(granule, GranuleSpan(granule, level), observation)

\* The levels each granule has leaves at, with 48-bit and with 52-bit addresses.
Vmsa64Leaves == {<<"4k", 1>>, <<"4k", 2>>, <<"4k", 3>>, <<"16k", 2>>, <<"16k", 3>>,
                 <<"64k", 2>>, <<"64k", 3>>}
Lpa2Leaves == Vmsa64Leaves \cup {<<"4k", 0>>, <<"16k", 1>>, <<"64k", 1>>}

\* D128 leaves are of the lower exception level.
active_d128_stage1_leaf(granule, level, attr, Observe(_, _)) ==
    LET covered == D128Span(granule, level)
        page == Arena(Pages(granule))
        output == AlignDown(page, covered)
    IN  <<AllocateRoot("root", Arena(0)), Poke(page, 1),
          OfflineLeaf("root", High, output, covered, attr),
          Install("lower", "root", 0), Observe(High + (page - output), page),
          Restore("lower")>>

d128_leaf(granule, level, observation) ==
    LET Observe(access, page) ==
            IF observation = "access" THEN Read("el1", access, 1)
            ELSE Translates("el1", access, page)
    IN  active_d128_stage1_leaf(granule, level, RW, Observe)

\* Reached by skipping levels of lookup.
d128_skl(granule, level) == d128_leaf(granule, level, "access")

d128_skl1_fault(granule, level, status) ==
    LET Observe(access, page) ==
            IF status = "AccessFlag" THEN Faults("el1", access, "read", status, 1)
            ELSE Faults("el1", access, "write", status, 1)
    IN  active_d128_stage1_leaf(
            granule, level, IF status = "AccessFlag" THEN {"w", "idle"} ELSE {"x"}, Observe)

D128Leaves == {<<"4k", n>> : n \in 0..3} \cup {<<"16k", n>> : n \in 1..3}
              \cup {<<"64k", n>> : n \in 1..3}
D128Skipped == {<<"4k", n>> : n \in 1..3} \cup {<<"16k", 3>>, <<"16k", 2>>, <<"64k", 3>>}

active_d128 ==
    LET address == \h6b000
        page == Arena(0)
        replacement == Arena(1)
        mair2 == address + 1
    IN  <<Poke(page, 1), Poke(replacement, 2), AllocateRoot("root", Arena(2)),
          OfflineMap("root", address, page, 3, {"idle", "clean"}),
          OfflineMap("root", mair2, page, 3, RW),
          Install("lower", "root", 0), Read("el1", mair2, 1),
          Faults("el1", address, "read", "AccessFlag", 1),
          Updates("lower", "dirty"),
          Read("el1", address, 1), Write("el1", address, 1),
          Updates("lower", "none"), Write("el1", address, 1),
          Protect("lower", address, {"x"}),
          Faults("el1", address, "write", "Permission", 0),
          Protect("lower", address, RW), Remap("lower", address, replacement, RW),
          Invalidate("lower", Va(address)), Read("el1", address, 2),
          Unmap("lower", address), Invalidate("lower", Va(address)),
          Faults("el1", address, "read", "Translation", 1), Restore("lower")>>

\* A stage-1 of 16 KiB granules under a D128 stage-2 of 4 KiB ones; the leaf of
\* stage 1 covers four of stage 2, of which only the first is mapped.
UnderD128Stage2(address, leaf, page, frame1, frame2) ==
    LET target == \hc0000 + (page - \h80000)
        block == D128Span("4k", 1)
        region(n) == AlignDown(n, block)
    IN  <<AllocateRoot("stage1", frame1), AllocateRoot("stage2", frame2),
          OfflineLeaf("stage1", address, target, Pages("16k"), RW),
          OfflineLeaf("stage2", region(frame1), region(frame1), block, RWX),
          OfflineLeaf("stage2", 0, 0, block, RWX),
          OfflineMap("stage2", target, page, 3, leaf)>>

active_d128_stage2 ==
    LET address == \h51000
        page == Arena(0)
        replacement == Arena(4)
        target == \hc0000 + (page - \h80000)
    IN  <<Poke(page, 1), Poke(replacement, 2)>>
        \o UnderD128Stage2(address, RW, page, Arena(8), Arena(12))
        \o <<Install("lower", "stage1", \h52), Install("stage2", "stage2", \h53),
             Read("el1", address, 1),
             Protect("stage2", target, RO), Invalidate("stage2", Ipa(target)),
             Faults("el1", address, "write", "Permission", 2),
             Remap("stage2", target, replacement, RW), Invalidate("stage2", Ipa(target)),
             Read("el1", address, 2),
             Unmap("stage2", target), Invalidate("stage2", Ipa(target)),
             Faults("el1", address, "read", "Translation", 2),
             Restore("stage2"), Restore("lower"), Peek(page, 1)>>

-----------------------------------------------------------------------------
(* hardware_updates.rs                                                     *)

UpdateObservation ==
    {"AccessFlagDisabled", "AccessFlagEnabled", "DirtyDisabled", "DirtyEnabled"}

\* Access flag clear, or permission to write left to the hardware.
UpdateLeaf(observation) ==
    IF observation \in {"AccessFlagDisabled", "AccessFlagEnabled"} THEN {"w", "idle"}
    ELSE {"clean"}

\* What the guard was taken for must remain when it is dropped.
UpdateSteps(observation, by, stage, address, value) ==
    LET number == IF stage = "stage2" THEN 2 ELSE 1
        fault == IF stage = "stage2" THEN 2 ELSE 0
    IN  CASE observation = "AccessFlagDisabled" ->
                 <<Faults(by, address, "read", "AccessFlag", number)>>
          [] observation = "AccessFlagEnabled" ->
                 <<Updates(stage, "flag"), Read(by, address, value),
                   Updates(stage, "none"), Read(by, address, value)>>
          [] observation = "DirtyDisabled" ->
                 <<Updates(stage, "flag"), Faults(by, address, "write", "Permission", fault),
                   Updates(stage, "none")>>
          [] observation = "DirtyEnabled" ->
                 <<Updates(stage, "dirty"), Write(by, address, 1),
                   Updates(stage, "none"), Write(by, address, 2)>>

vmsa64_update_case(observation) ==
    LET address == \h65000
    IN  <<AllocateRoot("root", Arena(1)), Install("current", "root", 0),
          Map("current", address, Arena(0), 3, UpdateLeaf(observation))>>
        \o UpdateSteps(observation, "self", "current", address, Anything)
        \o <<Restore("current")>>

d128_update_case(observation) ==
    LET address == \h65100
    IN  <<AllocateRoot("root", Arena(1)),
          OfflineMap("root", address, Arena(0), 3, UpdateLeaf(observation)),
          Install("lower", "root", 0)>>
        \o UpdateSteps(observation, "el1", "lower", address, Anything)
        \o <<Restore("lower")>>

d128_stage2_update_case(observation) ==
    LET address == \h65200
        page == Arena(0)
    IN  <<Poke(page, 1)>>
        \o UnderD128Stage2(address, UpdateLeaf(observation), page, Arena(4), Arena(8))
        \o <<Install("lower", "stage1", \h58), Install("stage2", "stage2", \h59)>>
        \o UpdateSteps(observation, "el1", "stage2", address, 1)
        \o <<Restore("stage2"), Restore("lower")>>

-----------------------------------------------------------------------------
(* malformed_descriptors.rs                                                *)

\* What the PE makes of a damaged terminal descriptor.
DamageOf(mutation) == IF mutation = "Address" THEN "wide" ELSE "malformed"
DamageStatus(mutation) == IF mutation = "Address" THEN "AddressSize" ELSE "Translation"

malformed_vmsa64_leaf(mutation) ==
    LET address == \h6e000
        page == Arena(0)
    IN  <<Poke(page, 1), AllocateRoot("root", Arena(1)),
          OfflineMap("root", address, page, 3, RW)>>
        \o PrepareSandbox("root", Arena(2), Arena(3), 1)
        \o <<Damage("root", address, DamageOf(mutation)), Install("current", "root", 0),
             Faults("self", address, "read", DamageStatus(mutation), 1),
             Restore("current")>>
        \o SandboxRestored(Arena(2), Arena(3))
        \o active_granule_at("4k", Arena(8))      \* fresh_vmsa64_mapping

malformed_lpa2_leaf(granule, mutation) ==
    LET size == Pages(granule)
        address == High + \h72000
        fresh == address + size
        page == Arena(0)
        stack == Arena(2 * size)
        mailbox == Arena(3 * size)
    IN  <<Poke(page, 1), AllocateRoot("root", Arena(size)),
          OfflineLeaf("root", address, page, size, RW)>>
        \o PrepareSandbox("root", stack, mailbox, size)
        \o <<Damage("root", address, DamageOf(mutation)), Install("current", "root", 0),
             Faults("self", address, "read", DamageStatus(mutation), 1),
             Restore("current")>>
        \o SandboxRestored(stack, mailbox)
        \o <<OfflineLeaf("root", fresh, page, size, RW), Install("current", "root", 0),
             Read("self", fresh, 1), Restore("current")>>
        \o SandboxRestored(stack, mailbox)

malformed_d128_leaf(mutation) ==
    LET address == High + \h72000
    IN  <<Poke(Arena(0), 1), AllocateRoot("root", Arena(1)),
          OfflineMap("root", address, Arena(0), 3, RW),
          Damage("root", address, DamageOf(mutation)), Install("lower", "root", 0),
          Faults("el1", address, "read", DamageStatus(mutation), 1), Restore("lower")>>

-----------------------------------------------------------------------------
(* faults.rs                                                               *)

stage1_address_size ==
    LET address == \h6f000
        sentinel == Arena(5)
    IN  <<AllocateRoot("root", Arena(1)), OfflineMap("root", address, Arena(0), 3, RW),
          Damage("root", address, "wide")>>
        \o PrepareSandbox("root", Arena(2), Arena(3), 1)
        \o <<Install("current", "root", 0),
             Faults("self", address, "read", "AddressSize", 1), Restore("current")>>
        \o SandboxRestored(Arena(2), Arena(3))
        \o <<Poke(sentinel, 1), Peek(sentinel, 1)>>

stage2_malformed_walk ==
    LET va == \h5f000
        page == Arena(0)
        ipa == \hc0000 + (page - \h80000)
        region == AlignDown(Arena(1), Span(1))
        sentinel == Arena(3)
    IN  <<AllocateRoot("stage1", Arena(1)), AllocateRoot("stage2", Arena(2)),
          OfflineMap("stage1", va, ipa, 3, RW),
          OfflineMap("stage2", region, region, 1, RWX), OfflineMap("stage2", 0, 0, 1, RWX),
          OfflineMap("stage2", ipa, page, 3, RW), Damage("stage2", ipa, "malformed"),
          Install("lower", "stage1", \h71), Install("stage2", "stage2", \h72),
          Faults("el1", va, "read", "Translation", 2),
          Restore("stage2"), Restore("lower"), Poke(sentinel, 1), Peek(sentinel, 1)>>

-----------------------------------------------------------------------------

Observations == {"access", "translation"}
LevelName == [n \in 0..3 |-> ToString(n)]
LevelOf(name) == CHOOSE n \in 0..3 : LevelName[n] = name
Leaved(leaves) == {<<l[1], LevelName[l[2]]>> : l \in leaves}

FormatBodies ==
    Singles([active_d128 |-> active_d128, active_d128_stage2 |-> active_d128_stage2,
             stage1_address_size |-> stage1_address_size,
             stage2_malformed_walk |-> stage2_malformed_walk])
    @@ Family("active_granule", {<<g>> : g \in {"4k", "16k", "64k"}},
              LAMBDA p : active_granule(p[1]))
    @@ Family("vmsa64_leaf",
              {l \o <<o>> : l \in Leaved(Vmsa64Leaves), o \in Observations},
              LAMBDA p : vmsa64_stage1_leaf(p[1], LevelOf(p[2]), p[3]))
    @@ Family("lpa2_leaf", {l \o <<o>> : l \in Leaved(Lpa2Leaves), o \in Observations},
              LAMBDA p : vmsa64_stage1_leaf(p[1], LevelOf(p[2]), p[3]))
    @@ Family("d128_leaf", {l \o <<o>> : l \in Leaved(D128Leaves), o \in Observations},
              LAMBDA p : d128_leaf(p[1], LevelOf(p[2]), p[3]))
    @@ Family("d128_skl", Leaved(D128Skipped), LAMBDA p : d128_skl(p[1], LevelOf(p[2])))
    @@ Family("d128_skl1_fault",
              {l \o <<s>> : l \in {<<"4k", "1">>, <<"16k", "2">>},
                            s \in {"AccessFlag", "Permission"}},
              LAMBDA p : d128_skl1_fault(p[1], LevelOf(p[2]), p[3]))
    @@ Family("vmsa64_update", {<<o>> : o \in UpdateObservation},
              LAMBDA p : vmsa64_update_case(p[1]))
    @@ Family("d128_update", {<<o>> : o \in UpdateObservation},
              LAMBDA p : d128_update_case(p[1]))
    @@ Family("d128_stage2_update", {<<o>> : o \in UpdateObservation},
              LAMBDA p : d128_stage2_update_case(p[1]))
    @@ Family("malformed_vmsa64", {<<x>> : x \in {"ReservedType", "Res0", "Res1"}},
              LAMBDA p : malformed_vmsa64_leaf(p[1]))
    @@ Family("malformed_lpa2",
              {<<g, x>> : g \in {"4k", "64k"},
                          x \in {"ReservedType", "Address", "Res0", "Res1"}},
              LAMBDA p : malformed_lpa2_leaf(p[1], p[2]))
    @@ Family("malformed_d128", {<<x>> : x \in {"ValidRes1", "Skl", "Address", "Res0"}},
              LAMBDA p : malformed_d128_leaf(p[1]))

UpdateFamilies == {"vmsa64_update", "d128_update", "d128_stage2_update"}
AccessFlagBodies ==
    {<<f, "AccessFlagDisabled">> : f \in UpdateFamilies} \cup {<<"active_d128">>}
\* A PE that grants what it does not record fails when updates are off again.
UpdateBodies ==
    {<<f, o>> : f \in UpdateFamilies, o \in {"AccessFlagEnabled", "DirtyEnabled"}}
    \cup {<<"active_d128">>}
FormBodies ==
    {<<"stage1_address_size">>, <<"stage2_malformed_walk">>}
    \cup {n \in DOMAIN FormatBodies :
             n[1] \in {"malformed_vmsa64", "malformed_lpa2", "malformed_d128"}}
PermissionBodies ==
    {<<"stage1_translation_cycle">>, <<"combined_stage1_stage2">>, <<"active_d128">>,
     <<"active_d128_stage2">>, <<"active_granule", "4k">>,
     <<"d128_skl1_fault", "4k", "1", "Permission">>}
=============================================================================
