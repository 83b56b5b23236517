------------------------------ MODULE Adapter ------------------------------
(***************************************************************************)
(* The adapter a payload gives the harness (target/payloads/common/mod.rs) *)
(* and the guards a test holds on it (target/harness/src/context.rs): who  *)
(* owns the translation registers, the secondary PE, the Realm's stage 2   *)
(* and a page of another address space, and how each of them is given back *)
(* when a test ends, fails half way or loses track of what it installed.   *)
(*                                                                         *)
(* A translation register holds the generation of the translation that     *)
(* wrote it, 0 being what firmware left there, and bits: whether hardware  *)
(* updates of descriptors are on in a control register, VM and E2H in      *)
(* HCR_EL2.  HCR_EL2 and the control registers have several owners, and    *)
(* every owner saves and writes back the whole register.                   *)
(***************************************************************************)
EXTENDS Naturals, Sequences

CONSTANTS
    None,
    MaxGeneration,  \* bound: installations and switches of a boot
    MaxGuards,      \* bound: the guards a test holds at once
    MaxTests        \* bound: the tests of a suite

ASSUME AdapterAssumption ==
    /\ MaxGeneration \in Nat
    /\ MaxGuards \in Nat
    /\ MaxTests \in Nat

VARIABLES
    el,         \* the exception level of the payload: 2, 3, or 1 in a Realm
    firmware,   \* history: what the registers held at boot
    state,      \* AdapterState
    slots,      \* installed_current_stage1, installed_lower_stage1, installed_stage2
    generation,
    registers,
    previous,   \* secondary_previous
    mapped,     \* realm_stage2_mapped
    scopedPage, \* scoped_pas_page is Some
    delegated,  \* external: a page the firmware gave to another address space
    guards,     \* the guards the test holds, the innermost last
    cleanup,    \* the context's cleanup flag
    phase,      \* what run_suite does
    tests,      \* tests begun
    lost        \* history: hardware or firmware broke its promise

adapter == <<state, slots, generation, registers, previous, mapped, scopedPage>>
runner == <<phase, tests>>
platform == <<el, firmware>>
vars == <<platform, adapter, delegated, guards, cleanup, runner, lost>>

-----------------------------------------------------------------------------
(* The registers of each kind of translation (architecture/src/registers.rs). *)

CurrentRegisters == {"TTBR0", "MAIR", "SCTLR", "TCR2", "VBAR", "SP", "SPSel",
                     "MAIR2", "PIR", "PIRE0"}
LowerRegisters == {"TTBR0_EL1", "MAIR_EL1", "SCTLR_EL1", "TCR2_EL1",
                   "MAIR2_EL1", "PIR_EL1", "PIRE0_EL1"}
Stage2Registers == {"VTTBR", "VSTTBR", "VSTCR", "S2PIR"}
Shared == {"HCR", "HCRX"}
Controls == {"TCR", "TCR_EL1", "VTCR"}
Registers == CurrentRegisters \cup LowerRegisters \cup Stage2Registers
                 \cup Shared \cup Controls

Value(owner) == [owner |-> owner, bits |-> {}]
WithBits(value, bits) == [value EXCEPT !.bits = bits]

\* What a boot finds in the registers.
Boot(host) ==
    [r \in Registers |-> IF r = "HCR" /\ host THEN WithBits(Value(0), {"E2H"}) ELSE Value(0)]

\* What a slot keeps of a translation: the kind of its snapshot, the
\* generation and the snapshot.
RegisterFiles == [Registers -> [owner : Nat, bits : SUBSET {"VM", "E2H", "updates"}]]
KindsOf(slot) ==
    CASE slot = "current" -> {"Stage1", "Geometry", "D128"}
      [] slot = "lower" -> {"Lower", "LowerD128"}
      [] slot = "stage2" -> {"Stage2", "SecureStage2", "Stage2D128"}
Slots == {"current", "lower", "stage2"}
Translations ==
    [kind : UNION {KindsOf(s) : s \in Slots}, token : Nat, saved : RegisterFiles]

ASSUME NoneAssumption == None \notin Translations

Owned(names, owner) == [r \in names |-> Value(owner)]

With(writes, name, value) ==
    [r \in DOMAIN writes \cup {name} |-> IF r = name THEN value ELSE writes[r]]

Written(writes) ==
    [r \in Registers |-> IF r \in DOMAIN writes THEN writes[r] ELSE registers[r]]

Stage1Set == {"TTBR0", "TCR", "MAIR", "SCTLR"}

\* install_stage1.
InstalledStage1(owner) == Owned(Stage1Set, owner)

El2GeometrySet == Stage1Set \cup {"TCR2", "VBAR", "SP", "SPSel"}

\* install_el2_stage1_geometry, with the MMU off; E2H follows the ASID.
InstalledEl2Geometry(owner, host) ==
    With(Owned(El2GeometrySet, owner), "HCR",
         WithBits(registers["HCR"],
                  IF host THEN registers["HCR"].bits \cup {"E2H"}
                          ELSE registers["HCR"].bits \ {"E2H"}))

\* install_el3_stage1_geometry.
InstalledEl3Geometry(owner) == Owned(Stage1Set \cup {"VBAR"}, owner)

\* install_el2_stage1_d128.
InstalledD128(owner) ==
    With(Owned(El2GeometrySet \cup {"MAIR2", "PIR", "PIRE0", "HCRX"}, owner),
         "HCR", WithBits(registers["HCR"], registers["HCR"].bits \cup {"E2H"}))

LowerSet == {"TTBR0_EL1", "TCR_EL1", "MAIR_EL1", "SCTLR_EL1"}

\* install_el1_stage1.
InstalledLower(owner) == Owned(LowerSet, owner)

\* install_el1_stage1_d128: HCR_EL2 is put back before it returns.
InstalledLowerD128(owner) ==
    Owned(LowerSet \cup {"MAIR2_EL1", "TCR2_EL1", "PIR_EL1", "PIRE0_EL1", "HCRX"},
          owner)

VmOn == WithBits(registers["HCR"], registers["HCR"].bits \cup {"VM"})

\* install_stage2.
InstalledStage2(owner) ==
    With(Owned({"VTTBR", "VTCR"}, owner), "HCR", VmOn)

\* install_secure_stage2.
InstalledSecureStage2(owner) ==
    With(Owned({"VSTTBR", "VSTCR", "VTCR"}, owner), "HCR", VmOn)

\* install_stage2_d128.
InstalledStage2D128(owner) ==
    With(Owned({"VTTBR", "VTCR", "S2PIR"}, owner), "HCR", VmOn)

-----------------------------------------------------------------------------
(* What each restore function writes back.                                 *)

RestoresStage1 == Stage1Set                                \* restore_stage1

RestoresEl2Geometry_Bug == El2GeometrySet

\* restore_el2_stage1_geometry.
RestoresEl2Geometry == El2GeometrySet \cup {"HCR"}

\* restore_el3_stage1_geometry.
RestoresEl3Geometry == Stage1Set \cup {"VBAR"}

\* restore_el2_stage1_d128.
RestoresD128 ==
    El2GeometrySet \cup {"HCR", "HCRX", "MAIR2", "PIR", "PIRE0"}

\* restore_el1_stage1.
RestoresLower == LowerSet

\* restore_el1_stage1_d128.
RestoresLowerD128 ==
    LowerSet \cup {"MAIR2_EL1", "TCR2_EL1", "PIR_EL1", "PIRE0_EL1", "HCRX"}

\* restore_stage2.
RestoresStage2 == {"VTTBR", "VTCR", "HCR"}

\* restore_secure_stage2.
RestoresSecureStage2 == {"VSTTBR", "VSTCR", "VTCR", "HCR"}

\* restore_stage2_d128.
RestoresStage2D128 == {"VTTBR", "VTCR", "HCR", "S2PIR"}

\* restore_saved: what it writes back for each kind of snapshot.
RestoredNames(kind) ==
    CASE kind = "Stage1" -> RestoresStage1
      [] kind = "Geometry" -> IF el = 3 THEN RestoresEl3Geometry ELSE RestoresEl2Geometry
      [] kind = "D128" -> RestoresD128
      [] kind = "Lower" -> RestoresLower
      [] kind = "LowerD128" -> RestoresLowerD128
      [] kind = "Stage2" -> RestoresStage2
      [] kind = "SecureStage2" -> RestoresSecureStage2
      [] kind = "Stage2D128" -> RestoresStage2D128

RestoreSaved(active, regs) ==
    [r \in Registers |-> IF r \in RestoredNames(active.kind) THEN active.saved[r] ELSE regs[r]]

\* Only these are read back after they were written (restore_saved).
ReadBack == {"Stage2", "SecureStage2"}

-----------------------------------------------------------------------------

NoSlots == [s \in Slots |-> None]

Init ==
    /\ el \in {1, 2, 3}
    /\ state = "Ready"
    /\ slots = NoSlots
    /\ generation = 0
    /\ \E host \in BOOLEAN : firmware = Boot(host /\ el = 2)
    /\ registers = firmware
    /\ previous = "none"
    /\ mapped = FALSE
    /\ scopedPage = FALSE
    /\ delegated = FALSE
    /\ guards = <<>>
    /\ cleanup = FALSE
    /\ phase = "between"
    /\ tests = 0
    /\ lost = FALSE

Testing == phase = "body"
Installable == state \in {"TestScoped", "TranslationInstalled"}
Room == Len(guards) < MaxGuards /\ generation < MaxGeneration
Top == guards[Len(guards)]
Popped == SubSeq(guards, 1, Len(guards) - 1)
Live(slot, token) == [guard |-> "live", slot |-> slot, token |-> token]

Installed(slot, kind, writes) ==
    /\ generation' = generation + 1
    /\ registers' = Written(writes)
    /\ slots' = [slots EXCEPT ![slot] =
                    [kind |-> kind, token |-> generation + 1, saved |-> registers]]
    /\ guards' = Append(guards, Live(slot, generation + 1))
    /\ state' = "TranslationInstalled"
    /\ UNCHANGED <<platform, previous, mapped, scopedPage, delegated, cleanup, runner, lost>>

\* An installer that refuses leaves everything as it was; a preflight that
\* fails, or a register that reads back differently, is undone, after the
\* generation was counted.
InstallRefused ==
    /\ generation' = generation + 1
    /\ UNCHANGED <<platform, state, slots, registers, previous, mapped, scopedPage,
                   delegated, guards, cleanup, runner, lost>>

\* install_translation of stage 1 at the current exception level.
InstallCurrent ==
    /\ Testing /\ Room /\ Installable /\ el \in {2, 3}
    /\ slots["current"] = None
    /\ LET owner == generation + 1
       IN  \/ Installed("current", "Stage1", InstalledStage1(owner))
           \/ /\ el = 2
              /\ \E host \in BOOLEAN :
                    Installed("current", "Geometry", InstalledEl2Geometry(owner, host))
           \/ /\ el = 3
              /\ Installed("current", "Geometry", InstalledEl3Geometry(owner))
           \/ el = 2 /\ Installed("current", "D128", InstalledD128(owner))
           \/ InstallRefused

\* install_translation of stage 2.
InstallStage2 ==
    /\ Testing /\ Room /\ Installable /\ el = 2
    /\ slots["stage2"] = None
    /\ LET owner == generation + 1
       IN  \/ Installed("stage2", "Stage2", InstalledStage2(owner))
           \/ Installed("stage2", "SecureStage2", InstalledSecureStage2(owner))
           \/ Installed("stage2", "Stage2D128", InstalledStage2D128(owner))
           \/ InstallRefused

\* install_lower_translation.  The 64-bit formats have the lower exception
\* level switch its own stage 1 off before anything is saved in a slot.
InstallLower ==
    /\ Testing /\ Room /\ Installable /\ el = 2
    /\ slots["lower"] = None
    /\ \/ Installed("lower", "Lower", InstalledLower(generation + 1))
       \/ Installed("lower", "LowerD128", InstalledLowerD128(generation + 1))

\* The command that switches EL1's stage 1 off takes effect but does not
\* complete: install_lower_translation has nothing to undo it with.
LowerLost ==
    /\ Testing /\ Room /\ Installable /\ el = 2
    /\ slots["lower"] = None
    /\ registers' = [registers EXCEPT !["SCTLR_EL1"] = Value(generation + 1)]
    /\ generation' = generation + 1
    /\ lost' = TRUE
    /\ UNCHANGED <<platform, state, slots, previous, mapped, scopedPage, delegated,
                   guards, cleanup, runner>>

\* switch_lower_stage1_root and switch_stage2_root: a new token for the same
\* snapshot, in the slot and in the guard.
SwitchRoot ==
    /\ Testing /\ generation < MaxGeneration
    /\ guards # <<>> /\ Top.guard = "live"
    /\ \E slot \in {"lower", "stage2"} :
          /\ slots[slot] # None
          /\ slots[slot].kind \in {"Lower", "Stage2"}
          /\ Top = Live(slot, slots[slot].token)
          /\ registers' = [registers EXCEPT
                 ![IF slot = "lower" THEN "TTBR0_EL1" ELSE "VTTBR"] = Value(generation + 1)]
          /\ slots' = [slots EXCEPT ![slot].token = generation + 1]
          /\ guards' = Append(Popped, Live(slot, generation + 1))
    /\ generation' = generation + 1
    /\ UNCHANGED <<platform, state, previous, mapped, scopedPage, delegated, cleanup,
                   runner, lost>>

-----------------------------------------------------------------------------
(* Giving a translation back.                                              *)

AfterRestore(remaining) ==
    IF remaining = NoSlots THEN "TestScoped" ELSE "TranslationInstalled"

Matches(guard) ==
    /\ slots[guard.slot] # None
    /\ slots[guard.slot].token = guard.token

\* restore_translation succeeds: from restore, restore_owned or Drop.
ReleaseLive ==
    /\ Testing /\ guards # <<>> /\ Top.guard = "live"
    /\ state = "TranslationInstalled"
    /\ Matches(Top)
    /\ LET remaining == [slots EXCEPT ![Top.slot] = None]
       IN  /\ registers' = RestoreSaved(slots[Top.slot], registers)
           /\ slots' = remaining
           /\ state' = AfterRestore(remaining)
    /\ guards' = Popped
    /\ UNCHANGED <<platform, generation, previous, mapped, scopedPage, delegated,
                   cleanup, runner, lost>>

ReleaseFails_Bug ==
    /\ Testing /\ guards # <<>> /\ Top.guard = "live"
    /\ cleanup' = TRUE
    /\ guards' = Popped
    /\ UNCHANGED <<platform, state, slots, generation, registers, previous, mapped,
                   scopedPage, delegated, runner, lost>>

\* It fails: the adapter is in another state or no longer knows the token,
\* the lower exception level does not switch its stage 1 off, or stage 2 does
\* not read back what was written.  The guard is gone either way.
ReleaseFails ==
    /\ Testing /\ guards # <<>> /\ Top.guard = "live"
    /\ \/ /\ state # "TranslationInstalled" \/ ~Matches(Top)
          /\ UNCHANGED <<state, lost>>
       \/ /\ state = "TranslationInstalled" /\ Matches(Top)
          /\ slots[Top.slot].kind = "Lower"
          /\ UNCHANGED <<state, lost>>
       \/ /\ state = "TranslationInstalled" /\ Matches(Top)
          /\ slots[Top.slot].kind \in ReadBack
          /\ state' = "Corrupted"
          /\ lost' = TRUE
    /\ cleanup' = TRUE
    /\ guards' = Popped
    /\ UNCHANGED <<platform, slots, generation, registers, previous, mapped,
                   scopedPage, delegated, runner>>

-----------------------------------------------------------------------------
(* Hardware updates of descriptors (enable_*hardware_updates).             *)

UpdateGuard(name) == [guard |-> "updates", slot |-> name, token |-> 0,
                      saved |-> registers[name]]

EnableUpdates ==
    /\ Testing /\ Len(guards) < MaxGuards /\ el \in {2, 3}
    /\ \E name \in IF el = 2 THEN Controls ELSE {"TCR"} :
          /\ registers' = [registers EXCEPT ![name].bits = @ \cup {"updates"}]
          /\ guards' = Append(guards, UpdateGuard(name))
    /\ UNCHANGED <<platform, state, slots, generation, previous, mapped, scopedPage,
                   delegated, cleanup, runner, lost>>

ReleaseUpdates ==
    /\ Testing /\ guards # <<>> /\ Top.guard = "updates"
    /\ registers' = [registers EXCEPT ![Top.slot] = Top.saved]
    /\ guards' = Popped
    /\ UNCHANGED <<platform, state, slots, generation, previous, mapped, scopedPage,
                   delegated, cleanup, runner, lost>>

-----------------------------------------------------------------------------
(* Sessions on the secondary PE and in the Realm.                          *)

Session(name) == [guard |-> name, slot |-> "none", token |-> 0]

BeginSecondary_Bug ==
    /\ Testing /\ Len(guards) < MaxGuards /\ el = 2
    /\ state \in {"TestScoped", "TranslationInstalled", "SecondaryActive"}
    /\ previous' = state
    /\ state' = "SecondaryActive"
    /\ guards' = Append(guards, Session("secondary"))
    /\ UNCHANGED <<platform, slots, generation, registers, mapped, scopedPage,
                   delegated, cleanup, runner, lost>>

BeginSecondary ==
    /\ Testing /\ Len(guards) < MaxGuards /\ el = 2
    /\ Installable /\ previous = "none"
    /\ previous' = state
    /\ state' = "SecondaryActive"
    /\ guards' = Append(guards, Session("secondary"))
    /\ UNCHANGED <<platform, slots, generation, registers, mapped, scopedPage,
                   delegated, cleanup, runner, lost>>

\* stop, or Drop after an injected failure of stop.
EndSecondary ==
    /\ Testing /\ guards # <<>> /\ Top.guard = "secondary"
    /\ guards' = Popped
    /\ IF state = "SecondaryActive"
       THEN state' = previous /\ previous' = "none" /\ UNCHANGED cleanup
       ELSE cleanup' = TRUE /\ UNCHANGED <<state, previous>>
    /\ UNCHANGED <<platform, slots, generation, registers, mapped, scopedPage,
                   delegated, runner, lost>>

\* begin_realm_stage2_session, in a REC at EL1.
BeginRealm ==
    /\ Testing /\ Len(guards) < MaxGuards /\ el = 1
    /\ state = "TestScoped" /\ ~mapped
    /\ state' = "RealmActive"
    /\ guards' = Append(guards, Session("realm"))
    /\ UNCHANGED <<platform, slots, generation, registers, previous, mapped,
                   scopedPage, delegated, cleanup, runner, lost>>

\* mutate_realm_stage2: a protection change keeps the mapping.
MutateRealm ==
    /\ Testing /\ guards # <<>> /\ Top.guard = "realm"
    /\ state = "RealmActive"
    /\ mapped' = ~mapped
    /\ UNCHANGED <<platform, state, slots, generation, registers, previous,
                   scopedPage, delegated, guards, cleanup, runner, lost>>

\* finish, or Drop: Drop unmaps first, and believes it did even if the
\* firmware refused.  A failure injected into the end leaves the session open.
EndRealm ==
    /\ Testing /\ guards # <<>> /\ Top.guard = "realm"
    /\ guards' = Popped
    /\ \/ /\ mapped' = FALSE
          /\ state' = "TestScoped"
          /\ UNCHANGED <<cleanup, lost>>
       \/ /\ mapped' = FALSE
          /\ cleanup' = TRUE
          /\ UNCHANGED <<state, lost>>
       \/ /\ mapped /\ cleanup' = TRUE
          /\ lost' = TRUE
          /\ UNCHANGED <<mapped, state>>
    /\ UNCHANGED <<platform, slots, generation, registers, previous, scopedPage,
                   delegated, runner>>

-----------------------------------------------------------------------------
(* A page of another physical address space.                               *)

\* allocate_page_in.
AcquirePage ==
    /\ Testing /\ state = "TestScoped" /\ ~scopedPage
    /\ delegated' = TRUE
    /\ scopedPage' = TRUE
    /\ UNCHANGED <<platform, state, slots, generation, registers, previous, mapped,
                   guards, cleanup, runner, lost>>

\* The firmware gives a page that Page::from_firmware does not accept.
AcquireBadPage ==
    /\ Testing /\ state = "TestScoped" /\ ~scopedPage
    /\ delegated' = TRUE
    /\ lost' = TRUE
    /\ UNCHANGED <<platform, adapter, guards, cleanup, runner>>

-----------------------------------------------------------------------------
(* emergency_restore.                                                      *)

EmergencyOrder_Bug(regs) ==
    IF slots["stage2"] = None THEN regs ELSE RestoreSaved(slots["stage2"], regs)

\* The snapshots are written back in one order: stage 2, lower, current.
EmergencyOrder(regs) ==
    LET Undo(slot, from) ==
            IF slots[slot] = None THEN from ELSE RestoreSaved(slots[slot], from)
    IN  Undo("current", Undo("lower", Undo("stage2", regs)))

\* An idle or corrupted adapter is left alone, and so is one whose secondary
\* session lost the state to return to; a Realm is unmapped first.
EmergencyRestore ==
    IF \/ state \in {"Ready", "Finished", "Corrupted"}
       \/ state = "SecondaryActive" /\ previous = "none"
    THEN /\ state' = IF state = "SecondaryActive" THEN "Corrupted" ELSE state
         /\ UNCHANGED <<slots, registers, previous, mapped>>
    ELSE /\ registers' = EmergencyOrder(registers)
         /\ slots' = NoSlots
         /\ previous' = IF state = "SecondaryActive" THEN "none" ELSE previous
         /\ mapped' = IF state = "RealmActive" THEN FALSE ELSE mapped
         /\ state' = "TestScoped"

\* A test forgets the translation it installed on purpose and calls
\* emergency_restore itself.
ForgetAndRestore ==
    /\ Testing /\ Len(guards) = 1 /\ Top.guard = "live"
    /\ guards' = <<>>
    /\ EmergencyRestore
    /\ UNCHANGED <<platform, generation, scopedPage, delegated, cleanup, runner, lost>>

-----------------------------------------------------------------------------
(* run_suite around a test.                                                *)

BeginTest ==
    /\ phase = "between" /\ state = "Ready" /\ tests < MaxTests
    /\ state' = "TestScoped"
    /\ phase' = "body"
    /\ tests' = tests + 1
    /\ UNCHANGED <<platform, slots, generation, registers, previous, mapped,
                   scopedPage, delegated, guards, cleanup, lost>>

\* The test returned: its guards were dropped, innermost first.
RestoreAfterTest ==
    /\ Testing /\ guards = <<>>
    /\ EmergencyRestore
    /\ phase' = "reset"
    /\ UNCHANGED <<platform, generation, scopedPage, delegated, guards, cleanup,
                   tests, lost>>

\* A snapshot is refused or the Realm cannot be unmapped: handle_panic.
PanicAfterTest ==
    /\ Testing /\ guards = <<>>
    /\ \/ mapped /\ state = "RealmActive"
       \/ /\ state \notin {"Ready", "Finished", "Corrupted"}
          /\ \E slot \in Slots :
                slots[slot] # None /\ slots[slot].kind \in ReadBack
    /\ state' = "Corrupted"
    /\ phase' = "spinning"
    /\ lost' = TRUE
    /\ UNCHANGED <<platform, slots, generation, registers, previous, mapped,
                   scopedPage, delegated, guards, cleanup, tests>>

\* The arena is zeroed, the tables of every translation with it; a failed
\* cleanup ends the suite.
ResetMemory ==
    /\ phase = "reset"
    /\ phase' = IF cleanup THEN "ended" ELSE "scope"
    /\ state' = IF cleanup THEN "Corrupted" ELSE state
    /\ UNCHANGED <<platform, slots, generation, registers, previous, mapped,
                   scopedPage, delegated, guards, cleanup, tests, lost>>

\* end_test_scope: the page is forgotten before the firmware releases it.
EndScope ==
    /\ phase = "scope"
    /\ scopedPage' = (scopedPage /\ state # "TestScoped")
    /\ \/ /\ state = "TestScoped" /\ slots = NoSlots
          /\ delegated' = (delegated /\ ~scopedPage)
          /\ state' = "Ready" /\ phase' = "between"
       \/ /\ scopedPage \/ state # "TestScoped" \/ slots # NoSlots
          /\ state' = "Corrupted" /\ phase' = "ended"
          /\ UNCHANGED delegated
    /\ UNCHANGED <<platform, slots, generation, registers, previous, mapped, guards,
                   cleanup, tests, lost>>

Next ==
    \/ InstallCurrent \/ InstallStage2 \/ InstallLower \/ LowerLost \/ SwitchRoot
    \/ ReleaseLive \/ ReleaseFails
    \/ EnableUpdates \/ ReleaseUpdates
    \/ BeginSecondary \/ EndSecondary
    \/ BeginRealm \/ MutateRealm \/ EndRealm
    \/ AcquirePage \/ AcquireBadPage
    \/ ForgetAndRestore
    \/ BeginTest \/ RestoreAfterTest \/ PanicAfterTest \/ ResetMemory \/ EndScope

Spec == Init /\ [][Next]_vars

-----------------------------------------------------------------------------
(* Properties.                                                             *)

\* The adapter never forgets what it has installed or lent out: the state
\* alone says whether a slot, a session or a Realm mapping may be open, in
\* whatever order guards were dropped, forgotten or failed (AdapterState).
StateMatchesSlots ==
    /\ state \in {"Ready", "TestScoped", "RealmActive"} => slots = NoSlots
    /\ state = "TranslationInstalled" => slots # NoSlots
    /\ state = "SecondaryActive" <=> previous # "none"
    /\ previous \in {"TestScoped", "TranslationInstalled", "none"}
    /\ previous = "TestScoped" => slots = NoSlots
    /\ mapped => state \in {"RealmActive", "Corrupted"}

\* Every test starts on the machine firmware left: all registers hold their
\* boot values, no page is lent and nothing is mapped, unless the hardware or
\* the firmware broke a promise (restore_saved, emergency_restore, Drop).
TestsStartClean ==
    state = "Ready" /\ ~lost =>
        /\ registers = firmware
        /\ ~delegated /\ ~scopedPage /\ ~mapped

\* A translation stays in force until it is given back: dropping an inner
\* guard does not disturb the translation of an outer one.
RootRegister(kind) ==
    CASE kind \in {"Stage1", "Geometry", "D128"} -> "TTBR0"
      [] kind \in {"Lower", "LowerD128"} -> "TTBR0_EL1"
      [] kind \in {"Stage2", "Stage2D128"} -> "VTTBR"
      [] kind = "SecureStage2" -> "VSTTBR"

TranslationStays ==
    \A slot \in Slots :
        slots[slot] # None =>
            /\ registers[RootRegister(slots[slot].kind)].owner = slots[slot].token
            /\ slot = "stage2" => "VM" \in registers["HCR"].bits

Roots == {"TTBR0", "TTBR0_EL1", "VTTBR", "VSTTBR"}

\* run_suite zeroes the arena only when no register points to the tables in
\* it, unless a register refused its saved value: emergency_restore skips a
\* corrupted adapter, and only that corrupts it (mod.rs:1969).
TablesOutliveTranslations ==
    [][phase = "reset" /\ phase' # "reset" /\ ~lost
          => \A root \in Roots : registers[root].owner = 0]_vars
=============================================================================
