--------------------------- MODULE AdapterProofs ---------------------------
(***************************************************************************)
(* Proofs about Adapter for any number of installations, guards and tests. *)
(*                                                                         *)
(* The guards form a stack, and every snapshot holds whole registers with  *)
(* several owners, so what must be shown of a register is that the lowest  *)
(* guard that writes it back has firmware's value for it (ValueInv), and   *)
(* that a register no guard writes back has that value already.            *)
(***************************************************************************)
EXTENDS Adapter, SequenceTheorems, TLAPS

RegisterValues == [owner : Nat, bits : SUBSET {"VM", "E2H", "updates"}]
GuardSet ==
    [guard : {"live"}, slot : Slots, token : Nat]
        \cup [guard : {"updates"}, slot : Controls, token : {0}, saved : RegisterValues]
        \cup [guard : {"secondary", "realm"}, slot : {"none"}, token : {0}]

AdapterTypeOK ==
    /\ el \in {1, 2, 3}
    /\ state \in {"Ready", "TestScoped", "TranslationInstalled", "SecondaryActive",
                  "RealmActive", "Corrupted"}
    /\ generation \in Nat
    /\ registers \in RegisterFiles
    /\ firmware \in RegisterFiles
    /\ slots \in [Slots -> Translations \cup {None}]
    /\ \A s \in Slots : slots[s] # None => slots[s].kind \in KindsOf(s)
    /\ guards \in Seq(GuardSet)
    /\ phase \in {"between", "body", "reset", "scope", "ended", "spinning"}
    /\ mapped \in BOOLEAN /\ scopedPage \in BOOLEAN /\ delegated \in BOOLEAN
    /\ cleanup \in BOOLEAN /\ lost \in BOOLEAN

Depth == 1 .. Len(guards)

\* Who may be on the stack of guards, and in which states.
StackInv ==
    /\ phase # "body" => guards = <<>>
    /\ el = 1 => slots = NoSlots
    /\ \A i \in Depth :
          /\ guards[i].guard = "secondary" => state = "SecondaryActive"
          /\ guards[i].guard = "realm" => state = "RealmActive"
          /\ guards[i].guard = "updates" => el # 1
          /\ guards[i].guard \in {"secondary", "realm"} =>
                \A j \in Depth : j > i => guards[j].guard = "updates"
    /\ state = "SecondaryActive" => \E i \in Depth : guards[i].guard = "secondary"
    /\ previous = "TranslationInstalled" => slots # NoSlots
    /\ state = "RealmActive" => el = 1

\* Where a suite is, and what may have happened to it by then.
PhaseInv ==
    /\ state = "Ready" <=> phase = "between"
    /\ state = "Corrupted" => lost \/ phase = "ended"
    /\ phase \in {"reset", "scope"} =>
          state = "Corrupted" \/ (state = "TestScoped" /\ slots = NoSlots)
    /\ phase \in {"between", "scope"} => ~cleanup
    /\ phase = "between" => ~scopedPage
    /\ delegated => scopedPage \/ lost \/ phase = "ended"

\* Slots and live guards know each other; only the guard of a lower
\* translation may be gone before its slot is empty.
GuardInv ==
    state # "Corrupted" =>
        /\ \A i \in Depth : guards[i].guard = "live" =>
              /\ slots[guards[i].slot] # None
              /\ slots[guards[i].slot].token = guards[i].token
        /\ \A i, j \in Depth :
              guards[i].guard = "live" /\ guards[j].guard = "live"
                  /\ guards[i].slot = guards[j].slot => i = j
        /\ \A s \in Slots : slots[s] # None =>
              \/ \E i \in Depth : guards[i].guard = "live" /\ guards[i].slot = s
              \/ s = "lower" /\ slots[s].kind = "Lower" /\ cleanup

\* The root registers of a slot hold its token or what firmware left there.
RootsOf(s) == CASE s = "current" -> {"TTBR0"} [] s = "lower" -> {"TTBR0_EL1"}
                [] s = "stage2" -> {"VTTBR", "VSTTBR"}

RootInv ==
    \A s \in Slots : \A root \in RootsOf(s) :
        /\ slots[s] = None => registers[root].owner = 0
        /\ slots[s] # None =>
              /\ slots[s].saved[root].owner = 0
              /\ root = RootRegister(slots[s].kind) =>
                    registers[root].owner = slots[s].token
              /\ root # RootRegister(slots[s].kind) => registers[root].owner = 0

\* What a guard writes back, and which values.
Covers(i) ==
    CASE guards[i].guard = "live" -> RestoredNames(slots[guards[i].slot].kind)
      [] guards[i].guard = "updates" -> {guards[i].slot}
      [] guards[i].guard \in {"secondary", "realm"} -> {}
Saved(i, r) ==
    IF guards[i].guard = "live" THEN slots[guards[i].slot].saved[r] ELSE guards[i].saved

\* The registers that are accounted for: those of the lower exception level
\* are not once a restoration there was refused.
Watched == IF cleanup \/ lost THEN Registers \ LowerSet ELSE Registers

ValueInv ==
    state # "Corrupted" =>
        /\ \A r \in Watched : (\A i \in Depth : r \notin Covers(i)) => registers[r] = firmware[r]
        /\ \A r \in Watched, i \in Depth :
              r \in Covers(i) /\ (\A j \in Depth : j < i => r \notin Covers(j))
                  => Saved(i, r) = firmware[r]

\* Stage 2 stays on under a translation that was installed over it.
VmInv ==
    /\ slots["stage2"] # None => "VM" \in registers["HCR"].bits
    /\ state # "Corrupted" =>
         \A i, j \in Depth :
            /\ j < i /\ guards[j].guard = "live" /\ guards[j].slot = "stage2"
            /\ guards[i].guard = "live" /\ "HCR" \in Covers(i)
            => "VM" \in Saved(i, "HCR").bits

Heavy == GuardInv /\ RootInv /\ ValueInv /\ VmInv

\* The inductive invariant.
Inv == AdapterTypeOK /\ StateMatchesSlots /\ StackInv /\ PhaseInv /\ Heavy

-----------------------------------------------------------------------------
(* The stack.                                                              *)

LEMMA Push ==
  ASSUME NEW S, NEW s \in Seq(S), NEW g \in S
  PROVE  /\ Append(s, g) \in Seq(S)
         /\ Len(Append(s, g)) = Len(s) + 1
         /\ \A i \in 1 .. Len(s) : Append(s, g)[i] = s[i]
         /\ Append(s, g)[Len(s) + 1] = g
  OBVIOUS

LEMMA Pop ==
  ASSUME NEW S, NEW s \in Seq(S), s # <<>>
  PROVE  /\ Len(s) \in Nat /\ Len(s) >= 1
         /\ SubSeq(s, 1, Len(s) - 1) \in Seq(S)
         /\ Len(SubSeq(s, 1, Len(s) - 1)) = Len(s) - 1
         /\ \A i \in 1 .. Len(s) - 1 : SubSeq(s, 1, Len(s) - 1)[i] = s[i]
         /\ s[Len(s)] \in S
<1>1. Len(s) \in Nat /\ Len(s) >= 1
  BY EmptySeq
<1> DEFINE n == Len(s) - 1
<1>2. n \in Nat /\ 1 \in Int /\ \A i \in 1 .. n : s[i] \in S
  BY <1>1
<1>3. n = Len(s) - 1
  OBVIOUS
<1>4. s[Len(s)] \in S
  BY <1>1
<1> HIDE DEF n
<1>5. /\ SubSeq(s, 1, n) \in Seq(S)
      /\ Len(SubSeq(s, 1, n)) = IF 1 <= n THEN n - 1 + 1 ELSE 0
      /\ \A i \in 1 .. n - 1 + 1 : SubSeq(s, 1, n)[i] = s[1 + i - 1]
  BY ONLY <1>2, SubSeqProperties
<1>6. Len(SubSeq(s, 1, n)) = n /\ \A i \in 1 .. n : SubSeq(s, 1, n)[i] = s[i]
  BY ONLY <1>2, <1>5
<1> QED
  BY <1>1, <1>3, <1>4, <1>5, <1>6

LEMMA Pushed ==
  ASSUME AdapterTypeOK, NEW g \in GuardSet, guards' = Append(guards, g)
  PROVE  /\ guards' \in Seq(GuardSet) /\ Len(guards) \in Nat
         /\ Depth' = Depth \cup {Len(guards) + 1}
         /\ \A i \in Depth : guards'[i] = guards[i] /\ i \in Nat /\ i < Len(guards) + 1
         /\ guards'[Len(guards) + 1] = g
  BY Push DEF AdapterTypeOK, Depth

LEMMA PoppedOff ==
  ASSUME AdapterTypeOK, guards # <<>>, guards' = Popped
  PROVE  /\ guards' \in Seq(GuardSet) /\ Len(guards) \in Depth /\ Len(guards) \in Nat
         /\ Depth' = Depth \ {Len(guards)}
         /\ \A i \in Depth' : guards'[i] = guards[i] /\ i \in Nat /\ i < Len(guards)
         /\ Top = guards[Len(guards)] /\ Top \in GuardSet
  BY Pop DEF AdapterTypeOK, Depth, Popped, Top

LEMMA Swapped ==
  ASSUME AdapterTypeOK, guards # <<>>, NEW g \in GuardSet, guards' = Append(Popped, g)
  PROVE  /\ guards' \in Seq(GuardSet) /\ Len(guards) \in Depth
         /\ Depth' = Depth
         /\ \A i \in Depth \ {Len(guards)} : guards'[i] = guards[i]
         /\ guards'[Len(guards)] = g
         /\ Top = guards[Len(guards)] /\ Top \in GuardSet
<1>1. /\ Popped \in Seq(GuardSet) /\ Len(guards) \in Nat /\ Len(guards) >= 1
      /\ Len(Popped) = Len(guards) - 1
      /\ \A i \in 1 .. Len(guards) - 1 : Popped[i] = guards[i]
      /\ guards[Len(guards)] \in GuardSet
  BY Pop DEF AdapterTypeOK, Popped
<1>2. /\ guards' \in Seq(GuardSet) /\ Len(guards') = Len(guards)
      /\ \A i \in 1 .. Len(guards) - 1 : guards'[i] = Popped[i]
      /\ guards'[Len(guards)] = g
  BY <1>1, Push
<1> QED
  BY <1>1, <1>2 DEF Depth, Top

LEMMA Guarded ==
  ASSUME AdapterTypeOK, NEW i \in Depth
  PROVE  /\ guards[i] \in GuardSet
         /\ guards[i].guard \in {"live", "updates", "secondary", "realm"}
         /\ guards[i].guard = "live" => guards[i].slot \in Slots /\ guards[i].token \in Nat
         /\ guards[i].guard = "updates" => guards[i].slot \in Controls
<1>1. guards[i] \in GuardSet
  BY DEF AdapterTypeOK, Depth
<1> QED
  BY <1>1 DEF GuardSet

-----------------------------------------------------------------------------
(* The register sets.                                                      *)

LEMMA SlotFacts ==
  ASSUME AdapterTypeOK, NEW s \in Slots, slots[s] # None
  PROVE  /\ slots[s].kind \in KindsOf(s) /\ slots[s].token \in Nat
         /\ slots[s].saved \in RegisterFiles
  BY DEF AdapterTypeOK, Translations

LEMMA Translation ==
  ASSUME NEW s \in Slots, NEW kind \in KindsOf(s), NEW token \in Nat,
         NEW saved \in RegisterFiles
  PROVE  /\ [kind |-> kind, token |-> token, saved |-> saved] \in Translations
         /\ [kind |-> kind, token |-> token, saved |-> saved] # None
<1>1. [kind |-> kind, token |-> token, saved |-> saved] \in Translations
  BY DEF Translations
<1> QED
  BY <1>1, NoneAssumption

LEMMA KindFacts ==
  ASSUME NEW s \in Slots, NEW kind \in KindsOf(s)
  PROVE  /\ RestoredNames(kind) \subseteq Registers
         /\ RootRegister(kind) \in RestoredNames(kind)
         /\ RootRegister(kind) \in RootsOf(s)
         /\ \A root \in RootsOf(s) :
               root # RootRegister(kind) => root \notin RestoredNames(kind)
         /\ \A t \in Slots : t # s => RootsOf(t) \cap RestoredNames(kind) = {}
         /\ s = "lower" => "HCR" \notin RestoredNames(kind)
         /\ s = "stage2" => "HCR" \in RestoredNames(kind)
         /\ kind = "Lower" => RestoredNames(kind) = LowerSet
  BY DEF Slots, KindsOf, RestoredNames, RootRegister, RootsOf, Registers, CurrentRegisters,
         LowerRegisters, Stage2Registers, Shared, Controls, Stage1Set, LowerSet, El2GeometrySet,
         RestoresStage1, RestoresEl2Geometry, RestoresEl3Geometry, RestoresD128, RestoresLower,
         RestoresLowerD128, RestoresStage2, RestoresSecureStage2, RestoresStage2D128

-----------------------------------------------------------------------------
(* Steps that leave registers, slots and guards alone.                     *)

LEMMA SameCover ==
  ASSUME AdapterTypeOK, el' = el, NEW i \in Depth, guards'[i] = guards[i],
         guards[i].guard = "live" => slots'[guards[i].slot] = slots[guards[i].slot]
  PROVE  Covers(i)' = Covers(i)
<1>1. guards[i].guard \in {"live", "updates", "secondary", "realm"}
  BY Guarded
<1>2. CASE guards[i].guard = "live"
  <2>1. Covers(i) = RestoredNames(slots[guards[i].slot].kind)
    BY <1>2 DEF Covers
  <2>2. Covers(i)' = RestoredNames(slots[guards[i].slot].kind)'
    BY <1>2 DEF Covers
  <2>3. slots'[guards'[i].slot].kind = slots[guards[i].slot].kind
    BY <1>2
  <2> QED
    BY <2>1, <2>2, <2>3 DEF RestoredNames
<1>3. CASE guards[i].guard # "live"
  BY <1>1, <1>3 DEF Covers
<1> QED
  BY <1>2, <1>3

LEMMA SameSaved ==
  ASSUME NEW i \in Depth, guards'[i] = guards[i],
         guards[i].guard = "live" =>
            slots'[guards[i].slot].saved = slots[guards[i].slot].saved,
         NEW r
  PROVE  Saved(i, r)' = Saved(i, r)
  BY DEF Saved

LEMMA WatchedShrinks ==
  ASSUME cleanup => cleanup', lost => lost'
  PROVE  Watched' \subseteq Watched
  BY DEF Watched, Registers, CurrentRegisters, LowerRegisters, Stage2Registers, Shared, Controls, LowerSet

LEMMA Frame ==
  ASSUME AdapterTypeOK, Heavy,
         UNCHANGED <<el, firmware, registers, slots, guards>>,
         state' # "Corrupted" => state # "Corrupted",
         cleanup => cleanup', lost => lost'
  PROVE  Heavy'
<1>1. Depth' = Depth
  BY DEF Depth
<1>2. \A i \in Depth : Covers(i)' = Covers(i) /\ \A r : Saved(i, r)' = Saved(i, r)
  BY SameCover, SameSaved
<1>3. Watched' \subseteq Watched
  BY WatchedShrinks
<1>4. GuardInv'
  BY <1>1 DEF Heavy, GuardInv
<1>5. RootInv'
  BY DEF Heavy, RootInv
<1>6. ValueInv'
  BY <1>1, <1>2, <1>3 DEF Heavy, ValueInv
<1>7. VmInv'
  BY <1>1, <1>2 DEF Heavy, VmInv
<1> QED
  BY <1>4, <1>5, <1>6, <1>7 DEF Heavy

-----------------------------------------------------------------------------
(* Steps that push or pop a guard that is not a translation's.             *)

LEMMA RootFacts ==
  ASSUME NEW s \in Slots, NEW root \in RootsOf(s)
  PROVE  root \in Registers /\ root # "HCR" /\ root \notin Controls
  BY DEF Slots, RootsOf, Registers, CurrentRegisters, LowerRegisters, Stage2Registers,
         Shared, Controls

LEMMA ControlFacts ==
  ASSUME NEW c \in Controls
  PROVE  c \in Registers /\ c # "HCR"
  BY DEF Registers, Controls

LEMMA CoversSession ==
  ASSUME NEW i, guards[i].guard \in {"secondary", "realm"}
  PROVE  Covers(i) = {}
  BY DEF Covers

LEMMA CoversUpdates ==
  ASSUME NEW i, guards[i].guard = "updates"
  PROVE  Covers(i) = {guards[i].slot}
  BY DEF Covers

LEMMA PushGuardInv ==
  ASSUME AdapterTypeOK, GuardInv, NEW g \in GuardSet, g.guard # "live",
         guards' = Append(guards, g), slots' = slots, cleanup => cleanup',
         state' # "Corrupted" => state # "Corrupted"
  PROVE  GuardInv'
<1>n. PICK n : n = Len(guards)
  OBVIOUS
<1>1. /\ Depth' = Depth \cup {n + 1} /\ guards'[n + 1].guard # "live" /\ n \in Nat
      /\ \A i \in Depth : guards'[i] = guards[i] /\ i \in Nat /\ i < n + 1
  BY <1>n, Pushed
<1> SUFFICES ASSUME state' # "Corrupted"
             PROVE  GuardInv'
  BY DEF GuardInv
<1>2. \A i \in Depth' : guards'[i].guard = "live" => i \in Depth
  BY <1>1
<1>3. ASSUME NEW i \in Depth', guards'[i].guard = "live"
      PROVE  /\ slots'[guards'[i].slot] # None
             /\ slots'[guards'[i].slot].token = guards'[i].token
  <2>1. i \in Depth /\ guards'[i] = guards[i]
    BY <1>1, <1>2, <1>3
  <2>2. slots[guards[i].slot] # None /\ slots[guards[i].slot].token = guards[i].token
    BY <1>3, <2>1 DEF GuardInv
  <2> QED
    BY <2>1, <2>2
<1>4. ASSUME NEW i \in Depth', NEW j \in Depth',
             guards'[i].guard = "live", guards'[j].guard = "live",
             guards'[i].slot = guards'[j].slot
      PROVE  i = j
  <2>1. i \in Depth /\ guards'[i] = guards[i] /\ j \in Depth /\ guards'[j] = guards[j]
    BY <1>1, <1>2, <1>4
  <2> QED
    BY <1>4, <2>1 DEF GuardInv
<1>5. ASSUME NEW s \in Slots, slots'[s] # None
      PROVE  \/ \E i \in Depth' : guards'[i].guard = "live" /\ guards'[i].slot = s
             \/ s = "lower" /\ slots'[s].kind = "Lower" /\ cleanup'
  <2>1. \/ \E i \in Depth : guards[i].guard = "live" /\ guards[i].slot = s
        \/ s = "lower" /\ slots[s].kind = "Lower" /\ cleanup
    BY <1>5 DEF GuardInv
  <2>2. CASE \E i \in Depth : guards[i].guard = "live" /\ guards[i].slot = s
    <3>1. PICK i \in Depth : guards[i].guard = "live" /\ guards[i].slot = s
      BY <2>2
    <3> QED
      BY <1>1, <3>1
  <2>3. CASE s = "lower" /\ slots[s].kind = "Lower" /\ cleanup
    BY <2>3
  <2> QED
    BY <2>1, <2>2, <2>3
<1>6. \A i \in Depth' : guards'[i].guard = "live" =>
         /\ slots'[guards'[i].slot] # None
         /\ slots'[guards'[i].slot].token = guards'[i].token
  BY <1>3, Zenon
<1>7. \A i, j \in Depth' :
         guards'[i].guard = "live" /\ guards'[j].guard = "live"
             /\ guards'[i].slot = guards'[j].slot => i = j
  BY <1>4, Zenon
<1>8. \A s \in Slots : slots'[s] # None =>
         \/ \E i \in Depth' : guards'[i].guard = "live" /\ guards'[i].slot = s
         \/ s = "lower" /\ slots'[s].kind = "Lower" /\ cleanup'
  BY <1>5, Zenon
<1> QED
  BY <1>6, <1>7, <1>8, Zenon DEF GuardInv

LEMMA PopGuardInv ==
  ASSUME AdapterTypeOK, GuardInv, guards # <<>>, Top.guard # "live",
         guards' = Popped, slots' = slots, cleanup => cleanup',
         state' # "Corrupted" => state # "Corrupted"
  PROVE  GuardInv'
<1>n. PICK n : n = Len(guards)
  OBVIOUS
<1>1. /\ n \in Depth /\ Depth' = Depth \ {n} /\ guards[n] = Top
      /\ \A i \in Depth' : guards'[i] = guards[i] /\ i \in Depth
  BY <1>n, PoppedOff
<1> SUFFICES ASSUME state' # "Corrupted"
             PROVE  GuardInv'
  BY DEF GuardInv
<1>3. ASSUME NEW i \in Depth', guards'[i].guard = "live"
      PROVE  /\ slots'[guards'[i].slot] # None
             /\ slots'[guards'[i].slot].token = guards'[i].token
  BY <1>1, <1>3 DEF GuardInv
<1>4. ASSUME NEW i \in Depth', NEW j \in Depth',
             guards'[i].guard = "live", guards'[j].guard = "live",
             guards'[i].slot = guards'[j].slot
      PROVE  i = j
  BY <1>1, <1>4 DEF GuardInv
<1>5. ASSUME NEW s \in Slots, slots'[s] # None
      PROVE  \/ \E i \in Depth' : guards'[i].guard = "live" /\ guards'[i].slot = s
             \/ s = "lower" /\ slots'[s].kind = "Lower" /\ cleanup'
  <2>1. \/ \E i \in Depth : guards[i].guard = "live" /\ guards[i].slot = s
        \/ s = "lower" /\ slots[s].kind = "Lower" /\ cleanup
    BY <1>5 DEF GuardInv
  <2>2. CASE \E i \in Depth : guards[i].guard = "live" /\ guards[i].slot = s
    <3>1. PICK i \in Depth : guards[i].guard = "live" /\ guards[i].slot = s
      BY <2>2
    <3> QED
      BY <1>1, <3>1
  <2>3. CASE s = "lower" /\ slots[s].kind = "Lower" /\ cleanup
    BY <2>3
  <2> QED
    BY <2>1, <2>2, <2>3
<1>6. \A i \in Depth' : guards'[i].guard = "live" =>
         /\ slots'[guards'[i].slot] # None
         /\ slots'[guards'[i].slot].token = guards'[i].token
  BY <1>3, Zenon
<1>7. \A i, j \in Depth' :
         guards'[i].guard = "live" /\ guards'[j].guard = "live"
             /\ guards'[i].slot = guards'[j].slot => i = j
  BY <1>4, Zenon
<1>8. \A s \in Slots : slots'[s] # None =>
         \/ \E i \in Depth' : guards'[i].guard = "live" /\ guards'[i].slot = s
         \/ s = "lower" /\ slots'[s].kind = "Lower" /\ cleanup'
  BY <1>5, Zenon
<1> QED
  BY <1>6, <1>7, <1>8, Zenon DEF GuardInv

LEMMA PushSession ==
  ASSUME AdapterTypeOK, Heavy, NEW g \in GuardSet, g.guard \in {"secondary", "realm"},
         guards' = Append(guards, g),
         UNCHANGED <<el, firmware, registers, slots, cleanup, lost>>,
         state' # "Corrupted" => state # "Corrupted"
  PROVE  Heavy'
<1>n. PICK n : n = Len(guards)
  OBVIOUS
<1>1. /\ Depth' = Depth \cup {n + 1} /\ guards'[n + 1] = g /\ n \in Nat
      /\ \A i \in Depth : guards'[i] = guards[i] /\ i \in Nat /\ i < n + 1
  BY <1>n, Pushed
<1>2. \A i \in Depth : Covers(i)' = Covers(i) /\ \A r : Saved(i, r)' = Saved(i, r)
  BY <1>1, SameCover, SameSaved
<1>3. Covers(n + 1)' = {}
  BY <1>1 DEF Covers
<1>4. Watched' = Watched
  BY DEF Watched
<1>5. GuardInv'
  BY PushGuardInv DEF Heavy
<1>6. RootInv'
  BY DEF Heavy, RootInv
<1>7. ValueInv'
  <2>1. ASSUME state' # "Corrupted", NEW r \in Watched, \A i \in Depth' : r \notin Covers(i)'
        PROVE  registers[r] = firmware[r]
    BY <1>1, <1>2, <2>1 DEF Heavy, ValueInv
  <2>2. ASSUME state' # "Corrupted", NEW r \in Watched, NEW i \in Depth', r \in Covers(i)',
               \A j \in Depth' : j < i => r \notin Covers(j)'
        PROVE  Saved(i, r)' = firmware[r]
    <3>1. i \in Depth
      BY <1>1, <1>3, <2>2
    <3>2. r \in Covers(i) /\ \A j \in Depth : j < i => r \notin Covers(j)
      BY <1>1, <1>2, <2>2, <3>1
    <3> QED
      BY <1>2, <2>2, <3>1, <3>2 DEF Heavy, ValueInv
  <2> QED
    BY <1>4, <2>1, <2>2 DEF ValueInv
<1>8. VmInv'
  <2>1. guards'[n + 1].guard # "live"
    BY <1>1
  <2>2. ASSUME state' # "Corrupted", NEW i \in Depth', NEW j \in Depth', j < i,
               guards'[j].guard = "live", guards'[j].slot = "stage2",
               guards'[i].guard = "live", "HCR" \in Covers(i)'
        PROVE  "VM" \in Saved(i, "HCR")'.bits
    BY <1>1, <1>2, <2>1, <2>2 DEF Heavy, VmInv
  <2> QED
    BY <2>2 DEF Heavy, VmInv
<1> QED
  BY <1>5, <1>6, <1>7, <1>8 DEF Heavy

LEMMA PopSession ==
  ASSUME AdapterTypeOK, Heavy, guards # <<>>, Top.guard \in {"secondary", "realm"},
         guards' = Popped,
         UNCHANGED <<el, firmware, registers, slots>>,
         cleanup => cleanup', lost => lost',
         state' # "Corrupted" => state # "Corrupted"
  PROVE  Heavy'
<1>n. PICK n : n = Len(guards)
  OBVIOUS
<1>1. /\ n \in Depth /\ n \in Nat /\ Depth' = Depth \ {n} /\ guards[n] = Top
      /\ \A i \in Depth' : guards'[i] = guards[i] /\ i \in Nat /\ i < n
  BY <1>n, PoppedOff
<1>2. \A i \in Depth' : Covers(i)' = Covers(i) /\ \A r : Saved(i, r)' = Saved(i, r)
  BY <1>1, SameCover, SameSaved
<1>3. Covers(n) = {}
  BY <1>1, CoversSession
<1>4. Watched' \subseteq Watched
  BY WatchedShrinks
<1>5. GuardInv'
  BY PopGuardInv DEF Heavy
<1>6. RootInv'
  BY DEF Heavy, RootInv
<1>7. ValueInv'
  BY <1>1, <1>2, <1>3, <1>4 DEF Heavy, ValueInv
<1>8. VmInv'
  BY <1>1, <1>2 DEF Heavy, VmInv
<1> QED
  BY <1>5, <1>6, <1>7, <1>8 DEF Heavy

LEMMA PushUpdates ==
  ASSUME AdapterTypeOK, Heavy, NEW name \in Controls,
         registers' = [registers EXCEPT ![name].bits = @ \cup {"updates"}],
         guards' = Append(guards, UpdateGuard(name)),
         UNCHANGED <<el, firmware, slots, state, cleanup, lost>>
  PROVE  Heavy' /\ registers' \in RegisterFiles /\ guards' \in Seq(GuardSet)
<1>n. PICK n : n = Len(guards)
  OBVIOUS
<1>g. PICK g : g = UpdateGuard(name)
  OBVIOUS
<1>0. registers[name] \in RegisterValues /\ name \in Registers
  BY ControlFacts DEF AdapterTypeOK, RegisterFiles, RegisterValues
<1>1. g \in GuardSet /\ g.guard = "updates" /\ g.slot = name /\ g.saved = registers[name]
  BY <1>0, <1>g DEF UpdateGuard, GuardSet
<1>2. /\ Depth' = Depth \cup {n + 1} /\ guards'[n + 1] = g /\ n \in Nat
      /\ \A i \in Depth : guards'[i] = guards[i] /\ i \in Nat /\ i < n + 1
      /\ guards' \in Seq(GuardSet)
  BY <1>1, <1>n, <1>g, Pushed
<1>3. \A i \in Depth : Covers(i)' = Covers(i) /\ \A r : Saved(i, r)' = Saved(i, r)
  BY <1>2, SameCover, SameSaved
<1>4. Covers(n + 1)' = {name} /\ \A r : Saved(n + 1, r)' = registers[name]
  BY <1>1, <1>2 DEF Covers, Saved
<1>5. Watched' = Watched
  BY DEF Watched
<1>6. \A r \in Registers : r # name => registers'[r] = registers[r]
  BY DEF AdapterTypeOK, RegisterFiles
<1>7. GuardInv'
  BY <1>1, <1>g, PushGuardInv DEF Heavy
<1>8. RootInv'
  BY <1>6, RootFacts DEF Heavy, RootInv
<1>9. ValueInv'
  <2>1. Watched \subseteq Registers
    BY DEF Watched
  <2> QED
    BY <1>2, <1>3, <1>4, <1>5, <1>6, <2>1 DEF Heavy, ValueInv
<1>10. VmInv'
  <2>1. registers'["HCR"] = registers["HCR"]
    BY <1>6, ControlFacts DEF Registers, Shared
  <2> QED
    <3>1. guards'[n + 1].guard # "live"
      BY <1>1, <1>2
    <3>2. ASSUME state' # "Corrupted", NEW i \in Depth', NEW j \in Depth', j < i,
                 guards'[j].guard = "live", guards'[j].slot = "stage2",
                 guards'[i].guard = "live", "HCR" \in Covers(i)'
          PROVE  "VM" \in Saved(i, "HCR")'.bits
      BY <1>2, <1>3, <3>1, <3>2 DEF Heavy, VmInv
    <3> QED
      BY <2>1, <3>2 DEF Heavy, VmInv
<1>11. registers' \in RegisterFiles
  BY <1>0 DEF AdapterTypeOK, RegisterFiles, RegisterValues
<1> QED
  BY <1>2, <1>7, <1>8, <1>9, <1>10, <1>11 DEF Heavy

LEMMA PopUpdates ==
  ASSUME AdapterTypeOK, Heavy, guards # <<>>, Top.guard = "updates",
         registers' = [registers EXCEPT ![Top.slot] = Top.saved],
         guards' = Popped,
         UNCHANGED <<el, firmware, slots, state, cleanup, lost>>
  PROVE  Heavy' /\ registers' \in RegisterFiles /\ guards' \in Seq(GuardSet)
<1>n. PICK n : n = Len(guards)
  OBVIOUS
<1>1. /\ n \in Depth /\ n \in Nat /\ Depth' = Depth \ {n} /\ guards[n] = Top /\ Top \in GuardSet
      /\ \A i \in Depth' : guards'[i] = guards[i] /\ i \in Nat /\ i < n
      /\ guards' \in Seq(GuardSet)
  BY <1>n, PoppedOff
<1>2. Top.slot \in Controls /\ Top.saved \in RegisterValues
  BY <1>1 DEF GuardSet
<1>p. PICK name : name = Top.slot
  OBVIOUS
<1>3. \A i \in Depth' : Covers(i)' = Covers(i) /\ \A r : Saved(i, r)' = Saved(i, r)
  BY <1>1, SameCover, SameSaved
<1>4. Covers(n) = {name} /\ \A r : Saved(n, r) = Top.saved
  BY <1>1, <1>p DEF Covers, Saved
<1>5. Watched' = Watched /\ Watched \subseteq Registers
  BY DEF Watched
<1>6. /\ name \in Registers /\ name # "HCR" /\ registers'[name] = Top.saved
      /\ \A r \in Registers : r # name => registers'[r] = registers[r]
  BY <1>2, <1>p, ControlFacts DEF AdapterTypeOK, RegisterFiles
<1>7. GuardInv'
  BY PopGuardInv DEF Heavy
<1>8. RootInv'
  BY <1>2, <1>p, <1>6, RootFacts DEF Heavy, RootInv
<1>9. ValueInv'
  <2>1. ASSUME state # "Corrupted", NEW r \in Watched, \A i \in Depth' : r \notin Covers(i)'
        PROVE  registers'[r] = firmware[r]
    <3>1. \A i \in Depth : i # n => r \notin Covers(i)
      BY <1>1, <1>3, <2>1
    <3>2. CASE r = name
      BY <1>1, <1>4, <1>6, <2>1, <3>1, <3>2 DEF Heavy, ValueInv
    <3>3. CASE r # name
      BY <1>1, <1>4, <1>5, <1>6, <2>1, <3>1, <3>3 DEF Heavy, ValueInv
    <3> QED
      BY <3>2, <3>3
  <2>2. ASSUME state # "Corrupted", NEW r \in Watched, NEW i \in Depth', r \in Covers(i)',
               \A j \in Depth' : j < i => r \notin Covers(j)'
        PROVE  Saved(i, r)' = firmware[r]
    <3>1. \A j \in Depth : j < i => j \in Depth'
      BY <1>1
    <3>2. i \in Depth /\ r \in Covers(i) /\ \A j \in Depth : j < i => r \notin Covers(j)
      BY <1>1, <1>3, <2>2, <3>1
    <3> QED
      BY <1>3, <2>2, <3>2 DEF Heavy, ValueInv
  <2> QED
    BY <1>5, <2>1, <2>2 DEF ValueInv
<1>10. VmInv'
  <2>1. registers'["HCR"] = registers["HCR"]
    BY <1>6 DEF Registers, Shared
  <2> QED
    BY <1>1, <1>3, <2>1 DEF Heavy, VmInv
<1>11. registers' \in RegisterFiles
  BY <1>2 DEF AdapterTypeOK, RegisterFiles, RegisterValues
<1> QED
  BY <1>1, <1>7, <1>8, <1>9, <1>10, <1>11 DEF Heavy

-----------------------------------------------------------------------------
(* Installing a translation.                                               *)

\* What an installer writes, of the registers its restore function knows.
Proper(s, kind, writes) ==
    /\ kind \in KindsOf(s)
    /\ DOMAIN writes \subseteq RestoredNames(kind)
    /\ \A r \in DOMAIN writes : writes[r] \in RegisterValues
    /\ RootRegister(kind) \in DOMAIN writes
    /\ writes[RootRegister(kind)].owner = generation + 1
    /\ "HCR" \in DOMAIN writes /\ "VM" \in registers["HCR"].bits =>
          "VM" \in writes["HCR"].bits
    /\ s = "stage2" => "HCR" \in DOMAIN writes /\ "VM" \in writes["HCR"].bits

LEMMA InstallFacts ==
  ASSUME AdapterTypeOK, NEW s \in Slots, NEW kind, NEW writes, Proper(s, kind, writes),
         Installed(s, kind, writes)
  PROVE  /\ generation' \in Nat /\ registers' \in RegisterFiles
         /\ slots' \in [Slots -> Translations \cup {None}]
         /\ slots'[s] = [kind |-> kind, token |-> generation + 1, saved |-> registers]
         /\ slots'[s] # None
         /\ \A t \in Slots : t # s => slots'[t] = slots[t]
         /\ guards' = Append(guards, Live(s, generation + 1))
         /\ Live(s, generation + 1) \in GuardSet
         /\ \A r \in Registers :
               registers'[r] = IF r \in DOMAIN writes THEN writes[r] ELSE registers[r]
<1>1. /\ generation \in Nat /\ generation + 1 \in Nat /\ registers \in RegisterFiles
      /\ slots \in [Slots -> Translations \cup {None}] /\ kind \in KindsOf(s)
  BY DEF AdapterTypeOK, Proper
<1>2. /\ [kind |-> kind, token |-> generation + 1, saved |-> registers] \in Translations
      /\ [kind |-> kind, token |-> generation + 1, saved |-> registers] # None
  BY <1>1, Translation
<1>3. /\ generation' = generation + 1
      /\ registers' = Written(writes)
      /\ slots' = [slots EXCEPT ![s] =
                     [kind |-> kind, token |-> generation + 1, saved |-> registers]]
      /\ guards' = Append(guards, Live(s, generation + 1))
  BY DEF Installed
<1>4. \A r \in Registers :
         registers'[r] = IF r \in DOMAIN writes THEN writes[r] ELSE registers[r]
  BY <1>3 DEF Written
<1>5. registers' \in RegisterFiles
  BY <1>1, <1>3 DEF Written, RegisterFiles, RegisterValues, Proper
<1>6. Live(s, generation + 1) \in GuardSet
  BY <1>1 DEF Live, GuardSet
<1> QED
  BY <1>1, <1>2, <1>3, <1>4, <1>5, <1>6

LEMMA InstallLight ==
  ASSUME AdapterTypeOK, StateMatchesSlots, StackInv, PhaseInv, Testing, Installable, el # 1,
         NEW s \in Slots, NEW kind, NEW writes, Proper(s, kind, writes),
         Installed(s, kind, writes)
  PROVE  AdapterTypeOK' /\ StateMatchesSlots' /\ StackInv' /\ PhaseInv'
<1>n. PICK n, g : n = Len(guards) /\ g = Live(s, generation + 1)
  OBVIOUS
<1>1. /\ generation' \in Nat /\ registers' \in RegisterFiles
      /\ slots' \in [Slots -> Translations \cup {None}]
      /\ slots'[s] = [kind |-> kind, token |-> generation + 1, saved |-> registers]
      /\ slots'[s] # None
      /\ \A t \in Slots : t # s => slots'[t] = slots[t]
      /\ guards' = Append(guards, g) /\ g \in GuardSet /\ g.guard = "live"
  BY <1>n, InstallFacts DEF Live
<1>2. /\ Depth' = Depth \cup {n + 1} /\ guards'[n + 1] = g /\ n \in Nat
      /\ \A i \in Depth : guards'[i] = guards[i] /\ i \in Nat /\ i < n + 1
      /\ guards' \in Seq(GuardSet)
  BY <1>n, <1>1, Pushed
<1>3. /\ state' = "TranslationInstalled" /\ state \in {"TestScoped", "TranslationInstalled"}
      /\ UNCHANGED <<el, firmware, previous, mapped, scopedPage, delegated, cleanup, phase, lost>>
      /\ phase = "body"
  BY DEF Installed, Installable, Testing, platform, runner
<1>4. kind \in KindsOf(s)
  BY DEF Proper
<1>5. AdapterTypeOK'
  <2>1. \A t \in Slots : slots'[t] # None => slots'[t].kind \in KindsOf(t)
    BY <1>1, <1>4 DEF AdapterTypeOK
  <2> QED
    BY <1>1, <1>2, <1>3, <2>1 DEF AdapterTypeOK
<1>6. slots' # NoSlots
  BY <1>1 DEF NoSlots
<1>7. StateMatchesSlots'
  BY <1>3, <1>6 DEF StateMatchesSlots
<1>8. StackInv'
  BY <1>1, <1>2, <1>3, <1>6 DEF StackInv, StateMatchesSlots
<1>9. PhaseInv'
  BY <1>3 DEF PhaseInv
<1> QED
  BY <1>5, <1>7, <1>8, <1>9

LEMMA InstallHeavy ==
  ASSUME AdapterTypeOK, Heavy, Installable,
         NEW s \in Slots, slots[s] = None, NEW kind, NEW writes, Proper(s, kind, writes),
         Installed(s, kind, writes)
  PROVE  Heavy'
<1>n. PICK n, g : n = Len(guards) /\ g = Live(s, generation + 1)
  OBVIOUS
<1>1. /\ slots'[s] = [kind |-> kind, token |-> generation + 1, saved |-> registers]
      /\ slots'[s] # None
      /\ \A t \in Slots : t # s => slots'[t] = slots[t]
      /\ guards' = Append(guards, g) /\ g \in GuardSet
      /\ g.guard = "live" /\ g.slot = s /\ g.token = generation + 1
  BY <1>n, InstallFacts DEF Live
<1>r. \A r \in Registers :
         registers'[r] = IF r \in DOMAIN writes THEN writes[r] ELSE registers[r]
  BY InstallFacts
<1>2. /\ Depth' = Depth \cup {n + 1} /\ guards'[n + 1] = g /\ n \in Nat
      /\ \A i \in Depth : guards'[i] = guards[i] /\ i \in Nat /\ i < n + 1
  BY <1>n, <1>1, Pushed
<1>3. /\ UNCHANGED <<el, firmware, cleanup, lost>> /\ state # "Corrupted"
  BY DEF Installed, Installable, platform
<1>4. /\ kind \in KindsOf(s) /\ DOMAIN writes \subseteq RestoredNames(kind)
      /\ RootRegister(kind) \in DOMAIN writes
      /\ writes[RootRegister(kind)].owner = generation + 1
      /\ "HCR" \in DOMAIN writes /\ "VM" \in registers["HCR"].bits =>
            "VM" \in writes["HCR"].bits
      /\ s = "stage2" => "HCR" \in DOMAIN writes /\ "VM" \in writes["HCR"].bits
  BY DEF Proper
<1>5. \A i \in Depth : guards[i].guard = "live" => guards[i].slot \in Slots /\ guards[i].slot # s
  BY <1>3, Guarded DEF Heavy, GuardInv
<1>6. \A i \in Depth : guards[i].guard = "live" => slots'[guards[i].slot] = slots[guards[i].slot]
  BY <1>1, <1>5
<1>7. \A i \in Depth : Covers(i)' = Covers(i) /\ \A r : Saved(i, r)' = Saved(i, r)
  BY <1>2, <1>3, <1>6, SameCover, SameSaved
<1>8. Covers(n + 1)' = RestoredNames(kind)
  <2>1. Covers(n + 1)' = RestoredNames(slots[s].kind)'
    BY <1>1, <1>2 DEF Covers
  <2>2. slots'[s].kind = kind
    BY <1>1
  <2> QED
    BY <1>3, <2>1, <2>2 DEF RestoredNames
<1>9. \A r : Saved(n + 1, r)' = registers[r]
  BY <1>1, <1>2 DEF Saved
<1>10. GuardInv'
  <2>1. ASSUME NEW i \in Depth', guards'[i].guard = "live"
        PROVE  /\ slots'[guards'[i].slot] # None
               /\ slots'[guards'[i].slot].token = guards'[i].token
    <3>1. CASE i = n + 1
      <4>1. guards'[i] = g
        BY <1>2, <3>1
      <4>2. slots'[s].token = g.token
        BY <1>1
      <4> QED
        BY <1>1, <4>1, <4>2
    <3>2. CASE i # n + 1
      BY <1>2, <1>3, <1>6, <2>1, <3>2 DEF Heavy, GuardInv
    <3> QED
      BY <3>1, <3>2
  <2>2. ASSUME NEW i \in Depth', NEW j \in Depth',
               guards'[i].guard = "live", guards'[j].guard = "live",
               guards'[i].slot = guards'[j].slot
        PROVE  i = j
    <3>1. CASE i = n + 1 \/ j = n + 1
      BY <1>1, <1>2, <1>5, <2>2, <3>1
    <3>2. CASE i # n + 1 /\ j # n + 1
      BY <1>2, <1>3, <2>2, <3>2 DEF Heavy, GuardInv
    <3> QED
      BY <3>1, <3>2
  <2>3. ASSUME NEW t \in Slots, slots'[t] # None
        PROVE  \/ \E i \in Depth' : guards'[i].guard = "live" /\ guards'[i].slot = t
               \/ t = "lower" /\ slots'[t].kind = "Lower" /\ cleanup'
    <3>1. CASE t = s
      BY <1>1, <1>2, <3>1
    <3>2. CASE t # s
      <4>1. slots'[t] = slots[t]
        BY <1>1, <3>2
      <4>2. CASE \E i \in Depth : guards[i].guard = "live" /\ guards[i].slot = t
        <5>1. PICK i \in Depth : guards[i].guard = "live" /\ guards[i].slot = t
          BY <4>2
        <5> QED
          BY <1>2, <5>1
      <4>3. CASE t = "lower" /\ slots[t].kind = "Lower" /\ cleanup
        BY <1>3, <4>1, <4>3
      <4> QED
        BY <1>3, <2>3, <4>1, <4>2, <4>3 DEF Heavy, GuardInv
    <3> QED
      BY <3>1, <3>2
  <2>4. \A i \in Depth' : guards'[i].guard = "live" =>
           /\ slots'[guards'[i].slot] # None
           /\ slots'[guards'[i].slot].token = guards'[i].token
    BY <2>1, Zenon
  <2>5. \A i, j \in Depth' :
           guards'[i].guard = "live" /\ guards'[j].guard = "live"
               /\ guards'[i].slot = guards'[j].slot => i = j
    BY <2>2, Zenon
  <2>6. \A t \in Slots : slots'[t] # None =>
           \/ \E i \in Depth' : guards'[i].guard = "live" /\ guards'[i].slot = t
           \/ t = "lower" /\ slots'[t].kind = "Lower" /\ cleanup'
    BY <2>3, Zenon
  <2> QED
    BY <2>4, <2>5, <2>6, Zenon DEF GuardInv
<1>11. RootInv'
  <2>1. ASSUME NEW t \in Slots, NEW root \in RootsOf(t)
        PROVE  /\ slots'[t] = None => registers'[root].owner = 0
               /\ slots'[t] # None =>
                     /\ slots'[t].saved[root].owner = 0
                     /\ root = RootRegister(slots'[t].kind) =>
                           registers'[root].owner = slots'[t].token
                     /\ root # RootRegister(slots'[t].kind) => registers'[root].owner = 0
    <3>1. root \in Registers
      BY RootFacts
    <3>2. CASE t # s
      <4>1. root \notin RestoredNames(kind)
        BY <1>4, <3>2, KindFacts
      <4>2. registers'[root] = registers[root]
        BY <1>r, <1>4, <3>1, <4>1
      <4> QED
        BY <1>1, <3>2, <4>2 DEF Heavy, RootInv
    <3>3. CASE t = s
      <4>1. registers[root].owner = 0
        BY <3>3 DEF Heavy, RootInv
      <4>2. CASE root = RootRegister(kind)
        BY <1>1, <1>r, <1>4, <3>1, <3>3, <4>1, <4>2
      <4>3. CASE root # RootRegister(kind)
        <5>1. root \notin RestoredNames(kind)
          BY <1>4, <3>3, <4>3, KindFacts
        <5>2. registers'[root] = registers[root]
          BY <1>r, <1>4, <3>1, <5>1
        <5> QED
          BY <1>1, <3>3, <4>1, <4>3, <5>2
      <4> QED
        BY <4>2, <4>3
    <3> QED
      BY <3>2, <3>3
  <2> QED
    BY <2>1, Zenon DEF RootInv
<1>12. ValueInv'
  <2>0. Watched' = Watched /\ Watched \subseteq Registers
    BY <1>3 DEF Watched
  <2>1. ASSUME NEW r \in Watched, \A i \in Depth' : r \notin Covers(i)'
        PROVE  registers'[r] = firmware[r]
    <3>1. r \notin RestoredNames(kind) /\ \A i \in Depth : r \notin Covers(i)
      BY <1>2, <1>7, <1>8, <2>1
    <3>2. registers'[r] = registers[r]
      BY <1>r, <1>4, <2>0, <3>1
    <3> QED
      BY <1>3, <3>1, <3>2 DEF Heavy, ValueInv
  <2>2. ASSUME NEW r \in Watched, NEW i \in Depth', r \in Covers(i)',
               \A j \in Depth' : j < i => r \notin Covers(j)'
        PROVE  Saved(i, r)' = firmware[r]
    <3>1. CASE i = n + 1
      <4>1. \A j \in Depth : r \notin Covers(j)
        BY <1>2, <1>7, <2>2, <3>1
      <4> QED
        BY <1>3, <1>9, <3>1, <4>1 DEF Heavy, ValueInv
    <3>2. CASE i # n + 1
      <4>1. i \in Depth /\ r \in Covers(i) /\ \A j \in Depth : j < i => r \notin Covers(j)
        BY <1>2, <1>7, <2>2, <3>2
      <4> QED
        BY <1>3, <1>7, <4>1 DEF Heavy, ValueInv
    <3> QED
      BY <3>1, <3>2
  <2> QED
    BY <1>3, <2>0, <2>1, <2>2 DEF ValueInv
<1>13. VmInv'
  <2>1. "HCR" \in Registers
    BY DEF Registers, Shared
  <2>2. ASSUME slots'["stage2"] # None
        PROVE  "VM" \in registers'["HCR"].bits
    <3>1. CASE s = "stage2"
      BY <1>r, <1>4, <2>1, <3>1
    <3>2. CASE s # "stage2"
      <4>1. "VM" \in registers["HCR"].bits
        BY <1>1, <2>2, <3>2 DEF Heavy, VmInv, Slots
      <4> QED
        BY <1>r, <1>4, <2>1, <4>1
    <3> QED
      BY <3>1, <3>2
  <2>3. ASSUME NEW i \in Depth', NEW j \in Depth', j < i,
               guards'[j].guard = "live", guards'[j].slot = "stage2",
               guards'[i].guard = "live", "HCR" \in Covers(i)'
        PROVE  "VM" \in Saved(i, "HCR")'.bits
    <3>1. j \in Depth /\ guards[j].guard = "live" /\ guards[j].slot = "stage2"
      BY <1>2, <2>3
    <3>2. CASE i = n + 1
      <4>1. slots["stage2"] # None
        BY <1>3, <3>1 DEF Heavy, GuardInv
      <4> QED
        BY <1>9, <3>2, <4>1 DEF Heavy, VmInv
    <3>3. CASE i # n + 1
      <4>1. i \in Depth /\ guards[i].guard = "live" /\ "HCR" \in Covers(i)
        BY <1>2, <1>7, <2>3, <3>3
      <4> QED
        BY <1>3, <1>7, <2>3, <3>1, <4>1 DEF Heavy, VmInv
    <3> QED
      BY <3>2, <3>3
  <2> QED
    BY <2>2, <2>3 DEF VmInv
<1> QED
  BY <1>10, <1>11, <1>12, <1>13 DEF Heavy

\* Every installer writes what its restore function writes back.
LEMMA RegisterNames ==
  /\ CurrentRegisters \cup LowerRegisters \cup Stage2Registers \cup Shared \cup Controls
        \subseteq Registers
  /\ {"HCR", "HCRX", "MAIR2", "PIR", "PIRE0"} \cup El2GeometrySet \cup LowerSet \subseteq Registers
  BY DEF Registers, CurrentRegisters, LowerRegisters, Stage2Registers, Shared, Controls,
         El2GeometrySet, Stage1Set, LowerSet

LEMMA ValueFacts ==
  ASSUME AdapterTypeOK
  PROVE  /\ Value(generation + 1) \in RegisterValues
         /\ Value(generation + 1).owner = generation + 1
         /\ registers["HCR"] \in RegisterValues
         /\ \A bits \in SUBSET {"VM", "E2H", "updates"} :
               /\ WithBits(registers["HCR"], bits) \in RegisterValues
               /\ WithBits(registers["HCR"], bits).bits = bits
         /\ VmOn \in RegisterValues /\ "VM" \in VmOn.bits
<1>1. registers["HCR"] \in RegisterValues /\ generation + 1 \in Nat
  BY RegisterNames DEF AdapterTypeOK, RegisterFiles, RegisterValues
<1>2. \A bits \in SUBSET {"VM", "E2H", "updates"} :
         /\ WithBits(registers["HCR"], bits) \in RegisterValues
         /\ WithBits(registers["HCR"], bits).bits = bits
  BY <1>1 DEF RegisterValues, WithBits
<1>3. registers["HCR"].bits \cup {"VM"} \in SUBSET {"VM", "E2H", "updates"}
  BY <1>1 DEF RegisterValues
<1>4. Value(generation + 1) \in RegisterValues /\ Value(generation + 1).owner = generation + 1
  BY <1>1 DEF Value, RegisterValues
<1>5. VmOn \in RegisterValues /\ VmOn.bits = registers["HCR"].bits \cup {"VM"}
  BY <1>2, <1>3 DEF VmOn
<1> QED
  BY <1>1, <1>2, <1>4, <1>5

LEMMA ProperOwned ==
  ASSUME AdapterTypeOK, NEW s \in {"current", "lower"}, NEW kind \in KindsOf(s),
         NEW names, names \subseteq RestoredNames(kind), RootRegister(kind) \in names,
         "HCR" \notin names
  PROVE  Proper(s, kind, Owned(names, generation + 1))
<1>1. DOMAIN Owned(names, generation + 1) = names
  BY DEF Owned
<1>2. \A r \in names : Owned(names, generation + 1)[r] = Value(generation + 1)
  BY DEF Owned
<1> QED
  BY <1>1, <1>2, ValueFacts DEF Proper

LEMMA ProperWith ==
  ASSUME AdapterTypeOK, NEW s \in Slots, NEW kind \in KindsOf(s),
         NEW names, names \subseteq RestoredNames(kind), RootRegister(kind) \in names,
         "HCR" \notin names, "HCR" \in RestoredNames(kind),
         NEW value \in RegisterValues,
         s = "stage2" \/ "VM" \in registers["HCR"].bits => "VM" \in value.bits
  PROVE  Proper(s, kind, With(Owned(names, generation + 1), "HCR", value))
<1> DEFINE writes == With(Owned(names, generation + 1), "HCR", value)
<1>1. DOMAIN writes = names \cup {"HCR"}
  BY DEF Owned, With
<1>2. \A r \in names : writes[r] = Value(generation + 1)
  BY DEF Owned, With
<1>3. writes["HCR"] = value
  BY DEF With
<1> HIDE DEF writes
<1>4. Proper(s, kind, writes)
  BY <1>1, <1>2, <1>3, ValueFacts DEF Proper
<1> QED
  BY <1>4 DEF writes

LEMMA CurrentProper ==
  ASSUME AdapterTypeOK
  PROVE  /\ Proper("current", "Stage1", InstalledStage1(generation + 1))
         /\ el = 2 => \A host \in BOOLEAN :
               Proper("current", "Geometry", InstalledEl2Geometry(generation + 1, host))
         /\ el = 3 => Proper("current", "Geometry", InstalledEl3Geometry(generation + 1))
         /\ el = 2 => Proper("current", "D128", InstalledD128(generation + 1))
<1>1. Proper("current", "Stage1", InstalledStage1(generation + 1))
  <2>1. "Stage1" \in KindsOf("current") /\ RestoredNames("Stage1") = Stage1Set
        /\ RootRegister("Stage1") = "TTBR0"
    BY DEF KindsOf, RestoredNames, RestoresStage1, RootRegister
  <2>2. "TTBR0" \in Stage1Set /\ "HCR" \notin Stage1Set
    BY DEF Stage1Set
  <2> QED
    BY <2>1, <2>2, ProperOwned DEF InstalledStage1
<1>2. ASSUME el = 2, NEW host \in BOOLEAN
      PROVE  Proper("current", "Geometry", InstalledEl2Geometry(generation + 1, host))
  <2>1. "Geometry" \in KindsOf("current") /\ RestoredNames("Geometry") = El2GeometrySet \cup {"HCR"}
        /\ RootRegister("Geometry") = "TTBR0" /\ "current" \in Slots
    BY <1>2 DEF KindsOf, RestoredNames, RestoresEl2Geometry, RootRegister, Slots
  <2>2. "TTBR0" \in El2GeometrySet /\ "HCR" \notin El2GeometrySet
    BY DEF Stage1Set, El2GeometrySet
  <2>3. PICK bits : bits = IF host THEN registers["HCR"].bits \cup {"E2H"}
                                   ELSE registers["HCR"].bits \ {"E2H"}
    OBVIOUS
  <2>4. bits \in SUBSET {"VM", "E2H", "updates"}
        /\ ("VM" \in registers["HCR"].bits => "VM" \in bits)
    BY <2>3, ValueFacts DEF RegisterValues
  <2>5. Proper("current", "Geometry",
               With(Owned(El2GeometrySet, generation + 1), "HCR", WithBits(registers["HCR"], bits)))
    BY <2>1, <2>2, <2>4, ValueFacts, ProperWith
  <2> QED
    BY <2>3, <2>5 DEF InstalledEl2Geometry
<1>3. ASSUME el = 3
      PROVE  Proper("current", "Geometry", InstalledEl3Geometry(generation + 1))
  <2>1. "Geometry" \in KindsOf("current") /\ RestoredNames("Geometry") = Stage1Set \cup {"VBAR"}
        /\ RootRegister("Geometry") = "TTBR0"
    BY <1>3 DEF KindsOf, RestoredNames, RestoresEl3Geometry, RootRegister
  <2>2. "TTBR0" \in Stage1Set /\ "HCR" \notin Stage1Set \cup {"VBAR"}
    BY DEF Stage1Set
  <2> QED
    BY <2>1, <2>2, ProperOwned DEF InstalledEl3Geometry
<1>4. ASSUME el = 2
      PROVE  Proper("current", "D128", InstalledD128(generation + 1))
  <2>1. "D128" \in KindsOf("current") /\ RestoredNames("D128") = RestoresD128
        /\ RootRegister("D128") = "TTBR0" /\ "current" \in Slots
    BY DEF KindsOf, RestoredNames, RootRegister, Slots
  <2>2. PICK names : names = El2GeometrySet \cup {"MAIR2", "PIR", "PIRE0", "HCRX"}
    OBVIOUS
  <2>3. "TTBR0" \in names /\ "HCR" \notin names /\ names \subseteq RestoresD128
        /\ "HCR" \in RestoresD128
    BY <2>2 DEF Stage1Set, El2GeometrySet, RestoresD128
  <2>4. PICK bits : bits = registers["HCR"].bits \cup {"E2H"}
    OBVIOUS
  <2>5. bits \in SUBSET {"VM", "E2H", "updates"}
        /\ ("VM" \in registers["HCR"].bits => "VM" \in bits)
    BY <2>4, ValueFacts DEF RegisterValues
  <2>6. Proper("current", "D128",
               With(Owned(names, generation + 1), "HCR", WithBits(registers["HCR"], bits)))
    BY <2>1, <2>3, <2>5, ValueFacts, ProperWith
  <2> QED
    BY <2>2, <2>4, <2>6 DEF InstalledD128
<1> QED
  BY <1>1, <1>2, <1>3, <1>4

LEMMA LowerProper ==
  ASSUME AdapterTypeOK
  PROVE  /\ Proper("lower", "Lower", InstalledLower(generation + 1))
         /\ Proper("lower", "LowerD128", InstalledLowerD128(generation + 1))
<1>1. /\ "Lower" \in KindsOf("lower") /\ "LowerD128" \in KindsOf("lower")
      /\ RestoredNames("Lower") = LowerSet /\ RestoredNames("LowerD128") = RestoresLowerD128
      /\ RootRegister("Lower") = "TTBR0_EL1" /\ RootRegister("LowerD128") = "TTBR0_EL1"
  BY DEF KindsOf, RestoredNames, RestoresLower, RootRegister
<1>2. /\ "TTBR0_EL1" \in LowerSet
      /\ "HCR" \notin LowerSet \cup {"MAIR2_EL1", "TCR2_EL1", "PIR_EL1", "PIRE0_EL1", "HCRX"}
      /\ RestoresLowerD128 =
            LowerSet \cup {"MAIR2_EL1", "TCR2_EL1", "PIR_EL1", "PIRE0_EL1", "HCRX"}
  BY DEF LowerSet, RestoresLowerD128
<1>3. Proper("lower", "Lower", InstalledLower(generation + 1))
  BY <1>1, <1>2, ProperOwned DEF InstalledLower
<1>4. Proper("lower", "LowerD128", InstalledLowerD128(generation + 1))
  BY <1>1, <1>2, ProperOwned DEF InstalledLowerD128
<1> QED
  BY <1>3, <1>4

LEMMA Stage2Proper ==
  ASSUME AdapterTypeOK
  PROVE  /\ Proper("stage2", "Stage2", InstalledStage2(generation + 1))
         /\ Proper("stage2", "SecureStage2", InstalledSecureStage2(generation + 1))
         /\ Proper("stage2", "Stage2D128", InstalledStage2D128(generation + 1))
<1>1. /\ "stage2" \in Slots
      /\ "Stage2" \in KindsOf("stage2") /\ "SecureStage2" \in KindsOf("stage2")
      /\ "Stage2D128" \in KindsOf("stage2")
  BY DEF KindsOf, Slots
<1>2. /\ RestoredNames("Stage2") = {"VTTBR", "VTCR", "HCR"}
      /\ RestoredNames("SecureStage2") = {"VSTTBR", "VSTCR", "VTCR", "HCR"}
      /\ RestoredNames("Stage2D128") = {"VTTBR", "VTCR", "HCR", "S2PIR"}
  BY DEF RestoredNames, RestoresStage2, RestoresSecureStage2, RestoresStage2D128
<1>3. /\ RootRegister("Stage2") = "VTTBR" /\ RootRegister("SecureStage2") = "VSTTBR"
      /\ RootRegister("Stage2D128") = "VTTBR"
  BY DEF RootRegister
<1>4. VmOn \in RegisterValues /\ "VM" \in VmOn.bits
  BY ValueFacts
<1>5. Proper("stage2", "Stage2", InstalledStage2(generation + 1))
  BY <1>1, <1>2, <1>3, <1>4, ProperWith DEF InstalledStage2
<1>6. Proper("stage2", "SecureStage2", InstalledSecureStage2(generation + 1))
  BY <1>1, <1>2, <1>3, <1>4, ProperWith DEF InstalledSecureStage2
<1>7. Proper("stage2", "Stage2D128", InstalledStage2D128(generation + 1))
  BY <1>1, <1>2, <1>3, <1>4, ProperWith DEF InstalledStage2D128
<1> QED
  BY <1>5, <1>6, <1>7

-----------------------------------------------------------------------------
(* Giving a translation back.                                              *)

\* What writing back the snapshot of one slot does to every register.
LEMMA RestoredValues ==
  ASSUME AdapterTypeOK, NEW s \in Slots, slots[s] # None, NEW regs \in RegisterFiles
  PROVE  /\ RestoreSaved(slots[s], regs) \in RegisterFiles
         /\ \A r \in Registers : RestoreSaved(slots[s], regs)[r] =
               IF r \in RestoredNames(slots[s].kind) THEN slots[s].saved[r] ELSE regs[r]
<1>1. slots[s].saved \in RegisterFiles
  BY SlotFacts
<1>2. \A r \in Registers : RestoreSaved(slots[s], regs)[r] =
         IF r \in RestoredNames(slots[s].kind) THEN slots[s].saved[r] ELSE regs[r]
  BY DEF RestoreSaved
<1>3. RestoreSaved(slots[s], regs) \in RegisterFiles
  BY <1>1 DEF RestoreSaved, RegisterFiles
<1> QED
  BY <1>2, <1>3

LEMMA TopLive ==
  ASSUME AdapterTypeOK, StateMatchesSlots, StackInv, PhaseInv, GuardInv, Testing,
         guards # <<>>, Top.guard = "live"
  PROVE  /\ Top.slot \in Slots
         /\ state \notin {"SecondaryActive", "RealmActive"}
         /\ \A i \in Depth : guards[i].guard \notin {"secondary", "realm"}
         /\ state # "Corrupted" => Matches(Top) /\ state = "TranslationInstalled"
<1>n. PICK n : n = Len(guards)
  OBVIOUS
<1>1. /\ n \in Depth /\ n \in Nat /\ guards[n] = Top /\ guards[n].guard = "live"
      /\ \A i \in Depth : i \in Nat /\ i <= n
  <2>1. Len(guards) \in Nat /\ Len(guards) >= 1 /\ Top = guards[Len(guards)]
    BY Pop DEF AdapterTypeOK, Top
  <2> QED
    BY <1>n, <2>1 DEF Depth
<1>2. Top.slot \in Slots
  BY <1>1, Guarded
<1>3. \A i \in Depth : guards[i].guard \notin {"secondary", "realm"}
  BY <1>1 DEF StackInv
<1>4. state # "Corrupted" => slots[Top.slot] # None /\ Matches(Top)
  BY <1>1 DEF GuardInv, Matches
<1>5. state # "Corrupted" => slots # NoSlots
  BY <1>2, <1>4 DEF NoSlots
<1>6. state # "SecondaryActive"
  BY <1>3 DEF StackInv
<1>7. state # "RealmActive"
  BY <1>5 DEF StateMatchesSlots
<1>8. state # "Corrupted" => state = "TranslationInstalled"
  BY <1>5, <1>6, <1>7 DEF StateMatchesSlots, AdapterTypeOK
<1> QED
  BY <1>2, <1>3, <1>4, <1>6, <1>7, <1>8

LEMMA ReleaseFacts ==
  ASSUME AdapterTypeOK, ReleaseLive
  PROVE  /\ Top.slot \in Slots /\ slots[Top.slot] # None
         /\ registers' = RestoreSaved(slots[Top.slot], registers)
         /\ registers' \in RegisterFiles
         /\ slots' \in [Slots -> Translations \cup {None}]
         /\ slots'[Top.slot] = None
         /\ \A t \in Slots : t # Top.slot => slots'[t] = slots[t]
         /\ guards' = Popped
         /\ state' = IF slots' = NoSlots THEN "TestScoped" ELSE "TranslationInstalled"
<1>1. Len(guards) \in Depth /\ Top = guards[Len(guards)] /\ Top.guard = "live"
      /\ guards # <<>> /\ guards' = Popped
  BY PoppedOff DEF ReleaseLive
<1>2. Top.slot \in Slots
  BY <1>1, Guarded
<1>3. /\ slots[Top.slot] # None
      /\ registers' = RestoreSaved(slots[Top.slot], registers)
      /\ slots' = [slots EXCEPT ![Top.slot] = None]
      /\ state' = IF slots' = NoSlots THEN "TestScoped" ELSE "TranslationInstalled"
  BY DEF ReleaseLive, Matches, AfterRestore
<1>4. registers' \in RegisterFiles
  BY <1>2, <1>3, RestoredValues DEF AdapterTypeOK
<1>5. /\ slots' \in [Slots -> Translations \cup {None}] /\ slots'[Top.slot] = None
      /\ \A t \in Slots : t # Top.slot => slots'[t] = slots[t]
  BY <1>2, <1>3 DEF AdapterTypeOK
<1> QED
  BY <1>1, <1>2, <1>3, <1>4, <1>5

LEMMA ReleaseLight ==
  ASSUME AdapterTypeOK, StateMatchesSlots, StackInv, PhaseInv, GuardInv, ReleaseLive
  PROVE  AdapterTypeOK' /\ StateMatchesSlots' /\ StackInv' /\ PhaseInv'
<1>n. PICK n : n = Len(guards)
  OBVIOUS
<1>0. /\ Testing /\ guards # <<>> /\ Top.guard = "live" /\ state = "TranslationInstalled"
      /\ UNCHANGED <<el, firmware, generation, previous, mapped, scopedPage, delegated,
                     cleanup, phase, lost>>
  BY DEF ReleaseLive, platform, runner
<1>1. /\ registers' \in RegisterFiles
      /\ slots' \in [Slots -> Translations \cup {None}]
      /\ \A t \in Slots : slots'[t] = slots[t] \/ slots'[t] = None
      /\ guards' = Popped
      /\ state' = IF slots' = NoSlots THEN "TestScoped" ELSE "TranslationInstalled"
  BY ReleaseFacts
<1>2. /\ n \in Depth /\ Depth' = Depth \ {n} /\ guards' \in Seq(GuardSet)
      /\ \A i \in Depth' : guards'[i] = guards[i]
  BY <1>0, <1>1, <1>n, PoppedOff
<1>3. \A i \in Depth : guards[i].guard \notin {"secondary", "realm"}
  BY <1>0, TopLive
<1>4. AdapterTypeOK'
  <2>1. \A t \in Slots : slots'[t] # None => slots'[t].kind \in KindsOf(t)
    BY <1>1 DEF AdapterTypeOK
  <2> QED
    BY <1>0, <1>1, <1>2, <2>1 DEF AdapterTypeOK
<1>5. StateMatchesSlots'
  BY <1>0, <1>1 DEF StateMatchesSlots
<1>6. StackInv'
  <2>1. el' # 1
    BY <1>0, TopLive DEF StackInv, StateMatchesSlots
  <2> QED
    BY <1>0, <1>1, <1>2, <1>3, <2>1 DEF StackInv, StateMatchesSlots, Testing
<1>7. PhaseInv'
  BY <1>0, <1>1 DEF PhaseInv, Testing
<1> QED
  BY <1>4, <1>5, <1>6, <1>7

LEMMA ReleaseHeavy ==
  ASSUME AdapterTypeOK, Heavy, ReleaseLive
  PROVE  Heavy'
<1>n. PICK n, s : n = Len(guards) /\ s = Top.slot
  OBVIOUS
<1>0. /\ guards # <<>> /\ Top.guard = "live" /\ state # "Corrupted"
      /\ UNCHANGED <<el, firmware, cleanup, lost>>
  BY DEF ReleaseLive, platform
<1>1. /\ s \in Slots /\ slots[s] # None /\ slots'[s] = None
      /\ \A t \in Slots : t # s => slots'[t] = slots[t]
      /\ registers' = RestoreSaved(slots[s], registers) /\ guards' = Popped
  BY <1>n, ReleaseFacts
<1>2. /\ n \in Depth /\ n \in Nat /\ Depth' = Depth \ {n} /\ guards[n] = Top
      /\ guards[n].guard = "live" /\ guards[n].slot = s
      /\ \A i \in Depth' : guards'[i] = guards[i] /\ i \in Depth /\ i \in Nat /\ i < n
  BY <1>0, <1>1, <1>n, PoppedOff
<1>k. PICK kind : kind = slots[s].kind
  OBVIOUS
<1>3. /\ kind \in KindsOf(s) /\ slots[s].saved \in RegisterFiles
      /\ \A r \in Registers : registers'[r] =
            IF r \in RestoredNames(kind) THEN slots[s].saved[r] ELSE registers[r]
  BY <1>1, <1>k, SlotFacts, RestoredValues DEF AdapterTypeOK
<1>4. Covers(n) = RestoredNames(kind) /\ \A r : Saved(n, r) = slots[s].saved[r]
  BY <1>2, <1>k DEF Covers, Saved
<1>5. \A i \in Depth' : guards[i].guard = "live" => guards[i].slot \in Slots /\ guards[i].slot # s
  BY <1>0, <1>2, Guarded DEF Heavy, GuardInv
<1>6. \A i \in Depth' : guards[i].guard = "live" => slots'[guards[i].slot] = slots[guards[i].slot]
  BY <1>1, <1>5
<1>7. \A i \in Depth' : Covers(i)' = Covers(i) /\ \A r : Saved(i, r)' = Saved(i, r)
  BY <1>0, <1>2, <1>6, SameCover, SameSaved
<1>8. GuardInv'
  <2>1. ASSUME NEW i \in Depth', guards'[i].guard = "live"
        PROVE  /\ slots'[guards'[i].slot] # None
               /\ slots'[guards'[i].slot].token = guards'[i].token
    BY <1>0, <1>2, <1>6, <2>1 DEF Heavy, GuardInv
  <2>2. ASSUME NEW i \in Depth', NEW j \in Depth',
               guards'[i].guard = "live", guards'[j].guard = "live",
               guards'[i].slot = guards'[j].slot
        PROVE  i = j
    BY <1>0, <1>2, <2>2 DEF Heavy, GuardInv
  <2>3. ASSUME NEW t \in Slots, slots'[t] # None
        PROVE  \/ \E i \in Depth' : guards'[i].guard = "live" /\ guards'[i].slot = t
               \/ t = "lower" /\ slots'[t].kind = "Lower" /\ cleanup'
    <3>1. t # s /\ slots'[t] = slots[t]
      BY <1>1, <2>3
    <3>2. CASE \E i \in Depth : guards[i].guard = "live" /\ guards[i].slot = t
      <4>1. PICK i \in Depth : guards[i].guard = "live" /\ guards[i].slot = t
        BY <3>2
      <4>2. i # n
        BY <1>2, <3>1, <4>1
      <4> QED
        BY <1>2, <4>1, <4>2
    <3>3. CASE t = "lower" /\ slots[t].kind = "Lower" /\ cleanup
      BY <1>0, <3>1, <3>3
    <3> QED
      BY <1>0, <2>3, <3>1, <3>2, <3>3 DEF Heavy, GuardInv
  <2>4. \A i \in Depth' : guards'[i].guard = "live" =>
           /\ slots'[guards'[i].slot] # None
           /\ slots'[guards'[i].slot].token = guards'[i].token
    BY <2>1, Zenon
  <2>5. \A i, j \in Depth' :
           guards'[i].guard = "live" /\ guards'[j].guard = "live"
               /\ guards'[i].slot = guards'[j].slot => i = j
    BY <2>2, Zenon
  <2>6. \A t \in Slots : slots'[t] # None =>
           \/ \E i \in Depth' : guards'[i].guard = "live" /\ guards'[i].slot = t
           \/ t = "lower" /\ slots'[t].kind = "Lower" /\ cleanup'
    BY <2>3, Zenon
  <2> QED
    BY <2>4, <2>5, <2>6, Zenon DEF GuardInv
<1>9. RootInv'
  <2>1. ASSUME NEW t \in Slots, NEW root \in RootsOf(t)
        PROVE  /\ slots'[t] = None => registers'[root].owner = 0
               /\ slots'[t] # None =>
                     /\ slots'[t].saved[root].owner = 0
                     /\ root = RootRegister(slots'[t].kind) =>
                           registers'[root].owner = slots'[t].token
                     /\ root # RootRegister(slots'[t].kind) => registers'[root].owner = 0
    <3>1. root \in Registers
      BY RootFacts
    <3>2. CASE t # s
      <4>1. root \notin RestoredNames(kind)
        BY <1>1, <1>3, <3>2, KindFacts
      <4>2. registers'[root] = registers[root]
        BY <1>3, <3>1, <4>1
      <4> QED
        BY <1>1, <3>2, <4>2 DEF Heavy, RootInv
    <3>3. CASE t = s
      <4>1. slots[s].saved[root].owner = 0
            /\ (root # RootRegister(kind) => registers[root].owner = 0)
        BY <1>1, <1>k, <3>3 DEF Heavy, RootInv
      <4>2. registers'[root].owner = 0
        <5>1. CASE root = RootRegister(kind)
          BY <1>1, <1>3, <3>1, <4>1, <5>1, KindFacts
        <5>2. CASE root # RootRegister(kind)
          BY <1>1, <1>3, <3>1, <3>3, <4>1, <5>2, KindFacts
        <5> QED
          BY <5>1, <5>2
      <4> QED
        BY <1>1, <3>3, <4>2
    <3> QED
      BY <3>2, <3>3
  <2> QED
    BY <2>1, Zenon DEF RootInv
<1>10. ValueInv'
  <2>0. Watched' = Watched /\ Watched \subseteq Registers
    BY <1>0 DEF Watched
  <2>1. ASSUME NEW r \in Watched, \A i \in Depth' : r \notin Covers(i)'
        PROVE  registers'[r] = firmware[r]
    <3>1. \A i \in Depth : i # n => r \notin Covers(i)
      BY <1>2, <1>7, <2>1
    <3>2. CASE r \in RestoredNames(kind)
      <4>1. Saved(n, r) = firmware[r]
        BY <1>0, <1>2, <1>4, <3>1, <3>2 DEF Heavy, ValueInv
      <4> QED
        BY <1>3, <1>4, <2>0, <3>2, <4>1
    <3>3. CASE r \notin RestoredNames(kind)
      <4>1. registers[r] = firmware[r]
        BY <1>0, <1>4, <3>1, <3>3 DEF Heavy, ValueInv
      <4> QED
        BY <1>3, <2>0, <3>3, <4>1
    <3> QED
      BY <3>2, <3>3
  <2>2. ASSUME NEW r \in Watched, NEW i \in Depth', r \in Covers(i)',
               \A j \in Depth' : j < i => r \notin Covers(j)'
        PROVE  Saved(i, r)' = firmware[r]
    <3>1. \A j \in Depth : j < i => j \in Depth'
      BY <1>2
    <3>2. i \in Depth /\ r \in Covers(i) /\ \A j \in Depth : j < i => r \notin Covers(j)
      BY <1>2, <1>7, <2>2, <3>1
    <3> QED
      BY <1>0, <1>7, <2>2, <3>2 DEF Heavy, ValueInv
  <2> QED
    BY <1>0, <2>0, <2>1, <2>2 DEF ValueInv
<1>11. VmInv'
  <2>1. "HCR" \in Registers
    BY RegisterNames
  <2>2. ASSUME slots'["stage2"] # None
        PROVE  "VM" \in registers'["HCR"].bits
    <3>1. s # "stage2" /\ slots["stage2"] # None /\ "stage2" \in Slots
      BY <1>1, <2>2 DEF Slots
    <3>2. PICK j \in Depth : guards[j].guard = "live" /\ guards[j].slot = "stage2"
      BY <1>0, <3>1 DEF Heavy, GuardInv
    <3>3. j \in Depth' /\ j < n
      BY <1>2, <3>1, <3>2
    <3>4. CASE "HCR" \in RestoredNames(kind)
      <4>1. "VM" \in Saved(n, "HCR").bits
        BY <1>0, <1>2, <1>4, <3>2, <3>3, <3>4 DEF Heavy, VmInv
      <4> QED
        BY <1>3, <1>4, <2>1, <3>4, <4>1
    <3>5. CASE "HCR" \notin RestoredNames(kind)
      BY <1>3, <2>1, <3>1, <3>5 DEF Heavy, VmInv
    <3> QED
      BY <3>4, <3>5
  <2>3. ASSUME NEW i \in Depth', NEW j \in Depth', j < i,
               guards'[j].guard = "live", guards'[j].slot = "stage2",
               guards'[i].guard = "live", "HCR" \in Covers(i)'
        PROVE  "VM" \in Saved(i, "HCR")'.bits
    BY <1>0, <1>2, <1>7, <2>3 DEF Heavy, VmInv
  <2> QED
    BY <2>2, <2>3 DEF VmInv
<1> QED
  BY <1>8, <1>9, <1>10, <1>11 DEF Heavy

LEMMA FailsLight ==
  ASSUME AdapterTypeOK, StateMatchesSlots, StackInv, PhaseInv, GuardInv, ReleaseFails
  PROVE  AdapterTypeOK' /\ StateMatchesSlots' /\ StackInv' /\ PhaseInv'
<1>n. PICK n : n = Len(guards)
  OBVIOUS
<1>0. /\ Testing /\ guards # <<>> /\ Top.guard = "live" /\ guards' = Popped /\ cleanup' = TRUE
      /\ UNCHANGED <<el, firmware, slots, generation, registers, previous, mapped,
                     scopedPage, delegated, phase>>
      /\ \/ UNCHANGED <<state, lost>>
         \/ state = "TranslationInstalled" /\ state' = "Corrupted" /\ lost' = TRUE
  BY DEF ReleaseFails, platform, runner
<1>1. /\ n \in Depth /\ Depth' = Depth \ {n} /\ guards' \in Seq(GuardSet)
      /\ \A i \in Depth' : guards'[i] = guards[i]
  BY <1>0, <1>n, PoppedOff
<1>2. /\ \A i \in Depth : guards[i].guard \notin {"secondary", "realm"}
      /\ state \notin {"SecondaryActive", "RealmActive"}
  BY <1>0, TopLive
<1>3. AdapterTypeOK'
  BY <1>0, <1>1 DEF AdapterTypeOK
<1>4. StateMatchesSlots'
  BY <1>0 DEF StateMatchesSlots
<1>5. StackInv'
  BY <1>0, <1>1, <1>2 DEF StackInv, Testing
<1>6. PhaseInv'
  BY <1>0 DEF PhaseInv, Testing
<1> QED
  BY <1>3, <1>4, <1>5, <1>6

LEMMA CorruptedHeavy ==
  ASSUME RootInv, slots["stage2"] # None => "VM" \in registers["HCR"].bits,
         UNCHANGED <<slots, registers>>, state' = "Corrupted"
  PROVE  Heavy'
<1>1. RootInv'
  BY DEF RootInv
<1>2. GuardInv'
  BY DEF GuardInv
<1>3. ValueInv'
  BY DEF ValueInv
<1>4. VmInv'
  BY DEF VmInv
<1> QED
  BY <1>1, <1>2, <1>3, <1>4 DEF Heavy

LEMMA FailsHeavy ==
  ASSUME AdapterTypeOK, StateMatchesSlots, StackInv, PhaseInv, Heavy, ReleaseFails
  PROVE  Heavy'
<1>n. PICK n, s : n = Len(guards) /\ s = Top.slot
  OBVIOUS
<1>0. /\ Testing /\ guards # <<>> /\ Top.guard = "live" /\ guards' = Popped /\ cleanup' = TRUE
      /\ UNCHANGED <<el, firmware, slots, registers>>
  BY DEF ReleaseFails, platform
<1>1. CASE state' = "Corrupted"
  BY <1>0, <1>1, CorruptedHeavy DEF Heavy, VmInv
<1>2. CASE state' # "Corrupted"
  <2>1. /\ s \in Slots /\ state # "Corrupted" /\ Matches(Top) /\ state = "TranslationInstalled"
    BY <1>0, <1>2, <1>n, TopLive DEF ReleaseFails, Heavy
  <2>2. slots[s] # None /\ slots[s].kind = "Lower" /\ state' = state /\ lost' = lost
    BY <1>2, <1>n, <2>1 DEF ReleaseFails, Matches
  <2>3. s = "lower"
    BY <2>1, <2>2, SlotFacts DEF KindsOf, Slots
  <2>4. /\ n \in Depth /\ n \in Nat /\ Depth' = Depth \ {n} /\ guards[n] = Top
        /\ guards[n].guard = "live" /\ guards[n].slot = s
        /\ \A i \in Depth' : guards'[i] = guards[i] /\ i \in Depth /\ i \in Nat /\ i < n
    BY <1>0, <1>n, PoppedOff
  <2>5. \A i \in Depth' : Covers(i)' = Covers(i) /\ \A r : Saved(i, r)' = Saved(i, r)
    BY <1>0, <2>4, SameCover, SameSaved
  <2>6. Covers(n) = LowerSet
    <3>1. Covers(n) = RestoredNames(slots[s].kind)
      BY <2>4 DEF Covers
    <3> QED
      BY <2>2, <2>3, <3>1 DEF RestoredNames, RestoresLower
  <2>7. Watched' = Registers \ LowerSet /\ Watched' \subseteq Watched
    BY <1>0 DEF Watched
  <2>8. GuardInv'
    <3>1. ASSUME NEW i \in Depth', guards'[i].guard = "live"
          PROVE  /\ slots'[guards'[i].slot] # None
                 /\ slots'[guards'[i].slot].token = guards'[i].token
      BY <1>0, <2>1, <2>4, <3>1 DEF Heavy, GuardInv
    <3>2. ASSUME NEW i \in Depth', NEW j \in Depth',
                 guards'[i].guard = "live", guards'[j].guard = "live",
                 guards'[i].slot = guards'[j].slot
          PROVE  i = j
      BY <2>1, <2>4, <3>2 DEF Heavy, GuardInv
    <3>3. ASSUME NEW t \in Slots, slots'[t] # None
          PROVE  \/ \E i \in Depth' : guards'[i].guard = "live" /\ guards'[i].slot = t
                 \/ t = "lower" /\ slots'[t].kind = "Lower" /\ cleanup'
      <4>1. CASE t = s
        BY <1>0, <2>2, <2>3, <4>1
      <4>2. CASE t # s
        <5>1. PICK i \in Depth : guards[i].guard = "live" /\ guards[i].slot = t
          BY <1>0, <2>1, <2>3, <3>3, <4>2 DEF Heavy, GuardInv
        <5>2. i # n
          BY <2>4, <4>2, <5>1
        <5> QED
          BY <2>4, <5>1, <5>2
      <4> QED
        BY <4>1, <4>2
    <3>4. \A i \in Depth' : guards'[i].guard = "live" =>
             /\ slots'[guards'[i].slot] # None
             /\ slots'[guards'[i].slot].token = guards'[i].token
      BY <3>1, Zenon
    <3>5. \A i, j \in Depth' :
             guards'[i].guard = "live" /\ guards'[j].guard = "live"
                 /\ guards'[i].slot = guards'[j].slot => i = j
      BY <3>2, Zenon
    <3>6. \A t \in Slots : slots'[t] # None =>
             \/ \E i \in Depth' : guards'[i].guard = "live" /\ guards'[i].slot = t
             \/ t = "lower" /\ slots'[t].kind = "Lower" /\ cleanup'
      BY <3>3, Zenon
    <3> QED
      BY <3>4, <3>5, <3>6, Zenon DEF GuardInv
  <2>9. RootInv'
    BY <1>0 DEF Heavy, RootInv
  <2>10. ValueInv'
    <3>1. ASSUME NEW r \in Watched', \A i \in Depth' : r \notin Covers(i)'
          PROVE  registers[r] = firmware[r]
      <4>1. \A i \in Depth : r \notin Covers(i)
        BY <2>4, <2>5, <2>6, <2>7, <3>1
      <4> QED
        BY <2>1, <2>7, <3>1, <4>1 DEF Heavy, ValueInv
    <3>2. ASSUME NEW r \in Watched', NEW i \in Depth', r \in Covers(i)',
                 \A j \in Depth' : j < i => r \notin Covers(j)'
          PROVE  Saved(i, r)' = firmware[r]
      <4>1. i \in Depth /\ r \in Covers(i) /\ \A j \in Depth : j < i => r \notin Covers(j)
        <5>1. \A j \in Depth : j < i => j \in Depth'
          BY <2>4
        <5> QED
          BY <2>4, <2>5, <3>2, <5>1
      <4> QED
        BY <2>1, <2>5, <2>7, <3>2, <4>1 DEF Heavy, ValueInv
    <3> QED
      BY <1>0, <3>1, <3>2 DEF ValueInv
  <2>11. VmInv'
    <3>1. ASSUME NEW i \in Depth', NEW j \in Depth', j < i,
                 guards'[j].guard = "live", guards'[j].slot = "stage2",
                 guards'[i].guard = "live", "HCR" \in Covers(i)'
          PROVE  "VM" \in Saved(i, "HCR")'.bits
      BY <2>1, <2>4, <2>5, <3>1 DEF Heavy, VmInv
    <3> QED
      BY <1>0, <3>1 DEF Heavy, VmInv
  <2> QED
    BY <2>8, <2>9, <2>10, <2>11 DEF Heavy
<1> QED
  BY <1>1, <1>2

-----------------------------------------------------------------------------
(* Steps on the lower exception level and on a root.                       *)

LEMMA LowerLostHeavy ==
  ASSUME AdapterTypeOK, Heavy, LowerLost
  PROVE  Heavy' /\ registers' \in RegisterFiles
<1>1. /\ registers' = [registers EXCEPT !["SCTLR_EL1"] = Value(generation + 1)]
      /\ UNCHANGED <<el, firmware, slots, guards, state, cleanup>> /\ lost' = TRUE
  BY DEF LowerLost, platform
<1>2. /\ \A r \in Registers : r # "SCTLR_EL1" => registers'[r] = registers[r]
      /\ registers' \in RegisterFiles
  <2>1. registers \in [Registers -> RegisterValues] /\ Value(generation + 1) \in RegisterValues
    BY ValueFacts DEF AdapterTypeOK, RegisterFiles, RegisterValues
  <2>2. registers' \in [Registers -> RegisterValues]
    BY <1>1, <2>1
  <2> QED
    BY <1>1, <2>1, <2>2 DEF RegisterFiles, RegisterValues
<1>3. \A s \in Slots : \A root \in RootsOf(s) : root \in Registers /\ root # "SCTLR_EL1"
  BY RootFacts DEF Slots, RootsOf
<1>4. Depth' = Depth
  BY <1>1 DEF Depth
<1>5. \A i \in Depth : Covers(i)' = Covers(i) /\ \A r : Saved(i, r)' = Saved(i, r)
  BY <1>1, SameCover, SameSaved
<1>6. /\ Watched' \subseteq Watched /\ Watched' \subseteq Registers
      /\ "SCTLR_EL1" \notin Watched'
  BY <1>1 DEF Watched, LowerSet
<1>7. GuardInv'
  BY <1>1, <1>4 DEF Heavy, GuardInv
<1>8. RootInv'
  <2>1. \A s \in Slots : \A root \in RootsOf(s) : registers'[root] = registers[root]
    BY <1>2, <1>3
  <2> QED
    BY <1>1, <2>1 DEF Heavy, RootInv
<1>9. ValueInv'
  <2>1. \A r \in Watched' : r \in Watched /\ registers'[r] = registers[r]
    BY <1>2, <1>6
  <2> QED
    BY <1>1, <1>4, <1>5, <2>1 DEF Heavy, ValueInv
<1>10. VmInv'
  <2>1. registers'["HCR"] = registers["HCR"]
    BY <1>2, RegisterNames
  <2> QED
    BY <1>1, <1>4, <1>5, <2>1 DEF Heavy, VmInv
<1> QED
  BY <1>2, <1>7, <1>8, <1>9, <1>10 DEF Heavy

\* A switched root: the same snapshot under a new token.
LEMMA SwitchFacts ==
  ASSUME AdapterTypeOK, SwitchRoot
  PROVE  \E s \in Slots :
            /\ slots[s] # None
            /\ guards # <<>> /\ Top = Live(s, slots[s].token)
            /\ registers' = [registers EXCEPT ![RootRegister(slots[s].kind)] =
                                Value(generation + 1)]
            /\ slots'[s] = [slots[s] EXCEPT !.token = generation + 1]
            /\ slots'[s] \in Translations /\ slots'[s] # None
            /\ slots'[s].kind = slots[s].kind /\ slots'[s].saved = slots[s].saved
            /\ slots'[s].token = generation + 1
            /\ \A t \in Slots : t # s => slots'[t] = slots[t]
            /\ slots' \in [Slots -> Translations \cup {None}]
            /\ guards' = Append(Popped, Live(s, generation + 1))
            /\ Live(s, generation + 1) \in GuardSet
<1>1. PICK s \in {"lower", "stage2"} :
         /\ slots[s] # None
         /\ slots[s].kind \in {"Lower", "Stage2"}
         /\ Top = Live(s, slots[s].token)
         /\ registers' = [registers EXCEPT
                ![IF s = "lower" THEN "TTBR0_EL1" ELSE "VTTBR"] = Value(generation + 1)]
         /\ slots' = [slots EXCEPT ![s].token = generation + 1]
         /\ guards' = Append(Popped, Live(s, generation + 1))
  BY DEF SwitchRoot
<1>2. s \in Slots /\ slots[s] \in Translations /\ generation + 1 \in Nat /\ guards # <<>>
  BY <1>1 DEF AdapterTypeOK, Slots, SwitchRoot
<1>3. slots[s].kind \in KindsOf(s)
  BY <1>1, <1>2, SlotFacts
<1>4. RootRegister(slots[s].kind) = IF s = "lower" THEN "TTBR0_EL1" ELSE "VTTBR"
  BY <1>1, <1>3 DEF KindsOf, RootRegister
<1>5. /\ slots'[s] = [slots[s] EXCEPT !.token = generation + 1]
      /\ \A t \in Slots : t # s => slots'[t] = slots[t]
      /\ slots' = [slots EXCEPT ![s] = [slots[s] EXCEPT !.token = generation + 1]]
  BY <1>1, <1>2 DEF AdapterTypeOK
<1>6. /\ slots'[s] \in Translations
      /\ slots'[s].kind = slots[s].kind /\ slots'[s].saved = slots[s].saved
      /\ slots'[s].token = generation + 1
  BY <1>2, <1>5 DEF Translations
<1>7. slots'[s] # None
  BY <1>6, NoneAssumption
<1>8. slots' \in [Slots -> Translations \cup {None}]
  BY <1>2, <1>5, <1>6 DEF AdapterTypeOK
<1>9. Live(s, generation + 1) \in GuardSet
  BY <1>2 DEF Live, GuardSet
<1> QED
  BY <1>1, <1>2, <1>4, <1>5, <1>6, <1>7, <1>8, <1>9

LEMMA SwitchLight ==
  ASSUME AdapterTypeOK, StateMatchesSlots, StackInv, PhaseInv, GuardInv, SwitchRoot
  PROVE  AdapterTypeOK' /\ StateMatchesSlots' /\ StackInv' /\ PhaseInv'
<1>1. PICK s \in Slots :
         /\ slots[s] # None /\ guards # <<>>
         /\ registers' = [registers EXCEPT ![RootRegister(slots[s].kind)] = Value(generation + 1)]
         /\ slots'[s] # None /\ slots'[s].kind = slots[s].kind
         /\ \A t \in Slots : t # s => slots'[t] = slots[t]
         /\ slots' \in [Slots -> Translations \cup {None}]
         /\ guards' = Append(Popped, Live(s, generation + 1))
         /\ Live(s, generation + 1) \in GuardSet
  BY SwitchFacts
<1>2. PICK n, g : n = Len(guards) /\ g = Live(s, generation + 1)
  OBVIOUS
<1>3. /\ guards' \in Seq(GuardSet) /\ n \in Depth /\ Depth' = Depth /\ guards'[n] = g
      /\ g.guard = "live"
      /\ \A i \in Depth \ {n} : guards'[i] = guards[i]
  BY <1>1, <1>2, Swapped DEF Live
<1>4. /\ Testing /\ Top.guard = "live"
      /\ UNCHANGED <<el, firmware, state, previous, mapped, scopedPage, delegated,
                     cleanup, phase, lost>>
      /\ generation' = generation + 1
  BY DEF SwitchRoot, platform, runner
<1>5. /\ \A i \in Depth : guards[i].guard \notin {"secondary", "realm"}
      /\ state \notin {"SecondaryActive", "RealmActive"}
  BY <1>1, <1>4, TopLive
<1>6. slots # NoSlots /\ slots' # NoSlots
  BY <1>1 DEF NoSlots
<1>7. AdapterTypeOK'
  <2>1. registers' \in RegisterFiles
    BY <1>1, ValueFacts DEF AdapterTypeOK, RegisterFiles, RegisterValues
  <2>2. \A t \in Slots : slots'[t] # None => slots'[t].kind \in KindsOf(t)
    BY <1>1 DEF AdapterTypeOK
  <2>3. generation' \in Nat
    BY <1>4 DEF AdapterTypeOK
  <2> QED
    BY <1>1, <1>3, <1>4, <2>1, <2>2, <2>3 DEF AdapterTypeOK
<1>8. StateMatchesSlots'
  BY <1>4, <1>6 DEF StateMatchesSlots
<1>9. StackInv'
  BY <1>3, <1>4, <1>5, <1>6 DEF StackInv, Testing
<1>10. PhaseInv'
  BY <1>4, <1>6 DEF PhaseInv, Testing
<1> QED
  BY <1>7, <1>8, <1>9, <1>10

LEMMA SwitchHeavy ==
  ASSUME AdapterTypeOK, Heavy, SwitchRoot
  PROVE  Heavy'
<1>1. PICK s \in Slots :
         /\ slots[s] # None /\ guards # <<>> /\ Top = Live(s, slots[s].token)
         /\ registers' = [registers EXCEPT ![RootRegister(slots[s].kind)] = Value(generation + 1)]
         /\ slots'[s] # None /\ slots'[s].kind = slots[s].kind
         /\ slots'[s].saved = slots[s].saved /\ slots'[s].token = generation + 1
         /\ \A t \in Slots : t # s => slots'[t] = slots[t]
         /\ guards' = Append(Popped, Live(s, generation + 1))
         /\ Live(s, generation + 1) \in GuardSet
  BY SwitchFacts
<1>2. PICK n, g, kind : /\ n = Len(guards) /\ g = Live(s, generation + 1)
                        /\ kind = slots[s].kind
  OBVIOUS
<1>3. /\ n \in Depth /\ Depth' = Depth /\ guards'[n] = g
      /\ \A i \in Depth \ {n} : guards'[i] = guards[i]
      /\ guards[n].guard = "live" /\ guards[n].slot = s
      /\ g.guard = "live" /\ g.slot = s /\ g.token = generation + 1
  <2>1. /\ n \in Depth /\ Depth' = Depth /\ guards'[n] = g
        /\ \A i \in Depth \ {n} : guards'[i] = guards[i]
        /\ guards[n] = Live(s, slots[s].token)
    BY <1>1, <1>2, Swapped
  <2> QED
    BY <1>2, <2>1 DEF Live
<1>4. UNCHANGED <<el, firmware, state, cleanup, lost>>
  BY DEF SwitchRoot, platform
<1>5. \A i \in Depth : guards'[i].guard = guards[i].guard
                       /\ (guards[i].guard # "live" => guards'[i] = guards[i])
                       /\ (guards[i].guard = "live" => guards'[i].slot = guards[i].slot)
  BY <1>3
<1>6. \A t \in Slots : /\ slots'[t] = None <=> slots[t] = None
                       /\ slots[t] # None => /\ slots'[t].kind = slots[t].kind
                                             /\ slots'[t].saved = slots[t].saved
  BY <1>1
<1>7. kind \in KindsOf(s) /\ RootRegister(kind) \in RestoredNames(kind)
      /\ RootRegister(kind) \in RootsOf(s) /\ RootRegister(kind) \in Registers
  BY <1>1, <1>2, SlotFacts, KindFacts, RootFacts
<1>8. /\ \A r \in Registers : r # RootRegister(kind) => registers'[r] = registers[r]
      /\ registers'[RootRegister(kind)] = Value(generation + 1)
  BY <1>1, <1>2, <1>7 DEF AdapterTypeOK, RegisterFiles
<1>9. GuardInv'
  <2>1. ASSUME state # "Corrupted", NEW i \in Depth, guards'[i].guard = "live"
        PROVE  /\ slots'[guards'[i].slot] # None
               /\ slots'[guards'[i].slot].token = guards'[i].token
    <3>1. CASE i = n
      BY <1>1, <1>3, <3>1
    <3>2. CASE i # n
      <4>1. guards'[i] = guards[i] /\ guards[i].slot \in Slots /\ guards[i].guard = "live"
        BY <1>3, <2>1, <3>2, Guarded
      <4>2. guards[i].slot # s
        BY <1>3, <2>1, <3>2, <4>1 DEF Heavy, GuardInv
      <4>3. slots'[guards[i].slot] = slots[guards[i].slot]
        BY <1>1, <4>1, <4>2
      <4> QED
        BY <2>1, <4>1, <4>3 DEF Heavy, GuardInv
    <3> QED
      BY <3>1, <3>2
  <2>2. ASSUME state # "Corrupted", NEW i \in Depth, NEW j \in Depth,
               guards'[i].guard = "live", guards'[j].guard = "live",
               guards'[i].slot = guards'[j].slot
        PROVE  i = j
    BY <1>5, <2>2 DEF Heavy, GuardInv
  <2>3. ASSUME state # "Corrupted", NEW t \in Slots, slots'[t] # None
        PROVE  \/ \E i \in Depth : guards'[i].guard = "live" /\ guards'[i].slot = t
               \/ t = "lower" /\ slots'[t].kind = "Lower" /\ cleanup'
    <3>1. slots[t] # None /\ slots'[t].kind = slots[t].kind
      BY <1>6, <2>3
    <3>2. CASE \E i \in Depth : guards[i].guard = "live" /\ guards[i].slot = t
      BY <1>5, <3>2
    <3>3. CASE t = "lower" /\ slots[t].kind = "Lower" /\ cleanup
      BY <1>4, <3>1, <3>3
    <3> QED
      BY <2>3, <3>1, <3>2, <3>3 DEF Heavy, GuardInv
  <2>4. state # "Corrupted" => \A i \in Depth : guards'[i].guard = "live" =>
           /\ slots'[guards'[i].slot] # None
           /\ slots'[guards'[i].slot].token = guards'[i].token
    BY <2>1, Zenon
  <2>5. state # "Corrupted" => \A i, j \in Depth :
           guards'[i].guard = "live" /\ guards'[j].guard = "live"
               /\ guards'[i].slot = guards'[j].slot => i = j
    BY <2>2, Zenon
  <2>6. state # "Corrupted" => \A t \in Slots : slots'[t] # None =>
           \/ \E i \in Depth : guards'[i].guard = "live" /\ guards'[i].slot = t
           \/ t = "lower" /\ slots'[t].kind = "Lower" /\ cleanup'
    BY <2>3, Zenon
  <2>7. state' = state /\ Depth' = Depth
    BY <1>3, <1>4
  <2> QED
    BY <2>4, <2>5, <2>6, <2>7, Zenon DEF GuardInv
<1>10. RootInv'
  <2>1. ASSUME NEW t \in Slots, NEW root \in RootsOf(t)
        PROVE  /\ slots'[t] = None => registers'[root].owner = 0
               /\ slots'[t] # None =>
                     /\ slots'[t].saved[root].owner = 0
                     /\ root = RootRegister(slots'[t].kind) =>
                           registers'[root].owner = slots'[t].token
                     /\ root # RootRegister(slots'[t].kind) => registers'[root].owner = 0
    <3>1. root \in Registers
      BY RootFacts
    <3>2. CASE t # s
      <4>1. root # RootRegister(kind)
        BY <1>7, <3>2, KindFacts
      <4> QED
        BY <1>1, <1>8, <3>1, <3>2, <4>1 DEF Heavy, RootInv
    <3>3. CASE t = s
      <4>1. /\ slots[s].saved[root].owner = 0
            /\ root # RootRegister(kind) => registers[root].owner = 0
        BY <1>1, <1>2, <3>3 DEF Heavy, RootInv
      <4>2. Value(generation + 1).owner = generation + 1
        BY ValueFacts
      <4> QED
        BY <1>1, <1>2, <1>8, <3>1, <3>3, <4>1, <4>2
    <3> QED
      BY <3>2, <3>3
  <2> QED
    BY <2>1, Zenon DEF RootInv
<1>11. ASSUME state # "Corrupted", NEW i \in Depth
       PROVE  Covers(i)' = Covers(i) /\ \A r : Saved(i, r)' = Saved(i, r)
  <2>1. CASE guards[i].guard = "live"
    <3>1. guards[i].slot \in Slots /\ slots[guards[i].slot] # None
      BY <1>11, <2>1, Guarded DEF Heavy, GuardInv
    <3>2. /\ guards'[i].guard = "live" /\ guards'[i].slot = guards[i].slot
          /\ slots'[guards[i].slot].kind = slots[guards[i].slot].kind
          /\ slots'[guards[i].slot].saved = slots[guards[i].slot].saved
      BY <1>5, <1>6, <2>1, <3>1
    <3>3. Covers(i) = RestoredNames(slots[guards[i].slot].kind)
          /\ Covers(i)' = RestoredNames(slots[guards[i].slot].kind)'
      BY <2>1, <3>2 DEF Covers
    <3>4. Covers(i)' = Covers(i)
      BY <1>4, <3>2, <3>3 DEF RestoredNames
    <3> QED
      BY <2>1, <3>2, <3>4 DEF Saved
  <2>2. CASE guards[i].guard # "live"
    <3>1. guards'[i] = guards[i]
      BY <1>5, <2>2
    <3> QED
      BY <1>4, <2>2, <3>1, SameCover, SameSaved
  <2> QED
    BY <2>1, <2>2
<1>12. ValueInv'
  <2>0. Watched' = Watched /\ Watched \subseteq Registers
    BY <1>4 DEF Watched
  <2>c. state # "Corrupted" => Covers(n) = RestoredNames(kind)
    BY <1>2, <1>3 DEF Covers
  <2>1. ASSUME state # "Corrupted", NEW r \in Watched, \A i \in Depth : r \notin Covers(i)'
        PROVE  registers'[r] = firmware[r]
    <3>1. \A i \in Depth : r \notin Covers(i)
      BY <1>11, <2>1
    <3>2. r # RootRegister(kind)
      BY <1>3, <1>7, <2>1, <2>c, <3>1
    <3> QED
      BY <1>8, <2>0, <2>1, <3>1, <3>2 DEF Heavy, ValueInv
  <2>2. ASSUME state # "Corrupted", NEW r \in Watched, NEW i \in Depth, r \in Covers(i)',
               \A j \in Depth : j < i => r \notin Covers(j)'
        PROVE  Saved(i, r)' = firmware[r]
    <3>1. r \in Covers(i) /\ \A j \in Depth : j < i => r \notin Covers(j)
      BY <1>11, <2>2
    <3> QED
      BY <1>11, <2>2, <3>1 DEF Heavy, ValueInv
  <2> QED
    BY <1>3, <1>4, <2>0, <2>1, <2>2 DEF ValueInv
<1>13. VmInv'
  <2>1. registers'["HCR"] = registers["HCR"]
    BY <1>7, <1>8, RegisterNames, RootFacts
  <2>2. slots'["stage2"] # None => slots["stage2"] # None
    BY <1>6 DEF Slots
  <2>3. ASSUME state # "Corrupted", NEW i \in Depth, NEW j \in Depth, j < i,
               guards'[j].guard = "live", guards'[j].slot = "stage2",
               guards'[i].guard = "live", "HCR" \in Covers(i)'
        PROVE  "VM" \in Saved(i, "HCR")'.bits
    BY <1>5, <1>11, <2>3 DEF Heavy, VmInv
  <2> QED
    BY <1>3, <1>4, <2>1, <2>2, <2>3 DEF Heavy, VmInv
<1> QED
  BY <1>9, <1>10, <1>12, <1>13 DEF Heavy

-----------------------------------------------------------------------------
(* emergency_restore.                                                      *)

\* The three snapshots hold registers of each other; a register every
\* snapshot that has it agrees about ends up with that value.
LEMMA EmergencyValue ==
  ASSUME AdapterTypeOK
  PROVE  /\ EmergencyOrder(registers) \in RegisterFiles
         /\ \A r \in Registers : \A v :
               /\ \A t \in Slots : slots[t] # None /\ r \in RestoredNames(slots[t].kind) =>
                     slots[t].saved[r] = v
               /\ (\A t \in Slots : slots[t] # None => r \notin RestoredNames(slots[t].kind)) =>
                     registers[r] = v
               => EmergencyOrder(registers)[r] = v
<1> DEFINE Undo(slot, from) == IF slots[slot] = None THEN from ELSE RestoreSaved(slots[slot], from)
<1>1. ASSUME NEW t \in Slots, NEW regs \in RegisterFiles
      PROVE  /\ Undo(t, regs) \in RegisterFiles
             /\ \A r \in Registers : Undo(t, regs)[r] =
                   IF slots[t] # None /\ r \in RestoredNames(slots[t].kind)
                   THEN slots[t].saved[r] ELSE regs[r]
  <2>1. CASE slots[t] = None
    BY <2>1
  <2>2. CASE slots[t] # None
    BY <2>2, RestoredValues
  <2> QED
    BY <2>1, <2>2
<1>2. EmergencyOrder(registers) = Undo("current", Undo("lower", Undo("stage2", registers)))
  BY DEF EmergencyOrder
<1> HIDE DEF Undo
<1>3. "current" \in Slots /\ "lower" \in Slots /\ "stage2" \in Slots /\ registers \in RegisterFiles
      /\ Slots = {"current", "lower", "stage2"}
  BY DEF Slots, AdapterTypeOK
<1>4. PICK a, b : a = Undo("stage2", registers) /\ b = Undo("lower", a)
  OBVIOUS
<1>5. /\ a \in RegisterFiles
      /\ \A r \in Registers : a[r] =
            IF slots["stage2"] # None /\ r \in RestoredNames(slots["stage2"].kind)
            THEN slots["stage2"].saved[r] ELSE registers[r]
  BY <1>1, <1>3, <1>4
<1>6. /\ b \in RegisterFiles
      /\ \A r \in Registers : b[r] =
            IF slots["lower"] # None /\ r \in RestoredNames(slots["lower"].kind)
            THEN slots["lower"].saved[r] ELSE a[r]
  BY <1>1, <1>3, <1>4, <1>5
<1>7. /\ EmergencyOrder(registers) \in RegisterFiles
      /\ \A r \in Registers : EmergencyOrder(registers)[r] =
            IF slots["current"] # None /\ r \in RestoredNames(slots["current"].kind)
            THEN slots["current"].saved[r] ELSE b[r]
  BY <1>1, <1>2, <1>3, <1>4, <1>6
<1> QED
  BY <1>3, <1>5, <1>6, <1>7

\* What emergency_restore does to an adapter that is not corrupted.
LEMMA EmergencySteps ==
  ASSUME AdapterTypeOK, StateMatchesSlots, StackInv, PhaseInv, phase = "body",
         EmergencyRestore,
         \A i \in Depth : guards[i].guard # "secondary"
  PROVE  \/ state = "Corrupted" /\ UNCHANGED <<state, slots, registers, previous, mapped>>
         \/ /\ state # "Corrupted" /\ state' = "TestScoped" /\ slots' = NoSlots
            /\ registers' = EmergencyOrder(registers)
            /\ UNCHANGED previous /\ previous = "none" /\ mapped' = FALSE
<1>1. state # "SecondaryActive"
  BY DEF StackInv
<1>2. state # "Ready" /\ state # "Finished"
  BY DEF PhaseInv, AdapterTypeOK
<1>3. CASE state = "Corrupted"
  BY <1>3 DEF EmergencyRestore
<1>4. CASE state # "Corrupted"
  <2>1. /\ registers' = EmergencyOrder(registers) /\ slots' = NoSlots /\ state' = "TestScoped"
        /\ previous' = previous
        /\ mapped' = IF state = "RealmActive" THEN FALSE ELSE mapped
    BY <1>1, <1>2, <1>4 DEF EmergencyRestore
  <2>2. previous = "none"
    BY <1>1 DEF StateMatchesSlots
  <2>3. state = "RealmActive" \/ mapped = FALSE
    BY <1>4, Zenon DEF StateMatchesSlots, AdapterTypeOK
  <2>4. mapped' = FALSE
    BY <2>1, <2>3, Zenon
  <2> QED
    BY <1>4, <2>1, <2>2, <2>4, Zenon
<1> QED
  BY <1>3, <1>4

LEMMA EmergencyWatched ==
  ASSUME AdapterTypeOK, Heavy, state # "Corrupted",
         guards = <<>> \/ (Len(guards) = 1 /\ guards[1].guard = "live"),
         NEW r \in Watched
  PROVE  EmergencyOrder(registers)[r] = firmware[r]
<1>1. r \in Registers
  BY DEF Watched
<1>2. /\ \A i \in Depth : i = 1 /\ guards[i].guard = "live"
      /\ \A i, j \in Depth : ~(j < i)
  <2>1. CASE guards = <<>>
    BY <2>1 DEF Depth
  <2>2. CASE Len(guards) = 1 /\ guards[1].guard = "live"
    BY <2>2 DEF Depth
  <2> QED
    BY <2>1, <2>2
<1>3. \A i \in Depth : guards[i].slot \in Slots /\ slots[guards[i].slot] # None
                       /\ Covers(i) = RestoredNames(slots[guards[i].slot].kind)
  <2> SUFFICES ASSUME NEW i \in Depth
               PROVE  guards[i].slot \in Slots /\ slots[guards[i].slot] # None
                      /\ Covers(i) = RestoredNames(slots[guards[i].slot].kind)
    OBVIOUS
  <2>1. guards[i].guard = "live"
    BY <1>2
  <2> QED
    BY <2>1, Guarded DEF Heavy, GuardInv, Covers
<1>4. ASSUME NEW t \in Slots, slots[t] # None, r \in RestoredNames(slots[t].kind)
      PROVE  slots[t].saved[r] = firmware[r]
  <2>1. CASE \E i \in Depth : guards[i].guard = "live" /\ guards[i].slot = t
    <3>1. PICK i \in Depth : guards[i].guard = "live" /\ guards[i].slot = t
      BY <2>1
    <3>2. r \in Covers(i)
      BY <1>3, <1>4, <3>1
    <3>3. Saved(i, r) = firmware[r]
      BY <1>2, <3>1, <3>2 DEF Heavy, ValueInv
    <3> QED
      BY <3>1, <3>3 DEF Saved
  <2>2. CASE t = "lower" /\ slots[t].kind = "Lower" /\ cleanup
    <3>1. RestoredNames(slots[t].kind) = LowerSet
      BY <2>2 DEF RestoredNames, RestoresLower
    <3>2. r \notin LowerSet
      BY <2>2 DEF Watched
    <3> QED
      BY <1>4, <3>1, <3>2
  <2> QED
    BY <1>4, <2>1, <2>2 DEF Heavy, GuardInv
<1>5. ASSUME \A t \in Slots : slots[t] # None => r \notin RestoredNames(slots[t].kind)
      PROVE  registers[r] = firmware[r]
  <2>1. \A i \in Depth : r \notin Covers(i)
    BY <1>3, <1>5
  <2> QED
    BY <2>1 DEF Heavy, ValueInv
<1> QED
  BY <1>1, <1>4, <1>5, EmergencyValue

LEMMA EmergencyHeavy ==
  ASSUME AdapterTypeOK, Heavy, state # "Corrupted",
         guards = <<>> \/ (Len(guards) = 1 /\ guards[1].guard = "live"),
         UNCHANGED <<el, firmware, cleanup, lost>>,
         registers' = EmergencyOrder(registers), slots' = NoSlots, guards' = <<>>
  PROVE  Heavy'
<1>1. \A t \in Slots : slots'[t] = None
  BY DEF NoSlots
<1>2. Depth' = {}
  BY DEF Depth
<1>3. GuardInv'
  BY <1>1, <1>2 DEF GuardInv
<1>4. RootInv'
  <2>1. ASSUME NEW t \in Slots, NEW root \in RootsOf(t)
        PROVE  registers'[root].owner = 0
    <3>1. root \in Registers
      BY RootFacts
    <3>2. PICK v : v = IF slots[t] # None /\ root \in RestoredNames(slots[t].kind)
                       THEN slots[t].saved[root] ELSE registers[root]
      OBVIOUS
    <3>3. \A u \in Slots : u # t /\ slots[u] # None => root \notin RestoredNames(slots[u].kind)
      BY SlotFacts, KindFacts
    <3>4. EmergencyOrder(registers)[root] = v
      BY <3>1, <3>2, <3>3, EmergencyValue
    <3>5. CASE slots[t] = None
      BY <3>2, <3>4, <3>5 DEF Heavy, RootInv
    <3>6. CASE slots[t] # None
      <4>1. /\ slots[t].saved[root].owner = 0
            /\ root # RootRegister(slots[t].kind) => registers[root].owner = 0
        BY <3>6 DEF Heavy, RootInv
      <4>2. root = RootRegister(slots[t].kind) => root \in RestoredNames(slots[t].kind)
        BY <3>6, SlotFacts, KindFacts
      <4>3. CASE root \in RestoredNames(slots[t].kind)
        <5>1. v = slots[t].saved[root]
          BY <3>2, <3>6, <4>3
        <5> QED
          BY <3>4, <4>1, <5>1
      <4>4. CASE root \notin RestoredNames(slots[t].kind)
        <5>1. v = registers[root]
          BY <3>2, <4>4
        <5> QED
          BY <3>4, <4>1, <4>2, <4>4, <5>1
      <4> QED
        BY <4>3, <4>4
    <3> QED
      BY <3>5, <3>6
  <2> QED
    BY <1>1, <2>1 DEF RootInv
<1>5. ValueInv'
  <2>1. Watched' = Watched
    BY DEF Watched
  <2>2. \A r \in Watched : registers'[r] = firmware[r]
    BY EmergencyWatched
  <2> QED
    BY <1>2, <2>1, <2>2 DEF ValueInv
<1>6. VmInv'
  <2>1. slots'["stage2"] = None
    BY <1>1 DEF Slots
  <2> QED
    BY <1>2, <2>1 DEF VmInv
<1> QED
  BY <1>3, <1>4, <1>5, <1>6 DEF Heavy

-----------------------------------------------------------------------------
(* The steps, one by one.                                                  *)

LEMMA InitInv == Init => Inv
<1> SUFFICES ASSUME Init
             PROVE  Inv
  OBVIOUS
<1>1. \A s \in Slots : slots[s] = None
  BY DEF Init, NoSlots
<1>2. /\ firmware \in RegisterFiles /\ \A r \in Registers : firmware[r].owner = 0
      /\ registers = firmware
  <2>1. PICK host \in BOOLEAN : firmware = Boot(host)
    BY DEF Init
  <2>2. \A r \in Registers : Boot(host)[r] \in RegisterValues /\ Boot(host)[r].owner = 0
    BY DEF Boot, Value, WithBits, RegisterValues
  <2> QED
    BY <2>1, <2>2 DEF Init, Boot, RegisterFiles, RegisterValues
<1>3. AdapterTypeOK
  <2>1. slots \in [Slots -> Translations \cup {None}]
    BY DEF Init, NoSlots
  <2>2. guards \in Seq(GuardSet)
    BY DEF Init
  <2>3. /\ el \in {1, 2, 3} /\ state = "Ready" /\ generation \in Nat /\ phase = "between"
        /\ mapped = FALSE /\ scopedPage = FALSE /\ delegated = FALSE
        /\ cleanup = FALSE /\ lost = FALSE
    BY DEF Init
  <2> QED
    BY <1>1, <1>2, <2>1, <2>2, <2>3 DEF AdapterTypeOK
<1>4. Depth = {}
  BY DEF Init, Depth
<1>5. StateMatchesSlots
  BY DEF Init, StateMatchesSlots
<1>6. StackInv
  BY <1>4 DEF Init, StackInv
<1>7. PhaseInv
  BY DEF Init, PhaseInv
<1>8. GuardInv
  BY <1>1, <1>4 DEF GuardInv
<1>9. RootInv
  BY <1>1, <1>2, RootFacts DEF RootInv
<1>10. ValueInv
  BY <1>2, <1>4 DEF ValueInv
<1>11. VmInv
  BY <1>1, <1>4 DEF VmInv, Slots
<1> QED
  BY <1>3, <1>5, <1>6, <1>7, <1>8, <1>9, <1>10, <1>11 DEF Inv, Heavy

LEMMA RefusedStep ==
  ASSUME Inv, InstallRefused
  PROVE  Inv'
<1>1. /\ UNCHANGED <<el, firmware, state, slots, registers, previous, mapped, scopedPage,
                     delegated, guards, cleanup, phase, lost>>
      /\ generation' = generation + 1
  BY DEF InstallRefused, platform, runner
<1>2. AdapterTypeOK'
  BY <1>1 DEF Inv, AdapterTypeOK
<1>3. StateMatchesSlots'
  BY <1>1 DEF Inv, StateMatchesSlots
<1>4. StackInv'
  BY <1>1 DEF Inv, StackInv, Depth
<1>5. PhaseInv'
  BY <1>1 DEF Inv, PhaseInv
<1>6. Heavy'
  BY <1>1, Frame DEF Inv
<1> QED
  BY <1>2, <1>3, <1>4, <1>5, <1>6 DEF Inv

LEMMA InstallStep ==
  ASSUME Inv, Testing, Installable, el # 1, NEW s \in Slots, slots[s] = None,
         NEW kind, NEW writes, Proper(s, kind, writes), Installed(s, kind, writes)
  PROVE  Inv'
  BY InstallLight, InstallHeavy DEF Inv

LEMMA InstallCurrentStep ==
  ASSUME Inv, InstallCurrent
  PROVE  Inv'
<1>1. Testing /\ Installable /\ el # 1 /\ slots["current"] = None /\ "current" \in Slots
  BY DEF InstallCurrent, Slots
<1>2. CASE InstallRefused
  BY <1>2, RefusedStep
<1>3. CASE Installed("current", "Stage1", InstalledStage1(generation + 1))
  BY <1>1, <1>3, CurrentProper, InstallStep DEF Inv
<1>4. ASSUME el = 2, NEW host \in BOOLEAN,
             Installed("current", "Geometry", InstalledEl2Geometry(generation + 1, host))
      PROVE  Inv'
  BY <1>1, <1>4, CurrentProper, InstallStep DEF Inv
<1>5. CASE el = 3 /\ Installed("current", "Geometry", InstalledEl3Geometry(generation + 1))
  BY <1>1, <1>5, CurrentProper, InstallStep DEF Inv
<1>6. CASE el = 2 /\ Installed("current", "D128", InstalledD128(generation + 1))
  BY <1>1, <1>6, CurrentProper, InstallStep DEF Inv
<1> QED
  BY <1>2, <1>3, <1>4, <1>5, <1>6 DEF InstallCurrent

LEMMA InstallStage2Step ==
  ASSUME Inv, InstallStage2
  PROVE  Inv'
<1>1. Testing /\ Installable /\ el # 1 /\ slots["stage2"] = None /\ "stage2" \in Slots
  BY DEF InstallStage2, Slots
<1>2. CASE InstallRefused
  BY <1>2, RefusedStep
<1>3. CASE Installed("stage2", "Stage2", InstalledStage2(generation + 1))
  BY <1>1, <1>3, Stage2Proper, InstallStep DEF Inv
<1>4. CASE Installed("stage2", "SecureStage2", InstalledSecureStage2(generation + 1))
  BY <1>1, <1>4, Stage2Proper, InstallStep DEF Inv
<1>5. CASE Installed("stage2", "Stage2D128", InstalledStage2D128(generation + 1))
  BY <1>1, <1>5, Stage2Proper, InstallStep DEF Inv
<1> QED
  BY <1>2, <1>3, <1>4, <1>5 DEF InstallStage2

LEMMA InstallLowerStep ==
  ASSUME Inv, InstallLower
  PROVE  Inv'
<1>1. Testing /\ Installable /\ el # 1 /\ slots["lower"] = None /\ "lower" \in Slots
  BY DEF InstallLower, Slots
<1>2. CASE Installed("lower", "Lower", InstalledLower(generation + 1))
  BY <1>1, <1>2, LowerProper, InstallStep DEF Inv
<1>3. CASE Installed("lower", "LowerD128", InstalledLowerD128(generation + 1))
  BY <1>1, <1>3, LowerProper, InstallStep DEF Inv
<1> QED
  BY <1>2, <1>3 DEF InstallLower

LEMMA LowerLostStep ==
  ASSUME Inv, LowerLost
  PROVE  Inv'
<1>1. /\ UNCHANGED <<el, firmware, state, slots, previous, mapped, scopedPage, delegated,
                     guards, cleanup, phase>>
      /\ generation' = generation + 1 /\ lost' = TRUE
  BY DEF LowerLost, platform, runner
<1>2. Heavy' /\ registers' \in RegisterFiles
  BY LowerLostHeavy DEF Inv
<1>3. AdapterTypeOK'
  BY <1>1, <1>2 DEF Inv, AdapterTypeOK
<1>4. StateMatchesSlots'
  BY <1>1 DEF Inv, StateMatchesSlots
<1>5. StackInv'
  BY <1>1 DEF Inv, StackInv, Depth
<1>6. PhaseInv'
  BY <1>1 DEF Inv, PhaseInv
<1> QED
  BY <1>2, <1>3, <1>4, <1>5, <1>6 DEF Inv

LEMMA SwitchStep ==
  ASSUME Inv, SwitchRoot
  PROVE  Inv'
  BY SwitchLight, SwitchHeavy DEF Inv, Heavy

LEMMA ReleaseStep ==
  ASSUME Inv, ReleaseLive \/ ReleaseFails
  PROVE  Inv'
  BY ReleaseLight, ReleaseHeavy, FailsLight, FailsHeavy DEF Inv, Heavy

LEMMA EnableUpdatesStep ==
  ASSUME Inv, EnableUpdates
  PROVE  Inv'
<1>1. PICK name \in Controls :
         /\ registers' = [registers EXCEPT ![name].bits = @ \cup {"updates"}]
         /\ guards' = Append(guards, UpdateGuard(name))
  BY DEF EnableUpdates, Controls
<1>2. /\ UNCHANGED <<el, firmware, state, slots, generation, previous, mapped, scopedPage,
                     delegated, cleanup, phase, lost>>
      /\ Testing /\ el # 1
  BY DEF EnableUpdates, platform, runner
<1>3. Heavy' /\ registers' \in RegisterFiles /\ guards' \in Seq(GuardSet)
  BY <1>1, <1>2, PushUpdates DEF Inv
<1>4. PICK n, g : n = Len(guards) /\ g = UpdateGuard(name)
  OBVIOUS
<1>5. g.guard = "updates" /\ g \in GuardSet
  <2>1. registers[name] \in RegisterValues
    BY ControlFacts DEF Inv, AdapterTypeOK, RegisterFiles, RegisterValues
  <2> QED
    BY <1>4, <2>1 DEF UpdateGuard, GuardSet
<1>6. /\ Depth' = Depth \cup {n + 1} /\ guards'[n + 1] = g /\ n \in Nat
      /\ \A i \in Depth : guards'[i] = guards[i] /\ i \in Nat /\ i < n + 1
  BY <1>1, <1>4, <1>5, Pushed DEF Inv
<1>7. AdapterTypeOK'
  BY <1>2, <1>3 DEF Inv, AdapterTypeOK
<1>8. StateMatchesSlots'
  BY <1>2 DEF Inv, StateMatchesSlots
<1>9. StackInv'
  <2>1. ASSUME NEW i \in Depth'
        PROVE  /\ guards'[i].guard = "secondary" => state = "SecondaryActive"
               /\ guards'[i].guard = "realm" => state = "RealmActive"
               /\ guards'[i].guard \in {"secondary", "realm"} =>
                     \A j \in Depth' : j > i => guards'[j].guard = "updates"
    BY <1>5, <1>6 DEF Inv, StackInv
  <2>2. state = "SecondaryActive" => \E i \in Depth' : guards'[i].guard = "secondary"
    BY <1>6 DEF Inv, StackInv
  <2> QED
    BY <1>2, <2>1, <2>2 DEF Inv, StackInv, Testing
<1>10. PhaseInv'
  BY <1>2 DEF Inv, PhaseInv
<1> QED
  BY <1>3, <1>7, <1>8, <1>9, <1>10 DEF Inv

\* Popping a guard that is not a session's leaves the stack in order.
LEMMA PopStack ==
  ASSUME AdapterTypeOK, StackInv, guards # <<>>, Top.guard \notin {"secondary", "realm"},
         guards' = Popped, Testing,
         UNCHANGED <<el, state, slots, previous, phase>>
  PROVE  StackInv'
<1>1. PICK n : n = Len(guards)
  OBVIOUS
<1>2. /\ n \in Depth /\ Depth' = Depth \ {n} /\ guards[n] = Top
      /\ \A i \in Depth' : guards'[i] = guards[i] /\ i \in Depth
  BY <1>1, PoppedOff
<1>3. ASSUME NEW i \in Depth'
      PROVE  /\ guards'[i].guard = "secondary" => state = "SecondaryActive"
             /\ guards'[i].guard = "realm" => state = "RealmActive"
             /\ guards'[i].guard = "updates" => el # 1
             /\ guards'[i].guard \in {"secondary", "realm"} =>
                   \A j \in Depth' : j > i => guards'[j].guard = "updates"
  BY <1>2 DEF StackInv
<1>4. state = "SecondaryActive" => \E i \in Depth' : guards'[i].guard = "secondary"
  BY <1>2 DEF StackInv
<1> QED
  BY <1>3, <1>4 DEF StackInv, Testing

LEMMA ReleaseUpdatesStep ==
  ASSUME Inv, ReleaseUpdates
  PROVE  Inv'
<1>1. /\ registers' = [registers EXCEPT ![Top.slot] = Top.saved] /\ guards' = Popped
      /\ guards # <<>> /\ Top.guard = "updates" /\ Testing
      /\ UNCHANGED <<el, firmware, state, slots, generation, previous, mapped, scopedPage,
                     delegated, cleanup, phase, lost>>
  BY DEF ReleaseUpdates, platform, runner
<1>2. Heavy' /\ registers' \in RegisterFiles /\ guards' \in Seq(GuardSet)
  BY <1>1, PopUpdates DEF Inv
<1>3. AdapterTypeOK'
  BY <1>1, <1>2 DEF Inv, AdapterTypeOK
<1>4. StateMatchesSlots'
  BY <1>1 DEF Inv, StateMatchesSlots
<1>5. StackInv'
  BY <1>1, PopStack DEF Inv
<1>6. PhaseInv'
  BY <1>1 DEF Inv, PhaseInv
<1> QED
  BY <1>2, <1>3, <1>4, <1>5, <1>6 DEF Inv

LEMMA SessionFacts ==
  ASSUME NEW name \in {"secondary", "realm"}
  PROVE  Session(name) \in GuardSet /\ Session(name).guard = name
  BY DEF Session, GuardSet

LEMMA BeginSecondaryStep ==
  ASSUME Inv, BeginSecondary
  PROVE  Inv'
<1>1. /\ UNCHANGED <<el, firmware, slots, generation, registers, mapped, scopedPage,
                     delegated, cleanup, phase, lost>>
      /\ Testing /\ el = 2 /\ state \in {"TestScoped", "TranslationInstalled"}
      /\ previous = "none" /\ previous' = state /\ state' = "SecondaryActive"
      /\ guards' = Append(guards, Session("secondary"))
  BY DEF BeginSecondary, Installable, platform, runner
<1>2. PICK n, g : n = Len(guards) /\ g = Session("secondary")
  OBVIOUS
<1>3. g \in GuardSet /\ g.guard = "secondary"
  BY <1>2, SessionFacts
<1>4. /\ Depth' = Depth \cup {n + 1} /\ guards'[n + 1] = g /\ n \in Nat
      /\ \A i \in Depth : guards'[i] = guards[i] /\ i \in Nat /\ i < n + 1
      /\ guards' \in Seq(GuardSet)
  BY <1>1, <1>2, <1>3, Pushed DEF Inv
<1>5. Heavy'
  BY <1>1, <1>2, <1>3, PushSession DEF Inv
<1>6. AdapterTypeOK'
  BY <1>1, <1>4 DEF Inv, AdapterTypeOK
<1>7. StateMatchesSlots'
  BY <1>1 DEF Inv, StateMatchesSlots
<1>8. StackInv'
  <2>1. ASSUME NEW i \in Depth
        PROVE  guards'[i].guard \notin {"secondary", "realm"}
               /\ (guards'[i].guard = "updates" => el # 1)
    BY <1>1, <1>4 DEF Inv, StackInv
  <2>2. \A j \in Depth' : ~(j > n + 1)
    BY <1>4
  <2>3. previous' = "TranslationInstalled" => slots' # NoSlots
    BY <1>1 DEF Inv, StateMatchesSlots
  <2> QED
    BY <1>1, <1>3, <1>4, <2>1, <2>2, <2>3 DEF Inv, StackInv, Testing
<1>9. PhaseInv'
  BY <1>1 DEF Inv, PhaseInv, Testing
<1> QED
  BY <1>5, <1>6, <1>7, <1>8, <1>9 DEF Inv

LEMMA BeginRealmStep ==
  ASSUME Inv, BeginRealm
  PROVE  Inv'
<1>1. /\ UNCHANGED <<el, firmware, slots, generation, registers, previous, mapped, scopedPage,
                     delegated, cleanup, phase, lost>>
      /\ Testing /\ el = 1 /\ state = "TestScoped" /\ mapped = FALSE
      /\ state' = "RealmActive"
      /\ guards' = Append(guards, Session("realm"))
  BY DEF BeginRealm, platform, runner, Inv, AdapterTypeOK
<1>2. PICK n, g : n = Len(guards) /\ g = Session("realm")
  OBVIOUS
<1>3. g \in GuardSet /\ g.guard = "realm"
  BY <1>2, SessionFacts
<1>4. /\ Depth' = Depth \cup {n + 1} /\ guards'[n + 1] = g /\ n \in Nat
      /\ \A i \in Depth : guards'[i] = guards[i] /\ i \in Nat /\ i < n + 1
      /\ guards' \in Seq(GuardSet)
  BY <1>1, <1>2, <1>3, Pushed DEF Inv
<1>5. Heavy'
  BY <1>1, <1>2, <1>3, PushSession DEF Inv
<1>6. AdapterTypeOK'
  BY <1>1, <1>4 DEF Inv, AdapterTypeOK
<1>7. StateMatchesSlots'
  BY <1>1 DEF Inv, StateMatchesSlots
<1>8. StackInv'
  <2>1. ASSUME NEW i \in Depth
        PROVE  guards'[i].guard \notin {"secondary", "realm", "updates"}
    BY <1>1, <1>4 DEF Inv, StackInv
  <2>2. \A j \in Depth' : ~(j > n + 1)
    BY <1>4
  <2> QED
    BY <1>1, <1>3, <1>4, <2>1, <2>2 DEF Inv, StackInv, Testing, StateMatchesSlots
<1>9. PhaseInv'
  BY <1>1 DEF Inv, PhaseInv, Testing
<1> QED
  BY <1>5, <1>6, <1>7, <1>8, <1>9 DEF Inv

\* Under a session there is no other, and above it only updates.
LEMMA TopSession ==
  ASSUME AdapterTypeOK, StackInv, guards # <<>>, Top.guard \in {"secondary", "realm"},
         guards' = Popped
  PROVE  /\ guards' \in Seq(GuardSet)
         /\ \A i \in Depth' : /\ i \in Depth /\ guards'[i] = guards[i]
                              /\ guards[i].guard \notin {"secondary", "realm"}
         /\ Top.guard = "secondary" => state = "SecondaryActive"
         /\ Top.guard = "realm" => state = "RealmActive"
<1>1. PICK n : n = Len(guards)
  OBVIOUS
<1>2. /\ n \in Depth /\ Depth' = Depth \ {n} /\ guards[n] = Top /\ guards' \in Seq(GuardSet)
      /\ \A i \in Depth' : guards'[i] = guards[i] /\ i \in Depth /\ i \in Nat /\ i < n
      /\ n \in Nat
  BY <1>1, PoppedOff
<1>3. ASSUME NEW i \in Depth', guards[i].guard \in {"secondary", "realm"}
      PROVE  FALSE
  <2>1. n > i
    BY <1>2
  <2> QED
    BY <1>2, <1>3, <2>1 DEF StackInv
<1> QED
  BY <1>2, <1>3 DEF StackInv

LEMMA EndSecondaryStep ==
  ASSUME Inv, EndSecondary
  PROVE  Inv'
<1>1. /\ UNCHANGED <<el, firmware, slots, generation, registers, mapped, scopedPage,
                     delegated, phase, lost>>
      /\ Testing /\ guards # <<>> /\ Top.guard = "secondary" /\ guards' = Popped
  BY DEF EndSecondary, platform, runner
<1>2. /\ guards' \in Seq(GuardSet) /\ state = "SecondaryActive"
      /\ \A i \in Depth' : /\ i \in Depth /\ guards'[i] = guards[i]
                           /\ guards[i].guard \notin {"secondary", "realm"}
  BY <1>1, TopSession DEF Inv
<1>3. state' = previous /\ previous' = "none" /\ UNCHANGED cleanup
  BY <1>2 DEF EndSecondary
<1>4. state' \in {"TestScoped", "TranslationInstalled"}
  BY <1>2, <1>3 DEF Inv, StateMatchesSlots
<1>5. Heavy'
  BY <1>1, <1>2, <1>3, <1>4, PopSession DEF Inv
<1>6. AdapterTypeOK'
  BY <1>1, <1>2, <1>3, <1>4 DEF Inv, AdapterTypeOK
<1>7. StateMatchesSlots'
  BY <1>1, <1>2, <1>3, <1>4 DEF Inv, StateMatchesSlots, StackInv
<1>8. StackInv'
  BY <1>1, <1>2, <1>3, <1>4 DEF Inv, StackInv, Testing
<1>9. PhaseInv'
  BY <1>1, <1>3, <1>4 DEF Inv, PhaseInv, Testing
<1> QED
  BY <1>5, <1>6, <1>7, <1>8, <1>9 DEF Inv

LEMMA EndRealmStep ==
  ASSUME Inv, EndRealm
  PROVE  Inv'
<1>1. /\ UNCHANGED <<el, firmware, slots, generation, registers, previous, scopedPage,
                     delegated, phase>>
      /\ Testing /\ guards # <<>> /\ Top.guard = "realm" /\ guards' = Popped
  BY DEF EndRealm, platform, runner
<1>2. /\ guards' \in Seq(GuardSet) /\ state = "RealmActive"
      /\ \A i \in Depth' : /\ i \in Depth /\ guards'[i] = guards[i]
                           /\ guards[i].guard \notin {"secondary", "realm"}
  BY <1>1, TopSession DEF Inv
<1>3. /\ \/ state' = "TestScoped" /\ mapped' = FALSE
         \/ state' = state
      /\ mapped' \in BOOLEAN /\ lost' \in BOOLEAN /\ cleanup' \in BOOLEAN
      /\ (cleanup => cleanup') /\ (lost => lost')
  <2>1. mapped \in BOOLEAN /\ lost \in BOOLEAN /\ cleanup \in BOOLEAN
    BY DEF Inv, AdapterTypeOK
  <2>2. CASE mapped' = FALSE /\ state' = "TestScoped" /\ UNCHANGED <<cleanup, lost>>
    BY <2>1, <2>2
  <2>3. CASE mapped' = FALSE /\ cleanup' = TRUE /\ UNCHANGED <<state, lost>>
    BY <2>1, <2>3
  <2>4. CASE cleanup' = TRUE /\ lost' = TRUE /\ UNCHANGED <<mapped, state>>
    BY <2>1, <2>4
  <2> QED
    BY <2>2, <2>3, <2>4, Zenon DEF EndRealm
<1>4. Heavy'
  BY <1>1, <1>2, <1>3, PopSession DEF Inv
<1>5. AdapterTypeOK'
  BY <1>1, <1>2, <1>3 DEF Inv, AdapterTypeOK
<1>6. StateMatchesSlots'
  BY <1>1, <1>2, <1>3 DEF Inv, StateMatchesSlots
<1>7. StackInv'
  BY <1>1, <1>2, <1>3 DEF Inv, StackInv, Testing
<1>8. PhaseInv'
  BY <1>1, <1>2, <1>3 DEF Inv, PhaseInv, Testing
<1> QED
  BY <1>4, <1>5, <1>6, <1>7, <1>8 DEF Inv

LEMMA MutateRealmStep ==
  ASSUME Inv, MutateRealm
  PROVE  Inv'
<1>1. /\ UNCHANGED <<el, firmware, state, slots, generation, registers, previous, scopedPage,
                     delegated, guards, cleanup, phase, lost>>
      /\ state = "RealmActive" /\ mapped' \in BOOLEAN
  BY DEF MutateRealm, platform, runner
<1>2. AdapterTypeOK'
  BY <1>1 DEF Inv, AdapterTypeOK
<1>3. StateMatchesSlots'
  BY <1>1 DEF Inv, StateMatchesSlots
<1>4. StackInv'
  BY <1>1 DEF Inv, StackInv, Depth
<1>5. PhaseInv'
  BY <1>1 DEF Inv, PhaseInv
<1>6. Heavy'
  BY <1>1, Frame DEF Inv
<1> QED
  BY <1>2, <1>3, <1>4, <1>5, <1>6 DEF Inv

LEMMA AcquireStep ==
  ASSUME Inv, AcquirePage \/ AcquireBadPage
  PROVE  Inv'
<1>1. /\ UNCHANGED <<el, firmware, state, slots, generation, registers, previous, mapped,
                     guards, cleanup, phase>>
      /\ Testing /\ delegated' = TRUE
      /\ scopedPage' \in BOOLEAN /\ lost' \in BOOLEAN /\ (lost => lost')
      /\ scopedPage' = TRUE \/ lost' = TRUE
  BY DEF AcquirePage, AcquireBadPage, adapter, platform, runner, Inv, AdapterTypeOK
<1>2. AdapterTypeOK'
  BY <1>1 DEF Inv, AdapterTypeOK
<1>3. StateMatchesSlots'
  BY <1>1 DEF Inv, StateMatchesSlots
<1>4. StackInv'
  BY <1>1 DEF Inv, StackInv, Depth
<1>5. PhaseInv'
  BY <1>1 DEF Inv, PhaseInv, Testing
<1>6. Heavy'
  BY <1>1, Frame DEF Inv
<1> QED
  BY <1>2, <1>3, <1>4, <1>5, <1>6 DEF Inv

LEMMA PanicStep ==
  ASSUME Inv, PanicAfterTest
  PROVE  Inv'
<1>1. /\ UNCHANGED <<el, firmware, slots, generation, registers, previous, mapped, scopedPage,
                     delegated, guards, cleanup>>
      /\ state' = "Corrupted" /\ phase' = "spinning" /\ lost' = TRUE /\ guards = <<>>
  BY DEF PanicAfterTest, platform
<1>2. state # "SecondaryActive" /\ Depth' = {}
  BY <1>1 DEF Inv, StackInv, Depth
<1>3. AdapterTypeOK'
  BY <1>1 DEF Inv, AdapterTypeOK
<1>4. StateMatchesSlots'
  BY <1>1, <1>2 DEF Inv, StateMatchesSlots
<1>5. StackInv'
  BY <1>1, <1>2 DEF Inv, StackInv
<1>6. PhaseInv'
  BY <1>1 DEF Inv, PhaseInv
<1>7. Heavy'
  BY <1>1, Frame DEF Inv
<1> QED
  BY <1>3, <1>4, <1>5, <1>6, <1>7 DEF Inv

\* The two ways to emergency_restore: with no guard left, and with one that
\* was forgotten.
LEMMA EmergencyStep ==
  ASSUME Inv, phase = "body", EmergencyRestore, guards' = <<>>,
         guards = <<>> \/ (Len(guards) = 1 /\ guards[1].guard = "live"),
         phase' \in {"body", "reset"},
         UNCHANGED <<el, firmware, generation, scopedPage, delegated, cleanup, lost>>
  PROVE  Inv'
<1>1. Depth' = {} /\ \A i \in Depth : guards[i].guard = "live"
  <2>1. CASE guards = <<>>
    BY <2>1 DEF Depth
  <2>2. CASE Len(guards) = 1 /\ guards[1].guard = "live"
    BY <2>2 DEF Depth
  <2> QED
    BY <2>1, <2>2
<1>2. CASE state = "Corrupted" /\ UNCHANGED <<state, slots, registers, previous, mapped>>
  <2>1. AdapterTypeOK'
    BY <1>2 DEF Inv, AdapterTypeOK
  <2>2. StateMatchesSlots'
    BY <1>2 DEF Inv, StateMatchesSlots
  <2>3. StackInv'
    BY <1>1, <1>2 DEF Inv, StackInv
  <2>4. PhaseInv'
    BY <1>2 DEF Inv, PhaseInv
  <2>5. Heavy'
    BY <1>2, CorruptedHeavy DEF Inv, Heavy, VmInv
  <2> QED
    BY <2>1, <2>2, <2>3, <2>4, <2>5 DEF Inv
<1>3. CASE /\ state # "Corrupted" /\ state' = "TestScoped" /\ slots' = NoSlots
           /\ registers' = EmergencyOrder(registers)
           /\ UNCHANGED previous /\ previous = "none" /\ mapped' = FALSE
  <2>1. AdapterTypeOK'
    <3>1. registers' \in RegisterFiles
      BY <1>3, EmergencyValue DEF Inv
    <3>2. slots' \in [Slots -> Translations \cup {None}] /\ \A t \in Slots : slots'[t] = None
      BY <1>3 DEF NoSlots
    <3>3. guards' \in Seq(GuardSet)
      OBVIOUS
    <3> QED
      BY <1>3, <3>1, <3>2, <3>3 DEF Inv, AdapterTypeOK
  <2>2. StateMatchesSlots'
    BY <1>3 DEF StateMatchesSlots, NoSlots
  <2>3. StackInv'
    BY <1>1, <1>3 DEF StackInv, NoSlots
  <2>4. PhaseInv'
    BY <1>3 DEF Inv, PhaseInv, NoSlots
  <2>5. Heavy'
    BY <1>3, EmergencyHeavy DEF Inv
  <2> QED
    BY <2>1, <2>2, <2>3, <2>4, <2>5 DEF Inv
<1>4. \A i \in Depth : guards[i].guard # "secondary"
  BY <1>1
<1> QED
  BY <1>2, <1>3, <1>4, EmergencySteps DEF Inv

LEMMA ForgetStep ==
  ASSUME Inv, ForgetAndRestore
  PROVE  Inv'
<1>1. /\ Len(guards) = 1 /\ guards[1].guard = "live" /\ guards # <<>>
      /\ guards' = <<>> /\ phase = "body" /\ phase' = "body" /\ EmergencyRestore
      /\ UNCHANGED <<el, firmware, generation, scopedPage, delegated, cleanup, lost>>
  BY DEF ForgetAndRestore, Top, Testing, platform, runner
<1> QED
  BY <1>1, EmergencyStep

LEMMA RestoreStep ==
  ASSUME Inv, RestoreAfterTest
  PROVE  Inv'
<1>1. /\ guards = <<>> /\ guards' = <<>> /\ phase = "body" /\ phase' = "reset"
      /\ EmergencyRestore
      /\ UNCHANGED <<el, firmware, generation, scopedPage, delegated, cleanup, lost>>
  BY DEF RestoreAfterTest, Testing, platform
<1> QED
  BY <1>1, EmergencyStep

LEMMA BeginTestStep ==
  ASSUME Inv, BeginTest
  PROVE  Inv'
<1>1. /\ UNCHANGED <<el, firmware, slots, generation, registers, previous, mapped, scopedPage,
                     delegated, guards, cleanup, lost>>
      /\ state = "Ready" /\ state' = "TestScoped" /\ phase = "between" /\ phase' = "body"
  BY DEF BeginTest, platform
<1>2. guards = <<>> /\ slots = NoSlots /\ previous # "TranslationInstalled"
  BY <1>1 DEF Inv, StackInv, StateMatchesSlots
<1>3. AdapterTypeOK'
  BY <1>1 DEF Inv, AdapterTypeOK
<1>4. StateMatchesSlots'
  BY <1>1 DEF Inv, StateMatchesSlots, NoSlots
<1>5. StackInv'
  BY <1>1, <1>2 DEF Inv, StackInv, Depth, NoSlots
<1>6. PhaseInv'
  BY <1>1 DEF Inv, PhaseInv
<1>7. Heavy'
  BY <1>1, Frame DEF Inv
<1> QED
  BY <1>3, <1>4, <1>5, <1>6, <1>7 DEF Inv

LEMMA ResetStep ==
  ASSUME Inv, ResetMemory
  PROVE  Inv'
<1>1. /\ UNCHANGED <<el, firmware, slots, generation, registers, previous, mapped, scopedPage,
                     delegated, guards, cleanup, lost>>
      /\ phase = "reset"
      /\ \/ cleanup /\ phase' = "ended" /\ state' = "Corrupted"
         \/ ~cleanup /\ phase' = "scope" /\ state' = state
  BY DEF ResetMemory, platform
<1>2. guards = <<>> /\ state \in {"Corrupted", "TestScoped"}
  BY <1>1 DEF Inv, StackInv, PhaseInv
<1>3. AdapterTypeOK'
  BY <1>1 DEF Inv, AdapterTypeOK
<1>4. StateMatchesSlots'
  BY <1>1, <1>2 DEF Inv, StateMatchesSlots, NoSlots
<1>5. StackInv'
  BY <1>1, <1>2 DEF Inv, StackInv, Depth, NoSlots
<1>6. PhaseInv'
  BY <1>1 DEF Inv, PhaseInv, NoSlots
<1>7. Heavy'
  BY <1>1, Frame DEF Inv
<1> QED
  BY <1>3, <1>4, <1>5, <1>6, <1>7 DEF Inv

LEMMA EndScopeStep ==
  ASSUME Inv, EndScope
  PROVE  Inv'
<1>1. /\ UNCHANGED <<el, firmware, slots, generation, registers, previous, mapped, guards,
                     cleanup, lost>>
      /\ phase = "scope"
      /\ scopedPage' = (scopedPage /\ state # "TestScoped")
      /\ \/ /\ state = "TestScoped" /\ slots = NoSlots
            /\ delegated' = (delegated /\ ~scopedPage)
            /\ state' = "Ready" /\ phase' = "between"
         \/ /\ state' = "Corrupted" /\ phase' = "ended" /\ delegated' = delegated
  BY DEF EndScope, platform
<1>2. guards = <<>> /\ state \in {"Corrupted", "TestScoped"}
  BY <1>1 DEF Inv, StackInv, PhaseInv
<1>3. AdapterTypeOK'
  BY <1>1 DEF Inv, AdapterTypeOK
<1>4. StateMatchesSlots'
  BY <1>1, <1>2 DEF Inv, StateMatchesSlots, NoSlots
<1>5. StackInv'
  BY <1>1, <1>2 DEF Inv, StackInv, Depth, NoSlots
<1>6. PhaseInv'
  BY <1>1 DEF Inv, PhaseInv, NoSlots
<1>7. Heavy'
  BY <1>1, <1>2, Frame DEF Inv
<1> QED
  BY <1>3, <1>4, <1>5, <1>6, <1>7 DEF Inv

LEMMA StutterStep ==
  ASSUME Inv, UNCHANGED vars
  PROVE  Inv'
<1>1. UNCHANGED <<el, firmware, state, slots, generation, registers, previous, mapped,
                  scopedPage, delegated, guards, cleanup, phase, lost>>
  BY DEF vars, platform, adapter, runner
<1>2. AdapterTypeOK'
  BY <1>1 DEF Inv, AdapterTypeOK
<1>3. StateMatchesSlots'
  BY <1>1 DEF Inv, StateMatchesSlots
<1>4. StackInv'
  BY <1>1 DEF Inv, StackInv, Depth
<1>5. PhaseInv'
  BY <1>1 DEF Inv, PhaseInv
<1>6. Heavy'
  BY <1>1, Frame DEF Inv
<1> QED
  BY <1>2, <1>3, <1>4, <1>5, <1>6 DEF Inv

-----------------------------------------------------------------------------
(* The theorems.                                                           *)

LEMMA NextInv == Inv /\ [Next]_vars => Inv'
<1> SUFFICES ASSUME Inv, [Next]_vars
             PROVE  Inv'
  OBVIOUS
<1>1. CASE InstallCurrent \/ InstallStage2 \/ InstallLower \/ LowerLost \/ SwitchRoot
  BY <1>1, InstallCurrentStep, InstallStage2Step, InstallLowerStep, LowerLostStep, SwitchStep
<1>2. CASE ReleaseLive \/ ReleaseFails \/ EnableUpdates \/ ReleaseUpdates
  BY <1>2, ReleaseStep, EnableUpdatesStep, ReleaseUpdatesStep
<1>3. CASE BeginSecondary \/ EndSecondary \/ BeginRealm \/ MutateRealm \/ EndRealm
  BY <1>3, BeginSecondaryStep, EndSecondaryStep, BeginRealmStep, MutateRealmStep, EndRealmStep
<1>4. CASE AcquirePage \/ AcquireBadPage \/ ForgetAndRestore
  BY <1>4, AcquireStep, ForgetStep
<1>5. CASE BeginTest \/ RestoreAfterTest \/ PanicAfterTest \/ ResetMemory \/ EndScope
  BY <1>5, BeginTestStep, RestoreStep, PanicStep, ResetStep, EndScopeStep
<1>6. CASE UNCHANGED vars
  BY <1>6, StutterStep
<1> QED
  BY <1>1, <1>2, <1>3, <1>4, <1>5, <1>6 DEF Next

\* The inductive invariant holds in every state: types, the adapter's state
\* against its slots, the stack of guards, the phases of a suite, and what
\* every register holds and every snapshot saved.
THEOREM InvCorrect == Spec => []Inv
<1> QED
  BY InitInv, NextInv, PTL DEF Spec

\* The adapter's state alone says what it has installed or lent out.
THEOREM StateMatchesSlotsCorrect == Spec => []StateMatchesSlots
<1>1. Inv => StateMatchesSlots
  BY DEF Inv
<1> QED
  BY <1>1, InvCorrect, PTL

\* Every test begins with every register as firmware left it, however many
\* translations, root switches and descriptor-update guards came before.
THEOREM TestsStartCleanCorrect == Spec => []TestsStartClean
<1>1. Inv => TestsStartClean
  <2> SUFFICES ASSUME Inv, state = "Ready", lost = FALSE
               PROVE  registers = firmware /\ ~delegated /\ ~scopedPage /\ ~mapped
    BY DEF TestsStartClean, Inv, AdapterTypeOK
  <2>1. phase = "between" /\ cleanup = FALSE /\ scopedPage = FALSE
    BY DEF Inv, PhaseInv, AdapterTypeOK
  <2>2. guards = <<>>
    BY <2>1 DEF Inv, StackInv
  <2>3. Depth = {} /\ Watched = Registers
    BY <2>1, <2>2 DEF Depth, Watched
  <2>4. \A r \in Registers : registers[r] = firmware[r]
    BY <2>3 DEF Inv, Heavy, ValueInv
  <2>5. registers = firmware
    BY <2>4 DEF Inv, AdapterTypeOK, RegisterFiles
  <2>6. delegated = FALSE
    BY <2>1 DEF Inv, PhaseInv, AdapterTypeOK
  <2>7. mapped = FALSE
    BY Zenon DEF Inv, StateMatchesSlots, AdapterTypeOK
  <2> QED
    BY <2>1, <2>5, <2>6, <2>7
<1> QED
  BY <1>1, InvCorrect, PTL

\* A translation is in force from its installation to its release: its root
\* register holds its token, and stage 2 stays enabled, whatever inner guards
\* write back.
THEOREM TranslationStaysCorrect == Spec => []TranslationStays
<1>1. Inv => TranslationStays
  <2> SUFFICES ASSUME Inv, NEW slot \in Slots, slots[slot] # None
               PROVE  /\ registers[RootRegister(slots[slot].kind)].owner = slots[slot].token
                      /\ slot = "stage2" => "VM" \in registers["HCR"].bits
    BY DEF TranslationStays
  <2>1. RootRegister(slots[slot].kind) \in RootsOf(slot)
    BY SlotFacts, KindFacts DEF Inv
  <2>2. registers[RootRegister(slots[slot].kind)].owner = slots[slot].token
    BY <2>1 DEF Inv, Heavy, RootInv
  <2>3. slot = "stage2" => "VM" \in registers["HCR"].bits
    BY DEF Inv, Heavy, VmInv
  <2> QED
    BY <2>2, <2>3
<1> QED
  BY <1>1, InvCorrect, PTL

\* The arena is zeroed only when no root register points into it.
THEOREM TablesOutliveTranslationsCorrect == Spec => TablesOutliveTranslations
<1>1. Inv /\ [Next]_vars =>
         [phase = "reset" /\ phase' # "reset" /\ ~lost
            => \A root \in Roots : registers[root].owner = 0]_vars
  <2> SUFFICES ASSUME Inv, phase = "reset", lost = FALSE, NEW root \in Roots
               PROVE  registers[root].owner = 0
    BY DEF Inv, AdapterTypeOK
  <2>1. slots = NoSlots
    BY DEF Inv, PhaseInv
  <2>2. PICK s \in Slots : root \in RootsOf(s)
    BY DEF Roots, Slots, RootsOf
  <2>3. slots[s] = None
    BY <2>1 DEF NoSlots
  <2> QED
    BY <2>2, <2>3 DEF Inv, Heavy, RootInv
<1> QED
  BY <1>1, InvCorrect, PTL DEF Spec, TablesOutliveTranslations
=============================================================================
