--------------------------------- MODULE Pe ---------------------------------
(***************************************************************************)
(* The processing element a test body runs on, as the test bodies use it:  *)
(* translation tables, the translations its TLBs may hold, the TLBI        *)
(* sequences of architecture/src/barriers.rs, and accesses from EL2        *)
(* ("self") and from EL1 and EL0 under both stages.                        *)
(*                                                                         *)
(* A machine is a record: tables, the translation tables by the name of    *)
(* their root, regs, what the translation registers point to, memory, and  *)
(* tlb.  Addresses are numbers of 4 KiB pages.  A conforming PE may fetch  *)
(* any translation it could walk at any time and may forget any, so tlb is *)
(* the set of the translations it may hold and every access chooses        *)
(* between them and a walk.  A defective PE fetches only what it is made   *)
(* to translate, and prefers what it holds to what the tables say.         *)
(***************************************************************************)
EXTENDS Integers, TLC

\* What can be wrong with a PE: it ignores TLBI by address, or every TLBI, or
\* the ASID or the VMID of what it holds; it does not check permissions, the
\* access flag or the form of a descriptor; it ignores cache maintenance; it lets an access pass that needs a
\* hardware update but does not write the descriptor.
Defects == {"address", "invalidate", "asid", "vmid", "permission", "accessflag",
            "form", "update", "icache"}

\* The attributes of a leaf: what it permits ("w"rite, e"x"ecute or only
\* "px"/"ux", privileged or not, "u"ser) or does not ("noread"), and "idle" while its access flag is clear, "clean" while the hardware has its
\* dirty state to manage, "malformed" or "wide" when its descriptor was damaged.
Full == {"w", "x", "u"}
Unusable == {"idle", "malformed", "wide"}     \* never held by a TLB

\* No sums: TLC's integers are 32 bits wide.
Leaf(in, out, size, attr) == [in |-> in, out |-> out, size |-> size, attr |-> attr]
Holds(leaf, page) == leaf.in <= page /\ page - leaf.in < leaf.size
Overlaps(a, b) == a.in - b.in < b.size /\ b.in - a.in < a.size

-----------------------------------------------------------------------------
(* What can be walked.                                                     *)

Off == [root |-> "none", id |-> 0]
On(m, stage) == m.regs[stage].root # "none"
Leaves(m, stage) == IF On(m, stage) THEN m.tables[m.regs[stage].root].leaves ELSE {}
Vmid(m) == m.regs["stage2"].id
Asid(m) == m.regs["lower"].id

\* The stage-2 translations the PE may use: those of the tables and those held.
HeldStage2(m) ==
    {e.leaf : e \in {f \in m.tlb : f.stage = "stage2" /\ f.vmid = Vmid(m)}}
AnyStage2(m) ==
    LET held == HeldStage2(m)
    IN  held \cup IF m.defect = "nothing" THEN Leaves(m, "stage2")
                  ELSE {l \in Leaves(m, "stage2") : \A h \in held : ~Overlaps(l, h)}

\* The part of a stage-1 leaf whose output lies in a stage-2 leaf.  A TLB that
\* holds it holds a copy of the leaf's descriptor, which maps the whole block.
Block(one) == [in |-> one.in, size |-> one.size]
Reached(one, two) == one.out - two.in < two.size /\ two.in - one.out < one.size

Piece(one, two) ==
    LET low == IF one.out > two.in THEN one.out ELSE two.in
        rest1 == one.size - (low - one.out)
        rest2 == two.size - (low - two.in)
    IN  [in |-> one.in + (low - one.out),
         size |-> IF rest1 < rest2 THEN rest1 ELSE rest2,
         out |-> two.out + (low - two.in), attr |-> one.attr, attr2 |-> two.attr,
         block |-> Block(one)]

Alone(one) == [in |-> one.in, size |-> one.size, out |-> one.out,
               attr |-> one.attr, attr2 |-> Full, block |-> Block(one)]

\* A stage-1 table is itself read through stage 2.
TableReachable(m) ==
    \/ ~On(m, "stage2")
    \/ \E two \in AnyStage2(m) : Holds(two, m.tables[m.regs["lower"].root].frame)

Combined(m) ==
    IF ~On(m, "lower") \/ ~TableReachable(m) THEN {}
    ELSE IF ~On(m, "stage2") THEN {Alone(one) : one \in Leaves(m, "lower")}
    ELSE {Piece(p[1], p[2]) :
             p \in {q \in Leaves(m, "lower") \X AnyStage2(m) : Reached(q[1], q[2])}}

Entry(stage, asid, vmid, leaf) ==
    [stage |-> stage, asid |-> asid, vmid |-> vmid, leaf |-> leaf]

Fetched(m) ==
    {Entry("current", m.regs["current"].id, 0, Alone(one)) :
        one \in {l \in Leaves(m, "current") : l.attr \cap Unusable = {}}}
    \cup {Entry("lower", Asid(m), Vmid(m), p) :
        p \in {q \in Combined(m) : (q.attr \cup q.attr2) \cap Unusable = {}}}
    \cup {Entry("stage2", 0, Vmid(m), two) :
        two \in {l \in Leaves(m, "stage2") : l.attr \cap Unusable = {}}}

\* A conforming PE fetches ahead; a defective one does not.
WithTlb(m, entries) == [m EXCEPT !.tlb = entries]
Prefetch(m) ==
    IF m.defect = "nothing" THEN WithTlb(m, m.tlb \cup Fetched(m)) ELSE m

-----------------------------------------------------------------------------
(* TLBI (barriers.rs).  By address of stage 1, it removes every copy of the *)
(* descriptor that maps the address, however stage 2 split the block.      *)

Without(m, byAddress, gone) ==
    IF m.defect = "invalidate" \/ (m.defect = "address" /\ byAddress)
    THEN m
    ELSE Prefetch(WithTlb(m, m.tlb \ gone))

\* alle2is, alle3is.
InvalidateCurrentAll(m) ==
    Without(m, FALSE, {e \in m.tlb : e.stage = "current"})

\* vae2is, vae3is.
InvalidateCurrentAddress(m, page, asid) ==
    Without(m, TRUE, {e \in m.tlb :
        e.stage = "current" /\ e.asid = asid /\ Holds(e.leaf.block, page)})

\* vmalle1is: every ASID, for the VMID in force.
InvalidateLowerAll(m) ==
    Without(m, FALSE, {e \in m.tlb : e.stage = "lower" /\ e.vmid = Vmid(m)})

\* vae1is.
InvalidateLowerAddress(m, page, asid) ==
    Without(m, TRUE, {e \in m.tlb :
        /\ e.stage = "lower" /\ e.asid = asid /\ e.vmid = Vmid(m)
        /\ Holds(e.leaf.block, page)})

\* aside1is.
InvalidateAsid(m, asid) ==
    Without(m, FALSE, {e \in m.tlb :
        e.stage = "lower" /\ e.asid = asid /\ e.vmid = Vmid(m)})

\* vmalls12e1is.
InvalidateStage2All(m) ==
    Without(m, FALSE, {e \in m.tlb :
        e.stage \in {"lower", "stage2"} /\ e.vmid = Vmid(m)})

\* ipas2e1is: translations already combined with stage 1 survive it.
InvalidateIpa(m, page) ==
    Without(m, TRUE, {e \in m.tlb :
        e.stage = "stage2" /\ e.vmid = Vmid(m) /\ Holds(e.leaf, page)})

InvalidateStage2Address_Bug(m, page) == InvalidateIpa(InvalidateLowerAll(m), page)

\* ipas2e1is, then vmalle1is for what was combined with it.
InvalidateStage2Address(m, page) == InvalidateLowerAll(InvalidateIpa(m, page))

-----------------------------------------------------------------------------
(* Accesses.                                                               *)

SameSpace(m, e) ==
    /\ e.stage = "current" => e.asid = m.regs["current"].id \/ m.defect = "asid"
    /\ e.stage = "lower" => e.asid = Asid(m) \/ m.defect = "asid"
    /\ e.stage # "current" => e.vmid = Vmid(m) \/ m.defect = "vmid"

Translated(leaf, page) ==
    [status |-> "ok", page |-> leaf.out + (page - leaf.in),
     attr |-> leaf.attr, attr2 |-> leaf.attr2]

Fault(status, stage) == [status |-> status, stage |-> stage]

\* Where a body has installed nothing, the payload's own tables map its memory.
Runtime == 0..\h8ffff
Untranslated(page) ==
    IF page \in Runtime
    THEN [status |-> "ok", page |-> page, attr |-> Full, attr2 |-> Full]
    ELSE Fault("Translation", 1)

Held(m, stage, page) ==
    {Translated(e.leaf, page) :
        e \in {f \in m.tlb : f.stage = stage /\ SameSpace(m, f) /\ Holds(f.leaf, page)}}

InStage2(m, page) ==
    {[status |-> "ok", page |-> two.out + (page - two.in), attr |-> Full,
      attr2 |-> two.attr] : two \in {t \in AnyStage2(m) : Holds(t, page)}}

\* What a walk of the tables can give.
Walked(m, stage, page) ==
    CASE ~On(m, stage) /\ (stage = "current" \/ ~On(m, "stage2")) -> {Untranslated(page)}
      [] stage = "lower" /\ ~On(m, "lower") /\ On(m, "stage2") ->
             IF InStage2(m, page) = {} THEN {Fault("Translation", 2)} ELSE InStage2(m, page)
      [] stage = "lower" /\ On(m, "lower") /\ ~TableReachable(m) -> {Fault("Translation", 2)}
      [] OTHER ->
             LET pieces == IF stage = "current"
                           THEN {Alone(one) : one \in Leaves(m, stage)} ELSE Combined(m)
             IN  IF ~\E one \in Leaves(m, stage) : Holds(one, page)
                 THEN {Fault("Translation", 1)}
                 ELSE IF ~\E p \in pieces : Holds(p, page) THEN {Fault("Translation", 2)}
                 ELSE {Translated(p, page) : p \in {q \in pieces : Holds(q, page)}}

\* The translations an access may use.  A walk may find what the TLBs hold of
\* stage 2, or find them empty.
MayUse(m, stage, page) ==
    LET held == Held(m, stage, page)
        walked == Walked(m, stage, page)
    IN  IF m.defect = "nothing"
        THEN held \cup walked \cup Walked(WithTlb(m, {}), stage, page)
        ELSE IF held = {} THEN walked
        ELSE IF held \subseteq walked THEN held ELSE held \ walked

\* Which translation an access goes through: that of the exception level of the
\* test ("self"), also used by a second PE and by EL0 of a host, or EL1 and EL0's.
Through(by) == IF by \in {"self", "secondary", "el0host"} THEN "current" ELSE "lower"

\* Whether attributes grant an access.  EL2 runs with SCTLR_EL2.WXN: what is
\* writable is never executed.
Grants(attr, by, kind) ==
    CASE kind = "read" -> "noread" \notin attr
      [] kind = "write" -> "w" \in attr
      [] kind = "execute" ->
             /\ {"x", IF by = "el0" THEN "ux" ELSE "px"} \cap attr # {}
             /\ Through(by) = "current" => "w" \notin attr

\* What the attributes of one stage do to an access, if not "ok".
Checked(m, attr, by, kind, updates) ==
    LET gained == IF updates = "dirty" /\ "clean" \in attr THEN {"w"} ELSE {}
    IN  IF m.defect # "form" /\ "malformed" \in attr THEN "Translation"
        ELSE IF m.defect # "form" /\ "wide" \in attr THEN "AddressSize"
        ELSE IF m.defect # "accessflag" /\ "idle" \in attr /\ updates = "none"
             THEN "AccessFlag"
        ELSE IF m.defect # "permission"
                /\ (~Grants(attr \cup gained, by, kind)
                    \/ (by \in {"el0", "el0host"} /\ "u" \notin attr))
             THEN "Permission"
        ELSE "ok"

\* What becomes of an access with a translation.
Permitted(m, x, by, kind) ==
    LET one == Checked(m, x.attr, by, kind, m.updates[Through(by)])
        two == IF x.attr2 = Full THEN "ok"
               ELSE Checked(m, x.attr2 \cup {"u"}, by, kind, m.updates["stage2"])
    IN  IF x.status # "ok" THEN x
        ELSE IF one # "ok" THEN Fault(one, 1)
        ELSE IF two # "ok" THEN Fault(two, 2)
        ELSE x

\* A hardware update of the descriptors an access went through: the access flag,
\* and the dirty state for a write.
Marked(m, stage, page, kind) ==
    LET One(leaf) ==
            IF ~Holds(leaf, page) \/ m.updates[stage] = "none" THEN leaf
            ELSE [leaf EXCEPT !.attr =
                     (@ \ {"idle"}) \cup
                     (IF kind = "write" /\ m.updates[stage] = "dirty" /\ "clean" \in @
                      THEN {"w"} ELSE {})]
    IN  {One(leaf) : leaf \in Leaves(m, stage)}
NeedsUpdate(m, stage, page, kind) ==
    m.defect # "update" /\ Marked(m, stage, page, kind) # Leaves(m, stage)
WithoutPage(m, stage, page) ==
    WithTlb(m, {e \in m.tlb : ~(e.stage = stage /\ Holds(e.leaf, page))})
UpdatedBy(m, stage, page, kind) ==
    IF ~NeedsUpdate(m, stage, page, kind) THEN m
    ELSE WithoutPage([m EXCEPT !.tables[m.regs[stage].root].leaves = Marked(m, stage, page, kind)],
                     stage, page)

\* The intermediate address an EL1 access goes to.
ThroughStage1(m, page) ==
    IF ~On(m, "lower") THEN {page}
    ELSE {one.out + (page - one.in) : one \in {l \in Leaves(m, "lower") : Holds(l, page)}}

Marks(m, stage, page, kind) ==
    IF stage = "current" THEN UpdatedBy(m, stage, page, kind)
    ELSE LET n == UpdatedBy(m, "lower", page, kind)
             ipa == CHOOSE p \in ThroughStage1(n, page) : TRUE
         IN  IF ThroughStage1(n, page) = {} \/ ~NeedsUpdate(n, "stage2", ipa, kind) THEN n
             ELSE WithoutPage(UpdatedBy(n, "stage2", ipa, kind), "lower", page)

\* A defective PE keeps what it has just translated.
Keep(m, stage, page) ==
    IF m.defect = "nothing" THEN m
    ELSE [m EXCEPT !.tlb = @ \cup {e \in Fetched(m) :
              e.stage \in {stage, IF stage = "lower" THEN "stage2" ELSE stage}
              /\ (e.stage = stage => Holds(e.leaf, page))}]

Contents(m, page) == IF page \in DOMAIN m.memory THEN m.memory[page] ELSE 0

\* The instruction caches may still hold what a page held before.
Stored(m, page, value) ==
    LET written == [m EXCEPT !.memory = (page :> value) @@ @]
    IN  [written EXCEPT !.coherent = @ \ {page}]

\* dc cvau, ic ivau.
MadeCoherent(m, page) ==
    IF m.defect = "icache" THEN m ELSE [m EXCEPT !.coherent = @ \cup {page}]

\* Whether an instruction fetch may see what is in memory, or something older.
FetchedFresh(m, page) ==
    IF page \in m.coherent THEN {TRUE}
    ELSE IF m.defect = "icache" THEN {FALSE} ELSE BOOLEAN
=============================================================================
