--------------------------- MODULE LiveTranslation ---------------------------
(***************************************************************************)
(* What a test body can do to a translation it has installed               *)
(* (target/harness/src/context.rs, LiveTranslation and                     *)
(* CombinedTranslation), each operation a function from machines to        *)
(* machines: the live mapper writes a descriptor and has the TLB           *)
(* maintained for it (translation.rs, ArchitecturalInvalidation), a live   *)
(* mapping is replaced by break-before-make, roots are switched without    *)
(* maintenance, and a translation is given back.                           *)
(*                                                                         *)
(* A body is a sequence of steps; a step is one call and what the body     *)
(* expects of it, and the body fails at the first that answers otherwise.  *)
(***************************************************************************)
EXTENDS Pe, SequencesExt

\* What a leaf of a level covers, in pages, with 8-byte and with 16-byte
\* descriptors (TableGeometry::offset_at_level_raw).
GranuleSpan(granule, level) ==
    CASE granule = "4k" -> 2^(9 * (3 - level))
      [] granule = "16k" -> 2^(2 + 11 * (3 - level))
      [] granule = "64k" -> 2^(4 + 13 * (3 - level))
D128Span(granule, level) ==
    CASE granule = "4k" -> 2^(8 * (3 - level))
      [] granule = "16k" -> 2^(2 + 10 * (3 - level))
      [] granule = "64k" -> 2^(4 + 12 * (3 - level))
Span(level) == GranuleSpan("4k", level)

RW == {"w"}
RO == {}
RWX == {"w", "x"}
UserRW == {"w", "u"}
UserRO == {"u"}

-----------------------------------------------------------------------------
(* The live mapper.                                                        *)

Identifier(m, stage) == m.regs[stage].id

\* ArchitecturalInvalidation::invalidate_all.
InvalidateAll(m, stage) ==
    CASE stage = "current" -> InvalidateCurrentAll(m)
      [] stage = "lower" -> InvalidateLowerAll(m)
      [] stage = "stage2" -> InvalidateStage2All(m)

\* ArchitecturalInvalidation::invalidate_address.
InvalidateAddress(m, stage, page) ==
    CASE stage = "current" -> InvalidateCurrentAddress(m, page, Identifier(m, stage))
      [] stage = "lower" -> InvalidateLowerAddress(m, page, Identifier(m, stage))
      [] stage = "stage2" -> InvalidateStage2Address(m, page)

WithLeaves(m, root, leaves) == [m EXCEPT !.tables[root].leaves = leaves]
RootOf(m, stage) == m.regs[stage].root

\* external: Mapper::map_leaf refuses an input that is mapped, and addresses
\* that are not aligned to the leaf.
Mappable(m, root, leaf) ==
    /\ leaf.in % leaf.size = 0 /\ leaf.out % leaf.size = 0
    /\ \A other \in m.tables[root].leaves : ~Overlaps(other, leaf)
MappedAt(m, root, page) == {leaf \in m.tables[root].leaves : leaf.in = page}

\* leaf_inserted.
Inserted(m, stage, leaf) ==
    LET root == RootOf(m, stage)
    IN  InvalidateAddress(
            Prefetch(WithLeaves(m, root, m.tables[root].leaves \cup {leaf})),
            stage, leaf.in)

\* leaf_removed: the descriptor is invalid before its translations are.
Removed(m, stage, page) ==
    LET root == RootOf(m, stage)
    IN  InvalidateAddress(
            WithLeaves(m, root, m.tables[root].leaves \ MappedAt(m, root, page)),
            stage, page)

\* unmap_reclaim also frees tables that became empty, after invalidating all
\* (before_table_frame_reclaim).
Reclaimed(m, stage, page) == InvalidateAll(Removed(m, stage, page), stage)

\* replace_live_mapping: break before make, with the old output by default.
Replaced(m, stage, page, out, attr) ==
    LET old == CHOOSE leaf \in MappedAt(m, RootOf(m, stage), page) : TRUE
    IN  Inserted(Removed(m, stage, page), stage,
                 Leaf(page, IF out = -1 THEN old.out ELSE out, old.size, attr))

-----------------------------------------------------------------------------
(* Installation, switching and restoration (registers.rs).                 *)

\* install_stage1 and its kin, install_el1_stage1, install_stage2: the new
\* registers are in force when the TLB is invalidated.
WithRoot(m, stage, root, id) == [m EXCEPT !.regs[stage] = [root |-> root, id |-> id]]
InstalledOn(m, stage, root, id) ==
    InvalidateAll(Prefetch(WithRoot(m, stage, root, id)), stage)

\* restore_stage1 and its kin: invalidated under the identifiers written back.
RestoredOff(m, stage) == InvalidateAll(WithRoot(m, stage, Off.root, Off.id), stage)

\* switch_el1_ttbr0, switch_stage2_vttbr: no maintenance.
Switched(m, stage, root, id) ==
    Prefetch(WithRoot(m, stage, root, id))

-----------------------------------------------------------------------------
(* explicit_tlbi.                                                          *)

Tlbi(kind, page, pages, id) == [kind |-> kind, page |-> page, pages |-> pages, id |-> id]
All == Tlbi("all", 0, 0, 0)
Va(page) == Tlbi("va", page, 1, 0)
Ipa(page) == Tlbi("ipa", page, 1, 0)
VaRange(page, pages) == Tlbi("va", page, pages, 0)
IpaRange(page, pages) == Tlbi("ipa", page, pages, 0)
Unaligned == Tlbi("unaligned", 0, 1, 0)
OfAsid(id) == Tlbi("asid", 0, 0, id)
OfVmid(id) == Tlbi("vmid", 0, 0, id)

\* Addresses must be of the translation's own kind, and identifiers its own.
TlbiAccepted(m, stage, t) ==
    CASE t.kind = "all" -> TRUE
      [] t.kind = "va" -> stage # "stage2" /\ t.pages > 0
      [] t.kind = "ipa" -> stage = "stage2" /\ t.pages > 0
      [] t.kind = "unaligned" -> FALSE
      [] t.kind = "asid" -> stage = "lower" /\ t.id = Identifier(m, stage)
      [] t.kind = "vmid" -> stage = "stage2" /\ t.id = Identifier(m, stage)

AfterTlbi(m, stage, t) ==
    CASE t.kind \in {"all", "vmid"} -> InvalidateAll(m, stage)
      [] t.kind = "asid" -> InvalidateAsid(m, t.id)
      [] t.kind \in {"va", "ipa"} -> InvalidateAddress(m, stage, t.page)

-----------------------------------------------------------------------------
(* The steps of a body.                                                    *)

\* Memory of the test's arena, in the order it is allocated in.
Arena(n) == \h88000 + n

AllocateRoot(root, frame) == [do |-> "root", root |-> root, frame |-> frame]
OfflineLeaf(root, in, out, size, attr) ==
    [do |-> "offline", root |-> root, leaf |-> Leaf(in, out, size, attr)]
OfflineMap(root, in, out, level, attr) ==
    OfflineLeaf(root, in, out, Span(level), attr)
OfflineUnmap(root, in) == [do |-> "remove", root |-> root, in |-> in]
\* replace_terminal_descriptor, with a descriptor that is damaged.
Damage(root, in, how) == [do |-> "damage", root |-> root, in |-> in, how |-> how]
Poke(page, value) == [do |-> "poke", page |-> page, value |-> value]
Peek(page, value) == [do |-> "peek", page |-> page, value |-> value]

Install(stage, root, id) == [do |-> "install", stage |-> stage, root |-> root, id |-> id]
Restore(stage) == [do |-> "restore", stage |-> stage]
Adopt(stage, root, id) == [do |-> "adopt", stage |-> stage, root |-> root, id |-> id]
Switch(stage, root, id) == [do |-> "switch", stage |-> stage, root |-> root, id |-> id]

Map(stage, in, out, level, attr) ==
    [do |-> "map", stage |-> stage, leaf |-> Leaf(in, out, Span(level), attr)]
MapRange(stage, in, out, pages, attr) ==
    [n \in 1..pages |-> Map(stage, in + n - 1, out + n - 1, 3, attr)]
Unmap(stage, page) == [do |-> "unmap", stage |-> stage, page |-> page]
UnmapReclaim(stage, page) == [do |-> "reclaim", stage |-> stage, page |-> page]
Protect(stage, page, attr) ==
    [do |-> "replace", stage |-> stage, page |-> page, out |-> -1, attr |-> attr]
Remap(stage, page, out, attr) ==
    [do |-> "replace", stage |-> stage, page |-> page, out |-> out, attr |-> attr]
Invalidate(stage, t) == [do |-> "tlbi", stage |-> stage, tlbi |-> t, accepted |-> TRUE]
\* A range is invalidated one page after the other.
InvalidateRange(stage, t) ==
    [n \in 1..t.pages |-> Invalidate(stage, Tlbi(t.kind, t.page + n - 1, 1, 0))]
Refused(stage, t) == [do |-> "tlbi", stage |-> stage, tlbi |-> t, accepted |-> FALSE]

\* enable_*hardware_updates and the guard's drop.
Updates(stage, mode) == [do |-> "updates", stage |-> stage, mode |-> mode]

Anything == -1      \* a body that only expects the access to complete
Read(by, page, value) == [do |-> "read", by |-> by, page |-> page, value |-> value]
Write(by, page, value) == [do |-> "write", by |-> by, page |-> page, value |-> value]
\* An atomic or exclusive update: reads one value and writes another.
Update(by, page, old, new) ==
    [do |-> "update", by |-> by, page |-> page, value |-> old, new |-> new]
\* An instruction that returns what is written in its page.
Execute(by, page, value) == [do |-> "execute", by |-> by, page |-> page, value |-> value]
\* maintain_cache(InstructionCoherency).
MakeCoherent(by, page) == [do |-> "coherent", by |-> by, page |-> page]
\* secondary_pe_session and stop.
Secondary(on) == [do |-> "secondary", on |-> on]
Translates(by, page, out) == [do |-> "query", by |-> by, page |-> page, out |-> out]
\* A fault of a stage; 0 where the body accepts either.
Faults(by, page, kind, status, stage) ==
    [do |-> "fault", by |-> by, page |-> page, kind |-> kind, status |-> status,
     stage |-> stage]

\* Steps for every member of a sequence, in its order.
Each(seq, Steps(_)) == FlattenSeq([n \in 1..Len(seq) |-> Steps(seq[n])])

\* The bodies by their names: of a record, and one for each list of parameters.
Singles(bodies) == [n \in {<<name>> : name \in DOMAIN bodies} |-> bodies[n[1]]]
Family(name, parameters, Steps(_)) ==
    [n \in {<<name>> \o p : p \in parameters} |-> Steps(Tail(n))]
=============================================================================
