---------------------------- MODULE BodiesAccess ----------------------------
(***************************************************************************)
(* The bodies about accesses themselves (access.rs, the table-less ones of *)
(* faults.rs), the ends of the address ranges (address_boundaries.rs), a   *)
(* recursive table (table_live.rs), and what a write to code or to a table *)
(* must be made visible to (coherency.rs).  Alignment faults, in which no  *)
(* translation takes part, are left out.                                   *)
(***************************************************************************)
EXTENDS LiveTranslation

-----------------------------------------------------------------------------
(* access.rs                                                               *)

current_access == <<Write("self", Arena(0), 1), Read("self", Arena(0), 1)>>

\* Each width of access in turn, in two pages.
access_widths ==
    LET Wide(n) == <<Write("self", Arena(0), n), Read("self", Arena(0), n)>>
    IN  Each(<<1, 2, 3, 4>>, Wide)

pair_access ==
    LET Pair(by) == <<Write(by, Arena(0), 1), Read(by, Arena(0), 1)>>
    IN  Each(<<"self", "el1", "el0", "el0host">>, Pair)

\* Release and acquire, swap, exclusive add; then below.
ordered_atomic_access ==
    LET page == Arena(0)
        Ordered(by) == <<Write("self", page, 7), Write(by, page, 7), Read(by, page, 7),
                         Read("self", page, 7)>>
    IN  <<Write("self", page, 7), Read("self", page, 7), Update("self", page, 7, 11),
          Update("self", page, 11, 16), Read("self", page, 16),
          Faults("self", \h100000, "read", "Translation", 0)>>
        \o Each(<<"el1", "el0">>, Ordered)

lower_access == <<Write("el1", Arena(0), 1), Read("el1", Arena(0), 1)>>
el0_access == <<Write("el0", Arena(0), 1), Read("el0", Arena(0), 1)>>
el2_el0_access == <<Write("el0host", Arena(0), 1), Read("el0host", Arena(0), 1)>>

el2_el0_host_atomic_access ==
    LET address == \h6a000
        page == Arena(1)
    IN  el2_el0_access
        \o <<AllocateRoot("root", Arena(2)), Install("current", "root", 0),
             Map("current", address, page, 3, UserRW), Poke(page, 7),
             Update("el0host", address, 7, 11), Update("el0host", address, 11, 16),
             Restore("current")>>

-----------------------------------------------------------------------------
(* faults.rs, without a translation of the test's own                      *)

current_fault_expected == <<Faults("self", \h100000, "read", "Translation", 1)>>
lower_fault_expected == <<Faults("el1", \h100000, "read", "Translation", 1)>>

-----------------------------------------------------------------------------
(* address_boundaries.rs                                                   *)

\* The last page of a range that ends at 2^31 pages, where the ranges of the
\* bodies, of 36 to 52 bits, are taken to end.
LastPage(size) == (2^30 - size) + 2^30

stage1_boundary(granule) ==
    LET size == GranuleSpan(granule, 3)
        first == Arena(0)
        last == Arena(size)
        Live(in, out) ==
            [do |-> "map", stage |-> "lower", leaf |-> Leaf(in, out, size, UserRW)]
    IN  <<Poke(first, 1), Poke(last, 2), AllocateRoot("root", Arena(2 * size)),
          Install("lower", "root", 0),
          Live(0, first), Translates("el1", 0, first),
          Live(LastPage(size), last), Translates("el1", LastPage(size), last),
          Live(size, LastPage(size)), Translates("el1", size, LastPage(size)),
          Read("el1", 0, 1), Read("el1", LastPage(size), 2), Restore("lower")>>

d128_stage1_boundary(granule) ==
    LET size == D128Span(granule, 3)
        first == Arena(0)
        last == Arena(size)
    IN  <<Poke(first, 1), Poke(last, 2), AllocateRoot("root", Arena(2 * size)),
          OfflineLeaf("root", 0, first, size, RW),
          OfflineLeaf("root", LastPage(size), last, size, RW), Install("lower", "root", 0),
          Translates("el1", 0, first), Translates("el1", LastPage(size), last),
          Read("el1", 0, 1), Read("el1", LastPage(size), 2), Restore("lower")>>

\* Each granule with the start level its input width gives.
Vmsa64Boundaries == {<<"4k", "l0">>, <<"4k", "l1">>, <<"16k", "l0">>, <<"16k", "l1">>,
                     <<"16k", "l2">>, <<"64k", "l1">>, <<"64k", "l2">>}
Lpa2Boundaries == {<<"4k", "lneg1">>, <<"16k", "lpa2_l0">>, <<"64k", "lpa2_l1">>}
D128Boundaries == {<<"4k">>, <<"16k">>, <<"64k">>}

-----------------------------------------------------------------------------
(* table_live.rs                                                           *)

\* The tables are written through themselves, with descriptors of tables for
\* leaves: the hardware sets their access flags.
recursive_table_access ==
    LET address == \h67000
    IN  <<AllocateRoot("root", Arena(1)), Install("current", "root", 0),
          Updates("current", "flag"), Map("current", address, Arena(0), 3, RW),
          Updates("current", "none"), Write("self", address, 1), Read("self", address, 1)>>

-----------------------------------------------------------------------------
(* coherency.rs                                                            *)

generated_execution ==
    LET address == \h64000
        page == Arena(0)
    IN  <<Poke(page, 1), AllocateRoot("root", Arena(1)), Install("current", "root", 0),
          Map("current", address, page, 3, {"x"}), MakeCoherent("self", address),
          Execute("self", address, 1),
          Poke(page, 2), MakeCoherent("self", address), Execute("self", address, 2),
          Protect("current", address, RW),
          Faults("self", address, "execute", "Permission", 1),
          Protect("current", address, {"x"}), MakeCoherent("self", address),
          Execute("self", address, 2), Restore("current")>>

\* A second PE translates with the tables of the first: TLBIs are broadcast, so
\* that one tlb stands for both.
multi_pe_translation_visibility ==
    LET address == \h68000
        page == Arena(0)
        other == Arena(1)
        Session(value) ==
            <<Secondary(TRUE), Read("secondary", address, value), Secondary(FALSE)>>
    IN  <<Poke(page, 1), Poke(other, 2), AllocateRoot("root", Arena(2)),
          Install("current", "root", 0), Map("current", address, page, 3, RW),
          Read("self", address, 1)>>
        \o Session(1) \o Session(1)
        \o <<Remap("current", address, other, RW)>> \o Session(2)
        \o <<Write("self", address, 7), Secondary(TRUE),
             Translates("secondary", address, other),
             Write("secondary", address, 3), Read("secondary", address, 3),
             Write("secondary", address, 7), Read("secondary", address, 7),
             Update("secondary", address, 7, 11), Update("secondary", address, 11, 16),
             Write("secondary", address, 1), Read("secondary", address, 1),
             Secondary(FALSE), Unmap("current", address),
             Map("current", address, other, 3, {"w", "idle"}),
             Invalidate("current", Va(address)), Updates("current", "flag")>>
        \o Session(1) \o <<Updates("current", "none")>>

-----------------------------------------------------------------------------

AccessBodies ==
    Singles([current_access |-> current_access, access_widths |-> access_widths,
             pair_access |-> pair_access, ordered_atomic_access |-> ordered_atomic_access,
             lower_access |-> lower_access, el0_access |-> el0_access,
             el2_el0_access |-> el2_el0_access,
             el2_el0_host_atomic_access |-> el2_el0_host_atomic_access,
             current_fault_expected |-> current_fault_expected,
             lower_fault_expected |-> lower_fault_expected,
             recursive_table_access |-> recursive_table_access,
             generated_execution |-> generated_execution,
             multi_pe_translation_visibility |-> multi_pe_translation_visibility])
    @@ Family("stage1_boundary", Vmsa64Boundaries \cup Lpa2Boundaries,
              LAMBDA p : stage1_boundary(p[1]))
    @@ Family("d128_stage1_boundary", D128Boundaries,
              LAMBDA p : d128_stage1_boundary(p[1]))
=============================================================================
