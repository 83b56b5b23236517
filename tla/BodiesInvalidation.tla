------------------------- MODULE BodiesInvalidation -------------------------
(***************************************************************************)
(* The bodies about TLB maintenance and break-before-make:                 *)
(* invalidation.rs, combined_translation.rs and the live ones of           *)
(* mapper_live.rs (target/payloads/common).                                *)
(***************************************************************************)
EXTENDS LiveTranslation

stage1_translation_cycle ==
    LET live == \h60000  range == \h62000  block == \h70000  output == \h80000
        page == Arena(0)  two == Arena(1)
        Used(n) == <<Write("self", range + n, 3 + n), Read("self", range + n, 3 + n)>>
    IN  <<AllocateRoot("root", Arena(3)), Install("current", "root", 0),
          Map("current", live, page, 3, RW), Map("current", block, output, 2, RW),
          Translates("self", block + 1, output + 1), Unmap("current", block)>>
        \o MapRange("current", range, two, 2, RW)
        \o <<Invalidate("current", Va(live)), Invalidate("current", Va(live))>>
        \o InvalidateRange("current", VaRange(range, 2))
        \o <<Invalidate("current", All), Write("self", live, 1), Read("self", live, 1)>>
        \o Used(0) \o Used(1)
        \o <<UnmapReclaim("current", range), UnmapReclaim("current", range + 1),
             Faults("self", range, "read", "Translation", 1),
             Faults("self", range + 1, "read", "Translation", 1),
             Protect("current", live, RO),
             Faults("self", live, "write", "Permission", 0),
             Protect("current", live, RW),
             Write("self", live, 2), Read("self", live, 2),
             UnmapReclaim("current", live),
             Faults("self", live, "read", "Translation", 1), Restore("current")>>

lower_stage1_asid_isolation ==
    LET address == \h66000
        first == Arena(0)  second == Arena(1)
        Atomics(by) == <<Update(by, address, 7, 11), Update(by, address, 11, 16),
                         Poke(first, 7)>>
        With(root, page, asid, inside) ==
            <<Install("lower", root, asid), Map("lower", address, page, 3, UserRW)>>
            \o inside
            \o <<Invalidate("lower", OfAsid(asid)), Invalidate("lower", OfAsid(asid)),
                 Translates("el1", address, page), Restore("lower")>>
    IN  <<AllocateRoot("first", Arena(2)), AllocateRoot("second", Arena(3))>>
        \o With("first", first, 11, <<Poke(first, 7)>> \o Atomics("el1") \o Atomics("el0"))
        \o With("second", second, 12, <<>>)
        \o <<Install("lower", "first", 11), Translates("el1", address, first),
             Adopt("lower", "second", 12), Translates("el1", address, second),
             Switch("lower", "first", 11), Translates("el1", address, first)>>

stage2_translation_cycle ==
    LET ipa == \h40000
    IN  <<AllocateRoot("root", Arena(1)), OfflineMap("root", ipa, Arena(0), 3, RW),
          Install("stage2", "root", 1),
          Invalidate("stage2", Ipa(ipa))>>
        \o InvalidateRange("stage2", IpaRange(ipa, 2))
        \o InvalidateRange("stage2", IpaRange(ipa, 2))
        \o <<Refused("stage2", Va(ipa)), Refused("stage2", VaRange(ipa, 2)),
          Refused("stage2", IpaRange(ipa, 0)), Refused("stage2", Unaligned),
          Restore("stage2")>>

\* The blocks of 1 GiB a stage-2 root maps onto themselves, so that the lower
\* exception level finds its own code, stack and tables.
Recovery(root) ==
    <<OfflineMap(root, 0, 0, 1, RWX), OfflineMap(root, \h80000, \h80000, 1, RWX)>>

stage2_vmid_isolation ==
    LET address == \h140000
        Initial(n) == Poke(Arena(n - 1), n)
        root == <<"one", "two", "three">>
        Root(n) == <<AllocateRoot(root[n], Arena(3 + n)),
                     OfflineMap(root[n], address, Arena(n - 1), 3, RW)>>
                   \o Recovery(root[n])
    IN  [n \in 1..3 |-> Initial(n)]
        \o <<AllocateRoot("stage1", Arena(3)),
             OfflineMap("stage1", address, address, 3, RW)>>
        \o Each(<<1, 2, 3>>, Root)
        \o <<Install("lower", "stage1", \h31), Install("stage2", "one", \h15),
             Read("el1", address, 1),
             Adopt("stage2", "two", \h2a), Read("el1", address, 2),
             Switch("stage2", "one", \h15), Read("el1", address, 1),
             Adopt("stage2", "three", \h15), Invalidate("stage2", OfVmid(\h15)),
             Read("el1", address, 3),
             Switch("stage2", "two", \h2a), Read("el1", address, 2)>>

-----------------------------------------------------------------------------
(* combined_translation.rs                                                 *)

Stage2InvalidationCase == {"Ipa", "RangeFirst", "RangeLast", "Full", "LocalIpa"}

stage2_invalidation_effect_Bug(case) ==
    LET start == \h140000
        target == IF case = "RangeLast" THEN start + 1 ELSE start
        va == \h50000
        operation ==
            CASE case \in {"Ipa", "LocalIpa"} -> <<Invalidate("stage2", Ipa(target))>>
              [] case \in {"RangeFirst", "RangeLast"} -> InvalidateRange("stage2", IpaRange(start, 2))
              [] case = "Full" -> <<Invalidate("stage2", All)>>
        root == <<"one", "two">>
        Root(n) == <<AllocateRoot(root[n], Arena(2 + n)),
                     OfflineMap(root[n], target, Arena(n - 1), 3, RW)>>
                   \o Recovery(root[n])
    IN  <<Poke(Arena(0), 1), Poke(Arena(1), 2), AllocateRoot("stage1", Arena(2)),
          OfflineMap("stage1", va, target, 3, RW)>>
        \o Root(1) \o Root(2)
        \o <<Install("lower", "stage1", \h51), Install("stage2", "one", \h52),
             Adopt("stage2", "two", \h52)>>
        \o operation \o <<Read("el1", va, 2)>>

stage2_invalidation_effect(case) ==
    LET start == \h140000
        target == IF case = "RangeLast" THEN start + 1 ELSE start
        va == \h50000
        operation ==
            CASE case \in {"Ipa", "LocalIpa"} -> <<Invalidate("stage2", Ipa(target))>>
              [] case \in {"RangeFirst", "RangeLast"} -> InvalidateRange("stage2", IpaRange(start, 2))
              [] case = "Full" -> <<Invalidate("stage2", All)>>
        root == <<"one", "two">>
        Root(n) == <<AllocateRoot(root[n], Arena(2 + n)),
                     OfflineMap(root[n], target, Arena(n - 1), 3, RW)>>
                   \o Recovery(root[n])
    IN  <<Poke(Arena(0), 1), Poke(Arena(1), 2), AllocateRoot("stage1", Arena(2)),
          OfflineMap("stage1", va, target, 3, RW)>>
        \o Root(1) \o Root(2)
        \o <<Install("lower", "stage1", \h51), Install("stage2", "one", \h52),
             Read("el1", va, 1), Adopt("stage2", "two", \h52)>>
        \o operation \o <<Read("el1", va, 2)>>

\* tlbi(All): stage 2, then stage 1.
InvalidateBoth == <<Invalidate("stage2", All), Invalidate("lower", All)>>

combined_invalidation_order ==
    LET address == \h51000
        ipa == <<\h151000, \h152000>>
        one == <<"one1", "one2">>
        two == <<"two1", "two2">>
        One(n) == <<AllocateRoot(one[n], Arena(1 + n)),
                    OfflineMap(one[n], address, ipa[n], 3, RW)>>
        Two(n) == <<AllocateRoot(two[n], Arena(3 + n)),
                    OfflineMap(two[n], ipa[n], Arena(n - 1), 3, RW)>>
                  \o Recovery(two[n])
    IN  <<Poke(Arena(0), 1), Poke(Arena(1), 2)>>
        \o Each(<<1, 2>>, One) \o Each(<<1, 2>>, Two)
        \o <<Install("lower", "one1", \h61), Install("stage2", "two1", \h62),
             Read("el1", address, 1), Adopt("lower", "one2", \h61),
             Adopt("stage2", "two2", \h62)>>
        \o InvalidateBoth \o <<Read("el1", address, 2)>>

combined_stage1_stage2 ==
    LET va == \h50000
        region == \hc0000                       \* not where the tables are
        target == region + (Arena(0) - \h80000)
        replacement == region + (Arena(1) - \h80000)
    IN  <<Poke(Arena(0), 1), Poke(Arena(1), 2),
          AllocateRoot("stage1", Arena(2)), AllocateRoot("stage2", Arena(3)),
          OfflineMap("stage1", va, target, 3, RW)>>
        \o Recovery("stage2")
        \o <<OfflineMap("stage2", target, Arena(0), 3, RW),
             OfflineMap("stage2", replacement, Arena(1), 3, RW),
             Install("lower", "stage1", \h41), Install("stage2", "stage2", \h31),
             Invalidate("lower", Va(va)), Invalidate("lower", OfAsid(\h41)),
             Invalidate("stage2", Ipa(region)), Invalidate("stage2", OfVmid(\h31))>>
        \o InvalidateBoth
        \o <<Translates("el1", va, Arena(0)), Read("el1", va, 1),
             Write("el1", va, 1), Update("el1", va, 1, 3), Update("el1", va, 3, 4),
             Write("el1", va, 1), Read("el1", va, 1),
             Faults("el1", va, "execute", "Permission", 0),
             Protect("lower", va, UserRO), Faults("el1", va, "write", "Permission", 1),
             Protect("lower", va, UserRW),
             Protect("stage2", target, RO), Faults("el1", va, "write", "Permission", 2),
             Protect("stage2", target, RW), Read("el1", va, 1),
             Remap("lower", va, replacement, UserRW), Invalidate("lower", Va(va)),
             Read("el1", va, 2),
             Unmap("lower", va), Invalidate("lower", Va(va)),
             Faults("el1", va, "read", "Translation", 1),
             Map("lower", va, replacement, 3, UserRW),
             Remap("stage2", replacement, Arena(0), RW),
             Invalidate("stage2", Ipa(replacement)), Read("el1", va, 1),
             Unmap("stage2", replacement), Invalidate("stage2", Ipa(replacement)),
             Faults("el1", va, "read", "Translation", 2),
             Map("stage2", replacement, Arena(1), 3, RW),
             Invalidate("stage2", Ipa(replacement)), Read("el1", va, 2),
             Restore("stage2"), Restore("lower")>>

-----------------------------------------------------------------------------
(* mapper_live.rs                                                          *)

live_range_mapping ==
    LET address == \h661ff
        Used(n) == <<Write("self", address + n, n + 1), Read("self", address + n, n + 1)>>
        Gone(n) == <<Faults("self", address + n, "read", "Translation", 1)>>
        Unmapped(n) == <<Unmap("current", address + n)>>
    IN  <<AllocateRoot("root", Arena(3)), Install("current", "root", 0)>>
        \o MapRange("current", address, Arena(0), 3, RW)
        \o Each(<<0, 1, 2>>, Used) \o Each(<<0, 1, 2>>, Unmapped)
        \o Each(<<0, 1, 2>>, Gone)

live_break_before_make ==
    LET address == \h6f000
    IN  <<Poke(Arena(0), 1), Poke(Arena(1), 2), AllocateRoot("root", Arena(2)),
          Install("current", "root", 0), Map("current", address, Arena(0), 3, RW),
          Read("self", address, 1), Remap("current", address, Arena(1), RW),
          Read("self", address, 2), Restore("current")>>

live_reclaim_outcome ==
    <<AllocateRoot("root", Arena(1)), Install("current", "root", 0),
      Map("current", \h66200, Arena(0), 3, RW), Write("self", \h66200, 1),
      UnmapReclaim("current", \h66200), Faults("self", \h66200, "read", "Translation", 1)>>

live_reclaim_post_fault ==
    <<AllocateRoot("root", Arena(1)), Install("current", "root", 0),
      Map("current", \h66200, Arena(0), 3, RW),
      UnmapReclaim("current", \h66200), Faults("self", \h66200, "read", "Translation", 1)>>

-----------------------------------------------------------------------------

InvalidationBodies ==
    Singles([stage1_translation_cycle |-> stage1_translation_cycle,
             lower_stage1_asid_isolation |-> lower_stage1_asid_isolation,
             stage2_translation_cycle |-> stage2_translation_cycle,
             stage2_vmid_isolation |-> stage2_vmid_isolation,
             combined_invalidation_order |-> combined_invalidation_order,
             combined_stage1_stage2 |-> combined_stage1_stage2,
             live_range_mapping |-> live_range_mapping,
             live_break_before_make |-> live_break_before_make,
             live_reclaim_outcome |-> live_reclaim_outcome,
             live_reclaim_post_fault |-> live_reclaim_post_fault])
    @@ Family("stage2_invalidation_effect", {<<c>> : c \in Stage2InvalidationCase},
              LAMBDA p : stage2_invalidation_effect(p[1]))

\* Bodies that show the effect of TLBI by address, and of every TLBI.
AddressBodies ==
    {<<name>> : name \in {"stage1_translation_cycle", "combined_stage1_stage2",
                          "live_range_mapping", "live_break_before_make"}}
    \cup {<<"stage2_invalidation_effect", c>> : c \in Stage2InvalidationCase \ {"Full"}}
FullBodies ==
    {<<name>> : name \in {"combined_invalidation_order", "stage2_vmid_isolation",
                          "live_reclaim_outcome"}}
    \cup {<<"stage2_invalidation_effect", "Full">>}
=============================================================================
