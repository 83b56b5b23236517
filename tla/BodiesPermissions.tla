-------------------------- MODULE BodiesPermissions --------------------------
(***************************************************************************)
(* The bodies that call the crate's permission codec and compare what it   *)
(* answers with the tables the repository holds (permissions.rs), or map   *)
(* and inspect leaves with it (permission_semantic_cases.rs,               *)
(* target/payloads/common).  They touch no translation: each is one step,  *)
(* with the crates under which its comparisons fail.                       *)
(***************************************************************************)
EXTENDS PermissionCodec, LiveTranslation

\* result(failures), for what a body expects of a crate.
Check(Expected(_)) ==
    <<[do |-> "check",
       failing |-> {d \in CrateDefects \cup {"nothing"} : ~Expected(d)}]>>

RoundTrips(Encode(_), Decode(_), v) == AndThen(Encode(v), Decode) = Ok(v)

Executions == SUBSET {"px", "ux"}

-----------------------------------------------------------------------------
(* permissions.rs: VMSA64, direct.                                         *)

\* One privilege: leaves when ~inTable.
SingleOk(d, inTable, invalid, error) ==
    LET Encode(v) == EncodeSingle(d, inTable, v)
        Decode(raw) == DecodeSingle(d, inTable, raw)
        valid == Encode(NoGcs("rw", "none", {"px"}))
    IN  /\ \A data \in {"r", "rw"}, x \in {{}, {"px"}} :
              RoundTrips(Encode, Decode, NoGcs(data, "none", x))
        /\ Encode(NoGcs("none", "none", {})) = Unencodable
        /\ valid[1] = "ok"
        /\ \A bits \in invalid : Decode([valid[2] EXCEPT !.ap = bits]) = ErrBits(error, bits)
        /\ Decode([valid[2] EXCEPT !.never = @ \cup {"px"}]) = Unencodable

stage1_single_leaves(d) == SingleOk(d, FALSE, {0, 2}, "InvalidLeafAp")
stage1_single_tables(d) == SingleOk(d, TRUE, {1, 3}, "InvalidTableAp")
stage1_single_matrix == Check(LAMBDA d : stage1_single_leaves(d) /\ stage1_single_tables(d))

\* Two: what EL0 may do is all of it or nothing.
ValidPairs == {<<"rw", "none">>, <<"rw", "rw">>, <<"r", "none">>, <<"r", "r">>}
TwoOk(d, pairs) ==
    LET Encode(v) == EncodeTwo(d, pairs, v)
        Decode(raw) == DecodeTwo(d, pairs, raw)
    IN  /\ \A pair \in ValidPairs, x \in Executions :
              RoundTrips(Encode, Decode, NoGcs(pair[1], pair[2], x))
        /\ \A pair \in (Data \X Data) \ ValidPairs :
              Encode(NoGcs(pair[1], pair[2], {})) = Unencodable

stage1_two_leaves(d) == TwoOk(d, LeafPairs)
stage1_two_tables(d) == TwoOk(d, TablePairs)
stage1_two_privilege_matrix == Check(LAMBDA d : stage1_two_leaves(d) /\ stage1_two_tables(d))

stage2_round_trip(d, xnx, v) ==
    LET Encode(w) == EncodeDirect2(d, xnx, w)
        Decode(raw) == DecodeDirect2(d, xnx, raw)
    IN  RoundTrips(Encode, Decode, v)

\* Without XNX both privileges execute or neither does.
stage2_direct_matrix ==
    Check(LAMBDA d :
        /\ \A data \in Data, x \in {{}, {"px", "ux"}} :
              stage2_round_trip(d, FALSE, Direct2(data, x))
        /\ \A data \in Data \ {"none"}, x \in {{"px"}, {"ux"}} :
              EncodeDirect2(d, FALSE, Direct2(data, x)) = InvalidNever
        /\ \A data \in Data, x \in Executions : stage2_round_trip(d, TRUE, Direct2(data, x))
        /\ LET valid == EncodeDirect2(d, FALSE, Direct2("rw", {"px", "ux"}))
           IN  /\ valid[1] = "ok"
               /\ DecodeDirect2(d, FALSE, [valid[2] EXCEPT !.s2ap = 2])
                      = ErrBits("InvalidStage2Permission", 2)
               /\ \A bits \in {1, 3} :
                     DecodeDirect2(d, FALSE, [valid[2] EXCEPT !.xn = bits]) = InvalidNever)

-----------------------------------------------------------------------------
(* permissions.rs: D128 stage 2, by registers.                             *)

Settings2(base, overlay) == [base |-> base, overlay |-> overlay]
no_access == {}
read_only(x) == {"r"} \cup x
read_write(x) == {"r", "w"} \cup x
special_write_only == {"wo"}
mostly_read_only(top) == {"r", "mw"} \cup top

\* What the repository expects of each value of the identity register.
Entries ==
    <<no_access, no_access, mostly_read_only({}), mostly_read_only({"tl1"}),
      special_write_only, no_access, mostly_read_only({"tl0"}),
      mostly_read_only({"tl0", "tl1"}),
      read_only({}), read_only({"ux"}), read_only({"px"}), read_only({"px", "ux"}),
      read_write({}), read_write({"ux"}), read_write({"px"}), read_write({"px", "ux"})>>

D128RoundTrips(d, settings, v) ==
    LET Encode(w) == EncodeIndirect2(d, settings, w)
        Decode(raw) == DecodeIndirect2(d, settings, raw)
    IN  RoundTrips(Encode, Decode, v)

\* Every pair of indices decodes as expected.
DecodesAs(d, settings, overlays, Expected(_, _)) ==
    \A pi \in 0..15, po \in overlays :
        DecodeIndirect2(d, settings, [pi |-> pi, po |-> po, ns |-> FALSE])
            = Ok(Expected(Entries[pi + 1], Entries[po + 1]))

Unavailable2(d) ==
    EncodeIndirect2(d, Settings2(None, None), no_access)
        = Err("PermissionIndirectionUnavailable")
Missing2(d) ==
    EncodeIndirect2(d, Settings2(Some(Everywhere(0)), None), special_write_only)
        = Err("PermissionCombinationNotConfigured")

d128_stage2_base_matrix ==
    LET settings == Settings2(Some(Identity), None)
    IN  Check(LAMBDA d :
            /\ DecodesAs(d, settings, {0}, LAMBDA base, overlay : base)
            /\ \A n \in 0..15 \ {1, 5} : D128RoundTrips(d, settings, Entries[n + 1])
            /\ Unavailable2(d) /\ Missing2(d))

is_mro(v) == "mw" \in v
\* What an overlay makes of a base entry, case by case.
stage2_expected(base, overlay) ==
    LET mro == IF is_mro(base) THEN base ELSE overlay
        general == IF is_mro(base) THEN overlay ELSE base
        other == IF base = special_write_only THEN overlay ELSE base
    IN  CASE is_mro(base) /\ is_mro(overlay) ->
                 mostly_read_only((base \cup overlay) \cap {"tl0", "tl1"})
          [] is_mro(base) # is_mro(overlay) ->
                 (IF "r" \notin general THEN no_access
                  ELSE IF "w" \in general THEN mro
                  ELSE read_only({}))
          [] ~is_mro(base) /\ ~is_mro(overlay) /\ special_write_only \in {base, overlay} ->
                 (IF {"r", "w"} \subseteq other THEN special_write_only ELSE no_access)
          [] OTHER -> base \cap overlay

d128_stage2_overlay_matrix ==
    Check(LAMBDA d :
        /\ DecodesAs(d, Settings2(Some(Identity), Some(Identity)), 0..15, stage2_expected)
        /\ DecodesAs(d, Settings2(Some(Identity), None), 0..15, LAMBDA base, overlay : base))

d128_stage2_indirection_unavailable == Check(Unavailable2)
d128_stage2_missing_combination == Check(Missing2)
\* Every pair of indices would do.
d128_stage2_duplicate_selection ==
    Check(LAMBDA d :
        EncodeIndirect2(d, Settings2(Some(Everywhere(8)), Some(Everywhere(8))), read_only({}))
            = Ok(Indices(0)))
invalid_fixed_output_address_space ==
    LET settings == Settings2(Some(Everywhere(0)), None)
    IN  Check(LAMBDA d :
            AndThen(EncodeIndirect2(d, settings, no_access),
                    LAMBDA raw : DecodeIndirect2(d, settings, [raw EXCEPT !.ns = TRUE]))
                = Err("InvalidOutputAddressSpace"))

-----------------------------------------------------------------------------
(* permissions.rs: D128 stage 1, by registers.                             *)

Settings1(p, u, op, ou, gcs) == [p |-> p, u |-> u, op |-> op, ou |-> ou, gcs |-> gcs]
Plain1(p, u) == Settings1(p, u, None, None, FALSE)

Stage1Bits(read, write, execute, gcs, apply_overlay, wxn) ==
    [rights |-> Bits(read, "r") \cup Bits(write, "w") \cup Bits(execute, "x") \cup Bits(gcs, "g"),
     apply_overlay |-> apply_overlay, wxn |-> wxn]

\* stage1_expected: a base value,
PirExpected(pi, gcs) ==
    CASE pi \in {0, 4} -> Stage1Bits(FALSE, FALSE, FALSE, FALSE, TRUE, FALSE)
      [] pi = 1 -> Stage1Bits(TRUE, FALSE, FALSE, FALSE, TRUE, FALSE)
      [] pi = 2 -> Stage1Bits(FALSE, FALSE, TRUE, FALSE, TRUE, FALSE)
      [] pi = 3 -> Stage1Bits(TRUE, FALSE, TRUE, FALSE, TRUE, FALSE)
      [] pi = 5 -> Stage1Bits(TRUE, TRUE, FALSE, FALSE, TRUE, FALSE)
      [] pi = 6 -> Stage1Bits(TRUE, TRUE, TRUE, FALSE, TRUE, TRUE)
      [] pi = 7 -> Stage1Bits(TRUE, TRUE, TRUE, FALSE, TRUE, FALSE)
      [] pi = 8 -> Stage1Bits(TRUE, FALSE, FALSE, FALSE, FALSE, FALSE)
      [] pi = 9 /\ gcs -> Stage1Bits(TRUE, FALSE, FALSE, TRUE, FALSE, FALSE)
      [] pi = 10 -> Stage1Bits(TRUE, FALSE, TRUE, FALSE, FALSE, FALSE)
      [] pi = 12 -> Stage1Bits(TRUE, TRUE, FALSE, FALSE, FALSE, FALSE)
      [] pi = 14 -> Stage1Bits(TRUE, TRUE, TRUE, FALSE, FALSE, FALSE)
      [] OTHER -> Stage1Bits(FALSE, FALSE, FALSE, FALSE, FALSE, FALSE)

\* what an overlay leaves of it,
PorExpected(po) ==
    CASE po = 1 -> {"r"} [] po = 2 -> {"x"} [] po = 3 -> {"r", "x"} [] po = 4 -> {"w"}
      [] po = 5 -> {"r", "w"} [] po = 6 -> {"w", "x"} [] po = 7 -> {"r", "w", "x"}
      [] OTHER -> {}
decode_pair(pi, po, gcs) ==
    LET bits == PirExpected(pi, gcs)
        overlay == PorExpected(po[1])
    IN  IF po = None \/ ~bits.apply_overlay THEN bits.rights
        ELSE bits.rights \cap (IF bits.wxn /\ "x" \in overlay THEN overlay \ {"w"}
                               ELSE overlay)

\* and both privileges together; unprivileged is None without a register, and
\* otherwise an optional overlay value.
stage1_expected(pi, privileged, unprivileged, gcs) ==
    LET p == decode_pair(pi, privileged, gcs)
        u == IF unprivileged = None THEN {} ELSE decode_pair(pi, unprivileged[1], gcs)
        data_access(v) == IF "r" \notin v THEN "none" ELSE IF "w" \in v THEN "rw" ELSE "r"
    IN  IF \/ ("x" \in p \/ "g" \in p) /\ ("w" \in u \/ "g" \in u)
           \/ \E v \in {p, u} : "w" \in v /\ "r" \notin v
        THEN Unencodable
        ELSE Ok(Stage1(data_access(p), data_access(u), "x" \in p, "x" \in u,
                       "g" \in p, "g" \in u))

NoAccess1 == Stage1("none", "none", FALSE, FALSE, FALSE, FALSE)

\* The registers of each configuration select every value by its own index.
stage1_decodes(d, gcs, privileged, unprivileged) ==
    LET overlay(on) == IF on THEN Some(Identity) ELSE None
        value(on, po) == IF on THEN Some(po) ELSE None
        settings == Settings1(Some(Identity), IF unprivileged = None THEN None ELSE Some(Identity),
                              overlay(privileged),
                              IF unprivileged = None THEN None ELSE overlay(unprivileged[1]), gcs)
    IN  /\ EncodeIndirect1(d, settings, NoAccess1)[1] = "ok"
        /\ \A pi \in 0..15, po \in 0..15 :
              DecodeIndirect1(d, settings, [pi |-> pi, po |-> po, ns |-> FALSE])
                  = stage1_expected(pi, value(privileged, po),
                                    IF unprivileged = None THEN None
                                    ELSE Some(value(unprivileged[1], po)), gcs)

d128_stage1_indirection_matrix ==
    Check(LAMBDA d :
        \A gcs \in BOOLEAN, privileged \in BOOLEAN,
           unprivileged \in {None, Some(FALSE), Some(TRUE)} :
            stage1_decodes(d, gcs, privileged, unprivileged))

d128_stage1_indirection_unavailable ==
    Check(LAMBDA d : EncodeIndirect1(d, Plain1(None, None), NoAccess1)
                         = Err("PermissionIndirectionUnavailable"))
d128_stage1_missing_combination ==
    Check(LAMBDA d : EncodeIndirect1(d, Plain1(Some(Everywhere(0)), None),
                                     Stage1("rw", "none", FALSE, FALSE, FALSE, FALSE))
                         = Err("PermissionCombinationNotConfigured"))
d128_stage1_duplicate_selection ==
    Check(LAMBDA d : EncodeIndirect1(d, Plain1(Some(Everywhere(1)), None),
                                     Stage1("r", "none", FALSE, FALSE, FALSE, FALSE))
                         = Ok(Indices(0)))
\* Read by a configuration in which EL0 may write what EL1 executes.
d128_stage1_conflicting_permissions ==
    LET both == Some(Everywhere(14))
    IN  Check(LAMBDA d :
            AndThen(EncodeIndirect1(d, Plain1(Some(Everywhere(0)), None), NoAccess1),
                    LAMBDA raw : DecodeIndirect1(d, Plain1(both, both), raw))
                = Unencodable)

-----------------------------------------------------------------------------
(* permissions.rs: the rest of a leaf, and VMSA64 with registers.          *)

Leaf64 == [format |-> "vmsa64", single |-> TRUE, global |-> TRUE, alias |-> "NonGlobal", nt |-> FALSE]
Leaf128 == [Leaf64 EXCEPT !.format = "d128"]

invalid_d128_alias ==
    Check(LAMBDA d : EncodeControls(d, [Leaf128 EXCEPT !.single = FALSE, !.alias = "NonSecureExtension"])
                         = Err("InvalidD128Alias"))
invalid_d128_final_level_nt ==
    Check(LAMBDA d : EncodeControls(d, [Leaf128 EXCEPT !.nt = TRUE])
                         = Err("InvalidD128Configuration"))
conflicting_stage1_semantics ==
    Check(LAMBDA d : EncodeControls(d, [Leaf64 EXCEPT !.global = FALSE])
                         = Err("ConflictingSemanticAttributes"))

\* MAIR holds Device types only; the first byte of MAIR2 does not.
vmsa64_aie_round_trip ==
    LET mair == [n \in 1..16 |-> IF n = 9 THEN "NonCacheable" ELSE "Device"]
    IN  Check(LAMBDA d :
            LET index == EncodeMemory(d, mair, "NonCacheable")
            IN  /\ index = Ok(9)
                /\ DecodeMemory(mair, index[2]) = Ok("NonCacheable"))

\* The leaf is read-only by its register, by its bits and an overlay, and by
\* registers and overlays of both privileges.
RoundTrips1(d, settings, v) ==
    AndThen(EncodeIndirect1(d, settings, v), LAMBDA raw : DecodeIndirect1(d, settings, raw)) = Ok(v)
vmsa64_stage1_permission_extensions ==
    LET one == Some(Everywhere(1))
    IN  Check(LAMBDA d :
            /\ RoundTrips1(d, Plain1(Some(Everywhere(8)), None), NoGcs("r", "none", {}))
            /\ ThroughOverlay1(d, Everywhere(1), NoGcs("r", "none", {}))
                   = Ok(NoGcs("r", "none", {}))
            /\ RoundTrips1(d, Settings1(one, one, one, one, FALSE), NoGcs("r", "r", {})))

vmsa64_stage2_permission_extensions ==
    LET eight == Some(Everywhere(8))
    IN  Check(LAMBDA d :
            /\ D128RoundTrips(d, Settings2(eight, None), read_only({}))
            /\ ThroughOverlay2(d, Everywhere(8), read_only({})) = Ok(read_only({}))
            /\ D128RoundTrips(d, Settings2(eight, eight), read_only({})))

-----------------------------------------------------------------------------
(* permission_semantic_cases.rs: leaves mapped in an offline table and     *)
(* inspected; the tables on the way restrict nothing the leaf grants.      *)

stage1_semantic_mapper ==
    Check(LAMBDA d :
        LET Encode(v) == EncodeTwo(d, LeafPairs, v)
            Decode(raw) == DecodeTwo(d, LeafPairs, raw)
        IN  /\ \A v \in {<<"rw", "none", {"px"}>>, <<"rw", "rw", {"ux"}>>,
                         <<"r", "none", {"px", "ux"}>>, <<"r", "r", {}>>} :
                  /\ EncodeTwo(d, TablePairs, NoGcs(v[1], v[2], v[3]))[1] = "ok"
                  /\ RoundTrips(Encode, Decode, NoGcs(v[1], v[2], v[3]))
            /\ Encode(NoGcs("none", "none", {})) = Unencodable)

stage2_direct_semantic_mapper ==
    Check(LAMBDA d :
        /\ \A data \in Data, x \in Executions : stage2_round_trip(d, TRUE, Direct2(data, x))
        /\ EncodeDirect2(d, FALSE, read_only({"px"})) = InvalidNever)

Device == {"nGnRnE", "nGnRE", "nGRE", "GRE"}
WithoutTags == {"ForceNormalWriteBackNoTagAccess", "UseStage1NoTagAccess"}
stage2_fwb_semantic_mapper ==
    Check(LAMBDA d :
        LET Mapped(mode, memory) == EncodeMemory2(d, mode, memory)
        IN  /\ \A memory \in Device \cup {"PreserveDeviceOrForceNormalNonCacheable",
                                         "ForceNormalWriteBack", "UseStage1"} :
                  Mapped("fwb", <<"fwb", memory>>) = Ok(<<"fwb", memory>>)
            /\ \A memory \in WithoutTags :
                  /\ Mapped("fwb", <<"fwb", memory>>) = Err("MtePermissionUnavailable")
                  /\ Mapped("mte", <<"fwb", memory>>) = Ok(<<"fwb", memory>>)
            /\ Mapped("fwb", <<"combined", "NonCacheable">>) = Err("WrongStage2MemoryMode")
            /\ Mapped("disabled", <<"fwb", "UseStage1">>) = Err("WrongStage2MemoryMode"))

d128_stage2_semantic_mapper ==
    Check(LAMBDA d :
        /\ Unavailable2(d) /\ Missing2(d)
        /\ \A n \in 0..15 \ {1, 5} :
              D128RoundTrips(d, Settings2(Some(Identity), None), Entries[n + 1]))

d128_stage1_effective_semantic_mapper ==
    Check(LAMBDA d :
        \A p \in {8, 9} :
            RoundTrips1(d, Settings1(Some(Everywhere(p)), Some(Everywhere(17 - p)), None, None, TRUE),
                        Stage1("r", "r", FALSE, FALSE, p = 9, p = 8)))

-----------------------------------------------------------------------------

PermissionCases ==
    [stage1_single_matrix |-> stage1_single_matrix,
     stage1_two_privilege_matrix |-> stage1_two_privilege_matrix,
     stage2_direct_matrix |-> stage2_direct_matrix,
     d128_stage2_base_matrix |-> d128_stage2_base_matrix,
     d128_stage2_overlay_matrix |-> d128_stage2_overlay_matrix,
     d128_stage2_indirection_unavailable |-> d128_stage2_indirection_unavailable,
     d128_stage2_missing_combination |-> d128_stage2_missing_combination,
     d128_stage2_duplicate_selection |-> d128_stage2_duplicate_selection,
     invalid_fixed_output_address_space |-> invalid_fixed_output_address_space,
     d128_stage1_indirection_matrix |-> d128_stage1_indirection_matrix,
     d128_stage1_indirection_unavailable |-> d128_stage1_indirection_unavailable,
     d128_stage1_missing_combination |-> d128_stage1_missing_combination,
     d128_stage1_duplicate_selection |-> d128_stage1_duplicate_selection,
     d128_stage1_conflicting_permissions |-> d128_stage1_conflicting_permissions,
     invalid_d128_alias |-> invalid_d128_alias,
     invalid_d128_final_level_nt |-> invalid_d128_final_level_nt,
     conflicting_stage1_semantics |-> conflicting_stage1_semantics,
     vmsa64_aie_round_trip |-> vmsa64_aie_round_trip,
     vmsa64_stage1_permission_extensions |-> vmsa64_stage1_permission_extensions,
     vmsa64_stage2_permission_extensions |-> vmsa64_stage2_permission_extensions,
     stage1_semantic_mapper |-> stage1_semantic_mapper,
     stage2_direct_semantic_mapper |-> stage2_direct_semantic_mapper,
     stage2_fwb_semantic_mapper |-> stage2_fwb_semantic_mapper,
     d128_stage2_semantic_mapper |-> d128_stage2_semantic_mapper,
     d128_stage1_effective_semantic_mapper |-> d128_stage1_effective_semantic_mapper]
PermissionCheckBodies == Singles(PermissionCases)

\* The bodies that are there for a property of the codec.
PermissionDetects ==
    [accepts |->
        {<<b>> : b \in {"stage1_single_matrix", "stage1_two_privilege_matrix",
                       "stage2_direct_matrix", "stage1_semantic_mapper",
                       "stage2_direct_semantic_mapper", "stage2_fwb_semantic_mapper",
                       "d128_stage1_indirection_unavailable",
                       "d128_stage2_indirection_unavailable",
                       "d128_stage1_missing_combination", "d128_stage2_missing_combination",
                       "d128_stage1_conflicting_permissions",
                       "invalid_fixed_output_address_space", "invalid_d128_alias",
                       "invalid_d128_final_level_nt", "conflicting_stage1_semantics"}},
     polarity |-> {<<"stage1_single_matrix">>, <<"stage1_two_privilege_matrix">>,
                   <<"stage2_direct_matrix">>, <<"stage1_semantic_mapper">>,
                   <<"stage2_direct_semantic_mapper">>},
     overlay |-> {<<"d128_stage1_indirection_matrix">>, <<"d128_stage2_overlay_matrix">>},
     phantom |-> {<<"d128_stage2_base_matrix">>, <<"d128_stage2_overlay_matrix">>},
     wxn |-> {<<"d128_stage1_indirection_matrix">>},
     toplevel |-> {<<"d128_stage2_overlay_matrix">>},
     selection |-> {<<"d128_stage1_duplicate_selection">>, <<"d128_stage2_duplicate_selection">>},
     gcs |-> {<<"d128_stage1_indirection_matrix">>, <<"d128_stage1_effective_semantic_mapper">>},
     mair2 |-> {<<"vmsa64_aie_round_trip">>}]
=============================================================================
