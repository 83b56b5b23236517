--------------------------- MODULE PermissionCodec ---------------------------
(***************************************************************************)
(* The permission codec of the crate under test (aarch64_vmsa, not part of *)
(* the repository), as the bodies of permissions.rs and                    *)
(* permission_semantic_cases.rs use it: rights encoded in the fields of a  *)
(* descriptor, directly or as an index into permission registers, and      *)
(* decoded from them.  What a field means is taken from the architecture.  *)
(* Every operator takes what is wrong with the crate; "nothing" otherwise. *)
(***************************************************************************)
EXTENDS Integers, Sequences

\* What can be wrong: values that mean nothing are accepted; execute-never is
\* written with the wrong polarity; privileged and unprivileged execution are
\* swapped, in both directions; overlays are ignored, or applied without a
\* register; write-execute-never is ignored; top-level requirements are those
\* of both registers; the last index that will do is chosen; the GCS
\* permission is taken for plain read; the second half of MAIR is not searched.
CrateDefects == {"accepts", "polarity", "swapped", "overlay", "phantom", "wxn",
                 "toplevel", "selection", "gcs", "mair2"}

\* Result<_, AttrError>.
Ok(v) == <<"ok", v>>
Err(error) == <<"err", error, 0>>
ErrBits(error, bits) == <<"err", error, bits>>
AndThen(result, F(_)) == IF result[1] = "ok" THEN F(result[2]) ELSE result

Unencodable == Err("UnencodablePermissions")
Rejects(d, condition, error, otherwise) ==
    IF condition /\ d # "accepts" THEN error ELSE otherwise

\* An option: a sequence of at most one value.
Some(v) == <<v>>
None == <<>>

-----------------------------------------------------------------------------
(* Stage 1, direct permissions.                                            *)

Data == {"none", "r", "rw"}
Bits(condition, name) == IF condition THEN {name} ELSE {}
Stage1(p, u, px, ux, pgcs, ugcs) ==
    [p |-> p, u |-> u, x |-> Bits(px, "px") \cup Bits(ux, "ux"),
     gcs |-> Bits(pgcs, "p") \cup Bits(ugcs, "u")]
NoGcs(p, u, x) == [p |-> p, u |-> u, x |-> x, gcs |-> {}]

Everyone == {"px", "ux"}
Swap(x) == {IF e = "px" THEN "ux" ELSE "px" : e \in x}
Written(d, x) == CASE d = "polarity" -> Everyone \ x
                   [] d = "swapped" -> Swap(x)
                   [] OTHER -> x
ReadBack(d, x) == IF d = "swapped" THEN Swap(x) ELSE x

\* AP[2:1] and APTable[1:0], from 0.
LeafPairs == <<<<"rw", "none">>, <<"rw", "rw">>, <<"r", "none">>, <<"r", "r">>>>
TablePairs == <<<<"rw", "rw">>, <<"rw", "none">>, <<"r", "r">>, <<"r", "none">>>>
PairIndices(pairs, pair) == {n \in 0..3 : pairs[n + 1] = pair}

\* A regime with EL0: the value is a leaf's or a table's.
EncodeTwo(d, pairs, v) ==
    LET found == PairIndices(pairs, <<v.p, v.u>>)
    IN  Rejects(d, found = {}, Unencodable,
                Ok([ap |-> CHOOSE n \in found \cup {0} : found # {} => n \in found,
                    never |-> Everyone \ Written(d, v.x)]))
DecodeTwo(d, pairs, raw) ==
    Ok(NoGcs(pairs[raw.ap + 1][1], pairs[raw.ap + 1][2], ReadBack(d, Everyone \ raw.never)))

\* A regime of one privilege: AP[1] is 1 in leaves, APTable[0] 0 in tables, and
\* execution has one bit, that of XN.
EncodeSingle(d, inTable, v) ==
    Rejects(d, v.p = "none", Unencodable,
            Ok([ap |-> (IF inTable THEN 0 ELSE 1) + (IF v.p = "rw" THEN 0 ELSE 2),
                never |-> IF ("px" \in v.x) = (d = "polarity") THEN {"ux"} ELSE {}]))
DecodeSingle(d, inTable, raw) ==
    LET odd == raw.ap % 2 = 1
        value == Ok(NoGcs(IF raw.ap < 2 THEN "rw" ELSE "r", "none",
                          IF "ux" \in raw.never THEN {} ELSE {"px"}))
        never == Rejects(d, "px" \in raw.never, Unencodable, value)
    IN  IF inTable THEN Rejects(d, odd, ErrBits("InvalidTableAp", raw.ap), never)
        ELSE Rejects(d, ~odd, ErrBits("InvalidLeafAp", raw.ap), never)

-----------------------------------------------------------------------------
(* Stage 2.  Rights are "r", "w", "px", "ux"; "wo", to write but not read; *)
(* and "mw": writes of the translation walker only ("mostly read-only"),   *)
(* which a top-level table may be required for ("tl0", "tl1").             *)

DataRights(data) == CASE data = "none" -> {} [] data = "r" -> {"r"} [] data = "rw" -> {"r", "w"}
MayExecute(privileged, unprivileged) == Bits(privileged, "px") \cup Bits(unprivileged, "ux")
Direct2(data, x) == DataRights(data) \cup x

\* Who executes with each XN[1:0], from 0; a PE without XNX knows 0 and 2.
ByXn == <<Everyone, {"ux"}, {}, {"px"}>>
S2ap == <<{}, {"r"}, {"w"}, {"r", "w"}>>
InvalidNever == Err("InvalidStage2ExecuteNever")

EncodeDirect2(d, xnx, v) ==
    LET x == v \cap Everyone
        written == IF xnx \/ x \in {{}, Everyone} THEN Written(d, x) ELSE Everyone
    IN  Rejects(d, ~xnx /\ x \notin {{}, Everyone}, InvalidNever,
                Ok([s2ap |-> CHOOSE n \in 0..3 : S2ap[n + 1] = v \cap {"r", "w"},
                    xn |-> CHOOSE n \in 0..3 : ByXn[n + 1] = written]))
DecodeDirect2(d, xnx, raw) ==
    Rejects(d, raw.s2ap = 2, ErrBits("InvalidStage2Permission", 2),
    Rejects(d, ~xnx /\ raw.xn \in {1, 3}, InvalidNever,
            Ok(S2ap[raw.s2ap + 1] \cup ReadBack(d, ByXn[raw.xn + 1]))))

\* A permission register: what each index selects.
Register == [0..15 -> 0..15]
Identity == [n \in 0..15 |-> n]
Everywhere(value) == [n \in 0..15 |-> value]

\* What a value of S2PIR or S2POR grants.
Stage2Rights(n) ==
    CASE n \in {0, 1, 5} -> {}
      [] n \in {2, 3, 6, 7} -> {"r", "mw"} \cup Bits(n \in {3, 7}, "tl1") \cup Bits(n \in {6, 7}, "tl0")
      [] n = 4 -> {"wo"}
      [] n >= 8 -> {"r"} \cup Bits(n >= 12, "w") \cup MayExecute(n % 4 >= 2, n % 2 = 1)

\* Base and overlay must both grant an access; a walker's write is also granted
\* by a right to write.
Overlaid(d, base, overlay) ==
    LET both == base \cap overlay
        walker == /\ "r" \in both /\ "mw" \in base \cup overlay
                  /\ \A v \in {base, overlay} : {"w", "mw"} \cap v # {}
        top == IF d = "toplevel" THEN both ELSE base \cup overlay
        blind == {"wo"} \in {base, overlay} /\ {"r", "w"} \subseteq base \cup overlay
    IN  (both \cap {"r", "w", "px", "ux"}) \cup Bits(blind, "wo")
        \cup IF walker THEN {"mw"} \cup (top \cap {"tl0", "tl1"}) ELSE {}

\* settings: base, an S2PIR or none where permissions are direct; overlay, an
\* S2POR or none.
Effective2(d, settings, pi, po) ==
    LET base == Stage2Rights(settings.base[1][pi])
        overlay == IF d = "phantom" /\ settings.overlay = None THEN Some(Identity)
                   ELSE IF d = "overlay" THEN None ELSE settings.overlay
    IN  IF overlay = None THEN base ELSE Overlaid(d, base, Stage2Rights(overlay[1][po]))

DecodeIndirect2(d, settings, raw) ==
    Rejects(d, raw.ns, Err("InvalidOutputAddressSpace"),
            Ok(Effective2(d, settings, raw.pi, raw.po)))

\* The lowest pair of indices that gives what is wanted.
Chosen(d, found) ==
    CHOOSE n \in found : \A other \in found : IF d = "selection" THEN n >= other ELSE n <= other
Indices(n) == [pi |-> n \div 16, po |-> n % 16, ns |-> FALSE]

EncodeIndirect2(d, settings, wanted) ==
    IF settings.base = None
    THEN Rejects(d, TRUE, Err("PermissionIndirectionUnavailable"), Ok(Indices(0)))
    ELSE LET found == {n \in 0..255 : Effective2(d, settings, n \div 16, n % 16) = wanted}
         IN  IF found # {} THEN Ok(Indices(Chosen(d, found)))
             ELSE Rejects(d, TRUE, Err("PermissionCombinationNotConfigured"), Ok(Indices(0)))

-----------------------------------------------------------------------------
(* Stage 1, indirect permissions: PIR and POR, one register for each       *)
(* privilege; "g" is access by guarded control stack instructions.         *)

PirRights(d, n, gcs) ==
    Bits(n \in {1, 3, 5, 6, 7, 8, 10, 12, 14} \/ (n = 9 /\ gcs), "r")
    \cup Bits(n \in {5, 6, 7, 12, 14}, "w") \cup Bits(n \in {2, 3, 6, 7, 10, 14}, "x")
    \cup Bits(n = 9 /\ gcs /\ d # "gcs", "g")
\* Bit by bit.
PorRights(n) ==
    Bits(n < 8 /\ n % 2 = 1, "r") \cup Bits(n < 8 /\ (n \div 2) % 2 = 1, "x")
    \cup Bits(n \in 4..7, "w")

\* base and overlay are optional values, not registers.
Effective1(d, base, overlay, gcs) ==
    IF base = None THEN {}
    ELSE LET rights == PirRights(d, base[1], gcs)
             por == PorRights(overlay[1])
         IN  IF overlay = None \/ base[1] >= 8 \/ d = "overlay" THEN rights
             ELSE rights \cap (por \ Bits(base[1] = 6 /\ "x" \in por /\ d # "wxn", "w"))

\* settings: p, u, the base registers; op, ou, the overlays; gcs.
Selected(register, index) == IF register = None THEN None ELSE Some(register[1][index])
OfRights(v) == IF {"r", "w"} \subseteq v THEN "rw" ELSE IF "r" \in v THEN "r" ELSE "none"
DecodeIndirect1(d, settings, raw) ==
    LET p == Effective1(d, Selected(settings.p, raw.pi), Selected(settings.op, raw.po), settings.gcs)
        u == Effective1(d, Selected(settings.u, raw.pi), Selected(settings.ou, raw.po), settings.gcs)
        conflict == {"x", "g"} \cap p # {} /\ {"w", "g"} \cap u # {}
        blind == \E v \in {p, u} : "w" \in v /\ "r" \notin v
    IN  Rejects(d, conflict \/ blind, Unencodable,
                Ok(Stage1(OfRights(p), OfRights(u), "x" \in p, "x" \in u, "g" \in p, "g" \in u)))

EncodeIndirect1(d, settings, wanted) ==
    IF settings.p = None
    THEN Rejects(d, TRUE, Err("PermissionIndirectionUnavailable"), Ok(Indices(0)))
    ELSE LET found == {n \in 0..255 : DecodeIndirect1(d, settings, Indices(n)) = Ok(wanted)}
         IN  IF found # {} THEN Ok(Indices(Chosen(d, found)))
             ELSE Rejects(d, TRUE, Err("PermissionCombinationNotConfigured"), Ok(Indices(0)))

\* Direct permissions under an overlay: the index that takes nothing away.
UnderOverlay(d, direct, v, Limit(_)) ==
    LET found == {po \in 0..15 : Limit(po) = v}
    IN  IF direct[1] # "ok" THEN direct
        ELSE IF found = {}
        THEN Rejects(d, TRUE, Err("PermissionCombinationNotConfigured"), Ok(v))
        ELSE Ok(Limit(Chosen(d, found)))

Limited(data, por) ==
    IF "r" \notin por \/ data = "none" THEN "none" ELSE IF "w" \in por THEN data ELSE "r"
ThroughOverlay1(d, overlay, v) ==
    LET direct == AndThen(EncodeSingle(d, FALSE, v), LAMBDA raw : DecodeSingle(d, FALSE, raw))
        Limit(po) == LET por == PorRights(overlay[po])
                     IN  [direct[2] EXCEPT !.p = Limited(@, por),
                                           !.x = IF "x" \in por THEN @ ELSE {}]
    IN  UnderOverlay(d, direct, v, Limit)
ThroughOverlay2(d, overlay, v) ==
    LET direct == AndThen(EncodeDirect2(d, FALSE, v), LAMBDA raw : DecodeDirect2(d, FALSE, raw))
        Limit(po) == Overlaid(d, direct[2], Stage2Rights(overlay[po]))
    IN  UnderOverlay(d, direct, v, Limit)

-----------------------------------------------------------------------------
(* The rest of a leaf.                                                     *)

\* The first attribute index that selects the memory type, in MAIR and MAIR2.
EncodeMemory(d, mair, memory) ==
    LET found == {n \in 1..Len(mair) : mair[n] = memory /\ (d = "mair2" => n <= 8)}
    IN  IF found = {} THEN Err("MemoryAttributesNotConfigured")
        ELSE Ok(CHOOSE n \in found : \A other \in found : n <= other)
DecodeMemory(mair, index) == Ok(mair[index])

\* Stage-2 memory types depend on forced write-back, and two on MTE permission.
EncodeMemory2(d, mode, memory) ==
    Rejects(d, (memory[1] = "fwb") # (mode # "disabled"), Err("WrongStage2MemoryMode"),
    Rejects(d, memory[2] \in {"ForceNormalWriteBackNoTagAccess", "UseStage1NoTagAccess"}
                   /\ mode # "mte",
            Err("MtePermissionUnavailable"), Ok(memory)))

\* A leaf's controls, of a regime of one privilege, at the last level.
EncodeControls(d, leaf) ==
    Rejects(d, leaf.single /\ ~leaf.global /\ leaf.format = "vmsa64",
            Err("ConflictingSemanticAttributes"),
    Rejects(d, leaf.alias = "NonSecureExtension", Err("InvalidD128Alias"),
    Rejects(d, leaf.nt /\ leaf.format = "d128", Err("InvalidD128Configuration"), Ok(leaf))))
=============================================================================
