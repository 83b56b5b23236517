---------------------------- MODULE BodiesStage2 ----------------------------
(***************************************************************************)
(* The bodies about stage-2 leaves of every format, granule and level      *)
(* (stage2_leaf_matrix.rs) and about the permissions of a leaf             *)
(* (stage2_leaf_matrix.rs, permission_active.rs, target/payloads/common).  *)
(***************************************************************************)
EXTENDS BodiesAccess, BodiesFormats

\* What a leaf lets an access do: data "none", "r" or "rw", and execution.
Rights(data, privileged, unprivileged) ==
    (CASE data = "none" -> {"noread"} [] data = "r" -> RO [] data = "rw" -> RW)
    \cup (IF privileged /\ unprivileged THEN {"x"}
          ELSE IF privileged THEN {"px"} ELSE IF unprivileged THEN {"ux"} ELSE {})

Executes == {"execute", "execute_el0"}
Actor(operation) == IF operation = "execute_el0" THEN "el0" ELSE "el1"

\* ActivePermissionOperation and what the rights say of it.
Attempt(operation, address, data, privileged, unprivileged, stage) ==
    LET by == Actor(operation)
        kind == IF operation \in Executes THEN "execute" ELSE operation
        permitted == CASE operation = "read" -> data # "none"
                       [] operation = "write" -> data = "rw"
                       [] operation = "execute" -> privileged
                       [] operation = "execute_el0" -> unprivileged
    IN  IF ~permitted THEN Faults(by, address, kind, "Permission", stage)
        ELSE CASE kind = "read" -> Read(by, address, 1)
               [] kind = "write" -> Write(by, address, 2)
               [] kind = "execute" -> Execute(by, address, 1)

\* Stage-1 tables are themselves read through stage 2: the level that lets the
\* walker reach them.
RecoverySize(granule) == GranuleSpan(granule, IF granule = "4k" THEN 1 ELSE 2)

Both == <<"stage1", "stage2">>

\* A stage-2 leaf under a stage-1 page, with everything else identity mapped.
\* A leaf at address 0 takes the place of what was mapped there to recover.
UnderLeaf(roots, first, va, covered, hint, recovery, stage1, leafRights) ==
    LET page == Arena(first)
        one == roots[1]
        two == roots[2]
        output == AlignDown(page, covered)
        input == AlignDown(hint, covered)
        leaf == OfflineLeaf(two, input, output, covered, leafRights)
        region == AlignDown(Arena(first + 16), recovery)
    IN  <<AllocateRoot(one, Arena(first + 16)), AllocateRoot(two, Arena(first + 32)),
          OfflineMap(one, va, input + (page - output), 3, stage1)>>
        \o (IF input # 0 THEN <<leaf>> ELSE <<>>)
        \o <<OfflineLeaf(two, region, region, recovery, RWX)>>
        \o (IF region = 0 THEN <<>>
            ELSE <<OfflineLeaf(two, 0, 0, recovery, RWX)>>
                 \o (IF input = 0 THEN <<OfflineUnmap(two, 0), leaf>> ELSE <<>>))

Observed(observation, va, page) ==
    CASE observation = "access" -> <<Read("el1", va, 1)>>
      [] observation = "translation" -> <<Translates("el1", va, page)>>
      [] observation = "both" -> <<Read("el1", va, 1), Translates("el1", va, page)>>

Under(roots, asid, vmid, Observe) ==
    <<Install("lower", roots[1], asid), Install("stage2", roots[2], vmid)>>
    \o Observe \o <<Restore("stage2"), Restore("lower")>>

-----------------------------------------------------------------------------
(* stage2_leaf_matrix.rs                                                   *)

active_standard_leaf(roots, first, granule, covered, hint, observation) ==
    LET va == \h52400
    IN  <<Poke(Arena(first), 1)>>
        \o UnderLeaf(roots, first, va, covered, hint, RecoverySize(granule), RW, RW)
        \o Under(roots, \h54, \h55, Observed(observation, va, Arena(first)))

stage2_leaf(granule, level, observation) ==
    active_standard_leaf(Both, 0, granule, GranuleSpan(granule, level), High, observation)

\* The first page and the last one, one translation after the other under the
\* same identifiers.
standard_boundary(granule) ==
    LET size == Pages(granule)
    IN  active_standard_leaf(Both, 0, granule, size, 0, "both")
        \o active_standard_leaf(<<"last1", "last2">>, 64, granule, size, LastPage(size), "both")

vmsa64_permission_case(data, privileged, unprivileged, operation) ==
    LET va == \h52400
        stage1 == IF operation = "execute" THEN RWX
                  ELSE IF operation = "execute_el0" THEN Full ELSE RW
    IN  <<Poke(Arena(0), 1)>>
        \o (IF operation \in Executes THEN <<MakeCoherent("self", Arena(0))>> ELSE <<>>)
        \o UnderLeaf(Both, 0, va, 1, High, RecoverySize("4k"), stage1,
                     Rights(data, privileged, unprivileged))
        \o Under(Both, \h54, \h55,
                 <<Attempt(operation, va, data, privileged, unprivileged, 2)>>)

\* With 16-byte descriptors the whole leaf is mapped before what it recovers by.
UnderD128Leaf(first, va, covered, hint, recovery, leafRights) ==
    LET steps == UnderLeaf(Both, first, va, covered, hint, recovery, RW, leafRights)
        taken == {OfflineUnmap(Both[2], 0),
                  OfflineLeaf(Both[2], 0, 0, recovery, RWX)}
        ordered == SelectSeq(steps, LAMBDA s : s \notin taken)
    IN  IF AlignDown(hint, covered) = 0 THEN ordered ELSE steps

stage2_d128_leaf(granule, covered, hint, observation) ==
    LET va == \h52500
    IN  <<Poke(Arena(0), 1)>>
        \o UnderD128Leaf(0, va, covered, hint, D128Span(granule, 1), RW)
        \o Under(Both, \h56, \h57, Observed(observation, va, Arena(0)))

d128_boundary(granule, last) ==
    LET size == Pages(granule)
    IN  stage2_d128_leaf(granule, size, IF last THEN LastPage(size) ELSE 0, "both")

d128_skl_access(granule, level) ==
    stage2_d128_leaf(granule, D128Span(granule, level), High, "access")

d128_skl_fault(granule, level, status) ==
    LET va == \h52500
    IN  <<Poke(Arena(0), 1)>>
        \o UnderD128Leaf(0, va, D128Span(granule, level), High, D128Span(granule, 1),
                         IF status = "AccessFlag" THEN {"clean", "idle"} ELSE RO)
        \o Under(Both, \h56, \h57,
                 <<IF status = "AccessFlag" THEN Faults("el1", va, "read", status, 2)
                   ELSE Faults("el1", va, "write", status, 2)>>)

-----------------------------------------------------------------------------
(* permission_active.rs                                                    *)

single_privilege_case(data, executable, observation) ==
    LET address == \h6c000
        page == Arena(0)
    IN  <<Poke(page, 1), AllocateRoot("root", Arena(1)), Install("current", "root", 0),
          Map("current", address, page, 3, Rights(data, executable, executable))>>
        \o (CASE observation = "read" -> <<Read("self", address, 1)>>
              [] observation = "write" ->
                     <<IF data = "rw" THEN Write("self", address, 2)
                       ELSE Faults("self", address, "write", "Permission", 1)>>
              [] observation = "execute" ->
                     <<MakeCoherent("self", address),
                       IF executable /\ data # "rw" THEN Execute("self", address, 1)
                       ELSE Faults("self", address, "execute", "Permission", 1)>>)
        \o <<Restore("current")>>

\* A leaf that is writable and readable at EL0 is writable there too.
two_privilege_case(privileged, unprivileged, px, ux, by, observation) ==
    LET address == \h6c000
        page == Arena(0)
        data == IF by = "el0" THEN unprivileged ELSE privileged
        executable == IF by = "el0" THEN ux ELSE px
        user == IF unprivileged = "none" THEN {} ELSE {"u"}
        permitted == CASE observation = "read" -> data # "none"
                       [] observation = "write" -> data = "rw"
                       [] observation = "execute" -> executable
    IN  <<Poke(page, 1)>>
        \o (IF observation = "execute" THEN <<MakeCoherent("self", page)>> ELSE <<>>)
        \o <<AllocateRoot("root", Arena(1)),
             OfflineMap("root", address, page, 3, Rights(privileged, px, ux) \cup user),
             Install("lower", "root", \h61),
             IF ~permitted THEN Faults(by, address, observation, "Permission", 1)
             ELSE CASE observation = "read" -> Read(by, address, 1)
                    [] observation = "write" -> Write(by, address, 2)
                    [] observation = "execute" -> Execute(by, address, 1),
             Restore("lower")>>

-----------------------------------------------------------------------------

\* Permission of a stage-2 leaf: data, execution at EL1 and at EL0, operation.
Stage2Cases ==
    {<<d, FALSE, FALSE, o>> : d \in {"none", "r", "rw"}, o \in {"read", "write"}}
    \cup {<<"r", x, x, "execute">> : x \in BOOLEAN}
    \cup {<<"r", p, ~p, o>> : p \in BOOLEAN, o \in Executes}
TwoPrivilegeCases ==
    {<<d[1], d[2], FALSE, FALSE, by, o>> :
        d \in {<<"rw", "none">>, <<"rw", "rw">>, <<"r", "none">>, <<"r", "r">>},
        by \in {"el1", "el0"}, o \in {"read", "write"}}
    \cup {<<"r", "r", px, ux, by, "execute">> :
             px \in BOOLEAN, ux \in BOOLEAN, by \in {"el1", "el0"}}
SinglePrivilegeCases == {"r", "rw"} \X BOOLEAN \X {"read", "write", "execute"}

Stage2Leaves ==
    {<<"4k", n>> : n \in 0..3} \cup {<<"16k", n>> : n \in 1..3}
    \cup {<<"64k", n>> : n \in 1..3}
Stage2Skipped == {<<"4k", n>> : n \in 1..3} \cup {<<"16k", 2>>, <<"16k", 3>>, <<"64k", 3>>}
SkippedFaults == {<<"4k", 1>>, <<"16k", 2>>}

\* Vmsa64, LPA2 and the alternate physical space run the same script.
Stage2Bodies ==
    [n \in {<<"stage2_leaf", l, o>> : l \in Stage2Leaves, o \in Observations} |->
        stage2_leaf(n[2][1], n[2][2], n[3])]
    @@ [n \in {<<"stage2_d128_leaf", l, o>> : l \in Stage2Leaves, o \in Observations} |->
           stage2_d128_leaf(n[2][1], D128Span(n[2][1], n[2][2]), High, n[3])]
    @@ [n \in {<<"stage2_boundary", g>> : g \in {"4k", "16k", "64k"}} |->
           standard_boundary(n[2])]
    @@ [n \in {<<"stage2_d128_boundary", g, TRUE>> : g \in {"4k", "16k", "64k"}}
              \cup {<<"stage2_d128_boundary", "4k", FALSE>>} |->
           d128_boundary(n[2], n[3])]
    @@ [n \in {<<"stage2_d128_skl", l>> : l \in Stage2Skipped} |->
           d128_skl_access(n[2][1], n[2][2])]
    @@ [n \in {<<"stage2_d128_skl_fault", l, s>> :
                  l \in SkippedFaults, s \in {"AccessFlag", "Permission"}} |->
           d128_skl_fault(n[2][1], n[2][2], n[3])]
    @@ [n \in {<<"stage2_permission", c>> : c \in Stage2Cases} |->
           vmsa64_permission_case(n[2][1], n[2][2], n[2][3], n[2][4])]
    @@ [n \in {<<"single_privilege", c>> : c \in SinglePrivilegeCases} |->
           single_privilege_case(n[2][1], n[2][2], n[2][3])]
    @@ [n \in {<<"two_privilege", c>> : c \in TwoPrivilegeCases} |->
           two_privilege_case(n[2][1], n[2][2], n[2][3], n[2][4], n[2][5], n[2][6])]

\* The bodies that execute where one privilege may and the other may not.
UnequalExecution ==
    {<<"stage2_permission", c>> : c \in {k \in Stage2Cases : k[2] # k[3]}}
    \cup {<<"two_privilege", c>> :
             c \in {k \in TwoPrivilegeCases : k[3] # k[4] /\ k[6] = "execute"}}

\* The bodies that expect a fault.
Denied(steps, status) ==
    \E i \in DOMAIN steps : steps[i].do = "fault" /\ steps[i].status = status
DeniedBodies == {n \in DOMAIN Stage2Bodies : Denied(Stage2Bodies[n], "Permission")}
SkippedFlagBodies == {n \in DOMAIN Stage2Bodies : Denied(Stage2Bodies[n], "AccessFlag")}
=============================================================================
