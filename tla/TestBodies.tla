----------------------------- MODULE TestBodies -----------------------------
(***************************************************************************)
(* Test bodies of target/payloads/common run one after the other on a PE.  *)
(* A body that passes on the hardware it was tried on may still depend on  *)
(* what that hardware's TLBs happened to hold; here they may hold anything *)
(* the architecture allows, also what an earlier test left in them.  And a *)
(* body that passes shows something only if it fails on a PE without the   *)
(* property it is about: that is what the defective machines are for.      *)
(***************************************************************************)
EXTENDS LiveTranslation, BodiesInvalidation, BodiesFormats, BodiesAccess,
        BodiesStage2, BodiesPermissions, BodiesRecovery

CONSTANT MaxRun     \* bound: the tests of a boot

VARIABLES
    m,          \* the machine
    body,       \* the name of the body that runs
    at,         \* its next step
    owned,      \* the roots each translation owns (LiveTranslation::roots)
    verdict,    \* "running", "pass" or "fail"
    ran         \* tests begun

vars == <<m, body, at, owned, verdict, ran>>

Bodies == InvalidationBodies @@ FormatBodies @@ AccessBodies
          @@ Stage2Bodies @@ PermissionCheckBodies @@ RecoveryBodies

Stages == {"current", "lower", "stage2"}
Idle == [current |-> Off, lower |-> Off, stage2 |-> Off]
Nothing == [current |-> {}, lower |-> {}, stage2 |-> {}]
NoUpdates == [current |-> "none", lower |-> "none", stage2 |-> "none"]

-----------------------------------------------------------------------------
(* What each step of a body may answer and leave, from a machine n and the *)
(* roots own: as a set, since an access may go through any translation the *)
(* TLBs may hold.                                                          *)

\* The call answered as the body expects, or not, and then nothing matters.
Result(n, own, fine, after) ==
    [fine |-> fine, m |-> IF fine THEN after ELSE n, owned |-> own]
Performed(n, own, fine, after) == {Result(n, own, fine, after)}

\* A crate that swaps privileged and unprivileged execution writes it so.
Encoded(n, attr) ==
    IF n.defect # "swapped" THEN attr
    ELSE {CASE a = "px" -> "ux" [] a = "ux" -> "px" [] OTHER -> a : a \in attr}
EncodedLeaf(n, leaf) == [leaf EXCEPT !.attr = Encoded(n, @)]

\* What the crate answers to a body that only calls it.
Compared(n, own, s) == Performed(n, own, n.defect \notin s.failing, n)

\* allocate_root, and the offline mapper on a root that is not installed.
Allocated(n, own, s) ==
    Performed(n, own, s.root \notin DOMAIN n.tables,
              [n EXCEPT !.tables = (s.root :> [frame |-> s.frame, leaves |-> {}]) @@ @])
MappedOffline(n, own, s) ==
    Performed(n, own, (\A t \in Stages : RootOf(n, t) # s.root) /\ Mappable(n, s.root, s.leaf),
              WithLeaves(n, s.root, n.tables[s.root].leaves \cup {EncodedLeaf(n, s.leaf)}))
RemovedOffline(n, own, s) ==
    Performed(n, own, MappedAt(n, s.root, s.in) # {},
              WithLeaves(n, s.root, n.tables[s.root].leaves \ MappedAt(n, s.root, s.in)))
Damaged(n, own, s) ==
    Performed(n, own, MappedAt(n, s.root, s.in) # {},
              WithLeaves(n, s.root,
                  {IF leaf.in = s.in THEN [leaf EXCEPT !.attr = @ \cup {s.how}] ELSE leaf :
                      leaf \in n.tables[s.root].leaves}))

\* Memory seen through the mapping of the payload itself.
Poked(n, own, s) == Performed(n, own, TRUE, Stored(n, s.page, s.value))
Peeked(n, own, s) == Performed(n, own, Contents(n, s.page) = s.value, n)

\* install_owned, install_lower_owned, install_combined_owned.
Installed(n, own, s) ==
    Performed(n, [own EXCEPT ![s.stage] = {s.root}], ~On(n, s.stage),
              InstalledOn(n, s.stage, s.root, s.id))

\* restore, restore_owned.
Restored(n, own, s) ==
    Performed(n, [own EXCEPT ![s.stage] = {}], On(n, s.stage), RestoredOff(n, s.stage))

\* adopt_and_switch_*: three roots at most.
Adopted(n, own, s) ==
    Performed(n, [own EXCEPT ![s.stage] = @ \cup {s.root}],
              On(n, s.stage) /\ Cardinality(own[s.stage]) < 3,
              Switched(n, s.stage, s.root, s.id))

\* switch_*_root.
SwitchedBack(n, own, s) ==
    Performed(n, own, s.root \in own[s.stage], Switched(n, s.stage, s.root, s.id))

\* map, map_for, map_range.
MappedLive(n, own, s) ==
    Performed(n, own, On(n, s.stage) /\ Mappable(n, RootOf(n, s.stage), s.leaf),
              Inserted(n, s.stage, EncodedLeaf(n, s.leaf)))

Found(n, s) == On(n, s.stage) /\ MappedAt(n, RootOf(n, s.stage), s.page) # {}

\* unmap, unmap_for, unmap_reclaim.
UnmappedLive(n, own, s) == Performed(n, own, Found(n, s), Removed(n, s.stage, s.page))
ReclaimedLive(n, own, s) == Performed(n, own, Found(n, s), Reclaimed(n, s.stage, s.page))

\* protect, remap, break_before_make and their _for forms.
ReplacedLive(n, own, s) ==
    Performed(n, own, Found(n, s), Replaced(n, s.stage, s.page, s.out, Encoded(n, s.attr)))

\* A replacement the crate refuses after the old leaf was removed.
Refilled(n, own, s) == Performed(n, own, Found(n, s), RolledBack(n, s.stage, s.page))

Inspected(n, own, s) == Performed(n, own, On(n, s.stage) /\ ~Found(n, s), n)

\* An operation that fails because it was asked to.
Failed(n, own, s) ==
    Performed(n, IF s.point = "TranslationRestoration" THEN [own EXCEPT ![s.step.stage] = {}]
                 ELSE own,
              TRUE, AfterInjected(n, s.point, s.step))

\* tlbi, tlbi_scoped: a refused operation does nothing.
Maintained(n, own, s) ==
    LET accepted == On(n, s.stage) /\ TlbiAccepted(n, s.stage, s.tlbi)
    IN  Performed(n, own, accepted = s.accepted,
                  IF accepted THEN AfterTlbi(n, s.stage, s.tlbi) ELSE n)

\* enable_hardware_updates and its kin: one guard at a time.
Updating(n, own, s) ==
    Performed(n, own, s.mode # "none" => n.updates[s.stage] = "none",
              [n EXCEPT !.updates[s.stage] = s.mode])

\* One session at a time; its end stops the other PE.
Joined(n, own, s) == Performed(n, own, n.secondary # s.on, [n EXCEPT !.secondary = s.on])

\* What an access by address reaches when nothing goes wrong.
Coherent(n, own, s) ==
    {Result(n, own, TRUE, MadeCoherent(n, x.page)) :
        x \in {y \in MayUse(n, Through(s.by), s.page) : y.status = "ok"}}

Executed(n, own, s) ==
    UNION {LET y == Permitted(n, x, s.by, "execute")
           IN  IF y.status # "ok" THEN Performed(n, own, FALSE, n)
               ELSE {Result(n, own, fresh /\ Contents(n, y.page) = s.value,
                            Keep(n, Through(s.by), s.page)) : fresh \in FetchedFresh(n, y.page)} :
           x \in MayUse(n, Through(s.by), s.page)}

\* A read, a write, an atomic update or an address translation.
Accessed(n, own, s) ==
    LET stage == Through(s.by)
        kind == IF s.do \in {"read", "query"} THEN "read" ELSE "write"
        kept == Keep(Marks(n, stage, s.page, kind), stage, s.page)
        One(x) ==
            LET y == Permitted(n, x, s.by, kind)
            IN  IF y.status # "ok" \/ (s.by = "secondary" /\ ~n.secondary)
                THEN Result(n, own, FALSE, n)
                ELSE CASE s.do = "read" ->
                              Result(n, own, s.value \in {Anything, Contents(n, y.page)}, kept)
                       [] s.do = "write" -> Result(n, own, TRUE, Stored(kept, y.page, s.value))
                       [] s.do = "update" ->
                              Result(n, own, Contents(n, y.page) = s.value,
                                     Stored(kept, y.page, s.new))
                       [] s.do = "query" -> Result(n, own, y.page = s.out, kept)
    IN  {One(x) : x \in MayUse(n, stage, s.page)}

\* An access that must fault (expect_fault, FaultMatcher::matches).
Faulted(n, own, s) ==
    LET Matches(y) == y.status = s.status /\ (s.stage # 0 => y.stage = s.stage)
    IN  {Result(n, own, Matches(Permitted(n, x, s.by, s.kind)), Keep(n, Through(s.by), s.page)) :
            x \in MayUse(n, Through(s.by), s.page)}

NoTables == "none" :> [frame |-> 0, leaves |-> {}]

\* The body returns; what it still holds is dropped, stage 2 first.
Dropped(n) ==
    LET Drop(k, t) == IF On(k, t) THEN RestoredOff(k, t) ELSE k
    IN  Drop(Drop(Drop(n, "stage2"), "lower"), "current")

\* The machine the first test finds.
Machine(tlb, defect) ==
    [tables |-> NoTables,
     regs |-> Idle, updates |-> NoUpdates,
     memory |-> [p \in {} |-> 0], coherent |-> {}, secondary |-> FALSE,
     tlb |-> tlb, defect |-> defect]

\* run_suite: the arena is zeroed; the TLBs are not invalidated.
Renewed(n) == [Machine(n.tlb, n.defect) EXCEPT !.regs = n.regs]

-----------------------------------------------------------------------------
(* The suite.                                                              *)

Init ==
    /\ \E d \in Defects \cup CrateDefects \cup {"nothing"} : m = Machine({}, d)
    /\ body \in DOMAIN Bodies
    /\ m.defect \in CrateDefects \ {"swapped"} => body \in DOMAIN PermissionCheckBodies
    /\ at = 1
    /\ owned = Nothing
    /\ verdict = "running"
    /\ ran = 1

Step == Bodies[body][at]

\* A body fails at the first call that answers otherwise than it expects.
Takes(r) ==
    /\ m' = r.m /\ owned' = r.owned
    /\ verdict' = IF r.fine THEN "running" ELSE "fail"
    /\ at' = at + 1
    /\ UNCHANGED <<body, ran>>

Checking(s) == s.do = "check" /\ \E r \in Compared(m, owned, s) : Takes(r)

Prepare(s) ==
    \/ s.do = "root" /\ \E r \in Allocated(m, owned, s) : Takes(r)
    \/ s.do = "offline" /\ \E r \in MappedOffline(m, owned, s) : Takes(r)
    \/ s.do = "remove" /\ \E r \in RemovedOffline(m, owned, s) : Takes(r)
    \/ s.do = "damage" /\ \E r \in Damaged(m, owned, s) : Takes(r)

Direct(s) ==
    \/ s.do = "poke" /\ \E r \in Poked(m, owned, s) : Takes(r)
    \/ s.do = "peek" /\ \E r \in Peeked(m, owned, s) : Takes(r)

DoInstall(s) == s.do = "install" /\ \E r \in Installed(m, owned, s) : Takes(r)
DoRestore(s) == s.do = "restore" /\ \E r \in Restored(m, owned, s) : Takes(r)
DoAdopt(s) == s.do = "adopt" /\ \E r \in Adopted(m, owned, s) : Takes(r)
DoSwitch(s) == s.do = "switch" /\ \E r \in SwitchedBack(m, owned, s) : Takes(r)
DoMap(s) == s.do = "map" /\ \E r \in MappedLive(m, owned, s) : Takes(r)
\* Bug: the translations are not invalidated once the descriptor is.
DoUnmap_Bug(s) ==
    /\ s.do = "unmap"
    /\ LET root == RootOf(m, s.stage)
       IN  \E r \in Performed(m, owned, Found(m, s),
                        WithLeaves(m, root,
                            m.tables[root].leaves \ MappedAt(m, root, s.page))) :
               Takes(r)
DoUnmap(s) ==
    \/ s.do = "unmap" /\ \E r \in UnmappedLive(m, owned, s) : Takes(r)
    \/ s.do = "reclaim" /\ \E r \in ReclaimedLive(m, owned, s) : Takes(r)
DoReplace(s) == s.do = "replace" /\ \E r \in ReplacedLive(m, owned, s) : Takes(r)
DoRollback(s) == s.do = "rollback" /\ \E r \in Refilled(m, owned, s) : Takes(r)
DoInspect(s) == s.do = "unmapped" /\ \E r \in Inspected(m, owned, s) : Takes(r)
DoInjected(s) == s.do = "injected" /\ \E r \in Failed(m, owned, s) : Takes(r)
DoTlbi(s) == s.do = "tlbi" /\ \E r \in Maintained(m, owned, s) : Takes(r)
DoUpdates(s) == s.do = "updates" /\ \E r \in Updating(m, owned, s) : Takes(r)
DoSecondary(s) == s.do = "secondary" /\ \E r \in Joined(m, owned, s) : Takes(r)
DoCoherent(s) == s.do = "coherent" /\ \E r \in Coherent(m, owned, s) : Takes(r)
Execution(s) == s.do = "execute" /\ \E r \in Executed(m, owned, s) : Takes(r)
Access(s) == s.do \in {"read", "write", "update", "query"} /\ \E r \in Accessed(m, owned, s) : Takes(r)
FaultingAccess(s) == s.do = "fault" /\ \E r \in Faulted(m, owned, s) : Takes(r)

\* The body's next call.
Running ==
    /\ verdict = "running" /\ at <= Len(Bodies[body])
    /\ \E s \in {Step} :
          \/ Checking(s) \/ Prepare(s) \/ Direct(s)
          \/ DoInstall(s) \/ DoRestore(s) \/ DoAdopt(s) \/ DoSwitch(s)
          \/ DoMap(s) \/ DoUnmap(s) \/ DoReplace(s) \/ DoTlbi(s) \/ DoUpdates(s)
          \/ DoRollback(s) \/ DoInspect(s) \/ DoInjected(s)
          \/ DoSecondary(s) \/ DoCoherent(s) \/ Execution(s)
          \/ Access(s) \/ FaultingAccess(s)

Finish ==
    /\ verdict = "running" /\ at > Len(Bodies[body])
    /\ verdict' = "pass"
    /\ m' = Dropped(m)
    /\ owned' = Nothing
    /\ UNCHANGED <<body, at, ran>>

NextTest ==
    /\ verdict = "pass" /\ ran < MaxRun /\ m.defect = "nothing"
    /\ body' \in DOMAIN Bodies
    /\ at' = 1
    /\ verdict' = "running"
    /\ ran' = ran + 1
    /\ m' = Renewed(m)
    /\ UNCHANGED owned

Next == Running \/ Finish \/ NextTest

Spec == Init /\ [][Next]_vars

-----------------------------------------------------------------------------
(* Properties.                                                             *)

\* No body fails on a PE that conforms, whatever its TLBs hold, fetch ahead
\* and forget, and whatever test ran before it.
ConformingPePasses == m.defect = "nothing" => verdict # "fail"

\* The bodies that are there to show that a PE invalidates, keeps address
\* spaces apart and checks permissions fail on one that does not, and those
\* that compare what the crate answers on a crate that answers otherwise.  A
\* codec that swaps privileges when it writes and when it reads is for the
\* bodies that execute to find: a round trip through it is unchanged.
Detects ==
    [address |-> AddressBodies, invalidate |-> AddressBodies \cup FullBodies,
     asid |-> {<<"lower_stage1_asid_isolation">>},
     vmid |-> {<<"stage2_vmid_isolation">>}, permission |-> PermissionBodies \cup DeniedBodies,
     accessflag |-> AccessFlagBodies \cup SkippedFlagBodies, form |-> FormBodies, update |-> UpdateBodies,
     icache |-> {<<"generated_execution">>}]
    @@ PermissionDetects @@ [swapped |-> UnequalExecution]

DefectsAreReported ==
    verdict = "pass" /\ m.defect # "nothing" => body \notin Detects[m.defect]
=============================================================================
