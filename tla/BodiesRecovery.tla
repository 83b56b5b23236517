--------------------------- MODULE BodiesRecovery ---------------------------
(***************************************************************************)
(* The bodies that have an operation fail and go on (recovery.rs,          *)
(* target/payloads/common), and what the harness has done and undone when  *)
(* the failure it was asked for comes (context.rs).                        *)
(*                                                                         *)
(* Every point of failure is checked before its operation begins, that of  *)
(* an invalidation included: no body makes one fail after the descriptor   *)
(* was cleared.  What is undone is undone by the guard that is dropped.    *)
(***************************************************************************)
EXTENDS LiveTranslation

\* The points at which nothing has happened yet, or nothing is left of it: a
\* second PE that does not come is released again.
NothingDone ==
    {"Page", "Contiguous", "Root", "Map", "Remap", "Protect", "Unmap",
     "Invalidation", "Barrier", "Tlbi", "TranslationInstallation", "LowerElEntry",
     "LowerElAction", "SecondaryPeStartup", "SecondaryPeRendezvous",
     "SecondaryPeAction", "SecondaryPeTimeout"}

\* The machine after operation s failed at a point.
AfterInjected(m, point, s) ==
    CASE point \in NothingDone -> m
      [] point = "TranslationRestoration" -> RestoredOff(m, s.stage)
      [] point = "PartialCombinedInstallation" ->
             RestoredOff(InstalledOn(m, s.stage, s.root, s.id), s.stage)
      [] point = "SecondaryPeStop" -> [m EXCEPT !.secondary = FALSE]
      [] point = "LowerElReturn" -> Keep(m, Through(s.by), s.page)

\* with_harness_failure, with_memory_failure.
Injected(point, step) == [do |-> "injected", point |-> point, step |-> step]

\* replace_live_mapping with an output the crate refuses: the old leaf returns.
RolledBack(m, stage, page) ==
    LET old == CHOOSE leaf \in MappedAt(m, RootOf(m, stage), page) : TRUE
    IN  Inserted(Removed(m, stage, page), stage, old)
Refuse(stage, page) == [do |-> "rollback", stage |-> stage, page |-> page]

\* inspect finds nothing.
Unmapped(stage, page) == [do |-> "unmapped", stage |-> stage, page |-> page]

-----------------------------------------------------------------------------

\* A read through a translation of its own, with memory that is left.
fresh_access_sentinel(first) ==
    LET address == \h65600
    IN  <<Poke(Arena(first), 3), AllocateRoot("fresh", Arena(first + 1)),
          Install("current", "fresh", 0), Map("current", address, Arena(first), 3, RW),
          Read("self", address, 3), Restore("current")>>

allocation_failure(point) ==
    <<Injected(point, AllocateRoot("retry", Arena(0))), AllocateRoot("retry", Arena(0))>>
    \o fresh_access_sentinel(1)

installation_failure(stage, id) ==
    <<AllocateRoot("root", Arena(0)),
      Injected("TranslationInstallation", Install(stage, "root", id)),
      AllocateRoot("retry", Arena(1)), Install(stage, "retry", id), Restore(stage)>>
    \o fresh_access_sentinel(2)
current_installation_failure == installation_failure("current", 0)
lower_installation_failure == installation_failure("lower", \h51)

partial_combined_installation_failure ==
    <<AllocateRoot("stage1", Arena(0)), AllocateRoot("stage2", Arena(1)),
      Injected("PartialCombinedInstallation", Install("lower", "stage1", \h51)),
      AllocateRoot("retry1", Arena(2)), AllocateRoot("retry2", Arena(3)),
      Install("lower", "retry1", \h51), Install("stage2", "retry2", \h52),
      Restore("stage2"), Restore("lower")>>
    \o fresh_access_sentinel(4)

lower_phase_failure(point) ==
    <<Poke(Arena(0), 1), Injected(point, Read("el1", Arena(0), 1)),
      Read("el1", Arena(0), 1)>>
    \o fresh_access_sentinel(1)

secondary_session_creation_failure(point) ==
    <<Injected(point, Secondary(TRUE)), Secondary(TRUE), Secondary(FALSE)>>
    \o fresh_access_sentinel(0)

secondary_access_failure(point) ==
    LET address == \h65700
    IN  <<Poke(Arena(0), 1), AllocateRoot("root", Arena(1)), Install("current", "root", 0),
          Map("current", address, Arena(0), 3, RW), Secondary(TRUE),
          Injected(point, Read("secondary", address, 1)), Read("secondary", address, 1),
          Secondary(FALSE), Restore("current")>>
        \o fresh_access_sentinel(2)

secondary_stop_failure ==
    <<Secondary(TRUE), Injected("SecondaryPeStop", Secondary(FALSE)),
      Secondary(TRUE), Secondary(FALSE)>>
    \o fresh_access_sentinel(0)

\* A page mapped in a translation of the test, and what follows.
Mapped(address, pages, Steps) ==
    [n \in 1..pages |-> Poke(Arena(n - 1), n)]
    \o <<AllocateRoot("root", Arena(pages)), Install("current", "root", 0),
         Map("current", address, Arena(0), 3, RW)>>
    \o Steps \o <<Restore("current")>> \o fresh_access_sentinel(pages + 1)

\* Remapping another page fails, and then does not.
RemapFails(point, address) ==
    <<Injected(point, Remap("current", address, Arena(1), RW)),
      Read("self", address, 1),
      Remap("current", address, Arena(1), RW), Read("self", address, 2)>>

invalidation_failure == Mapped(\h65800, 2, RemapFails("Invalidation", \h65800))

barrier_failure ==
    <<Injected("Barrier", MakeCoherent("self", Arena(0))), MakeCoherent("self", Arena(0))>>
    \o fresh_access_sentinel(1)

tlbi_failure ==
    Mapped(\h65900, 1,
           <<Injected("Tlbi", Invalidate("current", Va(\h65900))),
             Read("self", \h65900, 1), Invalidate("current", Va(\h65900))>>)

\* The guard restores when it is dropped, after a restoration that failed too.
explicit_restore_failure ==
    <<AllocateRoot("root", Arena(0)), Install("current", "root", 0),
      Injected("TranslationRestoration", Restore("current"))>>
    \o fresh_access_sentinel(1)
drop_restore ==
    <<AllocateRoot("root", Arena(0)), Install("current", "root", 0), Restore("current")>>
    \o fresh_access_sentinel(1)

mapper_map_failure ==
    LET address == \h65000
    IN  <<AllocateRoot("root", Arena(1)), Install("current", "root", 0),
          Injected("Map", Map("current", address, Arena(0), 3, RW)),
          Unmapped("current", address), Map("current", address, Arena(0), 3, RW),
          Write("self", address, 1), Restore("current")>>
        \o fresh_access_sentinel(2)

mapper_range_failure ==
    LET address == \h65100
        range == MapRange("current", address, Arena(0), 2, RW)
    IN  <<AllocateRoot("root", Arena(2)), Install("current", "root", 0),
          Injected("Map", range[1]), Unmapped("current", address),
          Unmapped("current", address + 1)>>
        \o range \o <<Restore("current")>> \o fresh_access_sentinel(3)

mapper_remap_failure ==
    LET address == \h65200
    IN  Mapped(address, 2,
               <<Refuse("current", address), Read("self", address, 1)>>
               \o RemapFails("Remap", address))

mapper_protect_failure ==
    LET address == \h65300
    IN  Mapped(address, 1,
               <<Injected("Protect", Protect("current", address, RO)),
                 Write("self", address, 1), Protect("current", address, RO),
                 Faults("self", address, "write", "Permission", 0)>>)

mapper_unmap_failure_case(reclaim) ==
    LET address == \h65400
        unmap == IF reclaim THEN UnmapReclaim("current", address) ELSE Unmap("current", address)
    IN  Mapped(address, 1,
               <<Write("self", address, 1), Injected("Unmap", unmap), Read("self", address, 1),
                 unmap, Faults("self", address, "read", "Translation", 1)>>)

-----------------------------------------------------------------------------

RecoveryBodies ==
    Singles([current_installation_failure |-> current_installation_failure,
             lower_installation_failure |-> lower_installation_failure,
             partial_combined_installation_failure |-> partial_combined_installation_failure,
             secondary_stop_failure |-> secondary_stop_failure,
             invalidation_failure |-> invalidation_failure,
             barrier_failure |-> barrier_failure, tlbi_failure |-> tlbi_failure,
             explicit_restore_failure |-> explicit_restore_failure,
             drop_restore |-> drop_restore, mapper_map_failure |-> mapper_map_failure,
             mapper_range_failure |-> mapper_range_failure,
             mapper_remap_failure |-> mapper_remap_failure,
             mapper_protect_failure |-> mapper_protect_failure,
             mapper_unmap_failure |-> mapper_unmap_failure_case(FALSE),
             mapper_reclaim_failure |-> mapper_unmap_failure_case(TRUE)])
    @@ Family("allocation_failure", {<<p>> : p \in {"Page", "Contiguous", "Root"}},
              LAMBDA p : allocation_failure(p[1]))
    @@ Family("lower_phase_failure",
              {<<p>> : p \in {"LowerElEntry", "LowerElAction", "LowerElReturn"}},
              LAMBDA p : lower_phase_failure(p[1]))
    @@ Family("secondary_session_creation_failure",
              {<<p>> : p \in {"SecondaryPeStartup", "SecondaryPeRendezvous"}},
              LAMBDA p : secondary_session_creation_failure(p[1]))
    @@ Family("secondary_access_failure",
              {<<p>> : p \in {"SecondaryPeAction", "SecondaryPeTimeout"}},
              LAMBDA p : secondary_access_failure(p[1]))
=============================================================================
