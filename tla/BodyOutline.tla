----------------------------- MODULE BodyOutline -----------------------------
(***************************************************************************)
(* A proof outline of the test bodies on a PE that conforms: a machine for *)
(* each place in each body, whose TLBs hold all that they may hold there,  *)
(* whatever tests ran before.                                              *)
(***************************************************************************)
EXTENDS TestBodies

CONSTANTS
    Outline,    \* for each body, the machine and the roots owned before each step
    Leftover    \* what tests may leave in the TLBs

Outcomes(n, own, s) ==
    CASE s.do = "check" -> Compared(n, own, s)
      [] s.do = "root" -> Allocated(n, own, s)
      [] s.do = "offline" -> MappedOffline(n, own, s)
      [] s.do = "remove" -> RemovedOffline(n, own, s)
      [] s.do = "damage" -> Damaged(n, own, s)
      [] s.do = "poke" -> Poked(n, own, s)
      [] s.do = "peek" -> Peeked(n, own, s)
      [] s.do = "install" -> Installed(n, own, s)
      [] s.do = "restore" -> Restored(n, own, s)
      [] s.do = "adopt" -> Adopted(n, own, s)
      [] s.do = "switch" -> SwitchedBack(n, own, s)
      [] s.do = "map" -> MappedLive(n, own, s)
      [] s.do = "unmap" -> UnmappedLive(n, own, s)
      [] s.do = "reclaim" -> ReclaimedLive(n, own, s)
      [] s.do = "replace" -> ReplacedLive(n, own, s)
      [] s.do = "rollback" -> Refilled(n, own, s)
      [] s.do = "unmapped" -> Inspected(n, own, s)
      [] s.do = "injected" -> Failed(n, own, s)
      [] s.do = "tlbi" -> Maintained(n, own, s)
      [] s.do = "updates" -> Updating(n, own, s)
      [] s.do = "secondary" -> Joined(n, own, s)
      [] s.do = "coherent" -> Coherent(n, own, s)
      [] s.do = "execute" -> Executed(n, own, s)
      [] s.do \in {"read", "write", "update", "query"} -> Accessed(n, own, s)
      [] s.do = "fault" -> Faulted(n, own, s)

OnStages == {"install", "restore", "adopt", "switch", "map", "unmap", "reclaim", "replace",
             "rollback", "unmapped", "tlbi"}
OnStage == {"TranslationRestoration", "PartialCombinedInstallation"}

IsMachine(n) ==
    n = [tables |-> n.tables, regs |-> n.regs, updates |-> n.updates, memory |-> n.memory,
         coherent |-> n.coherent, secondary |-> n.secondary, tlb |-> n.tlb,
         defect |-> n.defect]

\* A step that asks for something there is.
IsStep(s) ==
    /\ s.do \in {"check", "root", "offline", "remove", "damage", "poke", "peek", "updates",
                 "secondary", "coherent", "execute", "read", "write", "update", "query",
                 "fault", "injected"} \cup OnStages
    /\ s.do \in OnStages => s.stage \in Stages
    /\ s.do = "tlbi" => s.tlbi.kind \in {"all", "vmid", "asid", "va", "ipa", "unaligned"}
    /\ s.do = "injected" =>
          /\ s.point \in NothingDone \cup OnStage \cup {"SecondaryPeStop", "LowerElReturn"}
          /\ s.point \in OnStage => s.step.stage \in Stages

\* The same machine, but for what its TLBs may hold: no more than the other's.
Below(a, b) == a = WithTlb(b, a.tlb) /\ a.tlb \subseteq b.tlb

Fresh(leftover) == Machine(leftover, "nothing")

\* Each body begins on TLBs with all of leftover, no step of it answers otherwise
\* than it expects, and it leaves no more.
IsOutline(outline, leftover) ==
    \A b \in DOMAIN Bodies :
        LET places == outline[b]
            sequence == Bodies[b]
        IN  /\ Len(sequence) \in Nat
            /\ \A i \in 1..Len(sequence) : IsStep(sequence[i])
            /\ \A i \in 1..(Len(sequence) + 1) :
                  IsMachine(places[i].m) /\ places[i].m.defect = "nothing"
            /\ places[1].m = Fresh(leftover) /\ places[1].owned = Nothing
            /\ \A i \in 1..Len(sequence) :
                  \A r \in Outcomes(places[i].m, places[i].owned, sequence[i]) :
                      /\ r.fine
                      /\ Below(r.m, places[i + 1].m)
                      /\ r.owned = places[i + 1].owned
            /\ Below(Renewed(Dropped(places[Len(sequence) + 1].m)), Fresh(leftover))

ASSUME OutlineAssumption == IsOutline(Outline, Leftover)
=============================================================================
