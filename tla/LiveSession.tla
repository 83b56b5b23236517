----------------------------- MODULE LiveSession -----------------------------
(***************************************************************************)
(* Any test body, as a client of the live translations: calls in any order *)
(* and with any arguments the harness accepts, on a PE that conforms.      *)
(* The bodies of TestBodies are some of these sequences; here is what all  *)
(* of them may rely on.                                                    *)
(*                                                                         *)
(* Three rules are the body's to keep, since nothing in context.rs checks  *)
(* them: each root has an identifier of its own, a VMID is not adopted     *)
(* again after it was in force, and what several VMIDs share is not taken  *)
(* away while more than one is in use.  Hardware updates stay off.         *)
(***************************************************************************)
EXTENDS LiveTranslation

CONSTANTS
    Roots,          \* root tables the arena can hand out
    Frame,          \* the page a root table is in
    Mappings,       \* the leaves a body may map
    Identifiers     \* ASIDs and VMIDs; 0 where a setup has none

ASSUME SessionAssumption ==
    /\ "none" \notin Roots
    /\ Frame \in [Roots -> Nat]
    /\ Mappings \subseteq
          [in : Nat, out : Nat, size : Nat \ {0}, attr : SUBSET STRING]
    /\ Identifiers \subseteq Nat /\ 0 \in Identifiers

VARIABLES
    machine,    \* the PE and the tables
    spaces,     \* for each translation, the root it owns under an identifier
    adopted     \* the VMIDs that were in force

vars == <<machine, spaces, adopted>>

Stages == {"current", "lower", "stage2"}

Unused == [id \in {} |-> "none"]
With(space, id, root) ==
    [i \in DOMAIN space \cup {id} |-> IF i = id THEN root ELSE space[i]]

Owned(root) == \E s \in Stages, id \in Identifiers :
                  id \in DOMAIN spaces[s] /\ spaces[s][id] = root

Init ==
    /\ machine = [tables |-> [r \in Roots |-> [frame |-> Frame[r], leaves |-> {}]],
                  regs |-> [s \in Stages |-> Off], tlb |-> {}, defect |-> "nothing"]
    /\ spaces = [s \in Stages |-> Unused]
    /\ adopted = {0}

-----------------------------------------------------------------------------
(* A root no translation owns.                                             *)

Offline(root, leaves) ==
    /\ ~Owned(root)
    /\ machine' = WithLeaves(machine, root, leaves)
    /\ UNCHANGED <<spaces, adopted>>

\* allocate_root: a zeroed table.
Allocate(root) == Offline(root, {})

MapOffline(root, leaf) ==
    /\ Mappable(machine, root, leaf)
    /\ Offline(root, machine.tables[root].leaves \cup {leaf})

UnmapOffline(root, page) ==
    /\ MappedAt(machine, root, page) # {}
    /\ Offline(root, machine.tables[root].leaves \ MappedAt(machine, root, page))

-----------------------------------------------------------------------------
(* Installing, switching, giving back.                                     *)

\* What other VMIDs than the one in force may still have in the TLB.
OneVmid == \A id \in DOMAIN spaces["stage2"] : id = Vmid(machine)

\* install_owned, install_lower_owned.
InstallRoot(stage, root, id) ==
    /\ ~On(machine, stage) /\ ~Owned(root)
    /\ machine' = InstalledOn(machine, stage, root, id)
    /\ spaces' = [spaces EXCEPT ![stage] = With(Unused, id, root)]
    /\ adopted' = IF stage = "stage2" THEN adopted \cup {id} ELSE adopted

\* adopt_and_switch_lower_stage1_root, adopt_and_switch_stage2_root: a
\* translation has room for three roots.
AdoptRoot(stage, root, id) ==
    /\ stage # "current" /\ On(machine, stage) /\ ~Owned(root)
    /\ Cardinality(DOMAIN spaces[stage]) < 3
    /\ id \notin DOMAIN spaces[stage]
    /\ stage = "stage2" => id \notin adopted
    /\ machine' = Switched(machine, stage, root, id)
    /\ spaces' = [spaces EXCEPT ![stage] = With(@, id, root)]
    /\ adopted' = IF stage = "stage2" THEN adopted \cup {id} ELSE adopted

\* switch_lower_stage1_root, switch_stage2_root.
SwitchRoot(stage, id) ==
    /\ stage # "current" /\ On(machine, stage)
    /\ id \in DOMAIN spaces[stage]
    /\ machine' = Switched(machine, stage, spaces[stage][id], id)
    /\ UNCHANGED <<spaces, adopted>>

\* restore, restore_owned and the guard's drop.
RestoreRoot(stage) ==
    /\ On(machine, stage)
    /\ stage = "lower" => OneVmid
    /\ machine' = RestoredOff(machine, stage)
    /\ spaces' = [spaces EXCEPT ![stage] = Unused]
    /\ UNCHANGED adopted

-----------------------------------------------------------------------------
(* The root in force.                                                      *)

Mapped(stage, page) ==
    On(machine, stage) /\ MappedAt(machine, RootOf(machine, stage), page) # {}

\* map, map_range one leaf at a time.
MapLeaf(stage, leaf) ==
    /\ On(machine, stage)
    /\ Mappable(machine, RootOf(machine, stage), leaf)
    /\ machine' = Inserted(machine, stage, leaf)
    /\ UNCHANGED <<spaces, adopted>>

\* unmap, unmap_reclaim.
UnmapLeaf(stage, page) ==
    /\ Mapped(stage, page)
    /\ stage = "lower" => OneVmid
    /\ \/ machine' = Removed(machine, stage, page)
       \/ machine' = Reclaimed(machine, stage, page)
    /\ UNCHANGED <<spaces, adopted>>

\* protect, remap, break_before_make: where the crate refuses the new leaf, the
\* old one is mapped again.
ReplaceLeaf(stage, page, out, attr) ==
    /\ Mapped(stage, page)
    /\ stage = "lower" => OneVmid
    /\ LET old == CHOOSE leaf \in MappedAt(machine, RootOf(machine, stage), page) : TRUE
           new == Leaf(page, out, old.size, attr)
       IN  /\ new \in Mappings
           /\ machine' =
                 IF Mappable(Removed(machine, stage, page), RootOf(machine, stage), new)
                 THEN Replaced(machine, stage, page, out, attr)
                 ELSE Replaced(machine, stage, page, -1, old.attr)
    /\ UNCHANGED <<spaces, adopted>>

\* tlbi, tlbi_scoped; a range is done one page after another.
ExplicitTlbi(stage, t) ==
    /\ On(machine, stage) /\ TlbiAccepted(machine, stage, t)
    /\ machine' = AfterTlbi(machine, stage, t)
    /\ UNCHANGED <<spaces, adopted>>

Pages == {leaf.in : leaf \in Mappings}
Touched == UNION {leaf.in..(leaf.in + leaf.size - 1) : leaf \in Mappings}
Outputs == {leaf.out : leaf \in Mappings}
Rights == {leaf.attr : leaf \in Mappings}
Tlbis == {All} \cup {Va(p) : p \in Pages} \cup {Ipa(p) : p \in Pages}
         \cup {OfAsid(id) : id \in Identifiers} \cup {OfVmid(id) : id \in Identifiers}

Next ==
    \/ \E root \in Roots :
          \/ Allocate(root)
          \/ \E leaf \in Mappings : MapOffline(root, leaf)
          \/ \E page \in Pages : UnmapOffline(root, page)
    \/ \E stage \in Stages :
          \/ \E root \in Roots, id \in Identifiers :
                InstallRoot(stage, root, id) \/ AdoptRoot(stage, root, id)
          \/ \E id \in Identifiers : SwitchRoot(stage, id)
          \/ RestoreRoot(stage)
          \/ \E leaf \in Mappings : MapLeaf(stage, leaf)
          \/ \E page \in Pages : UnmapLeaf(stage, page)
          \/ \E page \in Pages, out \in Outputs, attr \in Rights :
                ReplaceLeaf(stage, page, out, attr)
          \/ \E t \in Tlbis : ExplicitTlbi(stage, t)

Spec == Init /\ [][Next]_vars

-----------------------------------------------------------------------------
(* Properties.                                                             *)

\* What an access can go through is what it could go through with empty TLBs:
\* after each call every access obeys the tables as they are.
NoStaleTranslation ==
    \A stage \in {"current", "lower"}, page \in Touched :
        MayUse(machine, stage, page) = MayUse(WithTlb(machine, {}), stage, page)
=============================================================================
