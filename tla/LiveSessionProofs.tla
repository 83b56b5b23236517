-------------------------- MODULE LiveSessionProofs --------------------------
(***************************************************************************)
(* Proof that no access of a conforming PE goes through a translation the  *)
(* tables do not hold, for any roots, leaves and identifiers and any       *)
(* sequence of calls.  The TLBs may hold anything that was walked since an *)
(* identifier was last invalidated, so the inductive invariant speaks of   *)
(* every identifier in use, not only of those in force.                    *)
(***************************************************************************)
EXTENDS LiveSession, TLAPS

\* A machine on a PE that conforms.
IsMachine(m) ==
    /\ m = [tables |-> m.tables, regs |-> m.regs, tlb |-> m.tlb, defect |-> "nothing"]
    /\ m.tables \in [Roots -> [frame : Nat, leaves : SUBSET Mappings]]
    /\ m.regs \in [Stages -> [root : Roots \cup {"none"}, id : Identifiers]]

LeavesAt(m, root) == IF root = "none" THEN {} ELSE m.tables[root].leaves

\* Combined for any two roots, from their tables alone.
CombinedAt(m, one, two) ==
    IF one = "none" THEN {}
    ELSE IF two = "none" THEN {Alone(l) : l \in LeavesAt(m, one)}
    ELSE IF ~\E l \in LeavesAt(m, two) : Holds(l, m.tables[one].frame) THEN {}
    ELSE {Piece(p[1], p[2]) :
             p \in {q \in LeavesAt(m, one) \X LeavesAt(m, two) : Reached(q[1], q[2])}}

\* The identifiers and roots a translation owns; where there is no stage 2,
\* what is cached is cached under VMID 0.
InUse(sp, vmid) ==
    vmid \in DOMAIN sp["stage2"] \/ (DOMAIN sp["stage2"] = {} /\ vmid = 0)
Root2(sp, vmid) == IF vmid \in DOMAIN sp["stage2"] THEN sp["stage2"][vmid] ELSE "none"

\* What spaces may be, and what they say of the registers.
Ordered(sp, ad) ==
    /\ sp = [s \in Stages |-> sp[s]]
    /\ \A s \in Stages : \A id \in DOMAIN sp[s] : id \in Identifiers /\ sp[s][id] \in Roots
    /\ 0 \in ad /\ \A id \in DOMAIN sp["stage2"] : id \in ad
Apart(sp) ==
    \A s, t \in Stages : \A i \in DOMAIN sp[s], j \in DOMAIN sp[t] :
        sp[s][i] = sp[t][j] => s = t /\ i = j
InForce(m, sp) ==
    \A s \in Stages :
        \/ DOMAIN sp[s] = {} /\ m.regs[s] = Off
        \/ m.regs[s].id \in DOMAIN sp[s] /\ m.regs[s].root = sp[s][m.regs[s].id]
Setting(m, sp, ad) == IsMachine(m) /\ Ordered(sp, ad) /\ InForce(m, sp)

\* What the TLB may hold: of each identifier in use, what its tables say.
CurrentOk(m, e) ==
    e.stage = "current" /\ e.asid = m.regs["current"].id =>
        e.leaf \in {Alone(l) : l \in Leaves(m, "current")}
Stage2Ok(m, sp, e) ==
    e.stage = "stage2" /\ InUse(sp, e.vmid) => e.leaf \in LeavesAt(m, Root2(sp, e.vmid))
LowerOk(m, sp, e) ==
    e.stage = "lower" /\ InUse(sp, e.vmid) =>
        /\ e.asid \in DOMAIN sp["lower"]
        /\ e.leaf \in CombinedAt(m, sp["lower"][e.asid], Root2(sp, e.vmid))
Known(ad, e) == e.stage \in {"lower", "stage2"} => e.vmid \in ad
Ok(m, sp, ad, e) ==
    CurrentOk(m, e) /\ Stage2Ok(m, sp, e) /\ LowerOk(m, sp, e) /\ Known(ad, e)

Faithful(m, sp, ad) == \A e \in m.tlb : Ok(m, sp, ad, e)

\* The inductive invariant.
SessionInv ==
    /\ Setting(machine, spaces, adopted)
    /\ Apart(spaces)
    /\ Faithful(machine, spaces, adopted)

-----------------------------------------------------------------------------
(* Machines.                                                               *)

LEMMA TlbSet ==
  ASSUME NEW m, IsMachine(m), NEW entries
  PROVE  LET n == WithTlb(m, entries)
         IN  /\ IsMachine(n)
             /\ n.tables = m.tables /\ n.regs = m.regs /\ n.tlb = entries
<1> DEFINE t == m.tables  r == m.regs  b == m.tlb
<1>1. m = [tables |-> t, regs |-> r, tlb |-> b, defect |-> "nothing"]
  BY DEF IsMachine
<1>2. t \in [Roots -> [frame : Nat, leaves : SUBSET Mappings]]
      /\ r \in [Stages -> [root : Roots \cup {"none"}, id : Identifiers]]
  BY DEF IsMachine
<1> HIDE DEF t, r, b
<1>3. WithTlb(m, entries) = [tables |-> t, regs |-> r, tlb |-> entries, defect |-> "nothing"]
  BY <1>1 DEF WithTlb
<1> QED
  BY <1>1, <1>2, <1>3 DEF IsMachine

LEMMA LeavesSet ==
  ASSUME NEW m, IsMachine(m), NEW root \in Roots, NEW leaves \in SUBSET Mappings
  PROVE  LET n == WithLeaves(m, root, leaves)
         IN  /\ IsMachine(n)
             /\ n.regs = m.regs /\ n.tlb = m.tlb
             /\ n.tables[root].leaves = leaves
             /\ \A r \in Roots : n.tables[r].frame = m.tables[r].frame
             /\ \A r \in Roots \ {root} : n.tables[r] = m.tables[r]
<1> DEFINE t == m.tables  r == m.regs  b == m.tlb
<1>1. m = [tables |-> t, regs |-> r, tlb |-> b, defect |-> "nothing"]
  BY DEF IsMachine
<1>2. t \in [Roots -> [frame : Nat, leaves : SUBSET Mappings]]
      /\ r \in [Stages -> [root : Roots \cup {"none"}, id : Identifiers]]
  BY DEF IsMachine
<1> HIDE DEF t, r, b
<1> DEFINE u == [t EXCEPT ![root] = [frame |-> t[root].frame, leaves |-> leaves]]
<1>3. WithLeaves(m, root, leaves) = [tables |-> u, regs |-> r, tlb |-> b, defect |-> "nothing"]
  BY <1>1, <1>2 DEF WithLeaves
<1>4. /\ u \in [Roots -> [frame : Nat, leaves : SUBSET Mappings]]
      /\ u[root].leaves = leaves
      /\ \A q \in Roots : u[q].frame = t[q].frame
      /\ \A q \in Roots \ {root} : u[q] = t[q]
  BY <1>2
<1> HIDE DEF u
<1> QED
  BY <1>1, <1>2, <1>3, <1>4 DEF IsMachine

LEMMA RootSet ==
  ASSUME NEW m, IsMachine(m), NEW stage \in Stages, NEW root \in Roots \cup {"none"},
         NEW id \in Identifiers
  PROVE  LET n == WithRoot(m, stage, root, id)
         IN  /\ IsMachine(n)
             /\ n.tables = m.tables /\ n.tlb = m.tlb
             /\ n.regs[stage] = [root |-> root, id |-> id]
             /\ \A s \in Stages \ {stage} : n.regs[s] = m.regs[s]
<1> DEFINE t == m.tables  r == m.regs  b == m.tlb
<1>1. m = [tables |-> t, regs |-> r, tlb |-> b, defect |-> "nothing"]
  BY DEF IsMachine
<1>2. t \in [Roots -> [frame : Nat, leaves : SUBSET Mappings]]
      /\ r \in [Stages -> [root : Roots \cup {"none"}, id : Identifiers]]
  BY DEF IsMachine
<1> HIDE DEF t, r, b
<1> DEFINE u == [r EXCEPT ![stage] = [root |-> root, id |-> id]]
<1>3. WithRoot(m, stage, root, id) = [tables |-> t, regs |-> u, tlb |-> b, defect |-> "nothing"]
  BY <1>1, <1>2 DEF WithRoot
<1>4. /\ u \in [Stages -> [root : Roots \cup {"none"}, id : Identifiers]]
      /\ u[stage] = [root |-> root, id |-> id]
      /\ \A s \in Stages \ {stage} : u[s] = r[s]
  BY <1>2
<1> HIDE DEF u
<1> QED
  BY <1>1, <1>2, <1>3, <1>4 DEF IsMachine

-----------------------------------------------------------------------------
(* What is fetched.                                                        *)

\* Tables and registers decide what is true of an entry.
LEMMA SameOk ==
  ASSUME NEW m, NEW n, n.tables = m.tables, n.regs = m.regs, NEW sp, NEW ad, NEW e
  PROVE  /\ Ok(n, sp, ad, e) <=> Ok(m, sp, ad, e)
         /\ Stage2Ok(n, sp, e) <=> Stage2Ok(m, sp, e)
         /\ IsMachine(n) => (Setting(n, sp, ad) <=> IsMachine(n) /\ Ordered(sp, ad) /\ InForce(m, sp))
<1>1. \A root : LeavesAt(n, root) = LeavesAt(m, root)
  BY DEF LeavesAt
<1>2. Leaves(n, "current") = Leaves(m, "current")
  BY DEF Leaves, On
<1>3. \A one, two : CombinedAt(n, one, two) = CombinedAt(m, one, two)
  <2> SUFFICES ASSUME NEW one, NEW two
               PROVE  CombinedAt(n, one, two) = CombinedAt(m, one, two)
    OBVIOUS
  <2>1. LeavesAt(n, one) = LeavesAt(m, one) /\ LeavesAt(n, two) = LeavesAt(m, two)
    BY <1>1
  <2> QED
    BY <2>1, Zenon DEF CombinedAt
<1>4. CurrentOk(n, e) <=> CurrentOk(m, e)
  BY <1>2 DEF CurrentOk
<1>5. Stage2Ok(n, sp, e) <=> Stage2Ok(m, sp, e)
  BY <1>1 DEF Stage2Ok
<1>6. LowerOk(n, sp, e) <=> LowerOk(m, sp, e)
  BY <1>3 DEF LowerOk
<1>7. InForce(n, sp) <=> InForce(m, sp)
  BY DEF InForce
<1> QED
  BY <1>4, <1>5, <1>6, <1>7 DEF Ok, Setting

LEMMA FetchedIs ==
  ASSUME NEW m, NEW e \in Fetched(m)
  PROVE  \/ /\ e.stage = "current" /\ e.asid = m.regs["current"].id
            /\ e.leaf \in {Alone(l) : l \in Leaves(m, "current")}
         \/ /\ e.stage = "lower" /\ e.asid = Asid(m) /\ e.vmid = Vmid(m)
            /\ e.leaf \in Combined(m)
         \/ /\ e.stage = "stage2" /\ e.vmid = Vmid(m)
            /\ e.leaf \in Leaves(m, "stage2")
<1>1. CASE e \in {Entry("current", m.regs["current"].id, 0, Alone(one)) :
                    one \in {l \in Leaves(m, "current") : l.attr \cap Unusable = {}}}
  <2>1. PICK one \in Leaves(m, "current") :
               e = Entry("current", m.regs["current"].id, 0, Alone(one))
    BY <1>1
  <2> QED
    BY <2>1 DEF Entry
<1>2. CASE e \in {Entry("lower", Asid(m), Vmid(m), p) :
                    p \in {q \in Combined(m) : (q.attr \cup q.attr2) \cap Unusable = {}}}
  <2>1. PICK p \in Combined(m) : e = Entry("lower", Asid(m), Vmid(m), p)
    BY <1>2
  <2> QED
    BY <2>1 DEF Entry
<1>3. CASE e \in {Entry("stage2", 0, Vmid(m), two) :
                    two \in {l \in Leaves(m, "stage2") : l.attr \cap Unusable = {}}}
  <2>1. PICK two \in Leaves(m, "stage2") : e = Entry("stage2", 0, Vmid(m), two)
    BY <1>3
  <2> QED
    BY <2>1 DEF Entry
<1> QED
  BY <1>1, <1>2, <1>3 DEF Fetched

-----------------------------------------------------------------------------
(* Fetching and invalidating.                                              *)

LEMMA InForceFacts ==
  ASSUME NEW m, NEW sp, NEW ad, Setting(m, sp, ad)
  PROVE  /\ m.defect = "nothing"
         /\ InUse(sp, Vmid(m)) /\ Vmid(m) \in ad
         /\ Root2(sp, Vmid(m)) = m.regs["stage2"].root
         /\ \A s \in Stages : Leaves(m, s) = LeavesAt(m, m.regs[s].root)
         /\ On(m, "lower") => /\ Asid(m) \in DOMAIN sp["lower"]
                             /\ sp["lower"][Asid(m)] = m.regs["lower"].root
         /\ \A s \in Stages : On(m, s) <=> DOMAIN sp[s] # {}
<1>1. m.defect = "nothing"
  BY DEF Setting, IsMachine
<1>2. {"current", "lower", "stage2"} = Stages
  BY DEF Stages
<1>3. ASSUME NEW s \in Stages
      PROVE  /\ Leaves(m, s) = LeavesAt(m, m.regs[s].root)
             /\ On(m, s) <=> DOMAIN sp[s] # {}
             /\ On(m, s) => m.regs[s].id \in DOMAIN sp[s] /\ sp[s][m.regs[s].id] = m.regs[s].root
  <2>1. Leaves(m, s) = LeavesAt(m, m.regs[s].root)
    BY DEF Leaves, LeavesAt, On
  <2>2. CASE DOMAIN sp[s] = {} /\ m.regs[s] = Off
    BY <2>1, <2>2 DEF On, Off
  <2>3. CASE m.regs[s].id \in DOMAIN sp[s] /\ m.regs[s].root = sp[s][m.regs[s].id]
    <3>1. sp[s][m.regs[s].id] \in Roots
      BY <2>3 DEF Setting, Ordered
    <3> QED
      BY <2>1, <2>3, <3>1, SessionAssumption DEF On
  <2> QED
    BY <2>2, <2>3 DEF Setting, InForce
<1>4. InUse(sp, Vmid(m)) /\ Root2(sp, Vmid(m)) = m.regs["stage2"].root /\ Vmid(m) \in ad
  <2>1. CASE DOMAIN sp["stage2"] = {} /\ m.regs["stage2"] = Off
    BY <2>1 DEF InUse, Root2, Vmid, Off, Setting, Ordered
  <2>2. CASE /\ m.regs["stage2"].id \in DOMAIN sp["stage2"]
             /\ m.regs["stage2"].root = sp["stage2"][m.regs["stage2"].id]
    BY <2>2 DEF InUse, Root2, Vmid, Setting, Ordered
  <2> QED
    BY <1>2, <2>1, <2>2 DEF Setting, InForce
<1> QED
  BY <1>1, <1>2, <1>3, <1>4 DEF Asid

\* Where what is held of stage 2 is in its tables, so is what is combined with it.
LEMMA CombinedIs ==
  ASSUME NEW m, NEW sp, NEW ad, Setting(m, sp, ad),
         \A e \in m.tlb : Stage2Ok(m, sp, e)
  PROVE  /\ AnyStage2(m) = Leaves(m, "stage2")
         /\ Combined(m) = CombinedAt(m, m.regs["lower"].root, m.regs["stage2"].root)
<1>1. HeldStage2(m) \subseteq Leaves(m, "stage2")
  <2> SUFFICES ASSUME NEW e \in m.tlb, e.stage = "stage2", e.vmid = Vmid(m)
               PROVE  e.leaf \in Leaves(m, "stage2")
    BY DEF HeldStage2
  <2>1. e.leaf \in LeavesAt(m, Root2(sp, Vmid(m)))
    BY InForceFacts DEF Stage2Ok
  <2> QED
    BY <2>1, InForceFacts DEF Stages
<1>2. AnyStage2(m) = Leaves(m, "stage2")
  BY <1>1, InForceFacts DEF AnyStage2
<1>3. /\ Leaves(m, "stage2") = LeavesAt(m, m.regs["stage2"].root)
      /\ Leaves(m, "lower") = LeavesAt(m, m.regs["lower"].root)
  BY InForceFacts DEF Stages
<1>4. CASE ~On(m, "lower")
  <2>1. Combined(m) = {}
    BY <1>4 DEF Combined
  <2> QED
    BY <1>2, <1>4, <2>1 DEF CombinedAt, On
<1>5. CASE On(m, "lower") /\ ~On(m, "stage2")
  <2>1. TableReachable(m)
    BY <1>5 DEF TableReachable
  <2>2. Combined(m) = {Alone(one) : one \in Leaves(m, "lower")}
    BY <1>5, <2>1 DEF Combined
  <2> QED
    BY <1>2, <1>3, <1>5, <2>2 DEF CombinedAt, On
<1>6. CASE On(m, "lower") /\ On(m, "stage2")
  <2>1. TableReachable(m) <=> \E two \in LeavesAt(m, m.regs["stage2"].root) :
                                Holds(two, m.tables[m.regs["lower"].root].frame)
    BY <1>2, <1>3, <1>6 DEF TableReachable
  <2>2. m.regs["lower"].root # "none" /\ m.regs["stage2"].root # "none"
    BY <1>6 DEF On
  <2>3. Combined(m) = IF ~TableReachable(m) THEN {}
                      ELSE {Piece(p[1], p[2]) :
                              p \in {q \in LeavesAt(m, m.regs["lower"].root)
                                          \X LeavesAt(m, m.regs["stage2"].root) : Reached(q[1], q[2])}}
    BY <1>2, <1>3, <1>6, Zenon DEF Combined
  <2> QED
    BY <1>2, <2>1, <2>2, <2>3, Zenon DEF CombinedAt
<1> QED
  BY <1>2, <1>4, <1>5, <1>6

LEMMA FetchedOk ==
  ASSUME NEW m, NEW sp, NEW ad, Setting(m, sp, ad),
         \A e \in m.tlb : Stage2Ok(m, sp, e),
         NEW e \in Fetched(m)
  PROVE  Ok(m, sp, ad, e)
<1>1. CASE /\ e.stage = "current" /\ e.asid = m.regs["current"].id
           /\ e.leaf \in {Alone(l) : l \in Leaves(m, "current")}
  BY <1>1 DEF Ok, CurrentOk, Stage2Ok, LowerOk, Known
<1>2. CASE /\ e.stage = "lower" /\ e.asid = Asid(m) /\ e.vmid = Vmid(m)
           /\ e.leaf \in Combined(m)
  <2>1. On(m, "lower")
    BY <1>2 DEF Combined
  <2>2. e.leaf \in CombinedAt(m, m.regs["lower"].root, m.regs["stage2"].root)
    BY <1>2, CombinedIs
  <2> QED
    BY <1>2, <2>1, <2>2, InForceFacts DEF Ok, CurrentOk, Stage2Ok, LowerOk, Known
<1>3. CASE /\ e.stage = "stage2" /\ e.vmid = Vmid(m)
           /\ e.leaf \in Leaves(m, "stage2")
  <2>1. Leaves(m, "stage2") = LeavesAt(m, Root2(sp, Vmid(m)))
    BY InForceFacts DEF Stages
  <2> QED
    BY <1>3, <2>1, InForceFacts DEF Ok, CurrentOk, Stage2Ok, LowerOk, Known
<1> QED
  BY <1>1, <1>2, <1>3, FetchedIs

LEMMA PrefetchIs ==
  ASSUME NEW m, IsMachine(m)
  PROVE  /\ IsMachine(Prefetch(m))
         /\ Prefetch(m).tables = m.tables /\ Prefetch(m).regs = m.regs
         /\ Prefetch(m).tlb = m.tlb \cup Fetched(m)
<1>1. m.defect = "nothing"
  BY DEF IsMachine
<1>2. Prefetch(m) = WithTlb(m, m.tlb \cup Fetched(m))
  BY <1>1 DEF Prefetch
<1> QED
  BY <1>2, TlbSet

\* A TLBI, once everything doubtful is among what it removes.
LEMMA WithoutKeeps ==
  ASSUME NEW m, NEW sp, NEW ad, Setting(m, sp, ad), NEW byAddress, NEW gone,
         \A e \in m.tlb \ gone : Stage2Ok(m, sp, e)
  PROVE  LET n == Without(m, byAddress, gone)
         IN  /\ Setting(n, sp, ad)
             /\ n.tables = m.tables /\ n.regs = m.regs
             /\ \A e \in n.tlb : e \in m.tlb \ gone \/ Ok(m, sp, ad, e)
<1> DEFINE l == WithTlb(m, m.tlb \ gone)
           n == Prefetch(l)
<1>1. Without(m, byAddress, gone) = n
  BY InForceFacts DEF Without
<1>2. IsMachine(l) /\ l.tables = m.tables /\ l.regs = m.regs /\ l.tlb = m.tlb \ gone
  BY TlbSet DEF Setting
<1>3. Setting(l, sp, ad) /\ \A e \in l.tlb : Stage2Ok(l, sp, e)
  BY <1>2, SameOk DEF Setting
<1>4. \A e \in Fetched(l) : Ok(l, sp, ad, e)
  BY <1>3, FetchedOk
<1>5. /\ IsMachine(n) /\ n.tables = l.tables /\ n.regs = l.regs
      /\ n.tlb = l.tlb \cup Fetched(l)
  BY <1>2, PrefetchIs
<1> HIDE DEF l, n
<1>6. Setting(n, sp, ad)
  BY <1>2, <1>5, SameOk DEF Setting
<1>7. \A e \in n.tlb : e \in m.tlb \ gone \/ Ok(m, sp, ad, e)
  BY <1>2, <1>4, <1>5, SameOk
<1> QED
  BY <1>1, <1>2, <1>5, <1>6, <1>7

\* What a TLBI removes, by address and altogether.
OfAll(m, stage, e) ==
    \/ stage = "current" /\ e.stage = "current"
    \/ stage = "lower" /\ e.stage = "lower" /\ e.vmid = Vmid(m)
    \/ stage = "stage2" /\ e.stage \in {"lower", "stage2"} /\ e.vmid = Vmid(m)
OfAddress(m, stage, page, e) ==
    \/ /\ stage = "current" /\ e.stage = "current" /\ e.asid = m.regs["current"].id
       /\ Holds(e.leaf.block, page)
    \/ /\ stage = "lower" /\ e.stage = "lower" /\ e.vmid = Vmid(m) /\ e.asid = Asid(m)
       /\ Holds(e.leaf.block, page)
    \/ /\ stage = "stage2" /\ e.vmid = Vmid(m)
       /\ e.stage = "lower" \/ (e.stage = "stage2" /\ Holds(e.leaf, page))

Same(m, n) == n.tables = m.tables /\ n.regs = m.regs

LEMMA PrefetchKeeps ==
  ASSUME NEW m, NEW sp, NEW ad, Setting(m, sp, ad), Faithful(m, sp, ad)
  PROVE  LET n == Prefetch(m)
         IN  Setting(n, sp, ad) /\ Same(m, n) /\ Faithful(n, sp, ad)
<1> DEFINE n == Prefetch(m)
<1>1. /\ IsMachine(n) /\ n.tables = m.tables /\ n.regs = m.regs
      /\ n.tlb = m.tlb \cup Fetched(m)
  BY PrefetchIs DEF Setting
<1>2. \A e \in Fetched(m) : Ok(m, sp, ad, e)
  BY FetchedOk DEF Faithful, Ok
<1> HIDE DEF n
<1>3. Setting(n, sp, ad)
  BY <1>1, SameOk DEF Setting
<1>4. Faithful(n, sp, ad)
  BY <1>1, <1>2, SameOk DEF Faithful
<1> QED
  BY <1>1, <1>3, <1>4 DEF Same, n

LEMMA WithoutClears ==
  ASSUME NEW m, NEW sp, NEW ad, Setting(m, sp, ad), NEW byAddress, NEW gone,
         \A e \in m.tlb \ gone : Ok(m, sp, ad, e)
  PROVE  LET n == Without(m, byAddress, gone)
         IN  Setting(n, sp, ad) /\ Same(m, n) /\ Faithful(n, sp, ad)
<1> DEFINE n == Without(m, byAddress, gone)
<1>1. \A e \in m.tlb \ gone : Stage2Ok(m, sp, e)
  BY DEF Ok
<1>2. /\ Setting(n, sp, ad) /\ n.tables = m.tables /\ n.regs = m.regs
      /\ \A e \in n.tlb : e \in m.tlb \ gone \/ Ok(m, sp, ad, e)
  BY <1>1, WithoutKeeps
<1> HIDE DEF n
<1>3. Faithful(n, sp, ad)
  BY <1>2, SameOk DEF Faithful
<1> QED
  BY <1>2, <1>3 DEF Same, n

LEMMA AllClears ==
  ASSUME NEW m, NEW sp, NEW ad, Setting(m, sp, ad), NEW stage \in Stages,
         \A e \in m.tlb : Ok(m, sp, ad, e) \/ OfAll(m, stage, e)
  PROVE  LET n == InvalidateAll(m, stage)
         IN  Setting(n, sp, ad) /\ Same(m, n) /\ Faithful(n, sp, ad)
<1> DEFINE gone == {e \in m.tlb : OfAll(m, stage, e)}
<1>1. InvalidateAll(m, stage) = Without(m, FALSE, gone)
  <2>1. CASE stage = "current"
    <3>1. gone = {e \in m.tlb : e.stage = "current"}
      BY <2>1 DEF OfAll
    <3> QED
      BY <2>1, <3>1 DEF InvalidateAll, InvalidateCurrentAll
  <2>2. CASE stage = "lower"
    <3>1. gone = {e \in m.tlb : e.stage = "lower" /\ e.vmid = Vmid(m)}
      BY <2>2 DEF OfAll
    <3> QED
      BY <2>2, <3>1 DEF InvalidateAll, InvalidateLowerAll
  <2>3. CASE stage = "stage2"
    <3>1. gone = {e \in m.tlb : e.stage \in {"lower", "stage2"} /\ e.vmid = Vmid(m)}
      BY <2>3 DEF OfAll
    <3> QED
      BY <2>3, <3>1 DEF InvalidateAll, InvalidateStage2All
  <2> QED
    BY <2>1, <2>2, <2>3 DEF Stages
<1>2. \A e \in m.tlb \ gone : Ok(m, sp, ad, e)
  OBVIOUS
<1> HIDE DEF gone
<1> QED
  BY <1>1, <1>2, WithoutClears

LEMMA AddressClears ==
  ASSUME NEW m, NEW sp, NEW ad, Setting(m, sp, ad), NEW stage \in Stages, NEW page,
         \A e \in m.tlb : Ok(m, sp, ad, e) \/ OfAddress(m, stage, page, e)
  PROVE  LET n == InvalidateAddress(m, stage, page)
         IN  Setting(n, sp, ad) /\ Same(m, n) /\ Faithful(n, sp, ad)
<1>1. CASE stage = "current"
  <2> DEFINE gone == {e \in m.tlb : /\ e.stage = "current" /\ e.asid = m.regs["current"].id
                                    /\ Holds(e.leaf.block, page)}
  <2>1. InvalidateAddress(m, stage, page) = Without(m, TRUE, gone)
    BY <1>1 DEF InvalidateAddress, InvalidateCurrentAddress, Identifier
  <2>2. \A e \in m.tlb \ gone : Ok(m, sp, ad, e)
    BY <1>1 DEF OfAddress
  <2> HIDE DEF gone
  <2> QED
    BY <2>1, <2>2, WithoutClears
<1>2. CASE stage = "lower"
  <2> DEFINE gone == {e \in m.tlb : /\ e.stage = "lower" /\ e.asid = m.regs["lower"].id
                                    /\ e.vmid = Vmid(m) /\ Holds(e.leaf.block, page)}
  <2>1. InvalidateAddress(m, stage, page) = Without(m, TRUE, gone)
    BY <1>2 DEF InvalidateAddress, InvalidateLowerAddress, Identifier
  <2>2. \A e \in m.tlb \ gone : Ok(m, sp, ad, e)
    BY <1>2 DEF OfAddress, Asid
  <2> HIDE DEF gone
  <2> QED
    BY <2>1, <2>2, WithoutClears
<1>3. CASE stage = "stage2"
  <2> DEFINE gone == {e \in m.tlb : /\ e.stage = "stage2" /\ e.vmid = Vmid(m)
                                    /\ Holds(e.leaf, page)}
             n == Without(m, TRUE, gone)
             rest == {e \in n.tlb : e.stage = "lower" /\ e.vmid = Vmid(n)}
  <2>1. InvalidateAddress(m, stage, page) = Without(n, FALSE, rest)
    BY <1>3 DEF InvalidateAddress, InvalidateStage2Address, InvalidateIpa, InvalidateLowerAll
  <2>2. \A e \in m.tlb \ gone : Ok(m, sp, ad, e) \/ (e.stage = "lower" /\ e.vmid = Vmid(m))
    BY <1>3 DEF OfAddress
  <2>3. \A e \in m.tlb \ gone : Stage2Ok(m, sp, e)
    BY <2>2 DEF Ok, Stage2Ok
  <2> HIDE DEF gone
  <2>4. /\ Setting(n, sp, ad) /\ n.tables = m.tables /\ n.regs = m.regs
        /\ \A e \in n.tlb : e \in m.tlb \ gone \/ Ok(m, sp, ad, e)
    <3>1. LET k == Without(m, TRUE, gone)
          IN  /\ Setting(k, sp, ad)
              /\ k.tables = m.tables /\ k.regs = m.regs
              /\ \A e \in k.tlb : e \in m.tlb \ gone \/ Ok(m, sp, ad, e)
      BY <2>3, WithoutKeeps, Zenon
    <3> QED
      BY <3>1
  <2> HIDE DEF n
  <2>5. \A e \in n.tlb \ rest : Ok(n, sp, ad, e)
    <3> SUFFICES ASSUME NEW e \in n.tlb, ~(e.stage = "lower" /\ e.vmid = Vmid(n))
                 PROVE  Ok(n, sp, ad, e)
      OBVIOUS
    <3>1. Vmid(n) = Vmid(m)
      BY <2>4 DEF Vmid
    <3>2. Ok(m, sp, ad, e)
      BY <2>2, <2>4, <3>1
    <3> QED
      BY <2>4, <3>2, SameOk
  <2> HIDE DEF rest
  <2>6. LET k == Without(n, FALSE, rest)
        IN  Setting(k, sp, ad) /\ Same(n, k) /\ Faithful(k, sp, ad)
    BY <2>4, <2>5, WithoutClears
  <2> QED
    BY <2>1, <2>4, <2>6 DEF Same
<1> QED
  BY <1>1, <1>2, <1>3 DEF Stages

LEMMA AsidClears ==
  ASSUME NEW m, NEW sp, NEW ad, Setting(m, sp, ad), Faithful(m, sp, ad), NEW asid
  PROVE  LET n == InvalidateAsid(m, asid)
         IN  Setting(n, sp, ad) /\ Same(m, n) /\ Faithful(n, sp, ad)
  BY WithoutClears DEF InvalidateAsid, Faithful

-----------------------------------------------------------------------------
(* Changing tables.                                                        *)

\* What is true of an entry stays true where its tables only gain leaves.
Grown(m, n, root) ==
    /\ n.tables[root].frame = m.tables[root].frame
    /\ m.tables[root].leaves \subseteq n.tables[root].leaves

LEMMA CombinedGrows ==
  ASSUME NEW m, NEW n, NEW one, NEW two,
         one # "none" => Grown(m, n, one), two # "none" => Grown(m, n, two)
  PROVE  CombinedAt(m, one, two) \subseteq CombinedAt(n, one, two)
<1>1. LeavesAt(m, one) \subseteq LeavesAt(n, one) /\ LeavesAt(m, two) \subseteq LeavesAt(n, two)
  BY DEF LeavesAt, Grown
<1>2. CASE one = "none"
  BY <1>2 DEF CombinedAt
<1>3. CASE one # "none" /\ two = "none"
  BY <1>1, <1>3 DEF CombinedAt
<1>4. CASE one # "none" /\ two # "none"
  <2> SUFFICES ASSUME NEW x \in CombinedAt(m, one, two)
               PROVE  x \in CombinedAt(n, one, two)
    OBVIOUS
  <2>1. PICK l \in LeavesAt(m, two) : Holds(l, m.tables[one].frame)
    BY <1>4 DEF CombinedAt
  <2>2. n.tables[one].frame = m.tables[one].frame
    BY <1>4 DEF Grown
  <2>3. \E k \in LeavesAt(n, two) : Holds(k, n.tables[one].frame)
    BY <1>1, <2>1, <2>2
  <2>4. PICK p \in LeavesAt(m, one) \X LeavesAt(m, two) :
                 Reached(p[1], p[2]) /\ x = Piece(p[1], p[2])
    BY <1>4, <2>1 DEF CombinedAt
  <2>5. p \in LeavesAt(n, one) \X LeavesAt(n, two)
    BY <1>1, <2>4
  <2> HIDE DEF Grown
  <2> QED
    BY <1>4, <2>3, <2>4, <2>5 DEF CombinedAt
<1> QED
  BY <1>2, <1>3, <1>4

LEMMA OkGrows ==
  ASSUME NEW m, NEW n, NEW sp, NEW ad, n.regs = m.regs, Setting(m, sp, ad),
         NEW e, Ok(m, sp, ad, e),
         \A id \in DOMAIN sp["current"] : e.stage = "current" => Grown(m, n, sp["current"][id]),
         \A id \in DOMAIN sp["lower"] :
            e.stage = "lower" /\ InUse(sp, e.vmid) /\ id = e.asid => Grown(m, n, sp["lower"][id]),
         \A id \in DOMAIN sp["stage2"] :
            e.stage \in {"lower", "stage2"} /\ id = e.vmid => Grown(m, n, sp["stage2"][id])
  PROVE  Ok(n, sp, ad, e)
<1>1. CurrentOk(n, e)
  <2> SUFFICES ASSUME e.stage = "current", e.asid = m.regs["current"].id
               PROVE  e.leaf \in {Alone(l) : l \in Leaves(n, "current")}
    BY DEF CurrentOk
  <2>1. PICK l \in Leaves(m, "current") : e.leaf = Alone(l)
    BY DEF Ok, CurrentOk
  <2>2. On(m, "current")
    BY <2>1 DEF Leaves
  <2>3. /\ m.regs["current"].id \in DOMAIN sp["current"]
        /\ sp["current"][m.regs["current"].id] = m.regs["current"].root
    BY <2>2 DEF Setting, InForce, Stages, On, Off
  <2>4. Grown(m, n, m.regs["current"].root)
    BY <2>3
  <2>5. l \in Leaves(n, "current")
    BY <2>1, <2>2, <2>4 DEF Leaves, On, Grown
  <2> QED
    BY <2>1, <2>5
<1>2. Stage2Ok(n, sp, e)
  BY DEF Ok, Stage2Ok, Root2, LeavesAt, Grown
<1>3. LowerOk(n, sp, e)
  <2> SUFFICES ASSUME e.stage = "lower", InUse(sp, e.vmid)
               PROVE  /\ e.asid \in DOMAIN sp["lower"]
                      /\ e.leaf \in CombinedAt(n, sp["lower"][e.asid], Root2(sp, e.vmid))
    BY DEF LowerOk
  <2>1. /\ e.asid \in DOMAIN sp["lower"]
        /\ e.leaf \in CombinedAt(m, sp["lower"][e.asid], Root2(sp, e.vmid))
    BY DEF Ok, LowerOk
  <2>2. Grown(m, n, sp["lower"][e.asid])
    BY <2>1
  <2>3. Root2(sp, e.vmid) # "none" => Grown(m, n, Root2(sp, e.vmid))
    BY DEF Root2
  <2> QED
    BY <2>1, <2>2, <2>3, CombinedGrows
<1> QED
  BY <1>1, <1>2, <1>3 DEF Ok, Known

\* The root in force is owned.
LEMMA RootInForce ==
  ASSUME NEW m, NEW sp, NEW ad, Setting(m, sp, ad), NEW stage \in Stages, On(m, stage)
  PROVE  /\ RootOf(m, stage) \in Roots
         /\ m.regs[stage].id \in DOMAIN sp[stage]
         /\ sp[stage][m.regs[stage].id] = RootOf(m, stage)
<1>1. /\ m.regs[stage].id \in DOMAIN sp[stage]
      /\ sp[stage][m.regs[stage].id] = RootOf(m, stage)
  BY DEF Setting, InForce, On, Off, RootOf
<1> QED
  BY <1>1 DEF Setting, Ordered

\* A root nobody owns may get any leaves.
LEMMA OfflineKeeps ==
  ASSUME NEW m, NEW sp, NEW ad, Setting(m, sp, ad), Faithful(m, sp, ad),
         NEW root \in Roots, NEW leaves \in SUBSET Mappings,
         \A s \in Stages : \A id \in DOMAIN sp[s] : sp[s][id] # root
  PROVE  LET n == WithLeaves(m, root, leaves)
         IN  Setting(n, sp, ad) /\ Faithful(n, sp, ad)
<1> DEFINE n == WithLeaves(m, root, leaves)
<1>1. /\ IsMachine(n) /\ n.regs = m.regs /\ n.tlb = m.tlb
      /\ \A r \in Roots \ {root} : n.tables[r] = m.tables[r]
  BY LeavesSet DEF Setting
<1> HIDE DEF n
<1>2. Setting(n, sp, ad)
  BY <1>1 DEF Setting, InForce
<1>3. \A s \in Stages : \A id \in DOMAIN sp[s] : Grown(m, n, sp[s][id])
  BY <1>1 DEF Setting, Ordered, Grown
<1>4. \A e \in m.tlb : Ok(n, sp, ad, e)
  <2> SUFFICES ASSUME NEW e \in m.tlb
               PROVE  Ok(n, sp, ad, e)
    OBVIOUS
  <2>1. Ok(m, sp, ad, e)
    BY DEF Faithful
  <2>2. /\ \A id \in DOMAIN sp["current"] : Grown(m, n, sp["current"][id])
        /\ \A id \in DOMAIN sp["lower"] : Grown(m, n, sp["lower"][id])
        /\ \A id \in DOMAIN sp["stage2"] : Grown(m, n, sp["stage2"][id])
    BY <1>3 DEF Stages
  <2> QED
    BY <1>1, <2>1, <2>2, OkGrows
<1> QED
  BY <1>1, <1>2, <1>4 DEF Faithful, n

LEMMA InsertedKeeps ==
  ASSUME NEW m, NEW sp, NEW ad, Setting(m, sp, ad), Faithful(m, sp, ad),
         NEW stage \in Stages, On(m, stage), NEW leaf \in Mappings
  PROVE  LET n == Inserted(m, stage, leaf)
         IN  Setting(n, sp, ad) /\ Faithful(n, sp, ad)
<1> DEFINE root == RootOf(m, stage)
           n == WithLeaves(m, root, m.tables[root].leaves \cup {leaf})
           k == Prefetch(n)
<1>1. root \in Roots
  BY RootInForce
<1>2. m.tables[root].leaves \cup {leaf} \in SUBSET Mappings
  BY <1>1 DEF Setting, IsMachine
<1>3. Inserted(m, stage, leaf) = InvalidateAddress(k, stage, leaf.in)
  BY DEF Inserted
<1>4. /\ IsMachine(n) /\ n.regs = m.regs /\ n.tlb = m.tlb
      /\ n.tables[root].leaves = m.tables[root].leaves \cup {leaf}
      /\ \A r \in Roots : n.tables[r].frame = m.tables[r].frame
      /\ \A r \in Roots \ {root} : n.tables[r] = m.tables[r]
  BY <1>1, <1>2, LeavesSet DEF Setting
<1> HIDE DEF n, k, root
<1>5. Setting(n, sp, ad)
  BY <1>4 DEF Setting, InForce
<1>6. \A s \in Stages : \A id \in DOMAIN sp[s] : Grown(m, n, sp[s][id])
  BY <1>1, <1>4 DEF Setting, Ordered, Grown
<1>7. Faithful(n, sp, ad)
  <2> SUFFICES ASSUME NEW e \in m.tlb
               PROVE  Ok(n, sp, ad, e)
    BY <1>4 DEF Faithful
  <2>1. Ok(m, sp, ad, e)
    BY DEF Faithful
  <2>2. /\ \A id \in DOMAIN sp["current"] : Grown(m, n, sp["current"][id])
        /\ \A id \in DOMAIN sp["lower"] : Grown(m, n, sp["lower"][id])
        /\ \A id \in DOMAIN sp["stage2"] : Grown(m, n, sp["stage2"][id])
    BY <1>6 DEF Stages
  <2> QED
    BY <1>4, <2>1, <2>2, OkGrows
<1>8. Setting(k, sp, ad) /\ Faithful(k, sp, ad)
  BY <1>5, <1>7, PrefetchKeeps DEF k
<1> QED
  BY <1>3, <1>8, AddressClears DEF Faithful

\* What was combined stays, or its stage-1 leaf is gone.
LEMMA CombinedShrinks ==
  ASSUME NEW m, NEW n, NEW one, NEW two, one # "none",
         n.tables[one].frame = m.tables[one].frame,
         two # "none" => Grown(m, n, two),
         NEW x \in CombinedAt(m, one, two)
  PROVE  \/ x \in CombinedAt(n, one, two)
         \/ \E l \in LeavesAt(m, one) \ LeavesAt(n, one) : x.block = Block(l)
<1>1. CASE two = "none"
  <2>1. PICK l \in LeavesAt(m, one) : x = Alone(l)
    BY <1>1 DEF CombinedAt
  <2>2. CASE l \in LeavesAt(n, one)
    BY <1>1, <2>1, <2>2 DEF CombinedAt
  <2>3. CASE l \notin LeavesAt(n, one)
    BY <2>1, <2>3 DEF Alone
  <2> QED
    BY <2>2, <2>3
<1>2. CASE two # "none"
  <2>1. PICK k \in LeavesAt(m, two) : Holds(k, m.tables[one].frame)
    BY <1>2 DEF CombinedAt
  <2>2. PICK p \in LeavesAt(m, one) \X LeavesAt(m, two) :
                 Reached(p[1], p[2]) /\ x = Piece(p[1], p[2])
    BY <1>2, <2>1 DEF CombinedAt
  <2>3. LeavesAt(m, two) \subseteq LeavesAt(n, two)
    BY <1>2 DEF Grown, LeavesAt
  <2>4. CASE p[1] \in LeavesAt(n, one)
    <3>1. p \in LeavesAt(n, one) \X LeavesAt(n, two)
      BY <2>2, <2>3, <2>4
    <3>2. \E j \in LeavesAt(n, two) : Holds(j, n.tables[one].frame)
      BY <2>1, <2>3
    <3> QED
      BY <1>2, <2>2, <3>1, <3>2 DEF CombinedAt
  <2>5. CASE p[1] \notin LeavesAt(n, one)
    <3>1. x.block = Block(p[1])
      BY <2>2 DEF Piece
    <3> QED
      BY <2>2, <2>5, <3>1
  <2> QED
    BY <2>4, <2>5
<1> QED
  BY <1>1, <1>2

LEMMA RemovedKeeps ==
  ASSUME NEW m, NEW sp, NEW ad, Setting(m, sp, ad), Apart(sp), Faithful(m, sp, ad),
         NEW stage \in Stages, On(m, stage), NEW page,
         stage = "lower" => \A id \in DOMAIN sp["stage2"] : id = Vmid(m)
  PROVE  LET n == Removed(m, stage, page)
         IN  Setting(n, sp, ad) /\ Faithful(n, sp, ad) /\ n.regs = m.regs
<1> DEFINE root == RootOf(m, stage)
           n == WithLeaves(m, root, m.tables[root].leaves \ MappedAt(m, root, page))
<1>1. /\ root \in Roots /\ m.regs[stage].id \in DOMAIN sp[stage]
      /\ sp[stage][m.regs[stage].id] = root
  BY RootInForce
<1>2. m.tables[root].leaves \ MappedAt(m, root, page) \in SUBSET Mappings
  BY <1>1 DEF Setting, IsMachine
<1>3. Removed(m, stage, page) = InvalidateAddress(n, stage, page)
  BY DEF Removed
<1>4. /\ IsMachine(n) /\ n.regs = m.regs /\ n.tlb = m.tlb
      /\ n.tables[root].leaves = m.tables[root].leaves \ MappedAt(m, root, page)
      /\ \A r \in Roots : n.tables[r].frame = m.tables[r].frame
      /\ \A r \in Roots \ {root} : n.tables[r] = m.tables[r]
  BY <1>1, <1>2, LeavesSet DEF Setting
<1>5. \A l \in m.tables[root].leaves \ n.tables[root].leaves :
         Holds(l, page) /\ Holds(Block(l), page)
  <2> SUFFICES ASSUME NEW l \in m.tables[root].leaves, l \in MappedAt(m, root, page)
               PROVE  Holds(l, page) /\ Holds(Block(l), page)
    BY <1>4
  <2>1. l.in = page /\ l \in Mappings
    BY <1>1 DEF MappedAt, Setting, IsMachine
  <2>2. l.in \in Nat /\ l.size \in Nat \ {0}
    BY <2>1, SessionAssumption
  <2> QED
    BY <2>1, <2>2 DEF Holds, Block
<1> HIDE DEF n, root
<1>6. Setting(n, sp, ad)
  BY <1>4 DEF Setting, InForce
<1>7. ASSUME NEW s \in Stages, NEW id \in DOMAIN sp[s], ~(s = stage /\ id = m.regs[stage].id)
      PROVE  Grown(m, n, sp[s][id])
  <2>1. sp[s][id] # root
    BY <1>1, <1>7 DEF Apart
  <2>2. sp[s][id] \in Roots
    BY DEF Setting, Ordered
  <2> QED
    BY <1>4, <2>1, <2>2 DEF Grown
<1>8. /\ Vmid(n) = Vmid(m) /\ Asid(n) = Asid(m)
      /\ {"current", "lower", "stage2"} = Stages
  BY <1>4 DEF Vmid, Asid, Stages
<1>9. ASSUME NEW e \in m.tlb
      PROVE  Ok(n, sp, ad, e) \/ OfAddress(n, stage, page, e)
  <2>1. Ok(m, sp, ad, e)
    BY DEF Faithful
  <2>2. CASE stage = "current"
    <3>1. CASE e.stage = "current" /\ e.asid = m.regs["current"].id
      <4>1. PICK l \in Leaves(m, "current") : e.leaf = Alone(l)
        BY <2>1, <3>1 DEF Ok, CurrentOk
      <4>2. CASE l \in n.tables[root].leaves
        <5>1. l \in Leaves(n, "current")
          BY <1>4, <2>2, <4>1, <4>2 DEF Leaves, On, RootOf, root
        <5> QED
          BY <3>1, <4>1, <5>1 DEF Ok, CurrentOk, Stage2Ok, LowerOk, Known
      <4>3. CASE l \notin n.tables[root].leaves
        <5>1. l \in m.tables[root].leaves
          BY <2>2, <4>1 DEF Leaves, On, RootOf, root
        <5>2. e.leaf.block = Block(l)
          BY <4>1 DEF Alone
        <5> QED
          BY <1>4, <1>5, <2>2, <3>1, <4>3, <5>1, <5>2 DEF OfAddress
      <4> QED
        BY <4>2, <4>3
    <3>2. CASE e.stage = "current" /\ e.asid # m.regs["current"].id
      BY <1>4, <3>2 DEF Ok, CurrentOk, Stage2Ok, LowerOk, Known
    <3>3. CASE e.stage # "current"
      <4>1. /\ \A id \in DOMAIN sp["lower"] : Grown(m, n, sp["lower"][id])
            /\ \A id \in DOMAIN sp["stage2"] : Grown(m, n, sp["stage2"][id])
        BY <1>7, <1>8, <2>2
      <4> QED
        BY <1>4, <2>1, <3>3, <4>1, OkGrows
    <3> QED
      BY <3>1, <3>2, <3>3
  <2>3. CASE stage = "lower"
    <3>1. CASE e.stage = "lower" /\ InUse(sp, e.vmid) /\ e.asid = Asid(m)
      <4>1. e.vmid = Vmid(m)
        <5>1. CASE e.vmid \in DOMAIN sp["stage2"]
          BY <2>3, <5>1
        <5>2. CASE DOMAIN sp["stage2"] = {} /\ e.vmid = 0
          BY <1>8, <5>2 DEF Setting, InForce, Vmid, Off
        <5> QED
          BY <3>1, <5>1, <5>2 DEF InUse
      <4>2. sp["lower"][e.asid] = root /\ root # "none"
        BY <1>1, <2>3, <3>1, SessionAssumption DEF Asid
      <4>3. e.asid \in DOMAIN sp["lower"] /\ e.leaf \in CombinedAt(m, root, Root2(sp, e.vmid))
        BY <2>1, <3>1, <4>2 DEF Ok, LowerOk
      <4>4. Root2(sp, e.vmid) # "none" => Grown(m, n, Root2(sp, e.vmid))
        BY <1>7, <1>8, <2>3 DEF Root2
      <4>5. CASE e.leaf \in CombinedAt(n, root, Root2(sp, e.vmid))
        BY <2>1, <3>1, <4>2, <4>3, <4>5 DEF Ok, CurrentOk, Stage2Ok, LowerOk, Known
      <4>6. CASE \E l \in LeavesAt(m, root) \ LeavesAt(n, root) : e.leaf.block = Block(l)
        <5>1. Holds(e.leaf.block, page)
          BY <1>5, <4>2, <4>6 DEF LeavesAt
        <5> QED
          BY <1>8, <2>3, <3>1, <4>1, <5>1 DEF OfAddress
      <4> QED
        BY <1>1, <1>4, <4>2, <4>3, <4>4, <4>5, <4>6, CombinedShrinks
    <3>2. CASE e.stage = "lower" /\ ~InUse(sp, e.vmid)
      BY <2>1, <3>2 DEF Ok, CurrentOk, Stage2Ok, LowerOk, Known
    <3>3. CASE ~(e.stage = "lower" /\ e.asid = Asid(m))
      <4>1. /\ \A id \in DOMAIN sp["current"] : Grown(m, n, sp["current"][id])
            /\ \A id \in DOMAIN sp["stage2"] : Grown(m, n, sp["stage2"][id])
            /\ \A id \in DOMAIN sp["lower"] :
                  e.stage = "lower" /\ id = e.asid => Grown(m, n, sp["lower"][id])
        BY <1>7, <1>8, <2>3, <3>3 DEF Asid
      <4> QED
        BY <1>4, <2>1, <4>1, OkGrows
    <3> QED
      BY <3>1, <3>2, <3>3
  <2>4. CASE stage = "stage2"
    <3>1. CASE e.stage = "stage2" /\ e.vmid = Vmid(m)
      <4>1. InUse(sp, e.vmid) /\ Root2(sp, e.vmid) = root /\ root # "none"
        BY <1>1, <2>4, <3>1, SessionAssumption DEF InUse, Root2, Vmid
      <4>2. e.leaf \in m.tables[root].leaves
        BY <2>1, <3>1, <4>1 DEF Ok, Stage2Ok, LeavesAt
      <4>3. CASE e.leaf \in n.tables[root].leaves
        BY <2>1, <3>1, <4>1, <4>3 DEF Ok, CurrentOk, Stage2Ok, LowerOk, Known, LeavesAt
      <4>4. CASE e.leaf \notin n.tables[root].leaves
        BY <1>5, <1>8, <2>4, <3>1, <4>2, <4>4 DEF OfAddress
      <4> QED
        BY <4>3, <4>4
    <3>2. CASE e.stage = "lower" /\ e.vmid = Vmid(m)
      BY <1>8, <2>4, <3>2 DEF OfAddress
    <3>3. CASE ~(e.stage \in {"lower", "stage2"} /\ e.vmid = Vmid(m))
      <4>1. /\ \A id \in DOMAIN sp["current"] : Grown(m, n, sp["current"][id])
            /\ \A id \in DOMAIN sp["lower"] : Grown(m, n, sp["lower"][id])
            /\ \A id \in DOMAIN sp["stage2"] :
                  e.stage \in {"lower", "stage2"} /\ id = e.vmid => Grown(m, n, sp["stage2"][id])
        BY <1>7, <1>8, <2>4, <3>3 DEF Vmid
      <4> QED
        BY <1>4, <2>1, <4>1, OkGrows
    <3> QED
      BY <3>1, <3>2, <3>3
  <2> QED
    BY <1>8, <2>2, <2>3, <2>4
<1>10. LET k == InvalidateAddress(n, stage, page)
       IN  Setting(k, sp, ad) /\ Same(n, k) /\ Faithful(k, sp, ad)
  BY <1>4, <1>6, <1>9, AddressClears
<1> QED
  BY <1>3, <1>4, <1>10 DEF Same

-----------------------------------------------------------------------------
(* Changing registers.                                                     *)

\* Only what is fetched of both stages may rest on what is held.
LEMMA FetchedAlone ==
  ASSUME NEW m, NEW sp, NEW ad, Setting(m, sp, ad), NEW e \in Fetched(m)
  PROVE  Ok(m, sp, ad, e) \/ (e.stage = "lower" /\ e.vmid = Vmid(m))
<1>1. CASE /\ e.stage = "current" /\ e.asid = m.regs["current"].id
           /\ e.leaf \in {Alone(l) : l \in Leaves(m, "current")}
  BY <1>1 DEF Ok, CurrentOk, Stage2Ok, LowerOk, Known
<1>2. CASE /\ e.stage = "stage2" /\ e.vmid = Vmid(m)
           /\ e.leaf \in Leaves(m, "stage2")
  <2>1. Leaves(m, "stage2") = LeavesAt(m, Root2(sp, Vmid(m)))
    BY InForceFacts DEF Stages
  <2> QED
    BY <1>2, <2>1, InForceFacts DEF Ok, CurrentOk, Stage2Ok, LowerOk, Known
<1> QED
  BY <1>1, <1>2, FetchedIs

\* What an entry is owed when other tables, registers and spaces say the same.
LEMMA OkCarries ==
  ASSUME NEW m, NEW n, n.tables = m.tables, NEW sp, NEW tp, NEW ad, NEW bd,
         NEW e, Ok(m, sp, ad, e), ad \subseteq bd,
         e.stage = "current" => n.regs["current"] = m.regs["current"],
         e.stage \in {"lower", "stage2"} /\ InUse(tp, e.vmid) =>
            InUse(sp, e.vmid) /\ Root2(tp, e.vmid) = Root2(sp, e.vmid),
         e.stage = "lower" /\ InUse(tp, e.vmid) /\ e.asid \in DOMAIN sp["lower"] =>
            e.asid \in DOMAIN tp["lower"] /\ tp["lower"][e.asid] = sp["lower"][e.asid]
  PROVE  Ok(n, tp, bd, e)
<1>1. \A root : LeavesAt(n, root) = LeavesAt(m, root)
  BY DEF LeavesAt
<1>2. \A one, two : CombinedAt(n, one, two) = CombinedAt(m, one, two)
  <2> SUFFICES ASSUME NEW one, NEW two
               PROVE  CombinedAt(n, one, two) = CombinedAt(m, one, two)
    OBVIOUS
  <2>1. LeavesAt(n, one) = LeavesAt(m, one) /\ LeavesAt(n, two) = LeavesAt(m, two)
    BY <1>1
  <2> QED
    BY <2>1, Zenon DEF CombinedAt
<1>3. CurrentOk(n, e)
  BY DEF Ok, CurrentOk, Leaves, On
<1>4. Stage2Ok(n, tp, e)
  BY <1>1 DEF Ok, Stage2Ok
<1>5. LowerOk(n, tp, e)
  BY <1>2 DEF Ok, LowerOk
<1> QED
  BY <1>3, <1>4, <1>5 DEF Ok, Known

LEMMA SwitchedKeeps ==
  ASSUME NEW m, NEW sp, NEW ad, Setting(m, sp, ad), Faithful(m, sp, ad),
         NEW stage \in Stages \ {"current"}, NEW id \in DOMAIN sp[stage]
  PROVE  LET n == Switched(m, stage, sp[stage][id], id)
         IN  Setting(n, sp, ad) /\ Faithful(n, sp, ad)
<1> DEFINE n == WithRoot(m, stage, sp[stage][id], id)
<1>1. id \in Identifiers /\ sp[stage][id] \in Roots
  BY DEF Setting, Ordered
<1>2. /\ IsMachine(n) /\ n.tables = m.tables /\ n.tlb = m.tlb
      /\ n.regs[stage] = [root |-> sp[stage][id], id |-> id]
      /\ \A s \in Stages \ {stage} : n.regs[s] = m.regs[s]
  BY <1>1, RootSet DEF Setting
<1>3. Switched(m, stage, sp[stage][id], id) = Prefetch(n)
  BY DEF Switched
<1> HIDE DEF n
<1>4. Setting(n, sp, ad)
  BY <1>2 DEF Setting, InForce
<1>5. n.regs["current"] = m.regs["current"]
  BY <1>2 DEF Stages
<1>6. \A e \in m.tlb : Ok(n, sp, ad, e)
  BY <1>2, <1>5, OkCarries DEF Faithful
<1>7. Faithful(n, sp, ad)
  BY <1>2, <1>6 DEF Faithful
<1> QED
  BY <1>3, <1>4, <1>7, PrefetchKeeps

\* Adopting: the identifier is a new one of this translation.
LEMMA AdoptedKeeps ==
  ASSUME NEW m, NEW sp, NEW ad, Setting(m, sp, ad), Faithful(m, sp, ad), Apart(sp),
         NEW stage \in Stages \ {"current"}, On(m, stage),
         NEW root \in Roots, NEW id \in Identifiers, id \notin DOMAIN sp[stage],
         stage = "stage2" => id \notin ad,
         \A s \in Stages : \A i \in DOMAIN sp[s] : sp[s][i] # root
  PROVE  LET n == Switched(m, stage, root, id)
             tp == [sp EXCEPT ![stage] = With(@, id, root)]
             bd == IF stage = "stage2" THEN ad \cup {id} ELSE ad
         IN  Setting(n, tp, bd) /\ Faithful(n, tp, bd) /\ Apart(tp)
<1> DEFINE n == WithRoot(m, stage, root, id)
           tp == [sp EXCEPT ![stage] = With(@, id, root)]
           bd == IF stage = "stage2" THEN ad \cup {id} ELSE ad
<1>1. sp = [s \in Stages |-> sp[s]]
  BY DEF Setting, Ordered
<1>2. /\ tp = [s \in Stages |-> tp[s]]
      /\ \A s \in Stages \ {stage} : tp[s] = sp[s]
      /\ tp[stage] = With(sp[stage], id, root)
  BY <1>1
<1>3. /\ DOMAIN tp[stage] = DOMAIN sp[stage] \cup {id}
      /\ tp[stage][id] = root
      /\ \A i \in DOMAIN sp[stage] : tp[stage][i] = sp[stage][i]
  BY <1>2 DEF With
<1>4. /\ IsMachine(n) /\ n.tables = m.tables /\ n.tlb = m.tlb
      /\ n.regs[stage] = [root |-> root, id |-> id]
      /\ \A s \in Stages \ {stage} : n.regs[s] = m.regs[s]
  BY RootSet DEF Setting
<1>5. Switched(m, stage, root, id) = Prefetch(n)
  BY DEF Switched
<1>6. ad \subseteq bd /\ (stage = "stage2" => id \in bd)
  OBVIOUS
<1> HIDE DEF n, tp, bd
<1>7. Setting(n, tp, bd)
  <2>1. Ordered(tp, bd)
    <3>1. \A s \in Stages : \A i \in DOMAIN tp[s] :
             \/ i \in DOMAIN sp[s] /\ tp[s][i] = sp[s][i]
             \/ s = stage /\ i = id /\ tp[s][i] = root
      BY <1>2, <1>3
    <3>2. \A s \in Stages : \A i \in DOMAIN tp[s] : i \in Identifiers /\ tp[s][i] \in Roots
      BY <3>1 DEF Setting, Ordered
    <3>3. 0 \in bd /\ \A i \in DOMAIN tp["stage2"] : i \in bd
      BY <1>6, <3>1 DEF Setting, Ordered, Stages
    <3> QED
      BY <1>2, <3>2, <3>3 DEF Ordered
  <2>2. InForce(n, tp)
    BY <1>2, <1>3, <1>4 DEF Setting, InForce
  <2> QED
    BY <1>4, <2>1, <2>2 DEF Setting
<1>8. Apart(tp)
  <2>1. \A s \in Stages : \A i \in DOMAIN tp[s] :
           \/ i \in DOMAIN sp[s] /\ tp[s][i] = sp[s][i]
           \/ s = stage /\ i = id /\ tp[s][i] = root /\ id \notin DOMAIN sp[s]
    BY <1>2, <1>3
  <2> QED
    BY <2>1 DEF Apart
<1>9. n.regs["current"] = m.regs["current"]
  BY <1>4 DEF Stages
<1>10. DOMAIN sp[stage] # {}
  BY RootInForce
<1>11. ASSUME NEW e \in m.tlb
       PROVE  Ok(n, tp, bd, e)
  <2>1. Ok(m, sp, ad, e)
    BY DEF Faithful
  <2>2. CASE stage = "lower"
    <3>1. /\ tp["stage2"] = sp["stage2"]
          /\ \A i \in DOMAIN sp["lower"] : i \in DOMAIN tp["lower"] /\ tp["lower"][i] = sp["lower"][i]
      BY <1>2, <1>3, <2>2 DEF Stages
    <3>2. \A vmid : (InUse(tp, vmid) <=> InUse(sp, vmid)) /\ Root2(tp, vmid) = Root2(sp, vmid)
      BY <3>1 DEF InUse, Root2
    <3> QED
      BY <1>4, <1>6, <1>9, <2>1, <3>1, <3>2, OkCarries
  <2>3. CASE stage = "stage2"
    <3>1. tp["lower"] = sp["lower"]
      BY <1>2, <2>3 DEF Stages
    <3>2. e.stage \in {"lower", "stage2"} => e.vmid # id
      BY <2>1, <2>3 DEF Ok, Known
    <3>3. ASSUME e.stage \in {"lower", "stage2"}, InUse(tp, e.vmid)
          PROVE  InUse(sp, e.vmid) /\ Root2(tp, e.vmid) = Root2(sp, e.vmid)
      BY <1>3, <1>10, <2>3, <3>2, <3>3 DEF InUse, Root2
    <3> QED
      BY <1>4, <1>6, <1>9, <2>1, <3>1, <3>3, OkCarries
  <2> QED
    BY <2>2, <2>3 DEF Stages
<1>12. Faithful(n, tp, bd)
  BY <1>4, <1>11 DEF Faithful
<1>13. LET k == Prefetch(n) IN Setting(k, tp, bd) /\ Faithful(k, tp, bd)
  BY <1>7, <1>12, PrefetchKeeps
<1> QED
  BY <1>5, <1>8, <1>13 DEF tp, bd

\* Installing: the translation was off and owned nothing.
LEMMA InstalledKeeps ==
  ASSUME NEW m, NEW sp, NEW ad, Setting(m, sp, ad), Faithful(m, sp, ad), Apart(sp),
         NEW stage \in Stages, ~On(m, stage), NEW root \in Roots, NEW id \in Identifiers,
         \A s \in Stages : \A i \in DOMAIN sp[s] : sp[s][i] # root
  PROVE  LET n == InstalledOn(m, stage, root, id)
             tp == [sp EXCEPT ![stage] = With(Unused, id, root)]
             bd == IF stage = "stage2" THEN ad \cup {id} ELSE ad
         IN  Setting(n, tp, bd) /\ Faithful(n, tp, bd) /\ Apart(tp)
<1> DEFINE n == WithRoot(m, stage, root, id)
           k == Prefetch(n)
           tp == [sp EXCEPT ![stage] = With(Unused, id, root)]
           bd == IF stage = "stage2" THEN ad \cup {id} ELSE ad
<1>1. sp = [s \in Stages |-> sp[s]]
  BY DEF Setting, Ordered
<1>2. /\ tp = [s \in Stages |-> tp[s]]
      /\ \A s \in Stages \ {stage} : tp[s] = sp[s]
      /\ tp[stage] = With(Unused, id, root)
  BY <1>1
<1>3. DOMAIN tp[stage] = {id} /\ tp[stage][id] = root
  BY <1>2 DEF With, Unused
<1>4. /\ IsMachine(n) /\ n.tables = m.tables /\ n.tlb = m.tlb
      /\ n.regs[stage] = [root |-> root, id |-> id]
      /\ \A s \in Stages \ {stage} : n.regs[s] = m.regs[s]
  BY RootSet DEF Setting
<1>5. InstalledOn(m, stage, root, id) = InvalidateAll(k, stage)
  BY DEF InstalledOn
<1>6. ad \subseteq bd /\ (stage = "stage2" => id \in bd)
  OBVIOUS
<1> HIDE DEF n, tp, bd
<1>7. Setting(n, tp, bd)
  <2>1. Ordered(tp, bd)
    <3>1. \A s \in Stages : \A i \in DOMAIN tp[s] :
             \/ i \in DOMAIN sp[s] /\ tp[s][i] = sp[s][i]
             \/ s = stage /\ i = id /\ tp[s][i] = root
      BY <1>2, <1>3
    <3>2. \A s \in Stages : \A i \in DOMAIN tp[s] : i \in Identifiers /\ tp[s][i] \in Roots
      BY <3>1 DEF Setting, Ordered
    <3>3. 0 \in bd /\ \A i \in DOMAIN tp["stage2"] : i \in bd
      BY <1>6, <3>1 DEF Setting, Ordered, Stages
    <3> QED
      BY <1>2, <3>2, <3>3 DEF Ordered
  <2>2. InForce(n, tp)
    BY <1>2, <1>3, <1>4 DEF Setting, InForce
  <2> QED
    BY <1>4, <2>1, <2>2 DEF Setting
<1>8. Apart(tp)
  <2>1. \A s \in Stages : \A i \in DOMAIN tp[s] :
           \/ s # stage /\ i \in DOMAIN sp[s] /\ tp[s][i] = sp[s][i]
           \/ s = stage /\ i = id /\ tp[s][i] = root
    BY <1>2, <1>3
  <2> QED
    BY <2>1 DEF Apart
<1>9. /\ IsMachine(k) /\ Same(n, k) /\ k.tlb = n.tlb \cup Fetched(n)
  BY <1>4, PrefetchIs DEF Same
<1> HIDE DEF k
<1>10. DOMAIN sp[stage] = {}
  BY InForceFacts
<1>11. ASSUME NEW e \in m.tlb
       PROVE  Ok(n, tp, bd, e) \/ OfAll(n, stage, e)
  <2>1. Ok(m, sp, ad, e)
    BY DEF Faithful
  <2>2. CASE stage = "current"
    <3>1. CASE e.stage = "current"
      BY <2>2, <3>1 DEF OfAll
    <3>2. CASE e.stage # "current"
      <4>1. tp["lower"] = sp["lower"] /\ tp["stage2"] = sp["stage2"]
        BY <1>2, <2>2 DEF Stages
      <4>2. \A vmid : (InUse(tp, vmid) <=> InUse(sp, vmid)) /\ Root2(tp, vmid) = Root2(sp, vmid)
        BY <4>1 DEF InUse, Root2
      <4> QED
        BY <1>4, <1>6, <2>1, <3>2, <4>1, <4>2, OkCarries
    <3> QED
      BY <3>1, <3>2
  <2>3. CASE stage = "lower"
    <3>1. n.regs["current"] = m.regs["current"] /\ tp["stage2"] = sp["stage2"]
      BY <1>2, <1>4, <2>3 DEF Stages
    <3>2. \A vmid : (InUse(tp, vmid) <=> InUse(sp, vmid)) /\ Root2(tp, vmid) = Root2(sp, vmid)
      BY <3>1 DEF InUse, Root2
    <3>3. e.asid \notin DOMAIN sp["lower"]
      BY <1>10, <2>3
    <3> QED
      BY <1>4, <1>6, <2>1, <3>1, <3>2, <3>3, OkCarries
  <2>4. CASE stage = "stage2"
    <3>1. n.regs["current"] = m.regs["current"] /\ tp["lower"] = sp["lower"]
      BY <1>2, <1>4, <2>4 DEF Stages
    <3>2. CASE e.stage \in {"lower", "stage2"} /\ e.vmid = id
      <4>1. Vmid(n) = id
        BY <1>4, <2>4 DEF Vmid
      <4> QED
        BY <2>4, <3>2, <4>1 DEF OfAll
    <3>3. CASE ~(e.stage \in {"lower", "stage2"} /\ e.vmid = id)
      <4>1. e.stage \in {"lower", "stage2"} => ~InUse(tp, e.vmid)
        BY <1>3, <2>4, <3>3 DEF InUse
      <4> QED
        BY <1>4, <1>6, <2>1, <3>1, <4>1, OkCarries
    <3> QED
      BY <3>2, <3>3
  <2> QED
    BY <2>2, <2>3, <2>4 DEF Stages
<1>12. Setting(k, tp, bd)
  BY <1>7, <1>9, SameOk DEF Same, Setting
<1>13. Vmid(k) = Vmid(n) /\ \A e : Ok(k, tp, bd, e) <=> Ok(n, tp, bd, e)
  BY <1>9, SameOk DEF Same, Vmid
<1>14. ASSUME NEW e \in k.tlb
       PROVE  Ok(k, tp, bd, e) \/ OfAll(k, stage, e)
  <2>1. OfAll(n, stage, e) => OfAll(k, stage, e)
    BY <1>13 DEF OfAll
  <2>2. CASE e \in m.tlb
    BY <1>11, <1>13, <2>1, <2>2
  <2>3. CASE e \in Fetched(n) /\ stage = "stage2"
    <3>1. Ok(n, tp, bd, e) \/ (e.stage = "lower" /\ e.vmid = Vmid(n))
      BY <1>7, <2>3, FetchedAlone
    <3> QED
      BY <1>13, <2>3, <3>1 DEF OfAll
  <2>4. CASE e \in Fetched(n) /\ stage # "stage2"
    <3>1. \A d \in n.tlb : Stage2Ok(n, tp, d)
      BY <1>4, <1>11, <2>4 DEF Ok, Stage2Ok, OfAll
    <3>2. Ok(n, tp, bd, e)
      BY <1>7, <2>4, <3>1, FetchedOk
    <3> QED
      BY <1>13, <3>2
  <2> QED
    BY <1>4, <1>9, <2>2, <2>3, <2>4
<1>15. LET j == InvalidateAll(k, stage) IN Setting(j, tp, bd) /\ Faithful(j, tp, bd)
  BY <1>12, <1>14, AllClears
<1> QED
  BY <1>5, <1>8, <1>15 DEF tp, bd

\* Giving back: registers off, identifiers written back as they were.
LEMMA RestoredKeeps ==
  ASSUME NEW m, NEW sp, NEW ad, Setting(m, sp, ad), Faithful(m, sp, ad), Apart(sp),
         NEW stage \in Stages,
         stage = "lower" => \A id \in DOMAIN sp["stage2"] : id = Vmid(m)
  PROVE  LET n == RestoredOff(m, stage)
             tp == [sp EXCEPT ![stage] = Unused]
         IN  Setting(n, tp, ad) /\ Faithful(n, tp, ad) /\ Apart(tp)
<1> DEFINE n == WithRoot(m, stage, Off.root, Off.id)
           tp == [sp EXCEPT ![stage] = Unused]
<1>1. sp = [s \in Stages |-> sp[s]]
  BY DEF Setting, Ordered
<1>2. /\ tp = [s \in Stages |-> tp[s]]
      /\ \A s \in Stages \ {stage} : tp[s] = sp[s]
      /\ DOMAIN tp[stage] = {}
  BY <1>1 DEF Unused
<1>3. Off.root \in Roots \cup {"none"} /\ Off.id \in Identifiers
  BY SessionAssumption DEF Off
<1>4. /\ IsMachine(n) /\ n.tables = m.tables /\ n.tlb = m.tlb
      /\ n.regs[stage] = Off
      /\ \A s \in Stages \ {stage} : n.regs[s] = m.regs[s]
  BY <1>3, RootSet DEF Setting, Off
<1>5. RestoredOff(m, stage) = InvalidateAll(n, stage)
  BY DEF RestoredOff
<1> HIDE DEF n, tp
<1>6. \A s \in Stages : \A i \in DOMAIN tp[s] :
         s # stage /\ i \in DOMAIN sp[s] /\ tp[s][i] = sp[s][i]
  BY <1>2
<1>7. Setting(n, tp, ad)
  <2>1. Ordered(tp, ad)
    <3>1. \A s \in Stages : \A i \in DOMAIN tp[s] : i \in Identifiers /\ tp[s][i] \in Roots
      BY <1>6 DEF Setting, Ordered
    <3>2. 0 \in ad /\ \A i \in DOMAIN tp["stage2"] : i \in ad
      BY <1>6 DEF Setting, Ordered, Stages
    <3> QED
      BY <1>2, <3>1, <3>2 DEF Ordered
  <2>2. InForce(n, tp)
    BY <1>2, <1>4 DEF Setting, InForce
  <2> QED
    BY <1>4, <2>1, <2>2 DEF Setting
<1>8. Apart(tp)
  BY <1>6 DEF Apart
<1>9. ASSUME NEW e \in n.tlb
      PROVE  Ok(n, tp, ad, e) \/ OfAll(n, stage, e)
  <2>1. Ok(m, sp, ad, e)
    BY <1>4 DEF Faithful
  <2>2. CASE stage = "current"
    <3>1. CASE e.stage = "current"
      BY <2>2, <3>1 DEF OfAll
    <3>2. CASE e.stage # "current"
      <4>1. tp["lower"] = sp["lower"] /\ tp["stage2"] = sp["stage2"]
        BY <1>2, <2>2 DEF Stages
      <4>2. \A vmid : (InUse(tp, vmid) <=> InUse(sp, vmid)) /\ Root2(tp, vmid) = Root2(sp, vmid)
        BY <4>1 DEF InUse, Root2
      <4> QED
        BY <1>4, <2>1, <3>2, <4>1, <4>2, OkCarries
    <3> QED
      BY <3>1, <3>2
  <2>3. CASE stage = "lower"
    <3>1. /\ n.regs["current"] = m.regs["current"] /\ tp["stage2"] = sp["stage2"]
          /\ Vmid(n) = Vmid(m)
      BY <1>2, <1>4, <2>3 DEF Stages, Vmid
    <3>2. \A vmid : (InUse(tp, vmid) <=> InUse(sp, vmid)) /\ Root2(tp, vmid) = Root2(sp, vmid)
      BY <3>1 DEF InUse, Root2
    <3>3. CASE e.stage = "lower" /\ InUse(sp, e.vmid)
      <4>1. e.vmid = Vmid(m)
        <5>1. CASE e.vmid \in DOMAIN sp["stage2"]
          BY <2>3, <5>1
        <5>2. CASE DOMAIN sp["stage2"] = {} /\ e.vmid = 0
          BY <5>2 DEF Setting, InForce, Vmid, Off, Stages
        <5> QED
          BY <3>3, <5>1, <5>2 DEF InUse
      <4> QED
        BY <2>3, <3>1, <3>3, <4>1 DEF OfAll
    <3>4. CASE ~(e.stage = "lower" /\ InUse(sp, e.vmid))
      BY <1>4, <2>1, <3>1, <3>2, <3>4, OkCarries
    <3> QED
      BY <3>3, <3>4
  <2>4. CASE stage = "stage2"
    <3>1. n.regs["current"] = m.regs["current"] /\ tp["lower"] = sp["lower"]
      BY <1>2, <1>4, <2>4 DEF Stages
    <3>2. CASE e.stage \in {"lower", "stage2"} /\ e.vmid = 0
      <4>1. Vmid(n) = 0
        BY <1>4, <2>4 DEF Vmid, Off
      <4> QED
        BY <2>4, <3>2, <4>1 DEF OfAll
    <3>3. CASE ~(e.stage \in {"lower", "stage2"} /\ e.vmid = 0)
      <4>1. e.stage \in {"lower", "stage2"} => ~InUse(tp, e.vmid)
        BY <1>2, <2>4, <3>3 DEF InUse
      <4> QED
        BY <1>4, <2>1, <3>1, <4>1, OkCarries
    <3> QED
      BY <3>2, <3>3
  <2> QED
    BY <2>2, <2>3, <2>4 DEF Stages
<1>10. LET k == InvalidateAll(n, stage) IN Setting(k, tp, ad) /\ Faithful(k, tp, ad)
  BY <1>7, <1>9, AllClears
<1> QED
  BY <1>5, <1>8, <1>10 DEF tp

-----------------------------------------------------------------------------
(* The invariant.                                                          *)

LEMMA ReplacedKeeps ==
  ASSUME NEW m, NEW sp, NEW ad, Setting(m, sp, ad), Apart(sp), Faithful(m, sp, ad),
         NEW stage \in Stages, On(m, stage), NEW page, NEW out, NEW attr,
         stage = "lower" => \A id \in DOMAIN sp["stage2"] : id = Vmid(m),
         LET old == CHOOSE leaf \in MappedAt(m, RootOf(m, stage), page) : TRUE
         IN  Leaf(page, IF out = -1 THEN old.out ELSE out, old.size, attr) \in Mappings
  PROVE  LET n == Replaced(m, stage, page, out, attr)
         IN  Setting(n, sp, ad) /\ Faithful(n, sp, ad)
<1> DEFINE old == CHOOSE leaf \in MappedAt(m, RootOf(m, stage), page) : TRUE
           new == Leaf(page, IF out = -1 THEN old.out ELSE out, old.size, attr)
           n == Removed(m, stage, page)
<1>1. Replaced(m, stage, page, out, attr) = Inserted(n, stage, new)
  BY DEF Replaced
<1>2. new \in Mappings
  OBVIOUS
<1> HIDE DEF new, old
<1>3. Setting(n, sp, ad) /\ Faithful(n, sp, ad) /\ n.regs = m.regs
  BY RemovedKeeps
<1>4. On(n, stage)
  BY <1>3 DEF On
<1> HIDE DEF n
<1> QED
  BY <1>1, <1>2, <1>3, <1>4, InsertedKeeps

LEMMA Starts == Init => SessionInv
<1> SUFFICES ASSUME Init PROVE SessionInv
  OBVIOUS
<1>1. IsMachine(machine)
  <2>1. [r \in Roots |-> [frame |-> Frame[r], leaves |-> {}]]
          \in [Roots -> [frame : Nat, leaves : SUBSET Mappings]]
    BY SessionAssumption
  <2>2. [s \in Stages |-> Off] \in [Stages -> [root : Roots \cup {"none"}, id : Identifiers]]
    BY SessionAssumption DEF Off
  <2> QED
    BY <2>1, <2>2 DEF IsMachine, Init
<1>2. \A s \in Stages : DOMAIN spaces[s] = {}
  BY DEF Init, Unused
<1>3. Ordered(spaces, adopted)
  BY <1>2 DEF Ordered, Init, Stages
<1>4. InForce(machine, spaces)
  BY <1>2 DEF InForce, Init
<1>5. Apart(spaces)
  BY <1>2 DEF Apart
<1>6. Faithful(machine, spaces, adopted)
  BY DEF Faithful, Init
<1> QED
  BY <1>1, <1>3, <1>4, <1>5, <1>6 DEF SessionInv, Setting

LEMMA NotOwned ==
  ASSUME SessionInv, NEW root, ~Owned(root)
  PROVE  \A s \in Stages : \A id \in DOMAIN spaces[s] : spaces[s][id] # root
  BY DEF SessionInv, Setting, Ordered, Owned

LEMMA OfflineStep ==
  ASSUME SessionInv, NEW root \in Roots, NEW leaves \in SUBSET Mappings, Offline(root, leaves)
  PROVE  SessionInv'
<1>1. \A s \in Stages : \A id \in DOMAIN spaces[s] : spaces[s][id] # root
  BY NotOwned DEF Offline
<1> QED
  BY <1>1, OfflineKeeps DEF SessionInv, Offline

LEMMA InstallStep ==
  ASSUME SessionInv, NEW stage \in Stages, NEW root \in Roots, NEW id \in Identifiers,
         InstallRoot(stage, root, id)
  PROVE  SessionInv'
<1>1. \A s \in Stages : \A i \in DOMAIN spaces[s] : spaces[s][i] # root
  BY NotOwned DEF InstallRoot
<1>2. LET n == InstalledOn(machine, stage, root, id)
          tp == [spaces EXCEPT ![stage] = With(Unused, id, root)]
          bd == IF stage = "stage2" THEN adopted \cup {id} ELSE adopted
      IN  Setting(n, tp, bd) /\ Faithful(n, tp, bd) /\ Apart(tp)
  BY <1>1, InstalledKeeps, Zenon DEF SessionInv, InstallRoot
<1> QED
  BY <1>2 DEF SessionInv, InstallRoot

LEMMA AdoptStep ==
  ASSUME SessionInv, NEW stage \in Stages, NEW root \in Roots, NEW id \in Identifiers,
         AdoptRoot(stage, root, id)
  PROVE  SessionInv'
<1>1. \A s \in Stages : \A i \in DOMAIN spaces[s] : spaces[s][i] # root
  BY NotOwned DEF AdoptRoot
<1>2. /\ stage \in Stages \ {"current"} /\ On(machine, stage)
      /\ id \notin DOMAIN spaces[stage] /\ (stage = "stage2" => id \notin adopted)
  BY DEF AdoptRoot
<1>3. LET n == Switched(machine, stage, root, id)
          tp == [spaces EXCEPT ![stage] = With(@, id, root)]
          bd == IF stage = "stage2" THEN adopted \cup {id} ELSE adopted
      IN  Setting(n, tp, bd) /\ Faithful(n, tp, bd) /\ Apart(tp)
  BY <1>1, <1>2, AdoptedKeeps DEF SessionInv
<1> QED
  BY <1>3 DEF SessionInv, AdoptRoot

LEMMA SwitchStep ==
  ASSUME SessionInv, NEW stage \in Stages, NEW id \in Identifiers, SwitchRoot(stage, id)
  PROVE  SessionInv'
<1>1. stage \in Stages \ {"current"} /\ id \in DOMAIN spaces[stage]
  BY DEF SwitchRoot
<1> QED
  BY <1>1, SwitchedKeeps DEF SessionInv, SwitchRoot

LEMMA RestoreStep ==
  ASSUME SessionInv, NEW stage \in Stages, RestoreRoot(stage)
  PROVE  SessionInv'
<1>1. LET n == RestoredOff(machine, stage)
          tp == [spaces EXCEPT ![stage] = Unused]
      IN  Setting(n, tp, adopted) /\ Faithful(n, tp, adopted) /\ Apart(tp)
  BY RestoredKeeps DEF SessionInv, RestoreRoot, OneVmid
<1> QED
  BY <1>1 DEF SessionInv, RestoreRoot

LEMMA MapStep ==
  ASSUME SessionInv, NEW stage \in Stages, NEW leaf \in Mappings, MapLeaf(stage, leaf)
  PROVE  SessionInv'
  BY InsertedKeeps DEF SessionInv, MapLeaf

LEMMA UnmapStep ==
  ASSUME SessionInv, NEW stage \in Stages, NEW page, UnmapLeaf(stage, page)
  PROVE  SessionInv'
<1> DEFINE n == Removed(machine, stage, page)
<1>1. Setting(n, spaces, adopted) /\ Faithful(n, spaces, adopted)
  BY RemovedKeeps DEF SessionInv, UnmapLeaf, Mapped, OneVmid
<1> HIDE DEF n
<1>2. LET k == InvalidateAll(n, stage) IN Setting(k, spaces, adopted) /\ Faithful(k, spaces, adopted)
  BY <1>1, AllClears DEF Faithful
<1>3. machine' = n \/ machine' = InvalidateAll(n, stage)
  BY DEF UnmapLeaf, Reclaimed, n
<1> QED
  BY <1>1, <1>2, <1>3 DEF SessionInv, UnmapLeaf

LEMMA ReplaceStep ==
  ASSUME SessionInv, NEW stage \in Stages, NEW page, NEW out \in Outputs, NEW attr,
         ReplaceLeaf(stage, page, out, attr)
  PROVE  SessionInv'
<1> DEFINE root == RootOf(machine, stage)
           old == CHOOSE leaf \in MappedAt(machine, root, page) : TRUE
<1>1. On(machine, stage) /\ MappedAt(machine, root, page) # {}
  BY DEF ReplaceLeaf, Mapped
<1>2. Leaf(page, out, old.size, attr) \in Mappings
  BY DEF ReplaceLeaf
<1>3. root \in Roots
  BY <1>1, RootInForce DEF SessionInv
<1>4. old \in MappedAt(machine, root, page)
  BY <1>1
<1>5. machine' = Replaced(machine, stage, page, out, attr)
      \/ machine' = Replaced(machine, stage, page, -1, old.attr)
  BY DEF ReplaceLeaf
<1> HIDE DEF old
<1>6. old \in Mappings /\ old.in = page
  BY <1>3, <1>4 DEF MappedAt, SessionInv, Setting, IsMachine
<1>7. Leaf(page, old.out, old.size, old.attr) = old
  BY <1>6, SessionAssumption DEF Leaf
<1>8. out # -1
  BY SessionAssumption DEF Outputs
<1>9. LET n == Replaced(machine, stage, page, out, attr)
      IN  Setting(n, spaces, adopted) /\ Faithful(n, spaces, adopted)
  BY <1>1, <1>2, <1>8, ReplacedKeeps DEF SessionInv, ReplaceLeaf, OneVmid, old
<1>10. LET n == Replaced(machine, stage, page, -1, old.attr)
       IN  Setting(n, spaces, adopted) /\ Faithful(n, spaces, adopted)
  BY <1>1, <1>6, <1>7, ReplacedKeeps DEF SessionInv, ReplaceLeaf, OneVmid, old
<1> QED
  BY <1>5, <1>9, <1>10 DEF SessionInv, ReplaceLeaf

LEMMA TlbiStep ==
  ASSUME SessionInv, NEW stage \in Stages, NEW t \in Tlbis, ExplicitTlbi(stage, t)
  PROVE  SessionInv'
<1> t.kind \in {"all", "va", "ipa", "asid", "vmid"}
  BY DEF Tlbis, All, Va, Ipa, OfAsid, OfVmid, Tlbi
<1>1. \/ machine' = InvalidateAll(machine, stage)
      \/ machine' = InvalidateAsid(machine, t.id)
      \/ machine' = InvalidateAddress(machine, stage, t.page)
  BY DEF ExplicitTlbi, AfterTlbi
<1>2. LET n == InvalidateAll(machine, stage)
      IN  Setting(n, spaces, adopted) /\ Faithful(n, spaces, adopted)
  BY AllClears DEF SessionInv, Faithful
<1>3. LET n == InvalidateAsid(machine, t.id)
      IN  Setting(n, spaces, adopted) /\ Faithful(n, spaces, adopted)
  BY AsidClears DEF SessionInv
<1>4. LET n == InvalidateAddress(machine, stage, t.page)
      IN  Setting(n, spaces, adopted) /\ Faithful(n, spaces, adopted)
  BY AddressClears DEF SessionInv, Faithful
<1> QED
  BY <1>1, <1>2, <1>3, <1>4 DEF SessionInv, ExplicitTlbi

LEMMA Inductive == SessionInv /\ [Next]_vars => SessionInv'
<1> SUFFICES ASSUME SessionInv, [Next]_vars PROVE SessionInv'
  OBVIOUS
<1>1. CASE UNCHANGED vars
  BY <1>1 DEF vars, SessionInv
<1>2. ASSUME NEW root \in Roots, Allocate(root) PROVE SessionInv'
  BY <1>2, OfflineStep DEF Allocate
<1>3. ASSUME NEW root \in Roots, NEW leaf \in Mappings, MapOffline(root, leaf) PROVE SessionInv'
  <2>1. machine.tables[root].leaves \cup {leaf} \in SUBSET Mappings
    BY DEF SessionInv, Setting, IsMachine
  <2> QED
    BY <1>3, <2>1, OfflineStep DEF MapOffline
<1>4. ASSUME NEW root \in Roots, NEW page \in Pages, UnmapOffline(root, page) PROVE SessionInv'
  <2>1. machine.tables[root].leaves \ MappedAt(machine, root, page) \in SUBSET Mappings
    BY DEF SessionInv, Setting, IsMachine
  <2> QED
    BY <1>4, <2>1, OfflineStep DEF UnmapOffline
<1>5. ASSUME NEW stage \in Stages,
             \/ \E root \in Roots, id \in Identifiers :
                   InstallRoot(stage, root, id) \/ AdoptRoot(stage, root, id)
             \/ \E id \in Identifiers : SwitchRoot(stage, id)
             \/ RestoreRoot(stage)
      PROVE  SessionInv'
  BY <1>5, InstallStep, AdoptStep, SwitchStep, RestoreStep
<1>6. ASSUME NEW stage \in Stages,
             \/ \E leaf \in Mappings : MapLeaf(stage, leaf)
             \/ \E page \in Pages : UnmapLeaf(stage, page)
             \/ \E page \in Pages, out \in Outputs, attr \in Rights :
                   ReplaceLeaf(stage, page, out, attr)
      PROVE  SessionInv'
  BY <1>6, MapStep, UnmapStep, ReplaceStep
<1>7. ASSUME NEW stage \in Stages, NEW t \in Tlbis, ExplicitTlbi(stage, t) PROVE SessionInv'
  BY <1>7, TlbiStep
<1> QED
  BY <1>1, <1>2, <1>3, <1>4, <1>5, <1>6, <1>7 DEF Next

-----------------------------------------------------------------------------
(* Accesses.                                                               *)

\* What a walk gives does not depend on what is held.
LEMMA WalkedIs ==
  ASSUME NEW m, NEW sp, NEW ad, Setting(m, sp, ad), Faithful(m, sp, ad), NEW stage, NEW page
  PROVE  LET n == WithTlb(m, {})
         IN  Walked(n, stage, page) = Walked(m, stage, page) /\ Held(n, stage, page) = {}
<1> DEFINE n == WithTlb(m, {})
<1>1. IsMachine(n) /\ n.tables = m.tables /\ n.regs = m.regs /\ n.tlb = {}
  BY TlbSet DEF Setting
<1> HIDE DEF n
<1>2. Setting(n, sp, ad)
  BY <1>1, SameOk DEF Setting
<1>3. \A s : On(n, s) = On(m, s) /\ Leaves(n, s) = Leaves(m, s)
  BY <1>1 DEF On, Leaves
<1>4. AnyStage2(m) = Leaves(m, "stage2") /\ AnyStage2(n) = Leaves(n, "stage2")
  BY <1>1, <1>2, CombinedIs DEF Faithful, Ok
<1>5. AnyStage2(n) = AnyStage2(m)
  BY <1>3, <1>4
<1>6. TableReachable(n) = TableReachable(m)
  BY <1>1, <1>3, <1>5 DEF TableReachable
<1>7. Combined(n) = Combined(m)
  BY <1>3, <1>5, <1>6, Zenon DEF Combined
<1>8. InStage2(n, page) = InStage2(m, page)
  BY <1>5 DEF InStage2
<1>9. Walked(n, stage, page) = Walked(m, stage, page)
  <2>1. /\ On(n, stage) = On(m, stage) /\ On(n, "lower") = On(m, "lower")
        /\ On(n, "stage2") = On(m, "stage2") /\ Leaves(n, stage) = Leaves(m, stage)
    BY <1>3
  <2> QED
    BY <2>1, <1>6, <1>7, <1>8 DEF Walked
<1>10. Held(n, stage, page) = {}
  BY <1>1 DEF Held
<1> QED
  BY <1>9, <1>10 DEF n

\* A walk of a translation that is on.
LEMMA WalkGives ==
  ASSUME NEW m, NEW stage \in {"current", "lower"}, On(m, stage),
         stage = "lower" => TableReachable(m), NEW page, NEW one \in Leaves(m, stage),
         Holds(one, page),
         NEW x, x \in IF stage = "current" THEN {Alone(l) : l \in Leaves(m, stage)} ELSE Combined(m),
         Holds(x, page)
  PROVE  Translated(x, page) \in Walked(m, stage, page)
<1> DEFINE pieces == IF stage = "current" THEN {Alone(l) : l \in Leaves(m, stage)} ELSE Combined(m)
<1>1. Walked(m, stage, page) =
         IF ~\E l \in Leaves(m, stage) : Holds(l, page) THEN {Fault("Translation", 1)}
         ELSE IF ~\E p \in pieces : Holds(p, page) THEN {Fault("Translation", 2)}
         ELSE {Translated(p, page) : p \in {q \in pieces : Holds(q, page)}}
  BY DEF Walked
<1> HIDE DEF pieces
<1>2. x \in pieces
  BY DEF pieces
<1> QED
  BY <1>1, <1>2

LEMMA PieceWithin ==
  ASSUME NEW one \in Mappings, NEW two \in Mappings, NEW page \in Int,
         Reached(one, two), Holds(Piece(one, two), page)
  PROVE  Holds(one, page)
<1>1. /\ one.in \in Nat /\ one.out \in Nat /\ one.size \in Nat
      /\ two.in \in Nat /\ two.out \in Nat /\ two.size \in Nat
  BY SessionAssumption
<1> DEFINE low == IF one.out > two.in THEN one.out ELSE two.in
           rest1 == one.size - (low - one.out)
           rest2 == two.size - (low - two.in)
<1>2. /\ Piece(one, two).in = one.in + (low - one.out)
      /\ Piece(one, two).size = IF rest1 < rest2 THEN rest1 ELSE rest2
  BY DEF Piece
<1>3. low \in Int /\ low >= one.out
  BY <1>1
<1>4. one.in + (low - one.out) <= page
  BY <1>2 DEF Holds
<1>5. page - (one.in + (low - one.out)) < rest1
  <2>1. page - (one.in + (low - one.out)) < IF rest1 < rest2 THEN rest1 ELSE rest2
    BY <1>2 DEF Holds
  <2> HIDE DEF low
  <2> QED
    BY <1>1, <1>3, <2>1
<1> HIDE DEF low
<1> QED
  BY <1>1, <1>3, <1>4, <1>5 DEF Holds

LEMMA HeldIsWalked ==
  ASSUME NEW m, NEW sp, NEW ad, Setting(m, sp, ad), Faithful(m, sp, ad),
         NEW stage \in {"current", "lower"}, NEW page \in Int
  PROVE  Held(m, stage, page) \subseteq Walked(m, stage, page)
<1> SUFFICES ASSUME NEW e \in m.tlb, e.stage = stage, SameSpace(m, e), Holds(e.leaf, page)
             PROVE  Translated(e.leaf, page) \in Walked(m, stage, page)
  BY DEF Held
<1>1. Ok(m, sp, ad, e) /\ m.defect = "nothing"
  BY InForceFacts DEF Faithful
<1>2. CASE stage = "current"
  <2>1. PICK l \in Leaves(m, "current") : e.leaf = Alone(l)
    BY <1>1, <1>2 DEF Ok, CurrentOk, SameSpace
  <2>2. On(m, "current")
    BY <2>1 DEF Leaves
  <2>3. Holds(l, page)
    BY <2>1 DEF Alone, Holds
  <2> QED
    BY <1>2, <2>1, <2>2, <2>3, WalkGives
<1>3. CASE stage = "lower"
  <2>1. e.asid = Asid(m) /\ e.vmid = Vmid(m)
    BY <1>1, <1>3 DEF SameSpace
  <2>2. e.asid \in DOMAIN sp["lower"]
        /\ e.leaf \in CombinedAt(m, sp["lower"][e.asid], Root2(sp, e.vmid))
    BY <1>1, <1>3, <2>1, InForceFacts DEF Ok, LowerOk
  <2>3. On(m, "lower")
    BY <2>2, InForceFacts DEF Stages
  <2>4. e.leaf \in Combined(m) /\ AnyStage2(m) = Leaves(m, "stage2")
    <3>1. \A d \in m.tlb : Stage2Ok(m, sp, d)
      BY DEF Faithful, Ok
    <3>2. sp["lower"][e.asid] = m.regs["lower"].root
          /\ Root2(sp, e.vmid) = m.regs["stage2"].root
      BY <2>1, <2>3, InForceFacts
    <3> QED
      BY <2>2, <3>1, <3>2, CombinedIs
  <2>5. TableReachable(m)
    BY <2>4 DEF Combined
  <2>6. PICK one \in Leaves(m, "lower") : Holds(one, page)
    <3>1. \A s \in Stages : Leaves(m, s) \subseteq Mappings
      BY SessionAssumption DEF Setting, IsMachine, Leaves, On
    <3>2. CASE ~On(m, "stage2")
      <4>1. PICK l \in Leaves(m, "lower") : e.leaf = Alone(l)
        BY <2>3, <2>4, <2>5, <3>2 DEF Combined
      <4>2. Holds(l, page)
        BY <4>1 DEF Alone, Holds
      <4> QED
        BY <4>2
    <3>3. CASE On(m, "stage2")
      <4>1. PICK p \in Leaves(m, "lower") \X AnyStage2(m) :
                   Reached(p[1], p[2]) /\ e.leaf = Piece(p[1], p[2])
        BY <2>3, <2>4, <2>5, <3>3 DEF Combined
      <4>2. p[1] \in Leaves(m, "lower") /\ p[1] \in Mappings /\ p[2] \in Mappings
        BY <2>4, <3>1, <4>1 DEF Stages
      <4>3. Holds(p[1], page)
        BY <4>1, <4>2, PieceWithin
      <4> QED
        BY <4>2, <4>3
    <3> QED
      BY <3>2, <3>3
  <2> QED
    BY <1>3, <2>3, <2>4, <2>5, <2>6, WalkGives
<1> QED
  BY <1>2, <1>3

LEMMA Implied == SessionInv => NoStaleTranslation
<1> SUFFICES ASSUME SessionInv, NEW stage \in {"current", "lower"}, NEW page \in Touched
             PROVE  MayUse(machine, stage, page) = MayUse(WithTlb(machine, {}), stage, page)
  BY DEF NoStaleTranslation
<1> DEFINE n == WithTlb(machine, {})
<1>1. Setting(machine, spaces, adopted) /\ Faithful(machine, spaces, adopted)
  BY DEF SessionInv
<1>2. page \in Int
  <2>1. PICK leaf \in Mappings : page \in leaf.in..(leaf.in + leaf.size - 1)
    BY DEF Touched
  <2> QED
    BY <2>1, SessionAssumption
<1>3. machine.defect = "nothing" /\ n.defect = "nothing"
  BY <1>1, TlbSet DEF Setting, IsMachine
<1>4. Walked(n, stage, page) = Walked(machine, stage, page) /\ Held(n, stage, page) = {}
  BY <1>1, WalkedIs
<1>5. Held(machine, stage, page) \subseteq Walked(machine, stage, page)
  BY <1>1, <1>2, HeldIsWalked
<1>6. WithTlb(n, {}) = n
  BY DEF WithTlb
<1> HIDE DEF n
<1>7. MayUse(machine, stage, page) = Walked(machine, stage, page)
  BY <1>3, <1>4, <1>5 DEF MayUse, n
<1>8. MayUse(n, stage, page) = Walked(machine, stage, page)
  BY <1>3, <1>4, <1>6 DEF MayUse
<1> QED
  BY <1>7, <1>8 DEF n

\* Whatever a body does with its translations within its three rules, on a PE
\* that conforms every access goes where the tables say: the maintenance of the
\* live mapper, of installation and of restoration leaves no identifier in use
\* with a translation that is no longer in its tables.
THEOREM NoStaleTranslationCorrect == Spec => []NoStaleTranslation
<1>1. Spec => []SessionInv
  BY Starts, Inductive, PTL DEF Spec
<1> QED
  BY <1>1, Implied, PTL
=============================================================================
