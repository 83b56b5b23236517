-------------------------- MODULE TestBodiesProofs --------------------------
(***************************************************************************)
(* Proofs about the test bodies on a PE that conforms, for any number of   *)
(* tests in any order.                                                     *)
(*                                                                         *)
(* What a PE may do grows with what its TLBs may hold (Near), and a body   *)
(* that has passed on the fullest TLBs (BodyOutline) passes on any that    *)
(* hold less; it leaves no more than the outline says, so the next test    *)
(* begins below its outline again.                                         *)
(***************************************************************************)
EXTENDS BodyOutline, TLAPS

\* Two machines that differ at most in their TLBs, the second's as full at
\* least where the PE conforms.
Near(d, a, b) ==
    /\ IsMachine(b) /\ b.defect = d
    /\ a = WithTlb(b, a.tlb)
    /\ IF d = "nothing" THEN a.tlb \subseteq b.tlb ELSE a.tlb = b.tlb

\* The same answer, and machines that are near.
Alike(d, r, q) == r.fine = q.fine /\ r.owned = q.owned /\ Near(d, r.m, q.m)

\* Whatever the first may answer, the second may.
Simulated(d, R, Q) == \A r \in R : \E q \in Q : Alike(d, r, q)

-----------------------------------------------------------------------------
(* Machines.                                                               *)

LEMMA Fields ==
  ASSUME NEW d, NEW a, NEW b, Near(d, a, b)
  PROVE  /\ IsMachine(a) /\ IsMachine(b)
         /\ a.defect = d /\ b.defect = d
         /\ a.tables = b.tables /\ a.regs = b.regs /\ a.updates = b.updates
         /\ a.memory = b.memory /\ a.coherent = b.coherent /\ a.secondary = b.secondary
         /\ a.tlb \subseteq b.tlb
         /\ d # "nothing" => a = b
<1> DEFINE n == a.tlb
<1>1. a = [tables |-> b.tables, regs |-> b.regs, updates |-> b.updates, memory |-> b.memory,
           coherent |-> b.coherent, secondary |-> b.secondary, tlb |-> n,
           defect |-> b.defect]
  BY DEF Near, IsMachine, WithTlb
<1> QED
  BY <1>1 DEF Near, IsMachine

\* Machines are near by their fields.
LEMMA NearBy ==
  ASSUME NEW d, NEW t, NEW r, NEW u, NEW p, NEW c, NEW s, NEW x, NEW y,
         x \subseteq y, d # "nothing" => x = y
  PROVE  Near(d, [tables |-> t, regs |-> r, updates |-> u, memory |-> p, coherent |-> c,
                  secondary |-> s, tlb |-> x, defect |-> d],
                 [tables |-> t, regs |-> r, updates |-> u, memory |-> p, coherent |-> c,
                  secondary |-> s, tlb |-> y, defect |-> d])
  BY DEF Near, IsMachine, WithTlb

LEMMA NearItself ==
  ASSUME NEW a, IsMachine(a)
  PROVE  Near(a.defect, a, a)
  BY DEF Near, IsMachine, WithTlb

LEMMA NearTlb ==
  ASSUME NEW d, NEW a, NEW b, Near(d, a, b), NEW x, NEW y,
         x \subseteq y, d # "nothing" => x = y
  PROVE  Near(d, WithTlb(a, x), WithTlb(b, y))
<1>1. WithTlb(a, x) = [tables |-> b.tables, regs |-> b.regs, updates |-> b.updates,
                       memory |-> b.memory, coherent |-> b.coherent,
                       secondary |-> b.secondary, tlb |-> x, defect |-> d]
  BY Fields DEF IsMachine, WithTlb
<1>2. WithTlb(b, y) = [tables |-> b.tables, regs |-> b.regs, updates |-> b.updates,
                       memory |-> b.memory, coherent |-> b.coherent,
                       secondary |-> b.secondary, tlb |-> y, defect |-> d]
  BY Fields DEF IsMachine, WithTlb
<1> QED
  BY <1>1, <1>2, NearBy

LEMMA NearTables ==
  ASSUME NEW d, NEW a, NEW b, Near(d, a, b), NEW t
  PROVE  Near(d, [a EXCEPT !.tables = t], [b EXCEPT !.tables = t])
<1>1. [a EXCEPT !.tables = t]
      = [tables |-> t, regs |-> b.regs, updates |-> b.updates,
         memory |-> b.memory, coherent |-> b.coherent,
         secondary |-> b.secondary, tlb |-> a.tlb,
         defect |-> d]
  BY Fields DEF IsMachine
<1>2. [b EXCEPT !.tables = t]
      = [tables |-> t, regs |-> b.regs, updates |-> b.updates,
         memory |-> b.memory, coherent |-> b.coherent,
         secondary |-> b.secondary, tlb |-> b.tlb,
         defect |-> d]
  BY Fields DEF IsMachine
<1>3. a.tlb \subseteq b.tlb /\ (d # "nothing" => a.tlb = b.tlb)
  BY Fields
<1> QED
  BY <1>1, <1>2, <1>3, NearBy

LEMMA NearRegs ==
  ASSUME NEW d, NEW a, NEW b, Near(d, a, b), NEW r
  PROVE  Near(d, [a EXCEPT !.regs = r], [b EXCEPT !.regs = r])
<1>1. [a EXCEPT !.regs = r]
      = [tables |-> b.tables, regs |-> r, updates |-> b.updates,
         memory |-> b.memory, coherent |-> b.coherent,
         secondary |-> b.secondary, tlb |-> a.tlb, defect |-> d]
  BY Fields DEF IsMachine
<1>2. [b EXCEPT !.regs = r]
      = [tables |-> b.tables, regs |-> r, updates |-> b.updates,
         memory |-> b.memory, coherent |-> b.coherent,
         secondary |-> b.secondary, tlb |-> b.tlb, defect |-> d]
  BY Fields DEF IsMachine
<1>3. a.tlb \subseteq b.tlb /\ (d # "nothing" => a.tlb = b.tlb)
  BY Fields
<1> QED
  BY <1>1, <1>2, <1>3, NearBy

LEMMA NearUpdates ==
  ASSUME NEW d, NEW a, NEW b, Near(d, a, b), NEW u
  PROVE  Near(d, [a EXCEPT !.updates = u], [b EXCEPT !.updates = u])
<1>1. [a EXCEPT !.updates = u]
      = [tables |-> b.tables, regs |-> b.regs, updates |-> u,
         memory |-> b.memory, coherent |-> b.coherent,
         secondary |-> b.secondary, tlb |-> a.tlb,
         defect |-> d]
  BY Fields DEF IsMachine
<1>2. [b EXCEPT !.updates = u]
      = [tables |-> b.tables, regs |-> b.regs, updates |-> u,
         memory |-> b.memory, coherent |-> b.coherent,
         secondary |-> b.secondary, tlb |-> b.tlb,
         defect |-> d]
  BY Fields DEF IsMachine
<1>3. a.tlb \subseteq b.tlb /\ (d # "nothing" => a.tlb = b.tlb)
  BY Fields
<1> QED
  BY <1>1, <1>2, <1>3, NearBy

LEMMA NearSecondary ==
  ASSUME NEW d, NEW a, NEW b, Near(d, a, b), NEW s
  PROVE  Near(d, [a EXCEPT !.secondary = s], [b EXCEPT !.secondary = s])
<1>1. [a EXCEPT !.secondary = s]
      = [tables |-> b.tables, regs |-> b.regs,
         updates |-> b.updates, memory |-> b.memory,
         coherent |-> b.coherent, secondary |-> s,
         tlb |-> a.tlb, defect |-> d]
  BY Fields DEF IsMachine
<1>2. [b EXCEPT !.secondary = s]
      = [tables |-> b.tables, regs |-> b.regs,
         updates |-> b.updates, memory |-> b.memory,
         coherent |-> b.coherent, secondary |-> s,
         tlb |-> b.tlb, defect |-> d]
  BY Fields DEF IsMachine
<1>3. a.tlb \subseteq b.tlb /\ (d # "nothing" => a.tlb = b.tlb)
  BY Fields
<1> QED
  BY <1>1, <1>2, <1>3, NearBy

LEMMA NearLeaves ==
  ASSUME NEW d, NEW a, NEW b, Near(d, a, b), NEW root, NEW leaves
  PROVE  Near(d, WithLeaves(a, root, leaves), WithLeaves(b, root, leaves))
<1>1. WithLeaves(a, root, leaves)
      = [tables |-> [b.tables EXCEPT ![root].leaves = leaves],
         regs |-> b.regs, updates |-> b.updates,
         memory |-> b.memory, coherent |-> b.coherent,
         secondary |-> b.secondary, tlb |-> a.tlb,
         defect |-> d]
  BY Fields DEF IsMachine, WithLeaves
<1>2. WithLeaves(b, root, leaves)
      = [tables |-> [b.tables EXCEPT ![root].leaves = leaves],
         regs |-> b.regs, updates |-> b.updates,
         memory |-> b.memory, coherent |-> b.coherent,
         secondary |-> b.secondary, tlb |-> b.tlb,
         defect |-> d]
  BY Fields DEF IsMachine, WithLeaves
<1>3. a.tlb \subseteq b.tlb /\ (d # "nothing" => a.tlb = b.tlb)
  BY Fields
<1> QED
  BY <1>1, <1>2, <1>3, NearBy

LEMMA NearRoot ==
  ASSUME NEW d, NEW a, NEW b, Near(d, a, b), NEW stage, NEW root, NEW id
  PROVE  Near(d, WithRoot(a, stage, root, id), WithRoot(b, stage, root, id))
<1>1. WithRoot(a, stage, root, id)
      = [tables |-> b.tables,
         regs |-> [b.regs EXCEPT ![stage] = [root |-> root, id |-> id]],
         updates |-> b.updates, memory |-> b.memory,
         coherent |-> b.coherent,
         secondary |-> b.secondary, tlb |-> a.tlb,
         defect |-> d]
  BY Fields DEF IsMachine, WithRoot
<1>2. WithRoot(b, stage, root, id)
      = [tables |-> b.tables,
         regs |-> [b.regs EXCEPT ![stage] = [root |-> root, id |-> id]],
         updates |-> b.updates, memory |-> b.memory,
         coherent |-> b.coherent,
         secondary |-> b.secondary, tlb |-> b.tlb,
         defect |-> d]
  BY Fields DEF IsMachine, WithRoot
<1>3. a.tlb \subseteq b.tlb /\ (d # "nothing" => a.tlb = b.tlb)
  BY Fields
<1> QED
  BY <1>1, <1>2, <1>3, NearBy

LEMMA NearMode ==
  ASSUME NEW d, NEW a, NEW b, Near(d, a, b), NEW stage, NEW mode
  PROVE  Near(d, [a EXCEPT !.updates[stage] = mode], [b EXCEPT !.updates[stage] = mode])
<1>1. [a EXCEPT !.updates[stage] = mode]
      = [tables |-> b.tables, regs |-> b.regs,
         updates |-> [b.updates EXCEPT ![stage] = mode],
         memory |-> b.memory,
         coherent |-> b.coherent,
         secondary |-> b.secondary, tlb |-> a.tlb,
         defect |-> d]
  BY Fields DEF IsMachine
<1>2. [b EXCEPT !.updates[stage] = mode]
      = [tables |-> b.tables, regs |-> b.regs,
         updates |-> [b.updates EXCEPT ![stage] = mode],
         memory |-> b.memory,
         coherent |-> b.coherent,
         secondary |-> b.secondary, tlb |-> b.tlb,
         defect |-> d]
  BY Fields DEF IsMachine
<1>3. a.tlb \subseteq b.tlb /\ (d # "nothing" => a.tlb = b.tlb)
  BY Fields
<1> QED
  BY <1>1, <1>2, <1>3, NearBy

LEMMA NearMemory ==
  ASSUME NEW d, NEW a, NEW b, Near(d, a, b), NEW p
  PROVE  Near(d, [a EXCEPT !.memory = p], [b EXCEPT !.memory = p])
<1>1. [a EXCEPT !.memory = p]
      = [tables |-> b.tables, regs |-> b.regs, updates |-> b.updates,
         memory |-> p, coherent |-> b.coherent,
         secondary |-> b.secondary, tlb |-> a.tlb,
         defect |-> d]
  BY Fields DEF IsMachine
<1>2. [b EXCEPT !.memory = p]
      = [tables |-> b.tables, regs |-> b.regs, updates |-> b.updates,
         memory |-> p, coherent |-> b.coherent,
         secondary |-> b.secondary, tlb |-> b.tlb,
         defect |-> d]
  BY Fields DEF IsMachine
<1>3. a.tlb \subseteq b.tlb /\ (d # "nothing" => a.tlb = b.tlb)
  BY Fields
<1> QED
  BY <1>1, <1>2, <1>3, NearBy

LEMMA NearCoherence ==
  ASSUME NEW d, NEW a, NEW b, Near(d, a, b), NEW c
  PROVE  Near(d, [a EXCEPT !.coherent = c], [b EXCEPT !.coherent = c])
<1>1. [a EXCEPT !.coherent = c]
      = [tables |-> b.tables, regs |-> b.regs, updates |-> b.updates,
         memory |-> b.memory, coherent |-> c,
         secondary |-> b.secondary, tlb |-> a.tlb,
         defect |-> d]
  BY Fields DEF IsMachine
<1>2. [b EXCEPT !.coherent = c]
      = [tables |-> b.tables, regs |-> b.regs, updates |-> b.updates,
         memory |-> b.memory, coherent |-> c,
         secondary |-> b.secondary, tlb |-> b.tlb,
         defect |-> d]
  BY Fields DEF IsMachine
<1>3. a.tlb \subseteq b.tlb /\ (d # "nothing" => a.tlb = b.tlb)
  BY Fields
<1> QED
  BY <1>1, <1>2, <1>3, NearBy

LEMMA NearStored ==
  ASSUME NEW d, NEW a, NEW b, Near(d, a, b), NEW page, NEW value
  PROVE  Near(d, Stored(a, page, value), Stored(b, page, value))
<1> DEFINE p == (page :> value) @@ b.memory
           u == [a EXCEPT !.memory = p]
           v == [b EXCEPT !.memory = p]
<1>1. a.memory = b.memory
  BY Fields
<1>2. Stored(a, page, value) = [u EXCEPT !.coherent = u.coherent \ {page}]
      /\ Stored(b, page, value) = [v EXCEPT !.coherent = v.coherent \ {page}]
  BY <1>1, Zenon DEF Stored
<1> HIDE DEF p
<1>3. Near(d, u, v)
  BY NearMemory
<1> HIDE DEF u, v
<1>4. u.coherent = v.coherent
  BY <1>3, Fields
<1> QED
  BY <1>2, <1>3, <1>4, NearCoherence

LEMMA NearMachine ==
  ASSUME NEW d, NEW x, NEW y, x \subseteq y, d # "nothing" => x = y
  PROVE  Near(d, Machine(x, d), Machine(y, d))
  BY NearBy DEF Machine

LEMMA NearRenewed ==
  ASSUME NEW d, NEW a, NEW b, Near(d, a, b)
  PROVE  Near(d, Renewed(a), Renewed(b))
<1>1. Near(d, Machine(a.tlb, d), Machine(b.tlb, d))
  BY Fields, NearMachine
<1> QED
  BY <1>1, Fields, NearRegs DEF Renewed

LEMMA NearCoherent ==
  ASSUME NEW d, NEW a, NEW b, Near(d, a, b), NEW page
  PROVE  Near(d, MadeCoherent(a, page), MadeCoherent(b, page))
<1>1. a.coherent = b.coherent /\ a.defect = d /\ b.defect = d
  BY Fields
<1> DEFINE c == b.coherent \cup {page}
<1>2. Near(d, [a EXCEPT !.coherent = c], [b EXCEPT !.coherent = c])
  BY NearCoherence
<1>3. CASE d = "icache"
  BY <1>1, <1>3 DEF MadeCoherent
<1>4. CASE d # "icache"
  <2>1. MadeCoherent(a, page) = [a EXCEPT !.coherent = c]
        /\ MadeCoherent(b, page) = [b EXCEPT !.coherent = c]
    BY <1>1, <1>4 DEF MadeCoherent
  <2> HIDE DEF c
  <2> QED
    BY <1>2, <2>1
<1> QED
  BY <1>3, <1>4

-----------------------------------------------------------------------------
(* What is read of a machine, and what may be walked and fetched.          *)

LEMMA Reads ==
  ASSUME NEW d, NEW a, NEW b, Near(d, a, b)
  PROVE  /\ \A s : On(a, s) = On(b, s) /\ Leaves(a, s) = Leaves(b, s)
         /\ \A s : RootOf(a, s) = RootOf(b, s) /\ Identifier(a, s) = Identifier(b, s)
         /\ Vmid(a) = Vmid(b) /\ Asid(a) = Asid(b)
         /\ \A r, p : MappedAt(a, r, p) = MappedAt(b, r, p)
         /\ \A r, l : Mappable(a, r, l) = Mappable(b, r, l)
         /\ \A p : Contents(a, p) = Contents(b, p) /\ FetchedFresh(a, p) = FetchedFresh(b, p)
<1>1. /\ a.tables = b.tables /\ a.regs = b.regs /\ a.memory = b.memory
      /\ a.coherent = b.coherent /\ a.defect = b.defect
  BY Fields
<1>2. \A s : On(a, s) = On(b, s) /\ Leaves(a, s) = Leaves(b, s)
  BY <1>1 DEF On, Leaves
<1>3. \A s : RootOf(a, s) = RootOf(b, s) /\ Identifier(a, s) = Identifier(b, s)
  BY <1>1 DEF RootOf, Identifier
<1>4. Vmid(a) = Vmid(b) /\ Asid(a) = Asid(b)
  BY <1>1 DEF Vmid, Asid
<1>5. \A r, p : MappedAt(a, r, p) = MappedAt(b, r, p)
  BY <1>1, Zenon DEF MappedAt
<1>6. \A r, l : Mappable(a, r, l) = Mappable(b, r, l)
  BY <1>1, Zenon DEF Mappable
<1>7. \A p : Contents(a, p) = Contents(b, p)
  BY <1>1 DEF Contents
<1>8. \A p : FetchedFresh(a, p) = FetchedFresh(b, p)
  BY <1>1 DEF FetchedFresh
<1> QED
  BY <1>2, <1>3, <1>4, <1>5, <1>6, <1>7, <1>8

\* A fuller TLB holds more of stage 2, and so more can be walked.
LEMMA WalksGrow ==
  ASSUME NEW d, NEW a, NEW b, Near(d, a, b)
  PROVE  /\ AnyStage2(a) \subseteq AnyStage2(b)
         /\ TableReachable(a) => TableReachable(b)
         /\ Combined(a) \subseteq Combined(b)
         /\ \A page : InStage2(a, page) \subseteq InStage2(b, page)
         /\ Fetched(a) \subseteq Fetched(b)
<1>1. CASE d # "nothing"
  <2>1. a = b
    BY <1>1, Fields
  <2> QED
    BY <2>1
<1>2. CASE d = "nothing"
  <2>1. /\ \A s : On(a, s) = On(b, s) /\ Leaves(a, s) = Leaves(b, s)
        /\ Vmid(a) = Vmid(b) /\ Asid(a) = Asid(b)
    BY Reads
  <2>2. /\ a.tlb \subseteq b.tlb /\ a.tables = b.tables /\ a.regs = b.regs
        /\ a.defect = "nothing" /\ b.defect = "nothing"
    BY <1>2, Fields
  <2>3. AnyStage2(a) \subseteq AnyStage2(b)
    <3>1. HeldStage2(a) \subseteq HeldStage2(b)
      BY <2>1, <2>2 DEF HeldStage2
    <3>2. AnyStage2(a) = HeldStage2(a) \cup Leaves(a, "stage2")
          /\ AnyStage2(b) = HeldStage2(b) \cup Leaves(b, "stage2")
      BY <2>2 DEF AnyStage2
    <3> QED
      BY <2>1, <3>1, <3>2
  <2>4. TableReachable(a) => TableReachable(b)
    BY <2>1, <2>2, <2>3 DEF TableReachable
  <2>5. Combined(a) \subseteq Combined(b)
    <3>1. CASE ~On(a, "lower") \/ ~TableReachable(a)
      BY <3>1 DEF Combined
    <3>2. CASE On(a, "lower") /\ TableReachable(a) /\ ~On(a, "stage2")
      <4>1. Combined(a) = {Alone(one) : one \in Leaves(a, "lower")}
        BY <3>2 DEF Combined
      <4>2. Combined(b) = {Alone(one) : one \in Leaves(b, "lower")}
        BY <2>1, <2>4, <3>2 DEF Combined
      <4> QED
        BY <2>1, <4>1, <4>2, Zenon
    <3>3. CASE On(a, "lower") /\ TableReachable(a) /\ On(a, "stage2")
      <4>1. Combined(a) =
              {Piece(p[1], p[2]) :
                 p \in {q \in Leaves(a, "lower") \X AnyStage2(a) : Reached(q[1], q[2])}}
        BY <3>3 DEF Combined
      <4>2. Combined(b) =
              {Piece(p[1], p[2]) :
                 p \in {q \in Leaves(b, "lower") \X AnyStage2(b) : Reached(q[1], q[2])}}
        BY <2>1, <2>4, <3>3 DEF Combined
      <4>3. {q \in Leaves(a, "lower") \X AnyStage2(a) : Reached(q[1], q[2])}
            \subseteq {q \in Leaves(b, "lower") \X AnyStage2(b) : Reached(q[1], q[2])}
        BY <2>1, <2>3
      <4> QED
        BY <4>1, <4>2, <4>3, Zenon
    <3> QED
      BY <3>1, <3>2, <3>3
  <2>6. \A page : InStage2(a, page) \subseteq InStage2(b, page)
    BY <2>3 DEF InStage2
  <2>7. Fetched(a) \subseteq Fetched(b)
    <3>1. a.regs["current"].id = b.regs["current"].id
      BY <2>2
    <3> QED
      BY <2>1, <2>5, <3>1 DEF Fetched
  <2> QED
    BY <2>3, <2>4, <2>5, <2>6, <2>7
<1> QED
  BY <1>1, <1>2

LEMMA PrefetchNear ==
  ASSUME NEW d, NEW a, NEW b, Near(d, a, b)
  PROVE  Near(d, Prefetch(a), Prefetch(b))
<1>1. a.defect = d /\ b.defect = d /\ a.tlb \subseteq b.tlb
  BY Fields
<1>2. CASE d = "nothing"
  <2>1. Near(d, WithTlb(a, a.tlb \cup Fetched(a)), WithTlb(b, b.tlb \cup Fetched(b)))
    BY <1>1, <1>2, WalksGrow, NearTlb
  <2> QED
    BY <1>1, <1>2, <2>1 DEF Prefetch
<1>3. CASE d # "nothing"
  BY <1>1, <1>3 DEF Prefetch
<1> QED
  BY <1>2, <1>3

-----------------------------------------------------------------------------
(* Invalidation.                                                           *)

LEMMA WithoutNear ==
  ASSUME NEW d, NEW a, NEW b, Near(d, a, b), NEW byAddress \in BOOLEAN, NEW x, NEW y,
         a.tlb \ x \subseteq b.tlb \ y, d # "nothing" => x = y
  PROVE  Near(d, Without(a, byAddress, x), Without(b, byAddress, y))
<1>1. a.defect = d /\ b.defect = d /\ (d # "nothing" => a = b)
  BY Fields
<1>2. CASE d = "invalidate" \/ (d = "address" /\ byAddress)
  BY <1>1, <1>2 DEF Without
<1>3. CASE ~(d = "invalidate" \/ (d = "address" /\ byAddress))
  <2>1. Without(a, byAddress, x) = Prefetch(WithTlb(a, a.tlb \ x))
        /\ Without(b, byAddress, y) = Prefetch(WithTlb(b, b.tlb \ y))
    BY <1>1, <1>3 DEF Without
  <2>2. Near(d, WithTlb(a, a.tlb \ x), WithTlb(b, b.tlb \ y))
    BY <1>1, NearTlb
  <2> QED
    BY <2>1, <2>2, PrefetchNear
<1> QED
  BY <1>2, <1>3

LEMMA CurrentAllNear ==
  ASSUME NEW d, NEW a, NEW b, Near(d, a, b)
  PROVE  Near(d, InvalidateCurrentAll(a), InvalidateCurrentAll(b))
<1> DEFINE Gone(k) == {e \in k.tlb : e.stage = "current"}
<1>1. InvalidateCurrentAll(a) = Without(a, FALSE, Gone(a))
      /\ InvalidateCurrentAll(b) = Without(b, FALSE, Gone(b))
  BY Reads, Zenon DEF InvalidateCurrentAll
<1>2. a.tlb \ Gone(a) \subseteq b.tlb \ Gone(b) /\ (d # "nothing" => Gone(a) = Gone(b))
  BY Fields
<1> HIDE DEF Gone
<1> QED
  BY <1>1, <1>2, WithoutNear

LEMMA CurrentAddressNear ==
  ASSUME NEW d, NEW a, NEW b, Near(d, a, b), NEW page, NEW asid
  PROVE  Near(d, InvalidateCurrentAddress(a, page, asid), InvalidateCurrentAddress(b, page, asid))
<1> DEFINE Gone(k) == {e \in k.tlb : e.stage = "current" /\ e.asid = asid /\ Holds(e.leaf.block, page)}
<1>1. InvalidateCurrentAddress(a, page, asid) = Without(a, TRUE, Gone(a))
      /\ InvalidateCurrentAddress(b, page, asid) = Without(b, TRUE, Gone(b))
  BY Reads, Zenon DEF InvalidateCurrentAddress
<1>2. a.tlb \ Gone(a) \subseteq b.tlb \ Gone(b) /\ (d # "nothing" => Gone(a) = Gone(b))
  BY Fields
<1> HIDE DEF Gone
<1> QED
  BY <1>1, <1>2, WithoutNear

LEMMA LowerAllNear ==
  ASSUME NEW d, NEW a, NEW b, Near(d, a, b)
  PROVE  Near(d, InvalidateLowerAll(a), InvalidateLowerAll(b))
<1> DEFINE Gone(k) == {e \in k.tlb : e.stage = "lower" /\ e.vmid = Vmid(b)}
<1>1. InvalidateLowerAll(a) = Without(a, FALSE, Gone(a))
      /\ InvalidateLowerAll(b) = Without(b, FALSE, Gone(b))
  BY Reads, Zenon DEF InvalidateLowerAll
<1>2. a.tlb \ Gone(a) \subseteq b.tlb \ Gone(b) /\ (d # "nothing" => Gone(a) = Gone(b))
  BY Fields
<1> HIDE DEF Gone
<1> QED
  BY <1>1, <1>2, WithoutNear

LEMMA LowerAddressNear ==
  ASSUME NEW d, NEW a, NEW b, Near(d, a, b), NEW page, NEW asid
  PROVE  Near(d, InvalidateLowerAddress(a, page, asid), InvalidateLowerAddress(b, page, asid))
<1> DEFINE Gone(k) == {e \in k.tlb : /\ e.stage = "lower" /\ e.asid = asid /\ e.vmid = Vmid(b)
                                /\ Holds(e.leaf.block, page)}
<1>1. InvalidateLowerAddress(a, page, asid) = Without(a, TRUE, Gone(a))
      /\ InvalidateLowerAddress(b, page, asid) = Without(b, TRUE, Gone(b))
  BY Reads, Zenon DEF InvalidateLowerAddress
<1>2. a.tlb \ Gone(a) \subseteq b.tlb \ Gone(b) /\ (d # "nothing" => Gone(a) = Gone(b))
  BY Fields
<1> HIDE DEF Gone
<1> QED
  BY <1>1, <1>2, WithoutNear

LEMMA AsidNear ==
  ASSUME NEW d, NEW a, NEW b, Near(d, a, b), NEW asid
  PROVE  Near(d, InvalidateAsid(a, asid), InvalidateAsid(b, asid))
<1> DEFINE Gone(k) == {e \in k.tlb : e.stage = "lower" /\ e.asid = asid /\ e.vmid = Vmid(b)}
<1>1. InvalidateAsid(a, asid) = Without(a, FALSE, Gone(a))
      /\ InvalidateAsid(b, asid) = Without(b, FALSE, Gone(b))
  BY Reads, Zenon DEF InvalidateAsid
<1>2. a.tlb \ Gone(a) \subseteq b.tlb \ Gone(b) /\ (d # "nothing" => Gone(a) = Gone(b))
  BY Fields
<1> HIDE DEF Gone
<1> QED
  BY <1>1, <1>2, WithoutNear

LEMMA Stage2AllNear ==
  ASSUME NEW d, NEW a, NEW b, Near(d, a, b)
  PROVE  Near(d, InvalidateStage2All(a), InvalidateStage2All(b))
<1> DEFINE Gone(k) == {e \in k.tlb : e.stage \in {"lower", "stage2"} /\ e.vmid = Vmid(b)}
<1>1. InvalidateStage2All(a) = Without(a, FALSE, Gone(a))
      /\ InvalidateStage2All(b) = Without(b, FALSE, Gone(b))
  BY Reads, Zenon DEF InvalidateStage2All
<1>2. a.tlb \ Gone(a) \subseteq b.tlb \ Gone(b) /\ (d # "nothing" => Gone(a) = Gone(b))
  BY Fields
<1> HIDE DEF Gone
<1> QED
  BY <1>1, <1>2, WithoutNear

LEMMA IpaNear ==
  ASSUME NEW d, NEW a, NEW b, Near(d, a, b), NEW page
  PROVE  Near(d, InvalidateIpa(a, page), InvalidateIpa(b, page))
<1> DEFINE Gone(k) == {e \in k.tlb : e.stage = "stage2" /\ e.vmid = Vmid(b) /\ Holds(e.leaf, page)}
<1>1. InvalidateIpa(a, page) = Without(a, TRUE, Gone(a))
      /\ InvalidateIpa(b, page) = Without(b, TRUE, Gone(b))
  BY Reads, Zenon DEF InvalidateIpa
<1>2. a.tlb \ Gone(a) \subseteq b.tlb \ Gone(b) /\ (d # "nothing" => Gone(a) = Gone(b))
  BY Fields
<1> HIDE DEF Gone
<1> QED
  BY <1>1, <1>2, WithoutNear

LEMMA AllNear ==
  ASSUME NEW d, NEW a, NEW b, Near(d, a, b), NEW stage \in Stages
  PROVE  Near(d, InvalidateAll(a, stage), InvalidateAll(b, stage))
  BY CurrentAllNear, LowerAllNear, Stage2AllNear DEF InvalidateAll, Stages

LEMMA Stage2AddressNear ==
  ASSUME NEW d, NEW a, NEW b, Near(d, a, b), NEW page
  PROVE  Near(d, InvalidateStage2Address(a, page), InvalidateStage2Address(b, page))
  BY IpaNear, LowerAllNear DEF InvalidateStage2Address

LEMMA AddressNear ==
  ASSUME NEW d, NEW a, NEW b, Near(d, a, b), NEW stage \in Stages, NEW page
  PROVE  Near(d, InvalidateAddress(a, stage, page), InvalidateAddress(b, stage, page))
<1>1. Identifier(a, stage) = Identifier(b, stage)
  BY Reads
<1>2. CASE stage = "current"
  BY <1>1, <1>2, CurrentAddressNear DEF InvalidateAddress
<1>3. CASE stage = "lower"
  BY <1>1, <1>3, LowerAddressNear DEF InvalidateAddress
<1>4. CASE stage = "stage2"
  BY <1>4, Stage2AddressNear DEF InvalidateAddress
<1> QED
  BY <1>2, <1>3, <1>4 DEF Stages

-----------------------------------------------------------------------------
(* The operations of a translation.                                        *)

LEMMA InsertedNear ==
  ASSUME NEW d, NEW a, NEW b, Near(d, a, b), NEW stage \in Stages, NEW leaf
  PROVE  Near(d, Inserted(a, stage, leaf), Inserted(b, stage, leaf))
<1> DEFINE root == RootOf(b, stage)
           leaves == b.tables[root].leaves \cup {leaf}
<1>1. RootOf(a, stage) = root /\ a.tables = b.tables
  BY Reads, Fields
<1>2. /\ Inserted(a, stage, leaf)
         = InvalidateAddress(Prefetch(WithLeaves(a, root, leaves)), stage, leaf.in)
      /\ Inserted(b, stage, leaf)
         = InvalidateAddress(Prefetch(WithLeaves(b, root, leaves)), stage, leaf.in)
  BY <1>1, Zenon DEF Inserted
<1> HIDE DEF root, leaves
<1>3. Near(d, Prefetch(WithLeaves(a, root, leaves)), Prefetch(WithLeaves(b, root, leaves)))
  BY NearLeaves, PrefetchNear
<1> QED
  BY <1>2, <1>3, AddressNear

LEMMA RemovedNear ==
  ASSUME NEW d, NEW a, NEW b, Near(d, a, b), NEW stage \in Stages, NEW page
  PROVE  Near(d, Removed(a, stage, page), Removed(b, stage, page))
<1> DEFINE root == RootOf(b, stage)
           leaves == b.tables[root].leaves \ MappedAt(b, root, page)
<1>1. RootOf(a, stage) = root /\ a.tables = b.tables
      /\ MappedAt(a, root, page) = MappedAt(b, root, page)
  BY Reads, Fields
<1>2. /\ Removed(a, stage, page) = InvalidateAddress(WithLeaves(a, root, leaves), stage, page)
      /\ Removed(b, stage, page) = InvalidateAddress(WithLeaves(b, root, leaves), stage, page)
  BY <1>1, Zenon DEF Removed
<1> HIDE DEF root, leaves
<1>3. Near(d, WithLeaves(a, root, leaves), WithLeaves(b, root, leaves))
  BY NearLeaves
<1> QED
  BY <1>2, <1>3, AddressNear

LEMMA ReclaimedNear ==
  ASSUME NEW d, NEW a, NEW b, Near(d, a, b), NEW stage \in Stages, NEW page
  PROVE  Near(d, Reclaimed(a, stage, page), Reclaimed(b, stage, page))
  BY RemovedNear, AllNear DEF Reclaimed

LEMMA ReplacedNear ==
  ASSUME NEW d, NEW a, NEW b, Near(d, a, b), NEW stage \in Stages, NEW page, NEW out, NEW attr
  PROVE  Near(d, Replaced(a, stage, page, out, attr), Replaced(b, stage, page, out, attr))
<1> DEFINE Old(k) == CHOOSE leaf \in MappedAt(k, RootOf(k, stage), page) : TRUE
           New(old) == Leaf(page, IF out = -1 THEN old.out ELSE out, old.size, attr)
<1>1. RootOf(a, stage) = RootOf(b, stage)
      /\ MappedAt(a, RootOf(b, stage), page) = MappedAt(b, RootOf(b, stage), page)
  BY Reads
<1>2. Old(a) = Old(b)
  BY <1>1, Zenon
<1>3. \A k : Replaced(k, stage, page, out, attr)
             = Inserted(Removed(k, stage, page), stage, New(Old(k)))
  BY DEF Replaced
<1> HIDE DEF Old, New
<1> QED
  BY <1>2, <1>3, RemovedNear, InsertedNear

LEMMA RolledBackNear ==
  ASSUME NEW d, NEW a, NEW b, Near(d, a, b), NEW stage \in Stages, NEW page
  PROVE  Near(d, RolledBack(a, stage, page), RolledBack(b, stage, page))
<1> DEFINE old == CHOOSE leaf \in MappedAt(b, RootOf(b, stage), page) : TRUE
<1>1. RootOf(a, stage) = RootOf(b, stage)
      /\ MappedAt(a, RootOf(b, stage), page) = MappedAt(b, RootOf(b, stage), page)
  BY Reads
<1>2. /\ RolledBack(a, stage, page) = Inserted(Removed(a, stage, page), stage, old)
      /\ RolledBack(b, stage, page) = Inserted(Removed(b, stage, page), stage, old)
  BY <1>1, Zenon DEF RolledBack
<1> HIDE DEF old
<1> QED
  BY <1>2, RemovedNear, InsertedNear

LEMMA InstalledOnNear ==
  ASSUME NEW d, NEW a, NEW b, Near(d, a, b), NEW stage \in Stages, NEW root, NEW id
  PROVE  Near(d, InstalledOn(a, stage, root, id), InstalledOn(b, stage, root, id))
  BY NearRoot, PrefetchNear, AllNear DEF InstalledOn

LEMMA RestoredOffNear ==
  ASSUME NEW d, NEW a, NEW b, Near(d, a, b), NEW stage \in Stages
  PROVE  Near(d, RestoredOff(a, stage), RestoredOff(b, stage))
  BY NearRoot, AllNear DEF RestoredOff

LEMMA SwitchedNear ==
  ASSUME NEW d, NEW a, NEW b, Near(d, a, b), NEW stage, NEW root, NEW id
  PROVE  Near(d, Switched(a, stage, root, id), Switched(b, stage, root, id))
  BY NearRoot, PrefetchNear DEF Switched

LEMMA DroppedNear ==
  ASSUME NEW d, NEW a, NEW b, Near(d, a, b)
  PROVE  Near(d, Dropped(a), Dropped(b))
<1> DEFINE Drop(k, t) == IF On(k, t) THEN RestoredOff(k, t) ELSE k
<1>1. ASSUME NEW x, NEW y, Near(d, x, y), NEW stage \in Stages
      PROVE  Near(d, Drop(x, stage), Drop(y, stage))
  BY <1>1, Reads, RestoredOffNear
<1>2. Dropped(a) = Drop(Drop(Drop(a, "stage2"), "lower"), "current")
      /\ Dropped(b) = Drop(Drop(Drop(b, "stage2"), "lower"), "current")
  BY Zenon DEF Dropped
<1>3. {"current", "lower", "stage2"} = Stages
  BY DEF Stages
<1> HIDE DEF Drop
<1>4. Near(d, Drop(a, "stage2"), Drop(b, "stage2"))
  BY <1>1, <1>3
<1>5. Near(d, Drop(Drop(a, "stage2"), "lower"), Drop(Drop(b, "stage2"), "lower"))
  BY <1>1, <1>3, <1>4
<1> QED
  BY <1>1, <1>2, <1>3, <1>5

\* A conforming PE keeps what it has translated anyway.
LEMMA KeepNear ==
  ASSUME NEW d, NEW a, NEW b, Near(d, a, b), NEW stage, NEW page
  PROVE  Near(d, Keep(a, stage, page), Keep(b, stage, page))
<1>1. a.defect = d /\ b.defect = d /\ IsMachine(a) /\ (d # "nothing" => a = b)
  BY Fields
<1>2. CASE d = "nothing"
  BY <1>1, <1>2 DEF Keep
<1>3. CASE d # "nothing"
  <2> DEFINE fetched == {e \in Fetched(b) :
                 e.stage \in {stage, IF stage = "lower" THEN "stage2" ELSE stage}
                 /\ (e.stage = stage => Holds(e.leaf, page))}
  <2>1. Keep(b, stage, page) = WithTlb(b, b.tlb \cup fetched)
    BY <1>1, <1>3 DEF Keep, WithTlb
  <2> HIDE DEF fetched
  <2> QED
    BY <1>1, <1>3, <2>1, NearTlb
<1> QED
  BY <1>2, <1>3

LEMMA AfterTlbiNear ==
  ASSUME NEW d, NEW a, NEW b, Near(d, a, b), NEW stage \in Stages, NEW t,
         t.kind \in {"all", "vmid", "asid", "va", "ipa"}
  PROVE  Near(d, AfterTlbi(a, stage, t), AfterTlbi(b, stage, t))
  BY AllNear, AsidNear, AddressNear DEF AfterTlbi

LEMMA AfterInjectedNear ==
  ASSUME NEW d, NEW a, NEW b, Near(d, a, b), NEW s, IsStep(s), s.do = "injected"
  PROVE  Near(d, AfterInjected(a, s.point, s.step), AfterInjected(b, s.point, s.step))
<1> DEFINE stage == s.step.stage  root == s.step.root  id == s.step.id
<1>1. s.point \in NothingDone \cup OnStage \cup {"SecondaryPeStop", "LowerElReturn"}
      /\ (s.point \in OnStage => stage \in Stages)
  BY DEF IsStep
<1>2. CASE s.point \in NothingDone
  BY <1>2 DEF AfterInjected, NothingDone
<1>3. CASE s.point = "TranslationRestoration"
  <2>1. AfterInjected(a, s.point, s.step) = RestoredOff(a, stage)
        /\ AfterInjected(b, s.point, s.step) = RestoredOff(b, stage)
    BY <1>3 DEF AfterInjected, NothingDone
  <2> QED
    BY <1>1, <1>3, <2>1, RestoredOffNear DEF OnStage
<1>4. CASE s.point = "PartialCombinedInstallation"
  <2>1. AfterInjected(a, s.point, s.step) = RestoredOff(InstalledOn(a, stage, root, id), stage)
        /\ AfterInjected(b, s.point, s.step)
           = RestoredOff(InstalledOn(b, stage, root, id), stage)
    BY <1>4 DEF AfterInjected, NothingDone
  <2>2. stage \in Stages
    BY <1>1, <1>4 DEF OnStage
  <2> HIDE DEF stage, root, id
  <2>3. Near(d, InstalledOn(a, stage, root, id), InstalledOn(b, stage, root, id))
    BY <2>2, InstalledOnNear
  <2> QED
    BY <2>1, <2>2, <2>3, RestoredOffNear
<1>5. CASE s.point = "SecondaryPeStop"
  <2>1. AfterInjected(a, s.point, s.step) = [a EXCEPT !.secondary = FALSE]
        /\ AfterInjected(b, s.point, s.step) = [b EXCEPT !.secondary = FALSE]
    BY <1>5 DEF AfterInjected, NothingDone
  <2>2. Near(d, [a EXCEPT !.secondary = FALSE], [b EXCEPT !.secondary = FALSE])
    BY NearSecondary
  <2> QED
    BY <2>1, <2>2
<1>6. CASE s.point = "LowerElReturn"
  <2>1. AfterInjected(a, s.point, s.step) = Keep(a, Through(s.step.by), s.step.page)
        /\ AfterInjected(b, s.point, s.step) = Keep(b, Through(s.step.by), s.step.page)
    BY <1>6 DEF AfterInjected, NothingDone
  <2> QED
    BY <2>1, KeepNear
<1> QED
  BY <1>1, <1>2, <1>3, <1>4, <1>5, <1>6 DEF OnStage

-----------------------------------------------------------------------------
(* Accesses.                                                               *)

\* What a walk gives, case by case.
LEMMA WalkOff ==
  ASSUME NEW k, NEW stage \in {"current", "lower"}, NEW page, ~On(k, stage)
  PROVE  Walked(k, stage, page) =
            IF stage = "current" \/ ~On(k, "stage2") THEN {Untranslated(page)}
            ELSE IF InStage2(k, page) = {} THEN {Fault("Translation", 2)}
            ELSE InStage2(k, page)
  BY DEF Walked

LEMMA WalkUnreachable ==
  ASSUME NEW k, NEW page, On(k, "lower"), ~TableReachable(k)
  PROVE  Walked(k, "lower", page) = {Fault("Translation", 2)}
  BY DEF Walked

Pieces(k, stage) ==
    IF stage = "current" THEN {Alone(one) : one \in Leaves(k, stage)} ELSE Combined(k)

LEMMA WalkOn ==
  ASSUME NEW k, NEW stage \in {"current", "lower"}, NEW page, On(k, stage),
         stage = "lower" => TableReachable(k)
  PROVE  Walked(k, stage, page) =
            IF ~\E one \in Leaves(k, stage) : Holds(one, page)
            THEN {Fault("Translation", 1)}
            ELSE IF ~\E p \in Pieces(k, stage) : Holds(p, page) THEN {Fault("Translation", 2)}
            ELSE {Translated(p, page) : p \in {q \in Pieces(k, stage) : Holds(q, page)}}
  BY DEF Walked, Pieces

\* A walk that can fail for want of stage 2 can also fail with empty TLBs, and
\* one that does not fail goes where it can go with fuller ones.
LEMMA WalkedGrows ==
  ASSUME NEW e, NEW a, NEW b, Near("nothing", e, a), Near("nothing", a, b),
         NEW stage \in {"current", "lower"}, NEW page
  PROVE  Walked(a, stage, page) \subseteq Walked(b, stage, page) \cup Walked(e, stage, page)
<1>1. \A s : /\ On(e, s) = On(a, s) /\ On(b, s) = On(a, s)
             /\ Leaves(e, s) = Leaves(a, s) /\ Leaves(b, s) = Leaves(a, s)
  BY Reads
<1>2. /\ TableReachable(e) => TableReachable(a) 
      /\ TableReachable(a) => TableReachable(b)
      /\ InStage2(e, page) \subseteq InStage2(a, page)
      /\ InStage2(a, page) \subseteq InStage2(b, page)
      /\ Combined(e) \subseteq Combined(a) /\ Combined(a) \subseteq Combined(b)
  BY WalksGrow
<1>3. CASE ~On(a, stage)
  <2>1. ~On(e, stage) /\ ~On(b, stage) /\ On(e, "stage2") = On(a, "stage2")
        /\ On(b, "stage2") = On(a, "stage2")
    BY <1>1, <1>3
  <2>2. CASE stage = "current" \/ ~On(a, "stage2")
    BY <1>3, <2>1, <2>2, WalkOff
  <2>3. CASE ~(stage = "current" \/ ~On(a, "stage2"))
    <3>1. CASE InStage2(a, page) = {}
      <4>1. InStage2(e, page) = {}
        BY <1>2, <3>1
      <4> QED
        BY <1>3, <2>1, <2>3, <3>1, <4>1, WalkOff
    <3>2. CASE InStage2(a, page) # {}
      <4>1. InStage2(b, page) # {}
        BY <1>2, <3>2
      <4>2. Walked(a, stage, page) = InStage2(a, page)
        BY <1>3, <2>3, <3>2, WalkOff
      <4>3. Walked(b, stage, page) = InStage2(b, page)
        BY <2>1, <2>3, <4>1, WalkOff
      <4> QED
        BY <1>2, <4>2, <4>3
    <3> QED
      BY <3>1, <3>2
  <2> QED
    BY <2>2, <2>3
<1>4. CASE On(a, stage) /\ stage = "lower" /\ ~TableReachable(a)
  <2>1. On(e, "lower") /\ ~TableReachable(e)
    BY <1>1, <1>2, <1>4
  <2> QED
    BY <1>4, <2>1, WalkUnreachable
<1>5. CASE On(a, stage) /\ (stage = "lower" => TableReachable(a))
  <2>1. On(b, stage) /\ (stage = "lower" => TableReachable(b)) /\ On(e, stage)
    BY <1>1, <1>2, <1>5
  <2>2. Pieces(a, stage) \subseteq Pieces(b, stage) /\ Pieces(e, stage) \subseteq Pieces(a, stage)
    BY <1>1, <1>2 DEF Pieces
  <2>3. CASE ~\E one \in Leaves(a, stage) : Holds(one, page)
    <3>1. ~\E one \in Leaves(b, stage) : Holds(one, page)
      BY <1>1, <2>3
    <3> QED
      BY <1>5, <2>1, <2>3, <3>1, WalkOn
  <2>4. CASE /\ \E one \in Leaves(a, stage) : Holds(one, page)
             /\ ~\E p \in Pieces(a, stage) : Holds(p, page)
    <3>1. Walked(a, stage, page) = {Fault("Translation", 2)}
      BY <1>5, <2>4, WalkOn
    <3>2. CASE stage = "lower" /\ ~TableReachable(e)
      BY <2>1, <3>1, <3>2, WalkUnreachable
    <3>3. CASE stage = "lower" => TableReachable(e)
      <4>1. \E one \in Leaves(e, stage) : Holds(one, page)
        BY <1>1, <2>4
      <4>2. ~\E p \in Pieces(e, stage) : Holds(p, page)
        BY <2>2, <2>4
      <4> QED
        BY <2>1, <3>1, <3>3, <4>1, <4>2, WalkOn
    <3> QED
      BY <3>2, <3>3
  <2>5. CASE /\ \E one \in Leaves(a, stage) : Holds(one, page)
             /\ \E p \in Pieces(a, stage) : Holds(p, page)
    <3>1. Walked(a, stage, page)
          = {Translated(p, page) : p \in {q \in Pieces(a, stage) : Holds(q, page)}}
      BY <1>5, <2>5, WalkOn
    <3>2. /\ \E one \in Leaves(b, stage) : Holds(one, page)
          /\ \E p \in Pieces(b, stage) : Holds(p, page)
      BY <1>1, <2>2, <2>5
    <3>3. Walked(b, stage, page)
          = {Translated(p, page) : p \in {q \in Pieces(b, stage) : Holds(q, page)}}
      BY <2>1, <3>2, WalkOn
    <3> QED
      BY <2>2, <3>1, <3>3
  <2> QED
    BY <2>3, <2>4, <2>5
<1> QED
  BY <1>3, <1>4, <1>5

LEMMA HeldGrows ==
  ASSUME NEW d, NEW a, NEW b, Near(d, a, b), NEW stage, NEW page
  PROVE  Held(a, stage, page) \subseteq Held(b, stage, page)
<1>1. a.tlb \subseteq b.tlb /\ a.regs = b.regs /\ a.defect = b.defect
      /\ Asid(a) = Asid(b) /\ Vmid(a) = Vmid(b)
  BY Fields, Reads
<1>2. \A e : SameSpace(a, e) = SameSpace(b, e)
  BY <1>1 DEF SameSpace
<1> QED
  BY <1>1, <1>2 DEF Held

\* An access may use no more translations than with fuller TLBs.
LEMMA MayUseGrows ==
  ASSUME NEW d, NEW a, NEW b, Near(d, a, b), NEW stage \in {"current", "lower"}, NEW page
  PROVE  MayUse(a, stage, page) \subseteq MayUse(b, stage, page)
<1>1. CASE d # "nothing"
  BY <1>1, Fields
<1>2. CASE d = "nothing"
  <2> DEFINE e == WithTlb(b, {})
  <2>1. a.defect = "nothing" /\ b.defect = "nothing" /\ IsMachine(a) /\ IsMachine(b)
    BY <1>2, Fields
  <2>2. a = WithTlb(b, a.tlb) /\ Near(d, b, b)
    BY <1>2, <2>1, NearItself DEF Near
  <2>3. WithTlb(a, {}) = e
    <3>1. WithTlb(WithTlb(b, a.tlb), {}) = WithTlb(b, {})
      BY <2>1 DEF WithTlb, IsMachine
    <3> QED
      BY <2>2, <3>1
  <2>4. Near(d, e, a)
    <3>1. Near(d, WithTlb(b, {}), WithTlb(b, a.tlb))
      BY <1>2, <2>2, NearTlb
    <3> QED
      BY <2>2, <3>1
  <2> HIDE DEF e
  <2>5. Walked(a, stage, page) \subseteq Walked(b, stage, page) \cup Walked(e, stage, page)
    BY <1>2, <2>4, WalkedGrows
  <2>6. MayUse(a, stage, page)
        = Held(a, stage, page) \cup Walked(a, stage, page) \cup Walked(e, stage, page)
    BY <2>1, <2>3 DEF MayUse
  <2>7. MayUse(b, stage, page)
        = Held(b, stage, page) \cup Walked(b, stage, page) \cup Walked(e, stage, page)
    BY <2>1 DEF MayUse, e
  <2> QED
    BY <2>5, <2>6, <2>7, HeldGrows
<1> QED
  BY <1>1, <1>2

LEMMA PermittedSame ==
  ASSUME NEW d, NEW a, NEW b, Near(d, a, b), NEW x, NEW by, NEW kind
  PROVE  Permitted(a, x, by, kind) = Permitted(b, x, by, kind)
<1>1. a.defect = b.defect /\ a.updates = b.updates
  BY Fields
<1>2. \A attr, who, k, u : Checked(a, attr, who, k, u) = Checked(b, attr, who, k, u)
  BY <1>1 DEF Checked
<1> QED
  BY <1>1, <1>2 DEF Permitted

LEMMA MarkedSame ==
  ASSUME NEW d, NEW a, NEW b, Near(d, a, b), NEW stage, NEW page, NEW kind
  PROVE  /\ Marked(a, stage, page, kind) = Marked(b, stage, page, kind)
         /\ NeedsUpdate(a, stage, page, kind) = NeedsUpdate(b, stage, page, kind)
<1>1. a.updates = b.updates /\ Leaves(a, stage) = Leaves(b, stage) /\ a.defect = b.defect
  BY Fields, Reads
<1>2. Marked(a, stage, page, kind) = Marked(b, stage, page, kind)
  BY <1>1 DEF Marked
<1> QED
  BY <1>1, <1>2, Zenon DEF NeedsUpdate

LEMMA WithoutPageNear ==
  ASSUME NEW d, NEW a, NEW b, Near(d, a, b), NEW stage, NEW page
  PROVE  Near(d, WithoutPage(a, stage, page), WithoutPage(b, stage, page))
<1> DEFINE Kept(k) == {e \in k.tlb : ~(e.stage = stage /\ Holds(e.leaf, page))}
<1>1. Kept(a) \subseteq Kept(b) /\ (d # "nothing" => Kept(a) = Kept(b))
  BY Fields
<1>2. WithoutPage(a, stage, page) = WithTlb(a, Kept(a))
      /\ WithoutPage(b, stage, page) = WithTlb(b, Kept(b))
  BY DEF WithoutPage
<1> HIDE DEF Kept
<1> QED
  BY <1>1, <1>2, NearTlb

LEMMA UpdatedByNear ==
  ASSUME NEW d, NEW a, NEW b, Near(d, a, b), NEW stage, NEW page, NEW kind
  PROVE  Near(d, UpdatedBy(a, stage, page, kind), UpdatedBy(b, stage, page, kind))
<1> DEFINE root == b.regs[stage].root
           marked == Marked(b, stage, page, kind)
<1>1. a.regs = b.regs /\ Marked(a, stage, page, kind) = marked
      /\ NeedsUpdate(a, stage, page, kind) = NeedsUpdate(b, stage, page, kind)
  BY Fields, MarkedSame
<1>2. CASE ~NeedsUpdate(b, stage, page, kind)
  BY <1>1, <1>2 DEF UpdatedBy
<1>3. CASE NeedsUpdate(b, stage, page, kind)
  <2>1. /\ UpdatedBy(a, stage, page, kind)
           = WithoutPage(WithLeaves(a, root, marked), stage, page)
        /\ UpdatedBy(b, stage, page, kind)
           = WithoutPage(WithLeaves(b, root, marked), stage, page)
    BY <1>1, <1>3 DEF UpdatedBy, WithLeaves
  <2> HIDE DEF root, marked
  <2> QED
    BY <2>1, NearLeaves, WithoutPageNear
<1> QED
  BY <1>2, <1>3

LEMMA MarksNear ==
  ASSUME NEW d, NEW a, NEW b, Near(d, a, b), NEW stage, NEW page, NEW kind
  PROVE  Near(d, Marks(a, stage, page, kind), Marks(b, stage, page, kind))
<1>1. CASE stage = "current"
  <2>1. Marks(a, stage, page, kind) = UpdatedBy(a, stage, page, kind)
        /\ Marks(b, stage, page, kind) = UpdatedBy(b, stage, page, kind)
    BY <1>1 DEF Marks
  <2> QED
    BY <2>1, UpdatedByNear
<1>2. CASE stage # "current"
  <2> DEFINE First(k) == UpdatedBy(k, "lower", page, kind)
             Reach(k) == ThroughStage1(First(k), page)
             ipa(k) == CHOOSE p \in Reach(k) : TRUE
             Second(k) == WithoutPage(UpdatedBy(First(k), "stage2", ipa(k), kind), "lower", page)
  <2>1. Near(d, First(a), First(b))
    BY UpdatedByNear
  <2>2. \A k : Marks(k, stage, page, kind)
               = IF Reach(k) = {} \/ ~NeedsUpdate(First(k), "stage2", ipa(k), kind)
                 THEN First(k) ELSE Second(k)
    BY <1>2 DEF Marks
  <2>3. Reach(a) = Reach(b)
    <3> HIDE DEF First
    <3>1. On(First(a), "lower") = On(First(b), "lower")
          /\ Leaves(First(a), "lower") = Leaves(First(b), "lower")
      BY <2>1, Reads
    <3> QED
      BY <3>1 DEF ThroughStage1
  <2>4. ipa(a) = ipa(b)
    <3> HIDE DEF Reach
    <3> QED
      BY <2>3
  <2> HIDE DEF First, Reach
  <2>5. Near(d, Second(a), Second(b))
    <3> HIDE DEF ipa
    <3> QED
      BY <2>1, <2>4, UpdatedByNear, WithoutPageNear
  <2> HIDE DEF ipa, Second
  <2>6. NeedsUpdate(First(a), "stage2", ipa(a), kind)
        = NeedsUpdate(First(b), "stage2", ipa(b), kind)
    BY <2>1, <2>4, MarkedSame
  <2> QED
    BY <2>1, <2>2, <2>3, <2>5, <2>6
<1> QED
  BY <1>1, <1>2

-----------------------------------------------------------------------------
(* The steps of a body.                                                    *)

LEMMA ResultAlike ==
  ASSUME NEW d, NEW a, NEW b, Near(d, a, b), NEW x, NEW y, Near(d, x, y), NEW own, NEW fine
  PROVE  Alike(d, Result(a, own, fine, x), Result(b, own, fine, y))
  BY DEF Result, Alike

LEMMA PerformedSimulated ==
  ASSUME NEW d, NEW a, NEW b, Near(d, a, b), NEW x, NEW y, Near(d, x, y), NEW own, NEW fine
  PROVE  Simulated(d, Performed(a, own, fine, x), Performed(b, own, fine, y))
<1>1. Performed(a, own, fine, x) = {Result(a, own, fine, x)}
      /\ Performed(b, own, fine, y) = {Result(b, own, fine, y)}
  BY DEF Performed
<1> QED
  BY <1>1, ResultAlike DEF Simulated

LEMMA EncodedSame ==
  ASSUME NEW d, NEW a, NEW b, Near(d, a, b)
  PROVE  /\ \A attr : Encoded(a, attr) = Encoded(b, attr)
         /\ \A leaf : EncodedLeaf(a, leaf) = EncodedLeaf(b, leaf)
<1>1. a.defect = b.defect
  BY Fields
<1>2. \A attr : Encoded(a, attr) = Encoded(b, attr)
  BY <1>1 DEF Encoded
<1> QED
  BY <1>2, Zenon DEF EncodedLeaf

LEMMA FoundSame ==
  ASSUME NEW d, NEW a, NEW b, Near(d, a, b), NEW s
  PROVE  Found(a, s) = Found(b, s)
  BY Reads DEF Found

LEMMA CheckStep ==
  ASSUME NEW d, NEW a, NEW b, Near(d, a, b), NEW own, NEW s
  PROVE  Simulated(d, Compared(a, own, s), Compared(b, own, s))
<1>1. a.defect = b.defect
  BY Fields
<1> QED
  BY <1>1, PerformedSimulated DEF Compared

LEMMA RootStep ==
  ASSUME NEW d, NEW a, NEW b, Near(d, a, b), NEW own, NEW s
  PROVE  Simulated(d, Allocated(a, own, s), Allocated(b, own, s))
<1> DEFINE t == (s.root :> [frame |-> s.frame, leaves |-> {}]) @@ b.tables
           fine == s.root \notin DOMAIN b.tables
<1>1. a.tables = b.tables
  BY Fields
<1>2. /\ Allocated(a, own, s) = Performed(a, own, fine, [a EXCEPT !.tables = t])
      /\ Allocated(b, own, s) = Performed(b, own, fine, [b EXCEPT !.tables = t])
  BY <1>1, Zenon DEF Allocated
<1> HIDE DEF t, fine
<1>3. Near(d, [a EXCEPT !.tables = t], [b EXCEPT !.tables = t])
  BY NearTables
<1> QED
  BY <1>2, <1>3, PerformedSimulated

LEMMA OfflineStep ==
  ASSUME NEW d, NEW a, NEW b, Near(d, a, b), NEW own, NEW s
  PROVE  Simulated(d, MappedOffline(a, own, s), MappedOffline(b, own, s))
<1> DEFINE leaves == b.tables[s.root].leaves \cup {EncodedLeaf(b, s.leaf)}
           fine == (\A t \in Stages : RootOf(b, t) # s.root) /\ Mappable(b, s.root, s.leaf)
<1>1. a.tables = b.tables /\ EncodedLeaf(a, s.leaf) = EncodedLeaf(b, s.leaf)
  BY Fields, EncodedSame
<1>2. /\ (\A t \in Stages : RootOf(a, t) # s.root) <=> (\A t \in Stages : RootOf(b, t) # s.root)
      /\ Mappable(a, s.root, s.leaf) = Mappable(b, s.root, s.leaf)
  BY Reads
<1>3. ((\A t \in Stages : RootOf(a, t) # s.root) /\ Mappable(a, s.root, s.leaf)) = fine
  BY <1>2
<1>4. /\ MappedOffline(a, own, s) = Performed(a, own, fine, WithLeaves(a, s.root, leaves))
      /\ MappedOffline(b, own, s) = Performed(b, own, fine, WithLeaves(b, s.root, leaves))
  BY <1>1, <1>3, Zenon DEF MappedOffline
<1> HIDE DEF leaves, fine
<1> QED
  BY <1>4, NearLeaves, PerformedSimulated

LEMMA RemoveStep ==
  ASSUME NEW d, NEW a, NEW b, Near(d, a, b), NEW own, NEW s
  PROVE  Simulated(d, RemovedOffline(a, own, s), RemovedOffline(b, own, s))
<1> DEFINE leaves == b.tables[s.root].leaves \ MappedAt(b, s.root, s.in)
           fine == MappedAt(b, s.root, s.in) # {}
<1>1. a.tables = b.tables /\ MappedAt(a, s.root, s.in) = MappedAt(b, s.root, s.in)
  BY Fields, Reads
<1>2. /\ RemovedOffline(a, own, s) = Performed(a, own, fine, WithLeaves(a, s.root, leaves))
      /\ RemovedOffline(b, own, s) = Performed(b, own, fine, WithLeaves(b, s.root, leaves))
  BY <1>1, Zenon DEF RemovedOffline
<1> HIDE DEF leaves, fine
<1> QED
  BY <1>2, NearLeaves, PerformedSimulated

LEMMA DamageStep ==
  ASSUME NEW d, NEW a, NEW b, Near(d, a, b), NEW own, NEW s
  PROVE  Simulated(d, Damaged(a, own, s), Damaged(b, own, s))
<1> DEFINE leaves == {IF leaf.in = s.in THEN [leaf EXCEPT !.attr = @ \cup {s.how}] ELSE leaf :
                         leaf \in b.tables[s.root].leaves}
           fine == MappedAt(b, s.root, s.in) # {}
<1>1. a.tables = b.tables /\ MappedAt(a, s.root, s.in) = MappedAt(b, s.root, s.in)
  BY Fields, Reads
<1>2. /\ Damaged(a, own, s) = Performed(a, own, fine, WithLeaves(a, s.root, leaves))
      /\ Damaged(b, own, s) = Performed(b, own, fine, WithLeaves(b, s.root, leaves))
  BY <1>1 DEF Damaged
<1> HIDE DEF leaves, fine
<1> QED
  BY <1>2, NearLeaves, PerformedSimulated

LEMMA PokeStep ==
  ASSUME NEW d, NEW a, NEW b, Near(d, a, b), NEW own, NEW s
  PROVE  Simulated(d, Poked(a, own, s), Poked(b, own, s))
  BY NearStored, PerformedSimulated DEF Poked

LEMMA PeekStep ==
  ASSUME NEW d, NEW a, NEW b, Near(d, a, b), NEW own, NEW s
  PROVE  Simulated(d, Peeked(a, own, s), Peeked(b, own, s))
<1>1. Contents(a, s.page) = Contents(b, s.page)
  BY Reads
<1> QED
  BY <1>1, PerformedSimulated DEF Peeked

LEMMA InstallStep ==
  ASSUME NEW d, NEW a, NEW b, Near(d, a, b), NEW own, NEW s, s.stage \in Stages
  PROVE  Simulated(d, Installed(a, own, s), Installed(b, own, s))
<1> DEFINE after == [own EXCEPT ![s.stage] = {s.root}]
<1>1. On(a, s.stage) = On(b, s.stage)
  BY Reads
<1>2. /\ Installed(a, own, s)
         = Performed(a, after, ~On(b, s.stage), InstalledOn(a, s.stage, s.root, s.id))
      /\ Installed(b, own, s)
         = Performed(b, after, ~On(b, s.stage), InstalledOn(b, s.stage, s.root, s.id))
  BY <1>1, Zenon DEF Installed
<1> HIDE DEF after
<1> QED
  BY <1>2, InstalledOnNear, PerformedSimulated

LEMMA RestoreStep ==
  ASSUME NEW d, NEW a, NEW b, Near(d, a, b), NEW own, NEW s, s.stage \in Stages
  PROVE  Simulated(d, Restored(a, own, s), Restored(b, own, s))
<1> DEFINE after == [own EXCEPT ![s.stage] = {}]
<1>1. On(a, s.stage) = On(b, s.stage)
  BY Reads
<1>2. /\ Restored(a, own, s) = Performed(a, after, On(b, s.stage), RestoredOff(a, s.stage))
      /\ Restored(b, own, s) = Performed(b, after, On(b, s.stage), RestoredOff(b, s.stage))
  BY <1>1, Zenon DEF Restored
<1> HIDE DEF after
<1> QED
  BY <1>2, RestoredOffNear, PerformedSimulated

LEMMA AdoptStep ==
  ASSUME NEW d, NEW a, NEW b, Near(d, a, b), NEW own, NEW s
  PROVE  Simulated(d, Adopted(a, own, s), Adopted(b, own, s))
<1> DEFINE after == [own EXCEPT ![s.stage] = own[s.stage] \cup {s.root}]
           fine == On(b, s.stage) /\ Cardinality(own[s.stage]) < 3
<1>1. On(a, s.stage) = On(b, s.stage)
  BY Reads
<1>2. /\ Adopted(a, own, s) = Performed(a, after, fine, Switched(a, s.stage, s.root, s.id))
      /\ Adopted(b, own, s) = Performed(b, after, fine, Switched(b, s.stage, s.root, s.id))
  BY <1>1, Zenon DEF Adopted
<1> HIDE DEF after, fine
<1> QED
  BY <1>2, SwitchedNear, PerformedSimulated

LEMMA SwitchStep ==
  ASSUME NEW d, NEW a, NEW b, Near(d, a, b), NEW own, NEW s
  PROVE  Simulated(d, SwitchedBack(a, own, s), SwitchedBack(b, own, s))
  BY SwitchedNear, PerformedSimulated DEF SwitchedBack

LEMMA MapStep ==
  ASSUME NEW d, NEW a, NEW b, Near(d, a, b), NEW own, NEW s, s.stage \in Stages
  PROVE  Simulated(d, MappedLive(a, own, s), MappedLive(b, own, s))
<1> DEFINE leaf == EncodedLeaf(b, s.leaf)
           fine == On(b, s.stage) /\ Mappable(b, RootOf(b, s.stage), s.leaf)
<1>1. /\ EncodedLeaf(a, s.leaf) = leaf
      /\ On(a, s.stage) = On(b, s.stage) /\ RootOf(a, s.stage) = RootOf(b, s.stage)
      /\ Mappable(a, RootOf(b, s.stage), s.leaf) = Mappable(b, RootOf(b, s.stage), s.leaf)
  BY Reads, EncodedSame
<1>2. /\ MappedLive(a, own, s) = Performed(a, own, fine, Inserted(a, s.stage, leaf))
      /\ MappedLive(b, own, s) = Performed(b, own, fine, Inserted(b, s.stage, leaf))
  BY <1>1, Zenon DEF MappedLive
<1> HIDE DEF leaf, fine
<1> QED
  BY <1>2, InsertedNear, PerformedSimulated

LEMMA UnmapStep ==
  ASSUME NEW d, NEW a, NEW b, Near(d, a, b), NEW own, NEW s, s.stage \in Stages
  PROVE  /\ Simulated(d, UnmappedLive(a, own, s), UnmappedLive(b, own, s))
         /\ Simulated(d, ReclaimedLive(a, own, s), ReclaimedLive(b, own, s))
<1>1. Found(a, s) = Found(b, s)
  BY FoundSame
<1>2. Simulated(d, UnmappedLive(a, own, s), UnmappedLive(b, own, s))
  BY <1>1, RemovedNear, PerformedSimulated DEF UnmappedLive
<1>3. Simulated(d, ReclaimedLive(a, own, s), ReclaimedLive(b, own, s))
  BY <1>1, ReclaimedNear, PerformedSimulated DEF ReclaimedLive
<1> QED
  BY <1>2, <1>3

LEMMA ReplaceStep ==
  ASSUME NEW d, NEW a, NEW b, Near(d, a, b), NEW own, NEW s, s.stage \in Stages
  PROVE  Simulated(d, ReplacedLive(a, own, s), ReplacedLive(b, own, s))
<1> DEFINE attr == Encoded(b, s.attr)
<1>1. Found(a, s) = Found(b, s) /\ Encoded(a, s.attr) = attr
  BY FoundSame, EncodedSame
<1>2. /\ ReplacedLive(a, own, s)
         = Performed(a, own, Found(b, s), Replaced(a, s.stage, s.page, s.out, attr))
      /\ ReplacedLive(b, own, s)
         = Performed(b, own, Found(b, s), Replaced(b, s.stage, s.page, s.out, attr))
  BY <1>1, Zenon DEF ReplacedLive
<1> HIDE DEF attr
<1> QED
  BY <1>2, ReplacedNear, PerformedSimulated

LEMMA RollbackStep ==
  ASSUME NEW d, NEW a, NEW b, Near(d, a, b), NEW own, NEW s, s.stage \in Stages
  PROVE  Simulated(d, Refilled(a, own, s), Refilled(b, own, s))
<1>1. Found(a, s) = Found(b, s)
  BY FoundSame
<1> QED
  BY <1>1, RolledBackNear, PerformedSimulated DEF Refilled

LEMMA InspectStep ==
  ASSUME NEW d, NEW a, NEW b, Near(d, a, b), NEW own, NEW s
  PROVE  Simulated(d, Inspected(a, own, s), Inspected(b, own, s))
<1>1. Found(a, s) = Found(b, s) /\ On(a, s.stage) = On(b, s.stage)
  BY FoundSame, Reads
<1>2. /\ Inspected(a, own, s) = Performed(a, own, On(b, s.stage) /\ ~Found(b, s), a)
      /\ Inspected(b, own, s) = Performed(b, own, On(b, s.stage) /\ ~Found(b, s), b)
  BY <1>1, Zenon DEF Inspected
<1> QED
  BY <1>2, PerformedSimulated

LEMMA InjectedStep ==
  ASSUME NEW d, NEW a, NEW b, Near(d, a, b), NEW own, NEW s, IsStep(s), s.do = "injected"
  PROVE  Simulated(d, Failed(a, own, s), Failed(b, own, s))
<1> DEFINE after == IF s.point = "TranslationRestoration" THEN [own EXCEPT ![s.step.stage] = {}]
                    ELSE own
<1>1. \A k : Failed(k, own, s) = Performed(k, after, TRUE, AfterInjected(k, s.point, s.step))
  BY DEF Failed
<1> HIDE DEF after
<1> QED
  BY <1>1, AfterInjectedNear, PerformedSimulated

LEMMA TlbiStep ==
  ASSUME NEW d, NEW a, NEW b, Near(d, a, b), NEW own, NEW s, IsStep(s), s.do = "tlbi"
  PROVE  Simulated(d, Maintained(a, own, s), Maintained(b, own, s))
<1> DEFINE Accepted(k) == On(k, s.stage) /\ TlbiAccepted(k, s.stage, s.tlbi)
           After(k) == IF Accepted(k) THEN AfterTlbi(k, s.stage, s.tlbi) ELSE k
<1>1. s.stage \in Stages /\ s.tlbi.kind \in {"all", "vmid", "asid", "va", "ipa", "unaligned"}
  BY DEF IsStep, OnStages
<1>2. Accepted(a) = Accepted(b)
  <2>1. On(a, s.stage) = On(b, s.stage) /\ Identifier(a, s.stage) = Identifier(b, s.stage)
    BY Reads
  <2>2. TlbiAccepted(a, s.stage, s.tlbi) = TlbiAccepted(b, s.stage, s.tlbi)
    BY <2>1 DEF TlbiAccepted
  <2> QED
    BY <2>1, <2>2
<1>3. Near(d, After(a), After(b))
  <2>1. CASE Accepted(b)
    <3>1. s.tlbi.kind # "unaligned"
      BY <2>1 DEF TlbiAccepted
    <3> QED
      BY <1>1, <1>2, <2>1, <3>1, AfterTlbiNear
  <2>2. CASE ~Accepted(b)
    BY <1>2, <2>2
  <2> QED
    BY <2>1, <2>2
<1>4. \A k : Maintained(k, own, s) = Performed(k, own, Accepted(k) = s.accepted, After(k))
  BY DEF Maintained
<1> HIDE DEF Accepted, After
<1>5. (Accepted(a) = s.accepted) = (Accepted(b) = s.accepted)
  BY <1>2
<1> QED
  BY <1>3, <1>4, <1>5, PerformedSimulated

LEMMA UpdatesStep ==
  ASSUME NEW d, NEW a, NEW b, Near(d, a, b), NEW own, NEW s
  PROVE  Simulated(d, Updating(a, own, s), Updating(b, own, s))
<1> DEFINE fine == s.mode # "none" => b.updates[s.stage] = "none"
<1>1. a.updates = b.updates
  BY Fields
<1>2. /\ Updating(a, own, s) = Performed(a, own, fine, [a EXCEPT !.updates[s.stage] = s.mode])
      /\ Updating(b, own, s) = Performed(b, own, fine, [b EXCEPT !.updates[s.stage] = s.mode])
  BY <1>1 DEF Updating
<1>3. Near(d, [a EXCEPT !.updates[s.stage] = s.mode], [b EXCEPT !.updates[s.stage] = s.mode])
  BY NearMode
<1> HIDE DEF fine
<1> QED
  BY <1>2, <1>3, PerformedSimulated

LEMMA SecondaryStep ==
  ASSUME NEW d, NEW a, NEW b, Near(d, a, b), NEW own, NEW s
  PROVE  Simulated(d, Joined(a, own, s), Joined(b, own, s))
<1> DEFINE fine == b.secondary # s.on
<1>1. a.secondary = b.secondary
  BY Fields
<1>2. /\ Joined(a, own, s) = Performed(a, own, fine, [a EXCEPT !.secondary = s.on])
      /\ Joined(b, own, s) = Performed(b, own, fine, [b EXCEPT !.secondary = s.on])
  BY <1>1, Zenon DEF Joined
<1>3. Near(d, [a EXCEPT !.secondary = s.on], [b EXCEPT !.secondary = s.on])
  BY NearSecondary
<1> HIDE DEF fine
<1> QED
  BY <1>2, <1>3, PerformedSimulated

LEMMA ThroughIsStage ==
  ASSUME NEW by
  PROVE  Through(by) \in {"current", "lower"}
  BY DEF Through

LEMMA CoherentStep ==
  ASSUME NEW d, NEW a, NEW b, Near(d, a, b), NEW own, NEW s
  PROVE  Simulated(d, Coherent(a, own, s), Coherent(b, own, s))
<1> SUFFICES ASSUME NEW x \in MayUse(a, Through(s.by), s.page), x.status = "ok"
             PROVE  \E q \in Coherent(b, own, s) :
                       Alike(d, Result(a, own, TRUE, MadeCoherent(a, x.page)), q)
  BY DEF Simulated, Coherent
<1>1. x \in MayUse(b, Through(s.by), s.page)
  BY ThroughIsStage, MayUseGrows
<1>2. Result(b, own, TRUE, MadeCoherent(b, x.page)) \in Coherent(b, own, s)
  BY <1>1 DEF Coherent
<1>3. Near(d, MadeCoherent(a, x.page), MadeCoherent(b, x.page))
  BY NearCoherent
<1> QED
  BY <1>2, <1>3, ResultAlike, Zenon

LEMMA ExecuteStep ==
  ASSUME NEW d, NEW a, NEW b, Near(d, a, b), NEW own, NEW s
  PROVE  Simulated(d, Executed(a, own, s), Executed(b, own, s))
<1> DEFINE kept(k) == Keep(k, Through(s.by), s.page)
           fine(k, z, fresh) == fresh /\ Contents(k, z.page) = s.value
           Granted(k, z) == {Result(k, own, fine(k, z, fresh), kept(k)) :
                                fresh \in FetchedFresh(k, z.page)}
           One(k, x) == LET z == Permitted(k, x, s.by, "execute")
                        IN  IF z.status # "ok" THEN Performed(k, own, FALSE, k)
                            ELSE Granted(k, z)
<1>1. \A k : Executed(k, own, s) = UNION {One(k, x) : x \in MayUse(k, Through(s.by), s.page)}
  BY DEF Executed
<1>2. ASSUME NEW z PROVE Simulated(d, Granted(a, z), Granted(b, z))
  <2>1. FetchedFresh(a, z.page) = FetchedFresh(b, z.page)
        /\ Contents(a, z.page) = Contents(b, z.page)
    BY Reads
  <2>2. \A fresh : fine(a, z, fresh) = fine(b, z, fresh)
    BY <2>1
  <2>3. Near(d, kept(a), kept(b))
    BY KeepNear
  <2> HIDE DEF kept, fine
  <2>4. ASSUME NEW fresh
        PROVE  Alike(d, Result(a, own, fine(a, z, fresh), kept(a)),
                        Result(b, own, fine(b, z, fresh), kept(b)))
    BY <2>2, <2>3, ResultAlike, Zenon
  <2> QED
    BY <2>1, <2>4 DEF Simulated
<1> HIDE DEF Granted
<1>3. ASSUME NEW x PROVE Simulated(d, One(a, x), One(b, x))
  <2> DEFINE z == Permitted(b, x, s.by, "execute")
  <2>1. Permitted(a, x, s.by, "execute") = z
    BY PermittedSame
  <2> HIDE DEF z
  <2>2. CASE z.status # "ok"
    <3>1. One(a, x) = Performed(a, own, FALSE, a) /\ One(b, x) = Performed(b, own, FALSE, b)
      BY <2>1, <2>2 DEF z
    <3> QED
      BY <3>1, PerformedSimulated
  <2>3. CASE z.status = "ok"
    <3>1. One(a, x) = Granted(a, z) /\ One(b, x) = Granted(b, z)
      BY <2>1, <2>3 DEF z
    <3> QED
      BY <1>2, <3>1
  <2> QED
    BY <2>2, <2>3
<1>4. MayUse(a, Through(s.by), s.page) \subseteq MayUse(b, Through(s.by), s.page)
  BY ThroughIsStage, MayUseGrows
<1> HIDE DEF One
<1> QED
  BY <1>1, <1>3, <1>4 DEF Simulated

LEMMA AccessStep ==
  ASSUME NEW d, NEW a, NEW b, Near(d, a, b), NEW own, NEW s,
         s.do \in {"read", "write", "update", "query"}
  PROVE  Simulated(d, Accessed(a, own, s), Accessed(b, own, s))
<1> DEFINE stage == Through(s.by)
           kind == IF s.do \in {"read", "query"} THEN "read" ELSE "write"
           kept(k) == Keep(Marks(k, stage, s.page, kind), stage, s.page)
           y(k, x) == Permitted(k, x, s.by, kind)
           refused(k, x) == y(k, x).status # "ok" \/ (s.by = "secondary" /\ ~k.secondary)
           Granted(k, page) ==
               CASE s.do = "read" ->
                        Result(k, own, s.value \in {Anything, Contents(k, page)}, kept(k))
                 [] s.do = "write" -> Result(k, own, TRUE, Stored(kept(k), page, s.value))
                 [] s.do = "update" ->
                        Result(k, own, Contents(k, page) = s.value,
                               Stored(kept(k), page, s.new))
                 [] s.do = "query" -> Result(k, own, page = s.out, kept(k))
           One(k, x) == IF refused(k, x) THEN Result(k, own, FALSE, k)
                        ELSE Granted(k, y(k, x).page)
<1>1. \A k : Accessed(k, own, s) = {One(k, x) : x \in MayUse(k, stage, s.page)}
  BY DEF Accessed
<1>2. Near(d, kept(a), kept(b))
  BY MarksNear, KeepNear
<1> HIDE DEF kept
<1>3. ASSUME NEW page PROVE Alike(d, Granted(a, page), Granted(b, page))
  <2>1. Contents(a, page) = Contents(b, page)
    BY Reads
  <2>2. \A v : Near(d, Stored(kept(a), page, v), Stored(kept(b), page, v))
    BY <1>2, NearStored
  <2>3. CASE s.do = "read"
    <3>1. \A k : Granted(k, page)
                 = Result(k, own, s.value \in {Anything, Contents(k, page)}, kept(k))
      BY <2>3
    <3> HIDE DEF Granted
    <3> QED
      BY <1>2, <2>1, <3>1, ResultAlike, Zenon
  <2>4. CASE s.do = "write"
    <3>1. \A k : Granted(k, page) = Result(k, own, TRUE, Stored(kept(k), page, s.value))
      BY <2>4
    <3> HIDE DEF Granted
    <3> QED
      BY <2>2, <3>1, ResultAlike, Zenon
  <2>5. CASE s.do = "update"
    <3> DEFINE fine == Contents(b, page) = s.value
    <3>1. /\ Granted(a, page) = Result(a, own, fine, Stored(kept(a), page, s.new))
          /\ Granted(b, page) = Result(b, own, fine, Stored(kept(b), page, s.new))
      BY <2>1, <2>5
    <3> HIDE DEF Granted, fine
    <3> QED
      BY <2>2, <3>1, ResultAlike
  <2>6. CASE s.do = "query"
    <3> DEFINE fine == page = s.out
    <3>1. \A k : Granted(k, page) = Result(k, own, fine, kept(k))
      BY <2>6
    <3> HIDE DEF Granted, fine
    <3> QED
      BY <1>2, <3>1, ResultAlike
  <2> QED
    BY <2>3, <2>4, <2>5, <2>6
<1> HIDE DEF Granted
<1>4. ASSUME NEW x PROVE Alike(d, One(a, x), One(b, x))
  <2>1. y(a, x) = y(b, x)
    BY PermittedSame
  <2>2. refused(a, x) <=> refused(b, x)
    BY <2>1, Fields
  <2> HIDE DEF y
  <2>3. CASE refused(b, x)
    <3>1. One(a, x) = Result(a, own, FALSE, a) /\ One(b, x) = Result(b, own, FALSE, b)
      BY <2>2, <2>3
    <3> HIDE DEF One, refused
    <3> QED
      BY <3>1, ResultAlike, Zenon
  <2>4. CASE ~refused(b, x)
    BY <1>3, <2>1, <2>2, <2>4
  <2> QED
    BY <2>3, <2>4
<1> HIDE DEF One
<1>5. MayUse(a, stage, s.page) \subseteq MayUse(b, stage, s.page)
  BY ThroughIsStage, MayUseGrows
<1> QED
  BY <1>1, <1>4, <1>5 DEF Simulated

LEMMA FaultStep ==
  ASSUME NEW d, NEW a, NEW b, Near(d, a, b), NEW own, NEW s
  PROVE  Simulated(d, Faulted(a, own, s), Faulted(b, own, s))
<1> DEFINE stage == Through(s.by)
           Matches(y) == y.status = s.status /\ (s.stage # 0 => y.stage = s.stage)
           fine(k, x) == Matches(Permitted(k, x, s.by, s.kind))
           One(k, x) == Result(k, own, fine(k, x), Keep(k, stage, s.page))
<1>1. \A k : Faulted(k, own, s) = {One(k, x) : x \in MayUse(k, stage, s.page)}
  BY DEF Faulted
<1>2. ASSUME NEW x
      PROVE  Alike(d, One(a, x), One(b, x))
  <2>1. fine(a, x) = fine(b, x)
    BY PermittedSame
  <2> DEFINE kept(k) == Keep(k, stage, s.page)
  <2>2. One(a, x) = Result(a, own, fine(b, x), kept(a))
        /\ One(b, x) = Result(b, own, fine(b, x), kept(b))
    <3> HIDE DEF fine
    <3> QED
      BY <2>1
  <2>3. Near(d, kept(a), kept(b))
    BY KeepNear
  <2> HIDE DEF One, fine, kept
  <2> QED
    BY <2>2, <2>3, ResultAlike, Zenon
<1> HIDE DEF One
<1>3. MayUse(a, stage, s.page) \subseteq MayUse(b, stage, s.page)
  BY ThroughIsStage, MayUseGrows
<1> QED
  BY <1>1, <1>2, <1>3 DEF Simulated

\* A step may answer and leave no more than it may with fuller TLBs.
LEMMA StepSimulated ==
  ASSUME NEW d, NEW a, NEW b, Near(d, a, b), NEW own, NEW s, IsStep(s)
  PROVE  Simulated(d, Outcomes(a, own, s), Outcomes(b, own, s))
<1>1. s.do \in OnStages => s.stage \in Stages
  BY DEF IsStep
<1>2. CASE s.do \in {"check", "root", "offline", "remove", "damage", "poke", "peek"}
  BY <1>2, CheckStep, RootStep, OfflineStep, RemoveStep, DamageStep, PokeStep, PeekStep
     DEF Outcomes
<1>3. CASE s.do \in {"install", "restore", "adopt", "switch", "map"}
  BY <1>1, <1>3, InstallStep, RestoreStep, AdoptStep, SwitchStep, MapStep
     DEF Outcomes, OnStages
<1>4. CASE s.do \in {"unmap", "reclaim", "replace", "rollback", "unmapped"}
  BY <1>1, <1>4, UnmapStep, ReplaceStep, RollbackStep, InspectStep DEF Outcomes, OnStages
<1>5. CASE s.do \in {"injected", "tlbi", "updates", "secondary"}
  BY <1>5, InjectedStep, TlbiStep, UpdatesStep, SecondaryStep DEF Outcomes
<1>6. CASE s.do \in {"coherent", "execute", "fault"}
  BY <1>6, CoherentStep, ExecuteStep, FaultStep DEF Outcomes
<1>7. CASE s.do \in {"read", "write", "update", "query"}
  BY <1>7, AccessStep DEF Outcomes
<1> QED
  BY <1>2, <1>3, <1>4, <1>5, <1>6, <1>7 DEF IsStep, OnStages

-----------------------------------------------------------------------------
(* The suite.                                                              *)

\* The inductive invariant: on a PE that conforms, a body that runs is below its
\* outline, and one that has passed leaves no more than the next may begin with.
BodyInv ==
    /\ IsMachine(m)
    /\ body \in DOMAIN Bodies
    /\ at \in 1..(Len(Bodies[body]) + 1)
    /\ m.defect = "nothing" =>
          /\ verdict # "fail"
          /\ verdict = "running" =>
                Below(m, Outline[body][at].m) /\ owned = Outline[body][at].owned
          /\ verdict = "pass" => Below(Renewed(m), Fresh(Leftover)) /\ owned = Nothing

LEMMA OutlineFacts ==
  ASSUME NEW b \in DOMAIN Bodies
  PROVE  /\ Len(Bodies[b]) \in Nat
         /\ \A i \in 1..Len(Bodies[b]) : IsStep(Bodies[b][i])
         /\ \A i \in 1..(Len(Bodies[b]) + 1) :
               IsMachine(Outline[b][i].m) /\ Outline[b][i].m.defect = "nothing"
         /\ Outline[b][1].m = Fresh(Leftover) /\ Outline[b][1].owned = Nothing
         /\ \A i \in 1..Len(Bodies[b]) :
               \A r \in Outcomes(Outline[b][i].m, Outline[b][i].owned, Bodies[b][i]) :
                   /\ r.fine
                   /\ Below(r.m, Outline[b][i + 1].m)
                   /\ r.owned = Outline[b][i + 1].owned
         /\ Below(Renewed(Dropped(Outline[b][Len(Bodies[b]) + 1].m)), Fresh(Leftover))
  BY OutlineAssumption, Zenon DEF IsOutline

LEMMA BelowIsNear ==
  ASSUME NEW a, NEW b, IsMachine(b), b.defect = "nothing"
  PROVE  Near("nothing", a, b) <=> Below(a, b)
  BY DEF Near, Below

LEMMA NearTransitive ==
  ASSUME NEW d, NEW a, NEW b, NEW c, Near(d, a, b), Near(d, b, c)
  PROVE  Near(d, a, c)
<1>1. IsMachine(c) /\ c.defect = d /\ b = WithTlb(c, b.tlb) /\ a = WithTlb(b, a.tlb)
  BY DEF Near
<1> DEFINE x == a.tlb  y == b.tlb
<1>2. WithTlb(WithTlb(c, y), x) = WithTlb(c, x)
  BY <1>1 DEF WithTlb, IsMachine
<1>3. a = WithTlb(c, a.tlb)
  BY <1>1, <1>2
<1> QED
  BY <1>1, <1>3 DEF Near

LEMMA FreshIs ==
  ASSUME NEW tlb
  PROVE  /\ \A d : IsMachine(Machine(tlb, d)) /\ Machine(tlb, d).defect = d
         /\ \A k, d : k = Machine(tlb, d) => k.tlb = tlb
  BY DEF Machine, IsMachine

LEMMA Starts == Init => BodyInv
<1> SUFFICES ASSUME Init PROVE BodyInv
  OBVIOUS
<1>1. PICK d : m = Machine({}, d)
  BY DEF Init
<1>2. IsMachine(m) /\ m.defect = d
  BY <1>1, FreshIs
<1>3. body \in DOMAIN Bodies
  BY DEF Init
<1>4. Len(Bodies[body]) \in Nat /\ Outline[body][1].m = Fresh(Leftover)
      /\ Outline[body][1].owned = Nothing
  BY <1>3, OutlineFacts
<1>5. m.defect = "nothing" => Below(m, Fresh(Leftover))
  <2> SUFFICES ASSUME d = "nothing" PROVE Near(d, m, Machine(Leftover, "nothing"))
    BY <1>2, FreshIs, BelowIsNear DEF Fresh
  <2> QED
    BY <1>1, NearMachine
<1> QED
  BY <1>2, <1>3, <1>4, <1>5 DEF Init, BodyInv

LEMMA TakesKeeps ==
  ASSUME BodyInv, verdict = "running", at <= Len(Bodies[body]),
         NEW r \in Outcomes(m, owned, Step), Takes(r)
  PROVE  BodyInv'
<1> DEFINE d == m.defect
           b == body
           place == Outline[b][at]
           next == Outline[b][at + 1]
<1>1. m' = r.m /\ owned' = r.owned /\ verdict' = IF r.fine THEN "running" ELSE "fail"
  BY DEF Takes
<1>2. at' = at + 1 /\ body' = body
  BY DEF Takes
<1>3. body \in DOMAIN Bodies /\ IsMachine(m)
  BY DEF BodyInv
<1>4. Len(Bodies[body]) \in Nat
  BY <1>3, OutlineFacts
<1>5. at \in 1..Len(Bodies[body]) /\ at + 1 \in 1..(Len(Bodies[body]) + 1)
      /\ at \in 1..(Len(Bodies[body]) + 1)
  BY <1>4 DEF BodyInv
<1>6. IsStep(Step)
  BY <1>3, <1>5, OutlineFacts DEF Step
<1>7. CASE m.defect # "nothing"
  <2>1. Near(m.defect, m, m)
    BY <1>3, NearItself
  <2>2. PICK q : Alike(m.defect, r, q)
    BY <1>1, <1>6, <2>1, StepSimulated DEF Simulated
  <2>3. IsMachine(r.m) /\ r.m.defect = m.defect
    BY <2>2, Fields DEF Alike
  <2> QED
    BY <1>1, <1>2, <1>3, <1>5, <1>7, <2>3 DEF BodyInv
<1>8. CASE m.defect = "nothing"
  <2>1. Below(m, place.m) /\ owned = place.owned
    BY <1>8 DEF BodyInv
  <2>2. /\ IsMachine(place.m) /\ place.m.defect = "nothing"
        /\ IsMachine(next.m) /\ next.m.defect = "nothing"
    BY <1>3, <1>5, OutlineFacts
  <2>3. Near("nothing", m, place.m)
    BY <2>1, <2>2, BelowIsNear
  <2>4. PICK q \in Outcomes(place.m, place.owned, Step) : Alike("nothing", r, q)
    BY <1>1, <1>6, <2>1, <2>3, StepSimulated DEF Simulated
  <2>5. q.fine /\ Below(q.m, next.m) /\ q.owned = next.owned
    BY <1>3, <1>5, <2>4, OutlineFacts DEF Step
  <2>6. Near("nothing", r.m, next.m)
    BY <2>2, <2>4, <2>5, BelowIsNear, NearTransitive DEF Alike
  <2>7. Below(r.m, next.m) /\ IsMachine(r.m) /\ r.m.defect = "nothing"
    BY <2>2, <2>6, BelowIsNear, Fields
  <2>8. r.fine /\ r.owned = next.owned
    BY <2>4, <2>5 DEF Alike
  <2>9. verdict' = "running"
    BY <1>1, <2>8
  <2> QED
    BY <1>1, <1>2, <1>3, <1>5, <2>7, <2>8, <2>9 DEF BodyInv
<1> QED
  BY <1>7, <1>8

LEMMA FinishKeeps ==
  ASSUME BodyInv, Finish
  PROVE  BodyInv'
<1> DEFINE last == Outline[body][at].m
<1>1. body \in DOMAIN Bodies /\ IsMachine(m)
  BY DEF BodyInv
<1>2. Len(Bodies[body]) \in Nat
  BY <1>1, OutlineFacts
<1>3. at = Len(Bodies[body]) + 1
  BY <1>2 DEF BodyInv, Finish
<1>4. Near(m.defect, Dropped(m), Dropped(m))
  BY <1>1, NearItself, DroppedNear
<1>5. IsMachine(Dropped(m)) /\ Dropped(m).defect = m.defect
  BY <1>4, Fields
<1>6. ASSUME m.defect = "nothing" PROVE Below(Renewed(Dropped(m)), Fresh(Leftover))
  <2>1. Below(m, last)
    BY <1>6 DEF BodyInv, Finish
  <2>2. /\ IsMachine(last) /\ last.defect = "nothing"
        /\ Below(Renewed(Dropped(last)), Fresh(Leftover))
    BY <1>1, <1>2, <1>3, OutlineFacts
  <2>3. Near("nothing", Renewed(Dropped(m)), Renewed(Dropped(last)))
    BY <2>1, <2>2, BelowIsNear, DroppedNear, NearRenewed
  <2>4. IsMachine(Fresh(Leftover)) /\ Fresh(Leftover).defect = "nothing"
    BY FreshIs DEF Fresh
  <2> QED
    BY <2>2, <2>3, <2>4, BelowIsNear, NearTransitive
<1> QED
  BY <1>1, <1>2, <1>3, <1>5, <1>6 DEF BodyInv, Finish

LEMMA NextTestKeeps ==
  ASSUME BodyInv, NextTest
  PROVE  BodyInv'
<1>1. m' = Renewed(m) /\ owned' = owned /\ body' \in DOMAIN Bodies /\ at' = 1
      /\ verdict' = "running" /\ verdict = "pass" /\ m.defect = "nothing"
  BY DEF NextTest
<1>2. /\ Len(Bodies[body']) \in Nat
      /\ Outline[body'][1].m = Fresh(Leftover) /\ Outline[body'][1].owned = Nothing
  BY <1>1, OutlineFacts
<1>3. Below(Renewed(m), Fresh(Leftover)) /\ owned = Nothing
  BY <1>1 DEF BodyInv
<1>4. IsMachine(Renewed(m))
  <2>1. Near(m.defect, Renewed(m), Renewed(m))
    BY NearItself, NearRenewed DEF BodyInv
  <2> QED
    BY <2>1, Fields
<1> QED
  BY <1>1, <1>2, <1>3, <1>4 DEF BodyInv

LEMMA Inductive == BodyInv /\ [Next]_vars => BodyInv'
<1> SUFFICES ASSUME BodyInv, [Next]_vars PROVE BodyInv'
  OBVIOUS
<1>1. CASE UNCHANGED vars
  BY <1>1 DEF vars, BodyInv
<1>2. CASE Running
  <2>1. PICK s \in {Step} :
           \/ Checking(s) \/ Prepare(s) \/ Direct(s)
           \/ DoInstall(s) \/ DoRestore(s) \/ DoAdopt(s) \/ DoSwitch(s)
           \/ DoMap(s) \/ DoUnmap(s) \/ DoReplace(s) \/ DoTlbi(s) \/ DoUpdates(s)
           \/ DoRollback(s) \/ DoInspect(s) \/ DoInjected(s)
           \/ DoSecondary(s) \/ DoCoherent(s) \/ Execution(s)
           \/ Access(s) \/ FaultingAccess(s)
    BY <1>2 DEF Running
  <2>2. verdict = "running" /\ at <= Len(Bodies[body])
    BY <1>2 DEF Running
  <2>3. ASSUME NEW r \in Outcomes(m, owned, s), Takes(r) PROVE BodyInv'
    BY <2>1, <2>2, <2>3, TakesKeeps
  <2>4. CASE Checking(s) \/ Prepare(s) \/ Direct(s)
    <3>1. \E r \in Outcomes(m, owned, s) : Takes(r)
      BY <2>4 DEF Checking, Prepare, Direct, Outcomes
    <3> QED
      BY <3>1, <2>3
  <2>5. CASE DoInstall(s) \/ DoRestore(s) \/ DoAdopt(s) \/ DoSwitch(s) \/ DoMap(s)
    <3>1. \E r \in Outcomes(m, owned, s) : Takes(r)
      BY <2>5 DEF DoInstall, DoRestore, DoAdopt, DoSwitch, DoMap, Outcomes
    <3> QED
      BY <3>1, <2>3
  <2>6. CASE DoUnmap(s) \/ DoReplace(s) \/ DoTlbi(s) \/ DoUpdates(s)
    <3>1. \E r \in Outcomes(m, owned, s) : Takes(r)
      BY <2>6 DEF DoUnmap, DoReplace, DoTlbi, DoUpdates, Outcomes
    <3> QED
      BY <3>1, <2>3
  <2>7. CASE DoRollback(s) \/ DoInspect(s) \/ DoInjected(s) \/ DoSecondary(s) \/ DoCoherent(s)
    <3>1. \E r \in Outcomes(m, owned, s) : Takes(r)
      BY <2>7 DEF DoRollback, DoInspect, DoInjected, DoSecondary, DoCoherent, Outcomes
    <3> QED
      BY <3>1, <2>3
  <2>8. CASE Execution(s) \/ Access(s) \/ FaultingAccess(s)
    <3>1. \E r \in Outcomes(m, owned, s) : Takes(r)
      BY <2>8 DEF Execution, Access, FaultingAccess, Outcomes
    <3> QED
      BY <3>1, <2>3
  <2> QED
    BY <2>1, <2>4, <2>5, <2>6, <2>7, <2>8
<1>3. CASE Finish
  BY <1>3, FinishKeeps
<1>4. CASE NextTest
  BY <1>4, NextTestKeeps
<1> QED
  BY <1>1, <1>2, <1>3, <1>4 DEF Next

\* On a PE that conforms no test fails, however many run before it and in which
\* order, whatever they leave in the TLBs and whatever the PE fetches and forgets.
THEOREM ConformingPePassesCorrect == Spec => []ConformingPePasses
<1>1. BodyInv => ConformingPePasses
  BY DEF BodyInv, ConformingPePasses
<1> QED
  BY <1>1, Starts, Inductive, PTL DEF Spec
=============================================================================
