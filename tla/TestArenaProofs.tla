-------------------------- MODULE TestArenaProofs --------------------------
(***************************************************************************)
(* Proofs about TestArena for an arena of any size, any granules and table *)
(* layouts, and any sequence of scopes, allocations, reclaims, writes and  *)
(* injected failures.                                                      *)
(***************************************************************************)
EXTENDS TestArena, Integers, SequenceTheorems, TLAPS

LEMMA Constants ==
    /\ Base \in Nat /\ Size \in Nat /\ Size > 0 /\ MaxAllocations \in Nat
    /\ PageSize \in Positive /\ Granules \subseteq Positive
    /\ TableLayouts \subseteq Layouts /\ InjectedPoints \subseteq Points
    /\ Generations \in Positive /\ MaxPages \in Nat /\ None \notin Nat
  BY ArenaAssumption DEF ArenaAssumption, Positive

LEMMA Remainder ==
  ASSUME NEW x \in Nat, NEW a \in Positive
  PROVE  x % a \in 0 .. a - 1
  BY DEF Positive

LEMMA AdjustmentIsNat ==
  ASSUME cursor \in Nat, NEW align \in Positive
  PROVE  Adjustment(align) \in Nat /\ Placed(align) \in Nat /\ Placed(align) >= cursor
<1>1. (Base + cursor) % align \in 0 .. align - 1
  BY Constants, Remainder DEF Positive
<1>2. align - ((Base + cursor) % align) \in Nat
  BY <1>1 DEF Positive
<1>3. Adjustment(align) \in 0 .. align - 1
  BY <1>2, Remainder DEF Adjustment
<1> QED
  BY <1>3 DEF Placed, Positive

LEMMA SmallRemainder ==
  ASSUME NEW a \in Positive, NEW d \in 0 .. a - 1
  PROVE  d % a = d
  BY DEF Positive

LEMMA DivisionIdentity ==
  ASSUME NEW x \in Nat, NEW a \in Positive
  PROVE  x = (a * (x \div a)) + (x % a) /\ x \div a \in Nat
  BY DEF Positive

LEMMA MultipleRemainder ==
  ASSUME NEW k \in Nat, NEW a \in Positive
  PROVE  (a * k) % a = 0
  BY DEF Positive

LEMMA AdjustmentAligns ==
  ASSUME cursor \in Nat, NEW align \in Positive
  PROVE  (Base + Placed(align)) % align = 0
<1> DEFINE x == Base + cursor
           r == x % align
           q == x \div align
<1>1. x \in Nat /\ r \in 0 .. align - 1
  BY Constants, Remainder
<1>2. x = (align * q) + r /\ q \in Nat
  BY <1>1, DivisionIdentity
<1>3. Base + Placed(align) = x + Adjustment(align)
  BY Constants, AdjustmentIsNat DEF Placed
<1>4. CASE r = 0
  <2>1. Adjustment(align) = 0
    BY <1>4, MultipleRemainder DEF Adjustment, Positive
  <2> QED
    BY <1>1, <1>3, <1>4, <2>1
<1>5. CASE r # 0
  <2>1. Adjustment(align) = align - r
    BY <1>1, <1>5, SmallRemainder DEF Adjustment, Positive
  <2>2. x + Adjustment(align) = align * (q + 1)
    BY <1>1, <1>2, <2>1 DEF Positive
  <2>3. q + 1 \in Nat
    BY <1>2
  <2> QED
    BY <1>3, <2>2, <2>3, MultipleRemainder
<1> QED
  BY <1>4, <1>5

RequestTyped(request) ==
    /\ request.point \in Points
    /\ request.bytes \in Nat
    /\ request.align \in Positive
    /\ request.table \in BOOLEAN

LEMMA RequestsTyped ==
  /\ RequestTyped(PageRequest)
  /\ \A pages \in 0..MaxPages, align \in {PageSize} \cup Granules :
        RequestTyped(PagesRequest(pages, align))
  /\ \A granule \in Granules : RequestTyped(RootRequest(granule))
  /\ \A layout \in TableLayouts : RequestTyped(TableRequest(layout))
<1>1. RequestTyped(PageRequest)
  BY Constants DEF RequestTyped, PageRequest, Request, Points, Positive
<1>2. ASSUME NEW pages \in 0..MaxPages, NEW align \in {PageSize} \cup Granules
      PROVE  RequestTyped(PagesRequest(pages, align))
  <2>1. pages * PageSize \in Nat
    BY Constants DEF Positive
  <2> QED
    BY <2>1, Constants DEF RequestTyped, PagesRequest, Request, Points
<1>3. ASSUME NEW granule \in Granules PROVE RequestTyped(RootRequest(granule))
  BY Constants DEF RequestTyped, RootRequest, Request, Points, Positive
<1>4. ASSUME NEW layout \in TableLayouts PROVE RequestTyped(TableRequest(layout))
  BY Constants DEF RequestTyped, TableRequest, Request, Points, Layouts, Positive
<1> QED
  BY <1>1, <1>2, <1>3, <1>4

-----------------------------------------------------------------------------
(* Types, the order of the blocks, and the scope run_suite holds.          *)

\* Every scope begins and ends with an empty arena, so the scope run_suite
\* holds during a test always matches.
ScopeIsOurs ==
    /\ suite # "corrupted"
    /\ activeScope <=> suite = "test"
    /\ suite = "idle" => cursor = 0 /\ allocations = <<>>
    /\ suite = "test" => /\ scope.checkpoint = 0
                         /\ scope.allocationCheckpoint = 0
                         /\ scope.generation = generation

Layout == ArenaTypeOK /\ AllocationsAreDisjoint /\ AllocationsAreAligned /\ ScopeIsOurs

LEMMA LayoutInit == Init => Layout
<1> SUFFICES ASSUME Init PROVE Layout
  OBVIOUS
<1>1. ArenaTypeOK
  <2>1. /\ cursor \in 0..Size /\ generation \in 0 .. Generations - 1
        /\ scope \in Scopes
    BY Constants DEF Init, Positive, Scopes
  <2>2. allocations \in Seq(Blocks) /\ Len(allocations) <= MaxAllocations
    BY Constants DEF Init
  <2>3. /\ failures \in [Points -> Nat \cup {None}]
        /\ asked \in [Points -> Nat] /\ granted \in [Points -> Nat]
    BY DEF Init
  <2>4. memory \in [Units -> {"zero", "test", "unknown"}]
    BY DEF Init
  <2>5. suite \in {"idle", "test", "corrupted"}
    BY DEF Init
  <2>6. activeScope \in BOOLEAN
    BY DEF Init
  <2> QED
    BY Zenon, <2>1, <2>2, <2>3, <2>4, <2>5, <2>6 DEF ArenaTypeOK
<1>2. AllocationsAreDisjoint /\ AllocationsAreAligned
  BY DEF Init, AllocationsAreDisjoint, AllocationsAreAligned
<1>3. ScopeIsOurs
  BY DEF Init, ScopeIsOurs
<1> QED
  BY <1>1, <1>2, <1>3 DEF Layout

\* A step that leaves the arena's blocks and the scope alone.
LEMMA LayoutUnaffected ==
  ASSUME Layout,
         UNCHANGED <<cursor, generation, activeScope, allocations, scope, suite>>,
         memory' \in [Units -> {"zero", "test", "unknown"}],
         failures' \in [Points -> Nat \cup {None}],
         asked' \in [Points -> Nat], granted' \in [Points -> Nat]
  PROVE  Layout'
<1>1. ArenaTypeOK'
  BY Zenon DEF Layout, ArenaTypeOK
<1>2. AllocationsAreDisjoint' /\ AllocationsAreAligned'
  BY DEF Layout, AllocationsAreDisjoint, AllocationsAreAligned, BlockEnd
<1>3. ScopeIsOurs'
  BY DEF Layout, ScopeIsOurs
<1> QED
  BY <1>1, <1>2, <1>3 DEF Layout

LEMMA FilledTyped ==
  ASSUME memory \in [Units -> {"zero", "test", "unknown"}], NEW from, NEW to,
         NEW value \in {"zero", "test"}
  PROVE  Filled(from, to, value) \in [Units -> {"zero", "test", "unknown"}]
  BY DEF Filled

LEMMA LayoutBeginScope == Layout /\ BeginScope => Layout'
<1> SUFFICES ASSUME Layout, BeginScope PROVE Layout'
  OBVIOUS
<1>1. /\ suite = "idle" /\ ~activeScope /\ suite' = "test" /\ activeScope' = TRUE
      /\ generation' = (generation + 1) % Generations
      /\ scope' = [checkpoint |-> cursor, generation |-> generation',
                   allocationCheckpoint |-> Len(allocations)]
      /\ UNCHANGED <<cursor, allocations, failures, memory, history>>
  BY DEF BeginScope, Layout, ScopeIsOurs, NewScope
<1>2. cursor = 0 /\ allocations = <<>> /\ Len(allocations) = 0
  BY <1>1 DEF Layout, ScopeIsOurs
<1>3. generation' \in 0 .. Generations - 1
  BY <1>1, Remainder, Constants DEF Layout, ArenaTypeOK, Positive
<1>4. scope' \in Scopes
  BY <1>1, <1>2, <1>3, Constants DEF Scopes, Positive
<1>5. ArenaTypeOK'
  <2>1. suite' \in {"idle", "test", "corrupted"} /\ activeScope' \in BOOLEAN
    BY Zenon, <1>1
  <2> QED
    BY Zenon, <1>1, <1>3, <1>4, <2>1 DEF Layout, ArenaTypeOK, history
<1>6. AllocationsAreDisjoint' /\ AllocationsAreAligned'
  BY <1>1 DEF Layout, AllocationsAreDisjoint, AllocationsAreAligned, BlockEnd
<1>7. ScopeIsOurs'
  BY <1>1, <1>2 DEF ScopeIsOurs
<1> QED
  BY <1>5, <1>6, <1>7 DEF Layout

\* A reset always finds the scope it was given, and empties the arena.
LEMMA ResetEmpties ==
  ASSUME Layout, Reset
  PROVE  /\ suite = "test" /\ suite' = "idle" /\ activeScope' = FALSE
         /\ cursor' = 0 /\ allocations' = <<>>
         /\ memory' = Filled(0, cursor, "zero")
         /\ failures' = [point \in Points |-> None]
         /\ UNCHANGED <<generation, scope, history>>
<1>1. suite = "test" /\ activeScope
  BY DEF Reset, Layout, ScopeIsOurs
<1>2. ScopeMatches
  BY <1>1 DEF ScopeMatches, Layout, ScopeIsOurs, ArenaTypeOK
<1>3. Kept = <<>>
  BY <1>1 DEF Kept, Layout, ScopeIsOurs, ArenaTypeOK
<1> QED
  BY <1>1, <1>2, <1>3 DEF Reset, Cleared, Layout, ScopeIsOurs

LEMMA LayoutReset == Layout /\ Reset => Layout'
<1> SUFFICES ASSUME Layout, Reset PROVE Layout'
  OBVIOUS
<1>1. ArenaTypeOK'
  <2>1. cursor' \in 0..Size /\ allocations' \in Seq(Blocks)
        /\ Len(allocations') <= MaxAllocations
    BY ResetEmpties, Constants
  <2>2. memory' \in [Units -> {"zero", "test", "unknown"}]
    <3>1. memory \in [Units -> {"zero", "test", "unknown"}]
      BY DEF Layout, ArenaTypeOK
    <3>2. Filled(0, cursor, "zero") \in [Units -> {"zero", "test", "unknown"}]
      BY <3>1, FilledTyped
    <3> QED
      BY <3>2, ResetEmpties
  <2>3. failures' \in [Points -> Nat \cup {None}]
    BY ResetEmpties
  <2>4. suite' \in {"idle", "test", "corrupted"} /\ activeScope' \in BOOLEAN
    BY Zenon, ResetEmpties
  <2> QED
    BY Zenon, ResetEmpties, <2>1, <2>2, <2>3, <2>4 DEF Layout, ArenaTypeOK, history
<1>2. AllocationsAreDisjoint' /\ AllocationsAreAligned'
  BY ResetEmpties DEF AllocationsAreDisjoint, AllocationsAreAligned
<1>3. ScopeIsOurs'
  BY ResetEmpties DEF ScopeIsOurs
<1> QED
  BY <1>1, <1>2, <1>3 DEF Layout

\* The block a request is granted.
Block(request) ==
    [offset |-> Placed(request.align), bytes |-> request.bytes,
     align |-> request.align, table |-> request.table]

\* A granted block lies between the cursor and the end of the arena.
LEMMA GrantedBlock ==
  ASSUME Layout, NEW request, RequestTyped(request), Allocate(request),
         Fits(request)
  PROVE  /\ Block(request) \in Blocks
         /\ cursor <= Placed(request.align)
         /\ After(request) = Placed(request.align) + request.bytes
         /\ cursor' = After(request) /\ cursor' \in 0..Size /\ cursor <= cursor'
         /\ allocations' = Append(allocations, Block(request))
         /\ allocations \in Seq(Blocks) /\ Len(allocations') <= MaxAllocations
<1>1. cursor \in 0..Size /\ allocations \in Seq(Blocks) /\ cursor \in Nat
  BY Constants DEF Layout, ArenaTypeOK
<1>2. /\ request.bytes \in Nat \ {0} /\ request.align \in Positive
      /\ request.table \in BOOLEAN /\ Len(allocations) < MaxAllocations
  BY DEF RequestTyped, Allocate, Valid
<1>3. Placed(request.align) \in Nat /\ cursor <= Placed(request.align)
  BY <1>1, <1>2, AdjustmentIsNat
<1>4. Block(request) \in Blocks
  BY <1>2, <1>3 DEF Block, Blocks, Positive
<1>5. cursor' = After(request) /\ allocations' = Append(allocations, Block(request))
  BY DEF Allocate, Block
<1>6. After(request) \in 0..Size /\ cursor <= After(request)
  BY <1>1, <1>2, <1>3, Constants DEF After, Fits
<1>7. Len(allocations') <= MaxAllocations
  BY <1>1, <1>2, <1>4, <1>5, Constants
<1> QED
  BY <1>1, <1>3, <1>4, <1>5, <1>6, <1>7 DEF After

LEMMA HeldBlocks ==
  ASSUME Layout, NEW i \in DOMAIN allocations
  PROVE  /\ allocations[i] \in Blocks /\ i \in 1 .. Len(allocations)
         /\ BlockEnd(i) \in Nat /\ BlockEnd(i) <= cursor
         /\ allocations[i].offset < BlockEnd(i)
         /\ cursor \in 0..Size
<1>1. allocations \in Seq(Blocks) /\ cursor \in 0..Size
  BY DEF Layout, ArenaTypeOK
<1>2. allocations[i] \in Blocks /\ i \in 1 .. Len(allocations)
  BY <1>1
<1>3. BlockEnd(i) <= cursor
  BY DEF Layout, AllocationsAreDisjoint
<1> QED
  BY <1>1, <1>2, <1>3 DEF Blocks, Positive, BlockEnd

LEMMA SpentTyped ==
  ASSUME Layout, NEW point \in Points, ~Injected(point)
  PROVE  Spent(point) \in [Points -> Nat \cup {None}]
<1>1. failures \in [Points -> Nat \cup {None}]
  BY DEF Layout, ArenaTypeOK
<1>2. failures[point] # None => failures[point] - 1 \in Nat
  BY <1>1 DEF Injected
<1> QED
  BY <1>1, <1>2 DEF Spent

LEMMA LayoutAllocate ==
  ASSUME Layout, NEW request, RequestTyped(request), Allocate(request)
  PROVE  Layout'
<1>1. /\ failures' \in [Points -> Nat \cup {None}]
      /\ asked' \in [Points -> Nat]
  BY SpentTyped DEF RequestTyped, Allocate, Layout, ArenaTypeOK
<1>2. granted' \in [Points -> Nat]
  <2>1. granted \in [Points -> Nat]
    BY DEF Layout, ArenaTypeOK
  <2> QED
    BY <2>1 DEF Allocate
<1>3. memory \in [Units -> {"zero", "test", "unknown"}]
  BY DEF Layout, ArenaTypeOK
<1>4. CASE ~Fits(request)
  BY <1>1, <1>2, <1>3, <1>4, LayoutUnaffected DEF Allocate, runner
<1>5. CASE Fits(request)
  <2>1. memory' \in [Units -> {"zero", "test", "unknown"}]
    BY <1>3, <1>5, FilledTyped DEF Allocate, Fresh
  <2>2. UNCHANGED <<generation, activeScope, scope, suite>>
    BY DEF Allocate, runner
  <2>3. allocations' \in Seq(Blocks)
    BY <1>5, GrantedBlock
  <2>4. ArenaTypeOK'
    BY Zenon, <1>1, <1>2, <1>5, <2>1, <2>2, <2>3, GrantedBlock
    DEF Layout, ArenaTypeOK
  <2>a. PICK n \in Nat : n = Len(allocations)
    BY <1>5, GrantedBlock
  <2>5. /\ DOMAIN allocations' = 1 .. n + 1 /\ DOMAIN allocations = 1 .. n
        /\ \A i \in 1..n : allocations'[i] = allocations[i]
        /\ allocations'[n + 1] = Block(request)
    BY <1>5, <2>a, GrantedBlock
  <2>6. /\ \A i \in 1..n : BlockEnd(i)' = BlockEnd(i)
        /\ BlockEnd(n + 1)' = Placed(request.align) + request.bytes
    BY <2>5 DEF BlockEnd, Block
  <2>7. \A i \in 1..n : BlockEnd(i) <= cursor /\ BlockEnd(i) \in Nat
    BY <2>5, HeldBlocks
  <2>b. /\ cursor \in Nat /\ cursor' \in Nat /\ cursor <= cursor'
        /\ cursor <= Placed(request.align) /\ Placed(request.align) \in Nat
        /\ cursor' = Placed(request.align) + request.bytes
    <3>1. Block(request).offset \in Nat
      BY <1>5, GrantedBlock DEF Blocks
    <3>2. cursor \in Nat /\ cursor' \in Nat
      BY <1>5, GrantedBlock, Constants DEF Layout, ArenaTypeOK
    <3> QED
      BY <1>5, <3>1, <3>2, GrantedBlock DEF Block
  <2>8. AllocationsAreDisjoint'
    <3>1. \A i \in 1 .. n + 1 : BlockEnd(i)' <= cursor'
      BY <2>6, <2>7, <2>b
    <3>2. ASSUME NEW i \in 1 .. n + 1, NEW j \in 1 .. n + 1, i < j
          PROVE  BlockEnd(i)' <= allocations'[j].offset
      <4>1. CASE j \in 1..n
        BY <2>5, <2>6, <3>2, <4>1 DEF Layout, AllocationsAreDisjoint
      <4>2. CASE j = n + 1
        <5>1. BlockEnd(i)' <= cursor /\ BlockEnd(i)' \in Nat
          BY <2>6, <2>7, <3>2, <4>2
        <5>2. allocations'[j].offset = Placed(request.align)
          BY <2>5, <4>2 DEF Block
        <5> QED
          BY <2>b, <5>1, <5>2
      <4> QED
        BY <4>1, <4>2
    <3> QED
      BY <2>5, <3>1, <3>2 DEF AllocationsAreDisjoint
  <2>9. AllocationsAreAligned'
    <3>1. (Base + Placed(request.align)) % request.align = 0
      BY AdjustmentAligns DEF RequestTyped, Layout, ArenaTypeOK
    <3> QED
      BY <2>5, <3>1 DEF Layout, AllocationsAreAligned, Block
  <2>10. ScopeIsOurs'
    BY <2>2 DEF Layout, ScopeIsOurs, Allocate
  <2> QED
    BY <2>4, <2>8, <2>9, <2>10 DEF Layout
<1> QED
  BY <1>4, <1>5

\* A reclaim that is accepted removes the last block and nothing else.
LEMMA ReclaimRemovesLast ==
  ASSUME Layout, NEW claim \in Held, Reclaim(claim), Reclaimable(claim)
  PROVE  \E n \in Nat \ {0} :
            /\ n = Len(allocations) /\ DOMAIN allocations = 1..n
            /\ Last = allocations[n] /\ Last \in Blocks /\ Last.table
            /\ allocations' \in Seq(Blocks) /\ Len(allocations') = n - 1
            /\ DOMAIN allocations' = 1 .. n - 1
            /\ \A i \in 1 .. n - 1 : allocations'[i] = allocations[i]
            /\ cursor' = Last.offset
            /\ memory' = Filled(Last.offset, Last.offset + Last.bytes, "zero")
<1>1. allocations \in Seq(Blocks)
  BY DEF Layout, ArenaTypeOK
<1>2. PICK n \in Nat : n = Len(allocations)
  BY <1>1
<1>3. DOMAIN allocations = 1..n /\ n # 0
  BY <1>1, <1>2 DEF Held
<1>4. Last = allocations[n] /\ Last \in Blocks
  BY <1>1, <1>2, <1>3 DEF Last
<1>5. allocations' = SubSeq(allocations, 1, n - 1) /\ cursor' = Last.offset
      /\ memory' = Filled(Last.offset, Last.offset + Last.bytes, "zero")
  BY <1>2 DEF Reclaim
<1>6. /\ allocations' \in Seq(Blocks) /\ Len(allocations') = n - 1
      /\ DOMAIN allocations' = 1 .. n - 1
      /\ \A i \in 1 .. n - 1 : allocations'[i] = allocations[i]
  BY <1>1, <1>2, <1>3, <1>5
<1> QED
  BY <1>2, <1>3, <1>4, <1>5, <1>6 DEF Reclaimable

LEMMA LayoutReclaim ==
  ASSUME Layout, NEW claim \in Held, Reclaim(claim)
  PROVE  Layout'
<1>1. /\ UNCHANGED <<generation, activeScope, failures, scope, suite, asked, granted>>
      /\ suite = "test"
  BY DEF Reclaim, runner, history
<1>2. /\ memory \in [Units -> {"zero", "test", "unknown"}]
      /\ failures \in [Points -> Nat \cup {None}]
      /\ asked \in [Points -> Nat] /\ granted \in [Points -> Nat]
  BY DEF Layout, ArenaTypeOK
<1>3. CASE ~Reclaimable(claim)
  <2>1. UNCHANGED <<memory, cursor, allocations>>
    BY <1>3 DEF Reclaim
  <2> QED
    BY <1>1, <1>2, <2>1, LayoutUnaffected
<1>4. CASE Reclaimable(claim)
  <2>1. PICK n \in Nat \ {0} :
            /\ n = Len(allocations) /\ DOMAIN allocations = 1..n
            /\ Last = allocations[n] /\ Last \in Blocks /\ Last.table
            /\ allocations' \in Seq(Blocks) /\ Len(allocations') = n - 1
            /\ DOMAIN allocations' = 1 .. n - 1
            /\ \A i \in 1 .. n - 1 : allocations'[i] = allocations[i]
            /\ cursor' = Last.offset
            /\ memory' = Filled(Last.offset, Last.offset + Last.bytes, "zero")
    BY <1>4, ReclaimRemovesLast
  <2>2. cursor' \in 0..Size
    BY <2>1, HeldBlocks, Constants DEF Blocks
  <2>3. Len(allocations') <= MaxAllocations
    BY <2>1, Constants DEF Layout, ArenaTypeOK
  <2>4. memory' \in [Units -> {"zero", "test", "unknown"}]
    BY <1>2, <2>1, FilledTyped
  <2>5. ArenaTypeOK'
    BY Zenon, <1>1, <2>1, <2>2, <2>3, <2>4 DEF Layout, ArenaTypeOK
  <2>6. \A i \in 1 .. n - 1 : BlockEnd(i)' = BlockEnd(i)
    BY <2>1 DEF BlockEnd
  <2>7. \A i \in 1 .. n - 1 : BlockEnd(i)' <= cursor'
    BY <2>1, <2>6 DEF Layout, AllocationsAreDisjoint
  <2>8. AllocationsAreDisjoint'
    <3>1. ASSUME NEW i \in 1 .. n - 1, NEW j \in 1 .. n - 1, i < j
          PROVE  BlockEnd(i)' <= allocations'[j].offset
      <4>1. i \in DOMAIN allocations /\ j \in DOMAIN allocations
        BY <2>1
      <4>2. BlockEnd(i) <= allocations[j].offset
        BY <3>1, <4>1 DEF Layout, AllocationsAreDisjoint
      <4> QED
        BY <2>1, <2>6, <4>2
    <3> QED
      BY <2>1, <2>7, <3>1 DEF AllocationsAreDisjoint
  <2>9. AllocationsAreAligned'
    BY <2>1 DEF Layout, AllocationsAreAligned
  <2>10. ScopeIsOurs'
    BY <1>1 DEF Layout, ScopeIsOurs
  <2> QED
    BY <2>5, <2>8, <2>9, <2>10 DEF Layout
<1> QED
  BY <1>3, <1>4

\* The arena's blocks and scope are the same after an operation of the test
\* that neither allocates nor reclaims.
LEMMA LayoutOther ==
  ASSUME Layout,
         \/ \E block \in Held : WriteBlock(block)
         \/ \E point \in InjectedPoints :
               \/ \E successes \in 0..MaxInjected : Inject(point, successes)
               \/ ClearFailure(point)
         \/ UNCHANGED vars
  PROVE  Layout'
<1>a. /\ memory \in [Units -> {"zero", "test", "unknown"}]
      /\ failures \in [Points -> Nat \cup {None}]
      /\ asked \in [Points -> Nat] /\ granted \in [Points -> Nat]
  BY DEF Layout, ArenaTypeOK
<1>1. ASSUME NEW block \in Held, WriteBlock(block) PROVE Layout'
  <2>1. /\ UNCHANGED <<cursor, generation, activeScope, allocations, failures,
                       scope, suite, asked, granted>>
        /\ memory' = Filled(block.offset, block.offset + block.bytes, "test")
    BY <1>1 DEF WriteBlock, runner, history
  <2>2. memory' \in [Units -> {"zero", "test", "unknown"}]
    BY <1>a, <2>1, FilledTyped
  <2> QED
    BY <1>a, <2>1, <2>2, LayoutUnaffected
<1>2. ASSUME NEW point \in InjectedPoints, NEW successes \in 0..MaxInjected,
             Inject(point, successes)
      PROVE  Layout'
  <2>1. /\ UNCHANGED <<cursor, generation, activeScope, allocations, memory,
                       scope, suite>>
        /\ failures' = [failures EXCEPT ![point] = successes]
        /\ asked' = [asked EXCEPT ![point] = successes]
        /\ granted' = [granted EXCEPT ![point] = 0]
    BY <1>2 DEF Inject, arena, runner
  <2>2. successes \in Nat
    BY ArenaAssumption DEF ArenaAssumption
  <2> QED
    BY <1>a, <2>1, <2>2, LayoutUnaffected
<1>3. ASSUME NEW point \in InjectedPoints, ClearFailure(point) PROVE Layout'
  <2>1. /\ UNCHANGED <<cursor, generation, activeScope, allocations, memory,
                       scope, suite>>
        /\ failures' = [failures EXCEPT ![point] = None]
        /\ asked' = [asked EXCEPT ![point] = 0]
        /\ granted' = [granted EXCEPT ![point] = 0]
    BY <1>3 DEF ClearFailure, arena, runner
  <2> QED
    BY <1>a, <2>1, LayoutUnaffected
<1>4. CASE UNCHANGED vars
  BY <1>a, <1>4, LayoutUnaffected DEF vars, arena, runner, history
<1> QED
  BY <1>1, <1>2, <1>3, <1>4

\* The steps of the arena, the requests of a test among them.
LEMMA Steps ==
  ASSUME [Next]_vars
  PROVE  \/ BeginScope
         \/ Reset
         \/ \E request : RequestTyped(request) /\ Allocate(request)
         \/ \E claim \in Held : Reclaim(claim)
         \/ \E block \in Held : WriteBlock(block)
         \/ \E point \in InjectedPoints :
               \/ \E successes \in 0..MaxInjected : Inject(point, successes)
               \/ ClearFailure(point)
         \/ UNCHANGED vars
<1>1. ASSUME NEW request, RequestTyped(request), Ask(request)
      PROVE  Allocate(request) \/ UNCHANGED vars
  BY <1>1 DEF Ask, Refuse
<1>2. ASSUME NEW pages \in 0..MaxPages, NEW align \in {PageSize} \cup Granules,
             Ask(PagesRequest(pages, align))
      PROVE  \/ \E request : RequestTyped(request) /\ Allocate(request)
             \/ UNCHANGED vars
  BY <1>1, <1>2, RequestsTyped
<1>3. ASSUME NEW granule \in Granules, Ask(RootRequest(granule))
      PROVE  \/ \E request : RequestTyped(request) /\ Allocate(request)
             \/ UNCHANGED vars
  BY <1>1, <1>3, RequestsTyped
<1>4. ASSUME NEW layout \in TableLayouts, Ask(TableRequest(layout))
      PROVE  \/ \E request : RequestTyped(request) /\ Allocate(request)
             \/ UNCHANGED vars
  BY <1>1, <1>4, RequestsTyped
<1>5. CASE Ask(PageRequest)
  BY <1>1, <1>5, RequestsTyped
<1> QED
  BY <1>2, <1>3, <1>4, <1>5 DEF Next

LEMMA LayoutStep == Layout /\ [Next]_vars => Layout'
<1> SUFFICES ASSUME Layout, [Next]_vars PROVE Layout'
  OBVIOUS
<1>1. CASE BeginScope
  BY <1>1, LayoutBeginScope
<1>2. CASE Reset
  BY <1>2, LayoutReset
<1>3. ASSUME NEW request, RequestTyped(request), Allocate(request) PROVE Layout'
  BY <1>3, LayoutAllocate
<1>4. ASSUME NEW claim \in Held, Reclaim(claim) PROVE Layout'
  BY <1>4, LayoutReclaim
<1> QED
  BY <1>1, <1>2, <1>3, <1>4, Steps, LayoutOther

LEMMA LayoutCorrect == Spec => []Layout
  BY LayoutInit, LayoutStep, PTL DEF Spec

\* The state keeps to its types, and the cursor never leaves the arena.
THEOREM ArenaTypeCorrect == Spec => []ArenaTypeOK
  BY LayoutCorrect, PTL DEF Layout

\* Blocks in use never overlap, for an arena of any size and any mix of
\* allocations and reclaims (memory.rs:300-408).
THEOREM AllocationsAreDisjointCorrect == Spec => []AllocationsAreDisjoint
  BY LayoutCorrect, PTL DEF Layout

\* Every block has the physical alignment that was asked for, for any base
\* and any alignment (memory.rs:322-330).
THEOREM AllocationsAreAlignedCorrect == Spec => []AllocationsAreAligned
  BY LayoutCorrect, PTL DEF Layout

\* run_suite's reset never fails, and every test starts with an empty arena.
THEOREM ResetAlwaysWorksCorrect == Spec => []ResetAlwaysWorks
<1>1. Layout => ResetAlwaysWorks
  BY DEF Layout, ScopeIsOurs, ResetAlwaysWorks
<1> QED
  BY <1>1, LayoutCorrect, PTL

-----------------------------------------------------------------------------
(* The contents of the arena.                                              *)

LEMMA NothingLeftInit == Init => NothingIsLeftBehind
  BY DEF Init, NothingIsLeftBehind

LEMMA NothingLeftAllocate ==
  ASSUME Layout, NothingIsLeftBehind, NEW request, RequestTyped(request),
         Allocate(request)
  PROVE  NothingIsLeftBehind'
<1>1. CASE ~Fits(request)
  BY <1>1 DEF Allocate, NothingIsLeftBehind, BlockEnd
<1>2. CASE Fits(request)
  <2> SUFFICES ASSUME NEW unit \in Units, memory'[unit] = "test"
               PROVE  \E i \in DOMAIN allocations' :
                         /\ allocations'[i].offset <= unit
                         /\ unit < allocations'[i].offset + allocations'[i].bytes
    BY DEF NothingIsLeftBehind, BlockEnd
  <2>1. memory[unit] = "test"
    BY <1>2 DEF Allocate, Fresh, Filled
  <2>2. PICK i \in DOMAIN allocations :
           allocations[i].offset <= unit /\ unit < allocations[i].offset + allocations[i].bytes
    BY <2>1 DEF NothingIsLeftBehind, BlockEnd
  <2>3. i \in DOMAIN allocations' /\ allocations'[i] = allocations[i]
    BY <1>2, GrantedBlock
  <2> QED
    BY <2>2, <2>3
<1> QED
  BY <1>1, <1>2

LEMMA NothingLeftReclaim ==
  ASSUME Layout, NothingIsLeftBehind, NEW claim \in Held, Reclaim(claim)
  PROVE  NothingIsLeftBehind'
<1>1. CASE ~Reclaimable(claim)
  BY <1>1 DEF Reclaim, NothingIsLeftBehind, BlockEnd
<1>2. CASE Reclaimable(claim)
  <2> SUFFICES ASSUME NEW unit \in Units, memory'[unit] = "test"
               PROVE  \E i \in DOMAIN allocations' :
                         /\ allocations'[i].offset <= unit
                         /\ unit < allocations'[i].offset + allocations'[i].bytes
    BY DEF NothingIsLeftBehind, BlockEnd
  <2>1. PICK n \in Nat \ {0} :
            /\ DOMAIN allocations = 1..n /\ Last = allocations[n]
            /\ DOMAIN allocations' = 1 .. n - 1
            /\ \A i \in 1 .. n - 1 : allocations'[i] = allocations[i]
            /\ memory' = Filled(Last.offset, Last.offset + Last.bytes, "zero")
    BY <1>2, ReclaimRemovesLast
  <2>2. memory[unit] = "test" /\ ~ (Last.offset <= unit /\ unit < Last.offset + Last.bytes)
    BY <2>1 DEF Filled
  <2>3. PICK i \in DOMAIN allocations :
           allocations[i].offset <= unit /\ unit < allocations[i].offset + allocations[i].bytes
    BY <2>2 DEF NothingIsLeftBehind, BlockEnd
  <2>4. i # n
    BY <2>1, <2>2, <2>3
  <2> QED
    BY <2>1, <2>3, <2>4
<1> QED
  BY <1>1, <1>2

LEMMA NothingLeftReset ==
  ASSUME Layout, NothingIsLeftBehind, Reset
  PROVE  NothingIsLeftBehind'
<1> SUFFICES ASSUME NEW unit \in Units, memory'[unit] = "test" PROVE FALSE
  BY DEF NothingIsLeftBehind
<1>1. memory[unit] = "test" /\ ~ (0 <= unit /\ unit < cursor)
  BY ResetEmpties DEF Filled
<1>2. PICK i \in DOMAIN allocations : unit < BlockEnd(i)
  BY <1>1 DEF NothingIsLeftBehind
<1>3. BlockEnd(i) <= cursor /\ BlockEnd(i) \in Nat /\ cursor \in 0..Size
  BY HeldBlocks
<1> QED
  BY <1>1, <1>2, <1>3, Constants DEF Units

LEMMA NothingLeftWrite ==
  ASSUME Layout, NothingIsLeftBehind, NEW block \in Held, WriteBlock(block)
  PROVE  NothingIsLeftBehind'
<1> SUFFICES ASSUME NEW unit \in Units, memory'[unit] = "test"
             PROVE  \E i \in DOMAIN allocations :
                       /\ allocations[i].offset <= unit
                       /\ unit < allocations[i].offset + allocations[i].bytes
  BY DEF NothingIsLeftBehind, BlockEnd, WriteBlock
<1>1. PICK i \in DOMAIN allocations : block = allocations[i]
  BY DEF Held
<1>2. CASE block.offset <= unit /\ unit < block.offset + block.bytes
  BY <1>1, <1>2
<1>3. CASE ~ (block.offset <= unit /\ unit < block.offset + block.bytes)
  BY <1>3 DEF WriteBlock, Filled, NothingIsLeftBehind, BlockEnd
<1> QED
  BY <1>2, <1>3

LEMMA NothingLeftStep ==
  Layout /\ NothingIsLeftBehind /\ [Next]_vars => NothingIsLeftBehind'
<1> SUFFICES ASSUME Layout, NothingIsLeftBehind, [Next]_vars
             PROVE  NothingIsLeftBehind'
  OBVIOUS
<1>1. CASE UNCHANGED <<memory, allocations>>
  BY <1>1 DEF NothingIsLeftBehind, BlockEnd
<1>2. CASE BeginScope
  BY <1>1, <1>2 DEF BeginScope
<1>3. ASSUME NEW point \in InjectedPoints,
             ClearFailure(point) \/ \E successes \in 0..MaxInjected :
                                       Inject(point, successes)
      PROVE  NothingIsLeftBehind'
  BY <1>1, <1>3 DEF ClearFailure, Inject, arena
<1>4. CASE UNCHANGED vars
  BY <1>1, <1>4 DEF vars, arena
<1> QED
  BY <1>2, <1>3, <1>4, Steps, NothingLeftAllocate, NothingLeftReclaim,
     NothingLeftReset, NothingLeftWrite

\* Whatever a test wrote is found in blocks in use only: a scope's reset and a
\* reclaim erase it, the gaps between blocks never hold any of it.
THEOREM NothingIsLeftBehindCorrect == Spec => []NothingIsLeftBehind
  BY LayoutCorrect, NothingLeftInit, NothingLeftStep, PTL DEF Spec

\* While a test runs, the pages it was given are never taken from it.
THEOREM PagesAreKeptCorrect == Spec => PagesAreKept
<1> DEFINE PageKept(i) ==
             suite = "test" /\ suite' = "test" /\ ~allocations[i].table
                 => i \in DOMAIN allocations' /\ allocations'[i] = allocations[i]
           AllKept ==
             \A i \in DOMAIN allocations :
                 suite = "test" /\ suite' = "test" /\ ~allocations[i].table
                     => /\ i \in DOMAIN allocations'
                        /\ allocations'[i] = allocations[i]
<1>1. Layout /\ [Next]_vars => [AllKept]_vars
  <2> SUFFICES ASSUME Layout, [Next]_vars, NEW i \in DOMAIN allocations PROVE PageKept(i)
    OBVIOUS
  <2>1. CASE UNCHANGED allocations
    BY <2>1
  <2>2. CASE Reset
    BY <2>2, ResetEmpties
  <2>3. ASSUME NEW request, RequestTyped(request), Allocate(request) PROVE PageKept(i)
    <3>1. CASE Fits(request)
      BY <2>3, <3>1, GrantedBlock
    <3>2. CASE ~Fits(request)
      BY <2>1, <2>3, <3>2 DEF Allocate
    <3> QED BY <3>1, <3>2
  <2>4. ASSUME NEW claim \in Held, Reclaim(claim) PROVE PageKept(i)
    <3>1. CASE Reclaimable(claim)
      <4>1. PICK n \in Nat \ {0} :
               /\ DOMAIN allocations = 1..n
               /\ Last = allocations[n] /\ Last.table
               /\ DOMAIN allocations' = 1 .. n - 1
               /\ \A k \in 1 .. n - 1 : allocations'[k] = allocations[k]
        BY <2>4, <3>1, ReclaimRemovesLast
      <4> QED
        BY <4>1
    <3>2. CASE ~Reclaimable(claim)
      BY <2>1, <2>4, <3>2 DEF Reclaim
    <3> QED BY <3>1, <3>2
  <2>5. CASE BeginScope
    BY <2>1, <2>5 DEF BeginScope
  <2>6. ASSUME NEW block \in Held, WriteBlock(block) PROVE PageKept(i)
    BY <2>1, <2>6 DEF WriteBlock
  <2>7. ASSUME NEW point \in InjectedPoints,
               ClearFailure(point) \/ \E successes \in 0..MaxInjected :
                                         Inject(point, successes)
        PROVE  PageKept(i)
    BY <2>1, <2>7 DEF ClearFailure, Inject, arena
  <2>8. CASE UNCHANGED vars
    BY <2>1, <2>8 DEF vars, arena
  <2> QED
    BY <2>2, <2>3, <2>4, <2>5, <2>6, <2>7, <2>8, Steps
<1> QED
  BY <1>1, LayoutCorrect, PTL DEF PagesAreKept, Spec
\* A block is zero when it is handed out, whatever was in the arena before.
THEOREM NewBlocksAreZeroCorrect == Spec => NewBlocksAreZero
<1> DEFINE NewAreZero ==
             \A i \in DOMAIN allocations' \ DOMAIN allocations :
                 \A unit \in Units :
                     allocations'[i].offset <= unit
                         /\ unit < allocations'[i].offset + allocations'[i].bytes
                     => memory'[unit] = "zero"
<1>1. Layout /\ [Next]_vars => [NewAreZero]_vars
  <2> SUFFICES ASSUME Layout, [Next]_vars PROVE NewAreZero
    OBVIOUS
  <2>1. CASE DOMAIN allocations' \subseteq DOMAIN allocations
    BY <2>1
  <2>2. CASE UNCHANGED allocations
    BY <2>1, <2>2
  <2>3. CASE Reset
    BY <2>1, <2>3, ResetEmpties
  <2>4. ASSUME NEW request, RequestTyped(request), Allocate(request)
        PROVE  NewAreZero
    <3>1. CASE Fits(request)
      <4>1. PICK n \in Nat : n = Len(allocations) /\ DOMAIN allocations = 1..n
        BY <2>4, <3>1, GrantedBlock
      <4>2. DOMAIN allocations' = 1 .. n + 1 /\ allocations'[n + 1] = Block(request)
        BY <2>4, <3>1, <4>1, GrantedBlock
      <4>3. memory' = Filled(Placed(request.align), After(request), "zero")
        BY <2>4, <3>1 DEF Allocate, Fresh
      <4>4. \A unit \in Units :
               Placed(request.align) <= unit
                   /\ unit < Placed(request.align) + request.bytes
               => memory'[unit] = "zero"
        BY <4>3 DEF Filled, After
      <4>5. DOMAIN allocations' \ DOMAIN allocations = {n + 1}
        BY <4>1, <4>2
      <4> QED
        BY <4>2, <4>4, <4>5 DEF Block
    <3>2. CASE ~Fits(request)
      BY <2>2, <2>4, <3>2 DEF Allocate
    <3> QED
      BY <3>1, <3>2
  <2>5. ASSUME NEW claim \in Held, Reclaim(claim) PROVE NewAreZero
    <3>1. CASE Reclaimable(claim)
      <4>1. PICK n \in Nat \ {0} :
               DOMAIN allocations = 1..n /\ DOMAIN allocations' = 1 .. n - 1
        BY <2>5, <3>1, ReclaimRemovesLast
      <4> QED
        BY <2>1, <4>1
    <3>2. CASE ~Reclaimable(claim)
      BY <2>2, <2>5, <3>2 DEF Reclaim
    <3> QED
      BY <3>1, <3>2
  <2>6. CASE BeginScope
    BY <2>2, <2>6 DEF BeginScope
  <2>7. ASSUME NEW block \in Held, WriteBlock(block) PROVE NewAreZero
    BY <2>2, <2>7 DEF WriteBlock
  <2>8. ASSUME NEW point \in InjectedPoints,
               ClearFailure(point) \/ \E successes \in 0..MaxInjected :
                                         Inject(point, successes)
        PROVE  NewAreZero
    BY <2>2, <2>8 DEF ClearFailure, Inject, arena
  <2>9. CASE UNCHANGED vars
    BY <2>2, <2>9 DEF vars, arena
  <2> QED
    BY <2>3, <2>4, <2>5, <2>6, <2>7, <2>8, <2>9, Steps
<1> QED
  BY <1>1, LayoutCorrect, PTL DEF NewBlocksAreZero, Spec

-----------------------------------------------------------------------------
(* Injected failures.                                                      *)

\* A step that keeps an injection, or spends one success of it.
LEMMA InjectionStep ==
  Layout /\ InjectionIsKept /\ [Next]_vars => InjectionIsKept'
<1> SUFFICES ASSUME Layout, InjectionIsKept, [Next]_vars PROVE InjectionIsKept'
  OBVIOUS
<1> USE DEF InjectionIsKept
<1>1. /\ failures \in [Points -> Nat \cup {None}]
      /\ asked \in [Points -> Nat] /\ granted \in [Points -> Nat]
  BY DEF Layout, ArenaTypeOK
<1>2. CASE UNCHANGED <<failures, history>>
  BY <1>2 DEF history
<1>3. CASE Reset
  BY <1>3, ResetEmpties
<1>4. ASSUME NEW request, RequestTyped(request), Allocate(request)
      PROVE  InjectionIsKept'
  <2> DEFINE p == request.point
  <2>1. p \in Points /\ ~Injected(p) /\ failures' = Spent(p) /\ asked' = asked
    BY <1>4 DEF Allocate, RequestTyped
  <2>2. granted' = granted
        \/ granted' = [granted EXCEPT ![p] = IF failures[p] = None THEN 0 ELSE @ + 1]
    BY <1>4 DEF Allocate
  <2>3. CASE failures[p] = None
    BY <1>1, <2>1, <2>2, <2>3 DEF Spent
  <2>4. CASE failures[p] # None
    <3>1. failures[p] \in Nat \ {0} /\ failures' = [failures EXCEPT ![p] = @ - 1]
      BY <1>1, <2>1, <2>4 DEF Spent, Injected
    <3>2. granted'[p] \in {granted[p], granted[p] + 1}
          /\ \A q \in Points \ {p} : granted'[q] = granted[q]
      BY <1>1, <2>1, <2>2, <2>4
    <3>3. failures'[p] = failures[p] - 1
          /\ \A q \in Points \ {p} : failures'[q] = failures[q]
      BY <1>1, <2>1, <3>1
    <3> QED
      BY <1>1, <2>1, <3>1, <3>2, <3>3, Constants
  <2> QED
    BY <2>3, <2>4
<1>5. ASSUME NEW point \in InjectedPoints, NEW successes \in 0..MaxInjected,
             Inject(point, successes)
      PROVE  InjectionIsKept'
  BY <1>1, <1>5, Constants DEF Inject
<1>6. ASSUME NEW point \in InjectedPoints, ClearFailure(point)
      PROVE  InjectionIsKept'
  BY <1>1, <1>6, Constants DEF ClearFailure
<1>7. ASSUME NEW claim \in Held, Reclaim(claim) PROVE InjectionIsKept'
  BY <1>2, <1>7 DEF Reclaim
<1>8. CASE BeginScope
  BY <1>2, <1>8 DEF BeginScope
<1>9. ASSUME NEW block \in Held, WriteBlock(block) PROVE InjectionIsKept'
  BY <1>2, <1>9 DEF WriteBlock
<1>10. CASE UNCHANGED vars
  BY <1>2, <1>10 DEF vars
<1> QED
  BY <1>3, <1>4, <1>5, <1>6, <1>7, <1>8, <1>9, <1>10, Steps

\* An operation under with_memory_failure(point, n) never sees more than n
\* allocations succeed at that point, whether or not they fitted.
THEOREM InjectionIsKeptCorrect == Spec => []InjectionIsKept
<1>1. Init => InjectionIsKept
  BY Constants DEF Init, InjectionIsKept
<1> QED
  BY <1>1, InjectionStep, LayoutCorrect, PTL DEF Spec
-----------------------------------------------------------------------------
(* The end of the arena.                                                   *)

LEMMA LargestRequest ==
  ASSUME cursor \in 0..Size
  PROVE  ExhaustionBoundary
<1> DEFINE q == MaximumContiguousPages
           left == Size - cursor - Adjustment(PageSize)
<1>1. /\ Size \in Nat /\ cursor \in Nat /\ PageSize \in Nat \ {0}
      /\ Adjustment(PageSize) \in Nat
      /\ Placed(PageSize) = cursor + Adjustment(PageSize)
  BY Constants, AdjustmentIsNat DEF Placed, Positive
<1>2. CASE Adjustment(PageSize) > Size - cursor
  <2>1. q = 0
    BY <1>2 DEF MaximumContiguousPages
  <2>2. q * PageSize = 0
    BY <1>1, <2>1
  <2> QED
    BY <2>2 DEF ExhaustionBoundary, PagesRequest, Request
<1>3. CASE ~(Adjustment(PageSize) > Size - cursor)
  <2>1. left \in Nat /\ q = left \div PageSize
    BY <1>1, <1>3 DEF MaximumContiguousPages
  <2>2. left = (PageSize * q) + (left % PageSize) /\ q \in Nat
    BY <1>1, <2>1, DivisionIdentity DEF Positive
  <2>3. left % PageSize \in 0 .. PageSize - 1
    BY <1>1, <2>1, Remainder DEF Positive
  <2>4. PICK bytes \in Nat : bytes = q * PageSize /\ bytes = PageSize * q
    BY <1>1, <2>2
  <2>5. PICK rest \in 0 .. PageSize - 1 : left = bytes + rest
    BY <2>2, <2>3, <2>4
  <2>6. /\ Placed(PageSize) + bytes <= Size
        /\ Placed(PageSize) + bytes + PageSize > Size
    <3> HIDE DEF q
    <3> QED
      BY <1>1, <2>5
  <2>7. PagesRequest(q, PageSize).bytes = bytes
        /\ PagesRequest(q, PageSize).align = PageSize
    BY <2>4 DEF PagesRequest, Request
  <2>8. /\ Fits(PagesRequest(q, PageSize))
        /\ After(PagesRequest(q, PageSize)) = Placed(PageSize) + bytes
    BY <2>6, <2>7 DEF Fits, After
  <2> QED
    BY <2>6, <2>8
    DEF ExhaustionBoundary
<1> QED
  BY <1>2, <1>3

\* What maximum_contiguous_pages reports is exactly what fits, for any size,
\* base and cursor (memory.rs:258-267).
THEOREM ExhaustionBoundaryCorrect == Spec => []ExhaustionBoundary
<1>1. ArenaTypeOK => ExhaustionBoundary
  BY LargestRequest DEF ArenaTypeOK
<1> QED
  BY <1>1, ArenaTypeCorrect, PTL
=============================================================================
