------------------------------ MODULE TestArena ------------------------------
(***************************************************************************)
(* The memory a test works in (target/harness/src/memory.rs): a bump       *)
(* allocator over an arena the firmware reserved, whose contents, cursor   *)
(* and injected failures are reset after every test by run_suite.          *)
(*                                                                         *)
(* Addresses are counted in units of memory; an offset is an address       *)
(* relative to the arena's base.  The contents of a unit are "zero",       *)
(* "test" when a test wrote it, or "unknown" when firmware left it there.  *)
(* usize is wide enough here that the checked additions of the code, which *)
(* give Exhausted, do not overflow.                                        *)
(***************************************************************************)
EXTENDS Naturals, Sequences

CONSTANTS
    Base,           \* physical_base
    Size,           \* bytes
    PageSize,       \* 4096
    Granules,       \* the translation granules a test allocates for
    TableLayouts,   \* the layouts of the tables a mapper allocates
    MaxPages,       \* bound: the pages a test asks for at once
    MaxAllocations, \* MAX_ALLOCATIONS
    Generations,    \* 2^64: generation wraps around
    InjectedPoints, \* bound: the points failures are injected at
    MaxInjected,    \* bound: successful_allocations of an injected failure
    None            \* the value None of Option<usize>

Points == {"Page", "Contiguous", "Root", "TableFrame"}
Positive == Nat \ {0}
Layouts == [bytes : Positive, align : Positive]

ASSUME ArenaAssumption ==
    /\ Base \in Nat /\ Size \in Positive /\ PageSize \in Positive
    /\ PageSize <= Size /\ Base % PageSize = 0
    /\ Granules \subseteq Positive
    /\ TableLayouts \subseteq Layouts
    /\ MaxPages \in Nat /\ MaxAllocations \in Nat /\ MaxInjected \in Nat
    /\ InjectedPoints \subseteq Points
    /\ Generations \in Positive
    /\ None \notin Nat

VARIABLES
    cursor, generation, activeScope,
    allocations,  \* allocations[..allocation_count]
    failures,     \* the allocations still to succeed at each point, or None
    memory,       \* the contents of the arena
    scope,        \* the MemoryScope run_suite holds
    suite,        \* run_suite is between tests, in a test, or corrupted
    asked,        \* history: successful_allocations of the last injection
    granted       \* history: the allocations that succeeded since then

arena == <<cursor, generation, activeScope, allocations, memory>>
runner == <<scope, suite>>
history == <<asked, granted>>
vars == <<arena, failures, runner, history>>

Blocks == [offset : Nat, bytes : Positive, align : Positive, table : BOOLEAN]
Scopes == [checkpoint : Nat, generation : Nat, allocationCheckpoint : Nat]
Units == 0 .. Size - 1

NewScope == [checkpoint |-> cursor,
             generation |-> (generation + 1) % Generations,
             allocationCheckpoint |-> Len(allocations)]

\* The constructor leaves the contents of the arena alone.
Init ==
    /\ cursor = 0
    /\ generation = 0
    /\ activeScope = FALSE
    /\ allocations = <<>>
    /\ failures = [point \in Points |-> None]
    /\ memory = [unit \in Units |-> "unknown"]
    /\ scope = [checkpoint |-> 0, generation |-> 0, allocationCheckpoint |-> 0]
    /\ suite = "idle"
    /\ asked = [point \in Points |-> 0]
    /\ granted = [point \in Points |-> 0]

Filled(from, to, value) ==
    [unit \in Units |-> IF from <= unit /\ unit < to THEN value ELSE memory[unit]]

-----------------------------------------------------------------------------
(* Scopes: run_suite around a test.                                        *)

\* run_suite begins a scope before a test; it gives up if one is active.
BeginScope ==
    /\ suite = "idle"
    /\ IF activeScope
       THEN suite' = "corrupted"
            /\ UNCHANGED <<generation, activeScope, scope>>
       ELSE /\ activeScope' = TRUE
            /\ generation' = NewScope.generation
            /\ scope' = NewScope
            /\ suite' = "test"
    /\ UNCHANGED <<cursor, allocations, failures, memory, history>>

\* reset accepts the scope.
ScopeMatches ==
    /\ activeScope
    /\ scope.generation = generation
    /\ scope.checkpoint <= cursor
    /\ scope.allocationCheckpoint <= Len(allocations)

Kept_Bug == allocations

\* The allocations that survive a reset.
Kept == SubSeq(allocations, 1, scope.allocationCheckpoint)

Cleared_Bug == Filled(scope.checkpoint, scope.checkpoint, "zero")

\* Everything allocated in the scope is zeroed, the gaps left by alignment too.
Cleared == Filled(scope.checkpoint, cursor, "zero")

\* The test returned, which it does outside of with_memory_failure, and
\* run_suite resets the memory; if that fails the harness is corrupted.
Reset ==
    /\ suite = "test"
    /\ failures = [point \in Points |-> None]
    /\ IF ScopeMatches
       THEN /\ memory' = Cleared
            /\ cursor' = scope.checkpoint
            /\ allocations' = Kept
            /\ activeScope' = FALSE
            /\ failures' = [point \in Points |-> None]
            /\ suite' = "idle"
       ELSE /\ suite' = "corrupted"
            /\ UNCHANGED <<memory, cursor, allocations, activeScope, failures>>
    /\ UNCHANGED <<generation, scope, history>>

-----------------------------------------------------------------------------
(* Allocation.                                                             *)

Request(point, bytes, align, table) ==
    [point |-> point, bytes |-> bytes, align |-> align, table |-> table]

\* What allocate_page, allocate_pages and allocate_aligned_pages,
\* allocate_root and allocate_zeroed_table pass to allocate.
PageRequest == Request("Page", PageSize, PageSize, FALSE)
PagesRequest(pages, align) == Request("Contiguous", pages * PageSize, align, FALSE)
RootRequest(granule) == Request("Root", granule, granule, TRUE)
TableRequest(layout) == Request("TableFrame", layout.bytes, layout.align, TRUE)

Adjustment_Bug(align) == (align - (cursor % align)) % align

\* The distance to the next physical address with this alignment.
Adjustment(align) == (align - ((Base + cursor) % align)) % align
Placed(align) == cursor + Adjustment(align)

Fits_Bug(request) == cursor + request.bytes <= Size

Fits(request) == Placed(request.align) + request.bytes <= Size

\* The checks before the injected failure is consulted; granules and the
\* alignments of layouts are powers of two, so that check never fails.
Valid(request) ==
    /\ activeScope
    /\ request.bytes # 0
    /\ Len(allocations) < MaxAllocations

Injected(point) == failures[point] = 0

Spent_Bug(point) == failures

\* An injected failure counts the allocations it lets through.
Spent(point) ==
    IF failures[point] = None THEN failures
    ELSE [failures EXCEPT ![point] = @ - 1]

After_Bug(request) == cursor + request.bytes

\* The cursor after a block was placed.
After(request) == Placed(request.align) + request.bytes

Fresh_Bug(request) == Filled(cursor, cursor + request.bytes, "zero")

\* The contents of the arena once the new block is zeroed.
Fresh(request) == Filled(Placed(request.align), After(request), "zero")

\* A valid request uses up an injected success even when the arena is
\* exhausted; a block is zeroed before it is handed out.
Allocate(request) ==
    /\ suite = "test"
    /\ Valid(request)
    /\ ~Injected(request.point)
    /\ failures' = Spent(request.point)
    /\ IF Fits(request)
       THEN /\ memory' = Fresh(request)
            /\ allocations' = Append(allocations,
                  [offset |-> Placed(request.align), bytes |-> request.bytes,
                   align |-> request.align, table |-> request.table])
            /\ cursor' = After(request)
            /\ granted' = [granted EXCEPT ![request.point] =
                              IF failures[request.point] = None THEN 0 ELSE @ + 1]
       ELSE UNCHANGED <<memory, allocations, cursor, granted>>
    /\ UNCHANGED <<generation, activeScope, runner, asked>>

\* An invalid request, or one that an injected failure refuses.
Refuse(request) ==
    /\ suite = "test"
    /\ ~Valid(request) \/ Injected(request.point)
    /\ UNCHANGED vars

Ask(request) == Allocate(request) \/ Refuse(request)

Last == allocations[Len(allocations)]

Reclaimable_Bug(claim) == Last.bytes = claim.bytes /\ Last.align = claim.align

\* reclaim_table accepts the most recent allocation only, and only a table.
Reclaimable(claim) ==
    /\ Last.table
    /\ Last.offset = claim.offset
    /\ Last.bytes = claim.bytes
    /\ Last.align = claim.align

\* A mapper gives one of its tables back.  The cursor returns to the table,
\* not to where it was before the table was aligned.
Reclaim(claim) ==
    /\ suite = "test"
    /\ IF Reclaimable(claim)
       THEN /\ memory' = Filled(Last.offset, Last.offset + Last.bytes, "zero")
            /\ cursor' = Last.offset
            /\ allocations' = SubSeq(allocations, 1, Len(allocations) - 1)
       ELSE UNCHANGED <<memory, cursor, allocations>>
    /\ UNCHANGED <<generation, activeScope, failures, runner, history>>

-----------------------------------------------------------------------------
(* with_memory_failure: a failure is injected around an operation.         *)

Inject(point, successes) ==
    /\ suite = "test"
    /\ failures[point] = None
    /\ failures' = [failures EXCEPT ![point] = successes]
    /\ asked' = [asked EXCEPT ![point] = successes]
    /\ granted' = [granted EXCEPT ![point] = 0]
    /\ UNCHANGED <<arena, runner>>

ClearFailure(point) ==
    /\ suite = "test"
    /\ failures[point] # None
    /\ failures' = [failures EXCEPT ![point] = None]
    /\ asked' = [asked EXCEPT ![point] = 0]
    /\ granted' = [granted EXCEPT ![point] = 0]
    /\ UNCHANGED <<arena, runner>>

\* The test, or the hardware walking its tables, writes to a block.
WriteBlock(block) ==
    /\ suite = "test"
    /\ memory' = Filled(block.offset, block.offset + block.bytes, "test")
    /\ UNCHANGED <<cursor, generation, activeScope, allocations, failures,
                   runner, history>>

Held == {allocations[i] : i \in DOMAIN allocations}

Next ==
    \/ BeginScope
    \/ Reset
    \/ Ask(PageRequest)
    \/ \E pages \in 0..MaxPages, align \in {PageSize} \cup Granules :
          Ask(PagesRequest(pages, align))
    \/ \E granule \in Granules : Ask(RootRequest(granule))
    \/ \E layout \in TableLayouts : Ask(TableRequest(layout))
    \/ \E claim \in Held : claim.table /\ Reclaim(claim)
    \/ \E block \in Held : WriteBlock(block)
    \/ \E point \in InjectedPoints :
          \/ \E successes \in 0..MaxInjected : Inject(point, successes)
          \/ ClearFailure(point)

Spec == Init /\ [][Next]_vars

-----------------------------------------------------------------------------
(* Properties.                                                             *)

\* The types of the state; in particular the cursor never leaves the arena.
ArenaTypeOK ==
    /\ cursor \in 0..Size
    /\ generation \in 0 .. Generations - 1
    /\ activeScope \in BOOLEAN
    /\ allocations \in Seq(Blocks)
    /\ Len(allocations) <= MaxAllocations
    /\ failures \in [Points -> Nat \cup {None}]
    /\ memory \in [Units -> {"zero", "test", "unknown"}]
    /\ scope \in Scopes
    /\ suite \in {"idle", "test", "corrupted"}
    /\ asked \in [Points -> Nat]
    /\ granted \in [Points -> Nat]

BlockEnd(i) == allocations[i].offset + allocations[i].bytes

\* Blocks in use never overlap and lie below the cursor, whatever allocations,
\* reclaims and injected failures a test mixes (allocate, reclaim_table).
AllocationsAreDisjoint ==
    /\ \A i, j \in DOMAIN allocations :
          i < j => BlockEnd(i) <= allocations[j].offset
    /\ \A i \in DOMAIN allocations : BlockEnd(i) <= cursor

\* A block's physical address has the alignment its caller asked for, also
\* when the arena's base has less (allocate, memory.rs:326).
AllocationsAreAligned ==
    \A i \in DOMAIN allocations :
        (Base + allocations[i].offset) % allocations[i].align = 0

\* Everything a test wrote is erased when it gives the memory back or its
\* scope is reset: what it left is only ever found in a block in use.
NothingIsLeftBehind ==
    \A unit \in Units :
        memory[unit] = "test" =>
            \E i \in DOMAIN allocations :
                allocations[i].offset <= unit /\ unit < BlockEnd(i)

\* A test starts with an empty arena, and run_suite never finds the scope it
\* began unusable, which would end the suite (runner.rs:96-111).
ResetAlwaysWorks ==
    /\ suite # "corrupted"
    /\ suite = "idle" => cursor = 0 /\ allocations = <<>>

\* with_memory_failure(point, n, operation) lets at most n allocations of the
\* operation succeed at this point.
InjectionIsKept ==
    \A point \in Points :
        failures[point] # None => granted[point] + failures[point] <= asked[point]

MaximumContiguousPages_Bug == (Size - cursor) \div PageSize

MaximumContiguousPages ==
    IF Adjustment(PageSize) > Size - cursor THEN 0
    ELSE (Size - cursor - Adjustment(PageSize)) \div PageSize

\* verify_arena_exhaustion_boundary (context.rs:815-823): the largest number
\* of pages the arena reports can be allocated, and then no further page.
ExhaustionBoundary ==
    LET request == PagesRequest(MaximumContiguousPages, PageSize)
    IN  request.bytes # 0 =>
            Fits(request) /\ After(request) + PageSize > Size

\* While a test runs, a page it was given is never taken from it: only
\* tables are given back, and never a page in place of one.
PagesAreKept ==
    [][\A i \in DOMAIN allocations :
          suite = "test" /\ suite' = "test" /\ ~allocations[i].table
              => /\ i \in DOMAIN allocations'
                 /\ allocations'[i] = allocations[i]]_vars

\* A block is all zero when it is handed out, whatever firmware or an
\* earlier test left there.
NewBlocksAreZero ==
    [][\A i \in DOMAIN allocations' \ DOMAIN allocations :
          \A unit \in Units :
              allocations'[i].offset <= unit
                  /\ unit < allocations'[i].offset + allocations'[i].bytes
              => memory'[unit] = "zero"]_vars
=============================================================================
