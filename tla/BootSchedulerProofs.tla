------------------------ MODULE BootSchedulerProofs ------------------------
(***************************************************************************)
(* Proofs about BootScheduler for any number of threads, images, runs and  *)
(* platforms, any limits and any number of relaunches.  The inductive      *)
(* invariant is built in layers, each preserved given those before it:     *)
(* Basic, the types and what a working thread works on; Counters, that     *)
(* `active` and `gate` count the guards and permits in existence; Claims,  *)
(* that every image and run handed out is in the hands of exactly one      *)
(* thread until its result is stored.                                      *)
(***************************************************************************)
EXTENDS BootScheduler, Integers, FiniteSetTheorems, TLAPS

Working == {"slot", "slotWait", "decide", "gate", "gateWait", "boot", "store",
            "release"}

BasicTypes ==
    /\ phase \in {"prepare", "run", "exit"}
    /\ nextBuild \in Nat \ {0}
    /\ builder \in [Builders -> {"claim", "build", "exited"}]
    /\ image \in [Builders -> Nat]
    /\ built \in [1..Images -> Codes \cup {NoResult}]
    /\ next \in Nat \ {0}
    /\ worker \in [Workers -> WorkerSteps]
    /\ run \in [Workers -> Nat]
    /\ slot \in [Workers -> BOOLEAN]
    /\ permit \in [Workers -> BOOLEAN]
    /\ retries \in [Workers -> Nat]
    /\ code \in [Workers -> Codes]
    /\ active \in [Limited -> Int]
    /\ gate \in 0..GateLimit
    /\ completed \in [Boots -> Codes \cup {NoResult}]
    /\ cancelled \in BOOLEAN

BuildsImage == \A thread \in Builders :
    builder[thread] = "build" =>
        image[thread] \in 1..Images /\ image[thread] < nextBuild

WorksOnRun == \A w \in Workers :
    worker[w] \in Working => run[w] \in Boots /\ run[w] < next

Basic == BasicTypes /\ BuildsImage /\ WorksOnRun

LEMMA BootsAreIndices == Boots = 1..Len(Planned) /\ Len(Planned) \in Nat
  BY SchedulerAssumption DEF SchedulerAssumption, Boots

LEMMA ExitCodes == /\ Codes \subseteq Nat /\ 0 \in Codes /\ Cancelled \in Codes \ {0}
                   /\ NoResult \notin Nat /\ NoResult \notin Codes
<1>1. /\ Codes \subseteq 0..255 /\ 0 \in Codes /\ Cancelled \in Codes \ {0}
      /\ NoResult \notin Nat
  BY SchedulerAssumption DEF SchedulerAssumption
<1>2. Codes \subseteq Nat
  BY <1>1
<1> QED
  BY <1>1, <1>2

\* A worker that moves keeps to its steps.
LEMMA GotoTyped ==
  ASSUME worker \in [Workers -> WorkerSteps], NEW w \in Workers,
         NEW there \in WorkerSteps, Goto(w, there)
  PROVE  worker' \in [Workers -> WorkerSteps]
  BY DEF Goto

LEMMA Limits == GateLimit \in Nat /\ GateLimit > 0 /\ Images \in Nat
  BY SchedulerAssumption DEF SchedulerAssumption

LEMMA BasicInit == Init => Basic
<1> SUFFICES ASSUME Init PROVE Basic
  OBVIOUS
<1>1. BasicTypes
  <2>1. worker \in [Workers -> WorkerSteps] BY DEF Init, WorkerSteps
  <2>2. code \in [Workers -> Codes]
    <3>1. code = [w \in Workers |-> 0] BY DEF Init
    <3> QED BY <3>1, ExitCodes
  <2>3. gate \in 0..GateLimit BY Limits DEF Init
  <2>4. /\ built \in [1..Images -> Codes \cup {NoResult}]
        /\ completed \in [Boots -> Codes \cup {NoResult}]
    BY DEF Init
  <2>5. /\ builder \in [Builders -> {"claim", "build", "exited"}]
        /\ image \in [Builders -> Nat]
        /\ active \in [Limited -> Int]
    BY DEF Init
  <2>6. /\ run \in [Workers -> Nat] /\ retries \in [Workers -> Nat]
        /\ slot \in [Workers -> BOOLEAN] /\ permit \in [Workers -> BOOLEAN]
    BY DEF Init
  <2>7. /\ phase \in {"prepare", "run", "exit"}
        /\ nextBuild \in Nat \ {0} /\ next \in Nat \ {0}
    BY DEF Init
  <2>8. cancelled \in BOOLEAN
    BY DEF Init
  <2> QED BY Zenon, <2>8, <2>1, <2>2, <2>3, <2>4, <2>5, <2>6, <2>7 DEF BasicTypes
<1>2. BuildsImage /\ WorksOnRun
  BY DEF Init, BuildsImage, WorksOnRun, Working
<1> QED
  BY <1>1, <1>2 DEF Basic

\* A permit that is dropped leaves the types intact, wherever its holder goes.
LEMMA DropPermitBasic ==
  ASSUME Basic, NEW w \in Workers, NEW there \in WorkerSteps, At(w, "boot"),
         DropPermit(w, there), next' = next, run' = run,
         there \in Working
  PROVE  /\ worker' \in [Workers -> WorkerSteps]
         /\ permit' \in [Workers -> BOOLEAN]
         /\ gate' \in 0..GateLimit
         /\ WorksOnRun'
<1>1. gate' \in 0..GateLimit /\ permit' \in [Workers -> BOOLEAN]
  BY Limits DEF DropPermit, Basic, BasicTypes
<1>2. CASE worker' = [worker EXCEPT ![w] = there]
  BY <1>1, <1>2 DEF Basic, BasicTypes, WorksOnRun, Working, WorkerSteps, At
<1>3. ASSUME NEW v \in Workers, worker[v] = "gateWait",
             worker' = [worker EXCEPT ![w] = there, ![v] = "gate"]
      PROVE  worker' \in [Workers -> WorkerSteps] /\ WorksOnRun'
  BY <1>3 DEF Basic, BasicTypes, WorksOnRun, Working, WorkerSteps, At
<1> QED
  BY <1>1, <1>2, <1>3 DEF DropPermit, Goto

LEMMA BasicStep == Basic /\ [Next]_vars => Basic'
<1> SUFFICES ASSUME Basic, [Next]_vars PROVE Basic'
  OBVIOUS
<1>a. worker \in [Workers -> WorkerSteps] /\ active \in [Limited -> Int]
      /\ slot \in [Workers -> BOOLEAN] /\ gate \in 0..GateLimit
      /\ completed \in [Boots -> Codes \cup {NoResult}]
      /\ code \in [Workers -> Codes]
  BY DEF Basic, BasicTypes
<1>1. ASSUME NEW thread \in Builders, ClaimImage(thread) PROVE Basic'
  BY <1>1 DEF ClaimImage, running, Basic, BasicTypes, BuildsImage, WorksOnRun
<1>2. ASSUME NEW thread \in Builders, ImagePrepared(thread) PROVE Basic'
  BY <1>2 DEF ImagePrepared, running, Basic, BasicTypes, BuildsImage, WorksOnRun
<1>3. CASE PreparationJoined
  BY <1>3 DEF PreparationJoined, preparation, running, Basic, BasicTypes,
      BuildsImage, WorksOnRun
<1>4. ASSUME NEW w \in Workers, ClaimRun(w) PROVE Basic'
  <2>1. BasicTypes'
    <3>1. worker' \in [Workers -> WorkerSteps]
      BY <1>4, <1>a, GotoTyped DEF ClaimRun, WorkerSteps
    <3>2. next' \in Nat \ {0} /\ run' \in [Workers -> Nat]
      BY <1>4, <1>a DEF ClaimRun, Basic, BasicTypes
    <3> QED
      BY <1>4, <3>1, <3>2 DEF ClaimRun, preparation, Basic, BasicTypes
  <2>2. BuildsImage' BY <1>4 DEF ClaimRun, preparation, Basic, BuildsImage
  <2>3. WorksOnRun'
    BY <1>4, <1>a DEF ClaimRun, At, Goto, Basic, BasicTypes,
        WorksOnRun, Working
  <2> QED BY <2>1, <2>2, <2>3 DEF Basic
<1>5. ASSUME NEW w \in Workers, AcquireSlot(w) PROVE Basic'
  <2>1. BasicTypes'
    <3>1. worker' \in [Workers -> WorkerSteps]
      BY <1>5, <1>a, GotoTyped DEF AcquireSlot, WorkerSteps
    <3>2. active' \in [Limited -> Int]
      <4>1. CASE Platform(w) \in Limited /\ ~Full(Platform(w))
        <5>1. active' = [active EXCEPT ![Platform(w)] = @ + 1]
          BY <1>5, <4>1 DEF AcquireSlot
        <5> QED BY <5>1, <1>a, <4>1
      <4>2. CASE ~(Platform(w) \in Limited /\ ~Full(Platform(w)))
        BY <1>5, <1>a, <4>2 DEF AcquireSlot
      <4> QED BY <4>1, <4>2
    <3>3. slot' \in [Workers -> BOOLEAN] BY <1>5, <1>a DEF AcquireSlot
    <3> QED
      BY <1>5, <3>1, <3>2, <3>3 DEF AcquireSlot, preparation, Basic, BasicTypes
  <2>2. BuildsImage' BY <1>5 DEF AcquireSlot, preparation, Basic, BuildsImage
  <2>3. WorksOnRun'
    BY <1>5, <1>a DEF AcquireSlot, At, Goto, Basic, BasicTypes,
        WorksOnRun, Working
  <2> QED BY <2>1, <2>2, <2>3 DEF Basic
<1>6. ASSUME NEW w \in Workers, Decide(w) PROVE Basic'
  <2>1. BasicTypes'
    <3>1. worker' \in [Workers -> WorkerSteps]
      BY <1>6, <1>a, GotoTyped DEF Decide, WorkerSteps
    <3>2. code' \in [Workers -> Codes]
      BY <1>6, <1>a, ExitCodes DEF Decide, Basic, BasicTypes
    <3> QED
      BY <1>6, <3>1, <3>2 DEF Decide, preparation, Basic, BasicTypes
  <2>2. BuildsImage' BY <1>6 DEF Decide, preparation, Basic, BuildsImage
  <2>3. WorksOnRun'
    BY <1>6, <1>a DEF Decide, At, Goto, Basic, BasicTypes,
        WorksOnRun, Working
  <2> QED BY <2>1, <2>2, <2>3 DEF Basic
<1>7. ASSUME NEW w \in Workers, AcquirePermit(w) PROVE Basic'
  <2>1. BasicTypes'
    <3>1. worker' \in [Workers -> WorkerSteps]
      BY <1>7, <1>a, GotoTyped DEF AcquirePermit, WorkerSteps
    <3>2. gate' \in 0..GateLimit BY <1>7, <1>a, Limits DEF AcquirePermit, GateFull
    <3>3. permit' \in [Workers -> BOOLEAN]
      BY <1>7, <1>a DEF AcquirePermit, Basic, BasicTypes
    <3> QED
      BY <1>7, <3>1, <3>2, <3>3 DEF AcquirePermit, preparation, Basic, BasicTypes
  <2>2. BuildsImage' BY <1>7 DEF AcquirePermit, preparation, Basic, BuildsImage
  <2>3. WorksOnRun'
    BY <1>7, <1>a DEF AcquirePermit, At, Goto, Basic, BasicTypes,
        WorksOnRun, Working
  <2> QED BY <2>1, <2>2, <2>3 DEF Basic
<1>8. ASSUME NEW w \in Workers, Registered(w) PROVE Basic'
  <2>1. /\ worker' \in [Workers -> WorkerSteps]
        /\ permit' \in [Workers -> BOOLEAN]
        /\ gate' \in 0..GateLimit
        /\ WorksOnRun'
    BY <1>8, DropPermitBasic DEF Registered, WorkerSteps, Working
  <2> QED
    BY <1>8, <2>1 DEF Registered, preparation, Basic, BasicTypes, BuildsImage
<1>9. ASSUME NEW w \in Workers, NEW there \in {"store", "gate"},
             LaunchOver(w, there), next' = next, run' = run
      PROVE  /\ worker' \in [Workers -> WorkerSteps]
             /\ permit' \in [Workers -> BOOLEAN]
             /\ gate' \in 0..GateLimit
             /\ WorksOnRun'
  <2>1. CASE permit[w]
    BY <1>9, <2>1, DropPermitBasic DEF LaunchOver, WorkerSteps, Working
  <2>2. CASE ~permit[w]
    BY <1>9, <2>2 DEF LaunchOver, Goto, At, Basic, BasicTypes, WorksOnRun,
        WorkerSteps, Working
  <2> QED BY <2>1, <2>2
<1>10. ASSUME NEW w \in Workers, BootReturns(w) PROVE Basic'
  <2>1. LaunchOver(w, "store") /\ next' = next /\ run' = run
    BY <1>10 DEF BootReturns
  <2> QED
    BY <1>10, <2>1, <1>9 DEF BootReturns, preparation, Basic, BasicTypes,
        BuildsImage
<1>11. ASSUME NEW w \in Workers, LaunchAgain(w) PROVE Basic'
  <2>1. LaunchOver(w, "gate") /\ next' = next /\ run' = run
    BY <1>11 DEF LaunchAgain
  <2> QED
    BY <1>11, <2>1, <1>9 DEF LaunchAgain, preparation, Basic, BasicTypes,
        BuildsImage
<1>12. ASSUME NEW w \in Workers, StoreResult(w) PROVE Basic'
  <2>1. BasicTypes'
    <3>1. worker' \in [Workers -> WorkerSteps]
      BY <1>12, <1>a, GotoTyped DEF StoreResult, WorkerSteps
    <3>2. code' \in [Workers -> Codes] /\ retries' \in [Workers -> Nat]
      BY <1>12, <1>a, ExitCodes DEF StoreResult, Basic, BasicTypes
    <3>3. completed' \in [Boots -> Codes \cup {NoResult}]
      BY <1>12, <1>a DEF StoreResult, Basic, BasicTypes
    <3> QED
      BY <1>12, <3>1, <3>2, <3>3 DEF StoreResult, preparation, Basic, BasicTypes
  <2>2. BuildsImage' BY <1>12 DEF StoreResult, preparation, Basic, BuildsImage
  <2>3. WorksOnRun'
    BY <1>12, <1>a DEF StoreResult, At, Goto, Basic, BasicTypes,
        WorksOnRun, Working
  <2> QED BY <2>1, <2>2, <2>3 DEF Basic
<1>13. ASSUME NEW w \in Workers, ReleaseSlot(w) PROVE Basic'
  <2>1. BasicTypes'
    <3>1. worker' \in [Workers -> WorkerSteps]
      BY <1>13, <1>a, GotoTyped DEF ReleaseSlot, WorkerSteps
    <3>2. active' \in [Limited -> Int]
      BY <1>13, <1>a DEF ReleaseSlot, Basic, BasicTypes
    <3>3. slot' \in [Workers -> BOOLEAN]
      BY <1>13, <1>a DEF ReleaseSlot, Basic, BasicTypes
    <3> QED
      BY <1>13, <3>1, <3>2, <3>3 DEF ReleaseSlot, preparation, Basic, BasicTypes
  <2>2. BuildsImage' BY <1>13 DEF ReleaseSlot, preparation, Basic, BuildsImage
  <2>3. WorksOnRun'
    BY <1>13, <1>a DEF ReleaseSlot, At, Goto, Basic, BasicTypes,
        WorksOnRun, Working
  <2> QED BY <2>1, <2>2, <2>3 DEF Basic
<1>14. CASE RunsJoined
  BY <1>14 DEF RunsJoined, preparation, running, Basic, BasicTypes, BuildsImage,
      WorksOnRun
<1>15. CASE Interrupt
  BY <1>15 DEF Interrupt, preparation, running, Basic, BasicTypes, BuildsImage,
      WorksOnRun
<1>16. CASE UNCHANGED vars
  BY <1>16 DEF vars, preparation, running, Basic, BasicTypes, BuildsImage, WorksOnRun
<1> QED
  BY <1>1, <1>2, <1>3, <1>4, <1>5, <1>6, <1>7, <1>8, <1>10, <1>11, <1>12, <1>13,
     <1>14, <1>15, <1>16 DEF Next, Build, Work, Exited

LEMMA BasicCorrect == Spec => []Basic
  BY BasicInit, BasicStep, PTL DEF Spec

-----------------------------------------------------------------------------
(* The launch gate.                                                        *)

\* The gate counts the permits in existence, and only a booting worker has one.
GateCounts ==
    /\ gate = Cardinality(Launching)
    /\ \A w \in Workers : permit[w] => worker[w] = "boot"

LEMMA GateCountsInit == Init => GateCounts
<1> SUFFICES ASSUME Init PROVE GateCounts
  OBVIOUS
<1>1. Launching = {} /\ gate = 0 /\ \A w \in Workers : ~permit[w]
  BY DEF Init, Launching
<1> QED
  BY <1>1, FS_EmptySet DEF GateCounts

LEMMA LaunchingIsFinite == IsFiniteSet(Launching)
  BY SchedulerAssumption, FS_Subset DEF SchedulerAssumption, Launching

\* A booting worker that drops its permit takes one off the gate.
LEMMA DropPermitCounts ==
  ASSUME Basic, GateCounts, NEW w \in Workers, permit[w],
         NEW there \in WorkerSteps, DropPermit(w, there)
  PROVE  GateCounts'
<1>1. permit \in [Workers -> BOOLEAN] /\ worker \in [Workers -> WorkerSteps]
  BY DEF Basic, BasicTypes
<1>2. permit' = [permit EXCEPT ![w] = FALSE]
  BY DEF DropPermit
<1>3. Launching' = Launching \ {w} /\ w \in Launching
  BY <1>1, <1>2 DEF Launching
<1>4. Cardinality(Launching \ {w}) = Cardinality(Launching) - 1
      /\ Cardinality(Launching \ {w}) \in Nat
  BY <1>3, LaunchingIsFinite, FS_RemoveElement, FS_CardinalityType
<1>5. gate' = gate - 1
  BY <1>4 DEF DropPermit, GateCounts, Basic, BasicTypes
<1>6. \A v \in Workers : permit'[v] => worker'[v] = "boot"
  BY <1>1, <1>2 DEF DropPermit, Goto, GateCounts
<1> QED
  BY <1>3, <1>4, <1>5, <1>6 DEF GateCounts

\* The other steps of the workers and the pools leave permits alone, and do
\* not move a worker that boots.
LEMMA GateUnaffected ==
  ASSUME GateCounts, UNCHANGED <<gate, permit>>,
         \A w \in Workers : worker[w] = "boot" /\ permit[w] => worker'[w] = "boot"
  PROVE  GateCounts'
<1>1. Launching' = Launching
  BY DEF Launching
<1> QED
  BY <1>1 DEF GateCounts

LEMMA GateCountsStep == Basic /\ GateCounts /\ [Next]_vars => GateCounts'
<1> SUFFICES ASSUME Basic, GateCounts, [Next]_vars PROVE GateCounts'
  OBVIOUS
<1>a. worker \in [Workers -> WorkerSteps] /\ permit \in [Workers -> BOOLEAN]
  BY DEF Basic, BasicTypes
<1>1. ASSUME NEW thread \in Builders, Build(thread) PROVE GateCounts'
  BY <1>1, GateUnaffected DEF Build, ClaimImage, ImagePrepared, running
<1>2. CASE PreparationJoined
  BY <1>2, GateUnaffected DEF PreparationJoined, running
<1>3. ASSUME NEW w \in Workers, ClaimRun(w) PROVE GateCounts'
  BY <1>3, <1>a, GateUnaffected DEF ClaimRun, At, Goto
<1>4. ASSUME NEW w \in Workers, AcquireSlot(w) PROVE GateCounts'
  BY <1>4, <1>a, GateUnaffected DEF AcquireSlot, At, Goto
<1>5. ASSUME NEW w \in Workers, Decide(w) PROVE GateCounts'
  BY <1>5, <1>a, GateUnaffected DEF Decide, At, Goto
<1>6. ASSUME NEW w \in Workers, AcquirePermit(w) PROVE GateCounts'
  <2>1. CASE GateFull
    BY <1>6, <2>1, <1>a, GateUnaffected DEF AcquirePermit, At, Goto
  <2>2. CASE ~GateFull
    <3>1. ~permit[w]
      BY <1>6 DEF AcquirePermit, At, GateCounts
    <3>2. permit' = [permit EXCEPT ![w] = TRUE] /\ gate' = gate + 1
      BY <1>6, <2>2 DEF AcquirePermit
    <3>3. Launching' = Launching \cup {w} /\ w \notin Launching
      BY <3>1, <3>2, <1>a DEF Launching
    <3>4. Cardinality(Launching \cup {w}) = Cardinality(Launching) + 1
      BY <3>3, LaunchingIsFinite, FS_AddElement
    <3>5. \A v \in Workers : permit'[v] => worker'[v] = "boot"
      BY <1>6, <2>2, <3>2, <1>a DEF AcquirePermit, Goto, GateCounts
    <3> QED
      BY <3>2, <3>3, <3>4, <3>5 DEF GateCounts
  <2> QED BY <2>1, <2>2
<1>7. ASSUME NEW w \in Workers, Registered(w) PROVE GateCounts'
  BY <1>7, DropPermitCounts DEF Registered, WorkerSteps
<1>8. ASSUME NEW w \in Workers, NEW there \in WorkerSteps, LaunchOver(w, there)
      PROVE  GateCounts'
  <2>1. CASE permit[w]
    BY <1>8, <2>1, DropPermitCounts DEF LaunchOver
  <2>2. CASE ~permit[w]
    BY <1>8, <2>2, <1>a, GateUnaffected DEF LaunchOver, Goto
  <2> QED BY <2>1, <2>2
<1>9. ASSUME NEW w \in Workers, BootReturns(w) PROVE GateCounts'
  BY <1>9, <1>8 DEF BootReturns, WorkerSteps
<1>10. ASSUME NEW w \in Workers, LaunchAgain(w) PROVE GateCounts'
  BY <1>10, <1>8 DEF LaunchAgain, WorkerSteps
<1>11. ASSUME NEW w \in Workers, StoreResult(w) PROVE GateCounts'
  BY <1>11, <1>a, GateUnaffected DEF StoreResult, At, Goto
<1>12. ASSUME NEW w \in Workers, ReleaseSlot(w) PROVE GateCounts'
  BY <1>12, <1>a, GateUnaffected DEF ReleaseSlot, At, Goto
<1>13. CASE RunsJoined \/ Interrupt
  BY <1>13, GateUnaffected DEF RunsJoined, Interrupt, running
<1>14. CASE UNCHANGED vars
  BY <1>14, GateUnaffected DEF vars, running
<1> QED
  BY <1>1, <1>2, <1>3, <1>4, <1>5, <1>6, <1>7, <1>9, <1>10, <1>11, <1>12, <1>13,
     <1>14 DEF Next, Work, Exited

LEMMA GateCountsCorrect == Spec => []GateCounts
  BY BasicCorrect, GateCountsInit, GateCountsStep, PTL DEF Spec

\* No more launches are in progress at once than the gate allows: LaunchGate
\* (process.rs) gives out at most MAX_PARALLEL_PODMAN_HANDSHAKES permits,
\* whichever way each launch ends.
THEOREM GateLimitCorrect == Spec => []GateLimitHolds
<1>1. Basic /\ GateCounts => GateLimitHolds
  BY Limits DEF Basic, BasicTypes, GateCounts, GateLimitHolds
<1> QED
  BY <1>1, BasicCorrect, GateCountsCorrect, PTL

-----------------------------------------------------------------------------
(* The platform slots.                                                     *)

Holding == {"decide", "gate", "gateWait", "boot", "store", "release"}

\* Past its acquisition, a worker has a slot just when its platform is limited.
SlotsHeld == \A w \in Workers :
    slot[w] <=> worker[w] \in Holding /\ Platform(w) \in Limited

SlotCounts ==
    /\ \A platform \in Limited :
          /\ active[platform] = Cardinality(OnPlatform(platform))
          /\ active[platform] <= SlotLimit[platform]
    /\ SlotsHeld

LEMMA SlotCountsInit == Init => SlotCounts
<1> SUFFICES ASSUME Init PROVE SlotCounts
  OBVIOUS
<1>1. \A platform \in Limited : OnPlatform(platform) = {} /\ active[platform] = 0
  BY DEF Init, OnPlatform
<1>2. \A platform \in Limited : SlotLimit[platform] >= 0
  BY SchedulerAssumption DEF SchedulerAssumption
<1>3. SlotsHeld
  BY DEF Init, SlotsHeld, Holding
<1> QED
  BY <1>1, <1>2, <1>3, FS_EmptySet DEF SlotCounts

LEMMA OnPlatformIsFinite == \A platform : IsFiniteSet(OnPlatform(platform))
  BY SchedulerAssumption, FS_Subset DEF SchedulerAssumption, OnPlatform

\* A step that changes no slot, and moves only workers that hold as before.
LEMMA SlotsUnaffected ==
  ASSUME SlotCounts, UNCHANGED <<active, slot, run>>,
         \A w \in Workers : worker'[w] \in Holding <=> worker[w] \in Holding
  PROVE  SlotCounts'
<1>1. \A w \in Workers : Platform(w)' = Platform(w)
  BY DEF Platform
<1>2. \A platform : OnPlatform(platform)' = OnPlatform(platform)
  BY <1>1 DEF OnPlatform
<1>3. SlotsHeld'
  BY <1>1 DEF SlotCounts, SlotsHeld
<1> QED
  BY <1>2, <1>3 DEF SlotCounts

LEMMA SlotCountsStep == Basic /\ SlotCounts /\ [Next]_vars => SlotCounts'
<1> SUFFICES ASSUME Basic, SlotCounts, [Next]_vars PROVE SlotCounts'
  OBVIOUS
<1>a. /\ worker \in [Workers -> WorkerSteps] /\ slot \in [Workers -> BOOLEAN]
      /\ run \in [Workers -> Nat] /\ active \in [Limited -> Int]
  BY DEF Basic, BasicTypes
<1>1. ASSUME NEW thread \in Builders, Build(thread) PROVE SlotCounts'
  BY <1>1, SlotsUnaffected DEF Build, ClaimImage, ImagePrepared, running
<1>2. CASE PreparationJoined
  BY <1>2, SlotsUnaffected DEF PreparationJoined, running
<1>3. ASSUME NEW w \in Workers, ClaimRun(w) PROVE SlotCounts'
  <2>1. ~slot[w]
    BY <1>3 DEF ClaimRun, At, SlotCounts, SlotsHeld, Holding
  <2>2. run' = [run EXCEPT ![w] = next] /\ UNCHANGED <<active, slot>>
    BY <1>3 DEF ClaimRun
  <2>3. \A v \in Workers \ {w} : Platform(v)' = Platform(v)
    BY <2>2, <1>a DEF Platform
  <2>4. \A platform : OnPlatform(platform)' = OnPlatform(platform)
    BY <2>1, <2>2, <2>3 DEF OnPlatform
  <2>5. SlotsHeld'
    BY <1>3, <1>a, <2>1, <2>2, <2>3
    DEF ClaimRun, At, Goto, SlotCounts, SlotsHeld, Holding
  <2> QED
    BY <2>2, <2>4, <2>5 DEF SlotCounts
<1>4. ASSUME NEW w \in Workers, AcquireSlot(w) PROVE SlotCounts'
  <2>a. PICK platform : platform = Platform(w)
    OBVIOUS
  <2>1. \A v \in Workers : Platform(v)' = Platform(v)
    BY <1>4 DEF AcquireSlot, Platform
  <2>2. ~slot[w]
    BY <1>4 DEF AcquireSlot, At, SlotCounts, SlotsHeld, Holding
  <2>3. CASE platform \notin Limited \/ Full(platform)
    <3>1. UNCHANGED <<active, slot>>
      BY <1>4, <2>a, <2>3 DEF AcquireSlot
    <3>2. \A p : OnPlatform(p)' = OnPlatform(p)
      BY <3>1, <2>1 DEF OnPlatform
    <3>3. SlotsHeld'
      BY <1>4, <1>a, <2>a, <2>1, <2>2, <2>3, <3>1
      DEF AcquireSlot, At, Goto, SlotCounts, SlotsHeld, Holding
    <3> QED
      BY <3>1, <3>2, <3>3 DEF SlotCounts
  <2>4. CASE platform \in Limited /\ ~Full(platform)
    <3>1. /\ active' = [active EXCEPT ![platform] = @ + 1]
          /\ slot' = [slot EXCEPT ![w] = TRUE]
          /\ worker' = [worker EXCEPT ![w] = "decide"]
      BY <1>4, <2>a, <2>4 DEF AcquireSlot, Goto
    <3>2. OnPlatform(platform)' = OnPlatform(platform) \cup {w}
          /\ w \notin OnPlatform(platform)
      BY <2>a, <2>1, <2>2, <3>1, <1>a DEF OnPlatform
    <3>3. \A p : p # platform => OnPlatform(p)' = OnPlatform(p)
      BY <2>a, <2>1, <2>2, <3>1, <1>a DEF OnPlatform
    <3>4. Cardinality(OnPlatform(platform)') = Cardinality(OnPlatform(platform)) + 1
      BY <3>2, OnPlatformIsFinite, FS_AddElement
    <3>5. active[platform] + 1 <= SlotLimit[platform]
      BY <2>4, <1>a, SchedulerAssumption DEF Full, SchedulerAssumption
    <3>6. SlotsHeld'
      BY <1>4, <1>a, <2>a, <2>1, <2>2, <2>4, <3>1
      DEF AcquireSlot, At, SlotCounts, SlotsHeld, Holding
    <3>7. active'[platform] = Cardinality(OnPlatform(platform)')
          /\ active'[platform] <= SlotLimit[platform]
      BY <1>a, <2>4, <3>1, <3>4, <3>5 DEF SlotCounts
    <3>8. \A p \in Limited \ {platform} :
             active'[p] = Cardinality(OnPlatform(p)') /\ active'[p] <= SlotLimit[p]
      BY <1>a, <3>1, <3>3 DEF SlotCounts
    <3> QED
      BY <3>6, <3>7, <3>8 DEF SlotCounts
  <2> QED BY <2>3, <2>4
<1>5. ASSUME NEW w \in Workers, Decide(w) PROVE SlotCounts'
  BY <1>5, <1>a, SlotsUnaffected DEF Decide, At, Goto, Holding
<1>6. ASSUME NEW w \in Workers, AcquirePermit(w) PROVE SlotCounts'
  BY <1>6, <1>a, SlotsUnaffected DEF AcquirePermit, At, Goto, Holding
<1>7. ASSUME NEW w \in Workers, NEW there \in Holding, worker[w] = "boot",
             DropPermit(w, there)
      PROVE  \A v \in Workers : worker'[v] \in Holding <=> worker[v] \in Holding
  BY <1>7, <1>a DEF DropPermit, Goto, Holding
<1>8. ASSUME NEW w \in Workers, Registered(w) PROVE SlotCounts'
  BY <1>8, <1>7, SlotsUnaffected DEF Registered, At, Holding
<1>9. ASSUME NEW w \in Workers, NEW there \in Holding, LaunchOver(w, there)
      PROVE  \A v \in Workers : worker'[v] \in Holding <=> worker[v] \in Holding
  <2>1. CASE permit[w]
    BY <1>9, <2>1, <1>7 DEF LaunchOver, At
  <2>2. CASE ~permit[w]
    BY <1>9, <2>2, <1>a DEF LaunchOver, At, Goto, Holding
  <2> QED BY <2>1, <2>2
<1>10. ASSUME NEW w \in Workers, BootReturns(w) PROVE SlotCounts'
  BY <1>10, <1>9, SlotsUnaffected DEF BootReturns, Holding
<1>11. ASSUME NEW w \in Workers, LaunchAgain(w) PROVE SlotCounts'
  BY <1>11, <1>9, SlotsUnaffected DEF LaunchAgain, Holding
<1>12. ASSUME NEW w \in Workers, StoreResult(w) PROVE SlotCounts'
  BY <1>12, <1>a, SlotsUnaffected DEF StoreResult, At, Goto, Holding
<1>13. ASSUME NEW w \in Workers, ReleaseSlot(w) PROVE SlotCounts'
  <2>a. PICK platform : platform = Platform(w)
    OBVIOUS
  <2>1. \A v \in Workers : Platform(v)' = Platform(v)
    BY <1>13 DEF ReleaseSlot, Platform
  <2>2. CASE slot[w]
    <3>1. /\ active' = [active EXCEPT ![platform] = @ - 1]
          /\ slot' = [slot EXCEPT ![w] = FALSE]
          /\ worker' = [v \in Workers |->
                           IF v = w THEN "claim"
                           ELSE IF worker[v] = "slotWait" THEN "slot"
                           ELSE worker[v]]
      BY <1>13, <2>a, <2>2 DEF ReleaseSlot
    <3>2. platform \in Limited
      BY <2>a, <2>2 DEF SlotCounts, SlotsHeld
    <3>3. OnPlatform(platform)' = OnPlatform(platform) \ {w}
          /\ w \in OnPlatform(platform)
      BY <2>a, <2>1, <2>2, <3>1, <1>a DEF OnPlatform
    <3>4. \A p : p # platform => OnPlatform(p)' = OnPlatform(p)
      BY <2>a, <2>1, <2>2, <3>1, <1>a DEF OnPlatform
    <3>5. Cardinality(OnPlatform(platform)') = Cardinality(OnPlatform(platform)) - 1
      BY <3>3, OnPlatformIsFinite, FS_RemoveElement
    <3>6. SlotsHeld'
      BY <1>a, <2>1, <3>1 DEF SlotCounts, SlotsHeld, Holding
    <3>7. SlotLimit[platform] \in Nat
      BY <3>2, SchedulerAssumption DEF SchedulerAssumption
    <3>8. active'[platform] = Cardinality(OnPlatform(platform)')
          /\ active'[platform] <= SlotLimit[platform]
      BY <1>a, <3>1, <3>2, <3>5, <3>7 DEF SlotCounts
    <3>9. \A p \in Limited \ {platform} :
             active'[p] = Cardinality(OnPlatform(p)') /\ active'[p] <= SlotLimit[p]
      BY <1>a, <3>1, <3>4 DEF SlotCounts
    <3> QED
      BY <3>6, <3>8, <3>9 DEF SlotCounts
  <2>3. CASE ~slot[w]
    <3>1. UNCHANGED <<active, slot>> /\ worker' = [worker EXCEPT ![w] = "claim"]
      BY <1>13, <2>3 DEF ReleaseSlot, Goto
    <3>2. \A p : OnPlatform(p)' = OnPlatform(p)
      BY <3>1, <2>1 DEF OnPlatform
    <3>3. SlotsHeld'
      BY <1>a, <2>1, <2>3, <3>1 DEF SlotCounts, SlotsHeld, Holding
    <3> QED
      BY <3>1, <3>2, <3>3 DEF SlotCounts
  <2> QED BY <2>2, <2>3
<1>14. CASE RunsJoined \/ Interrupt
  BY <1>14, SlotsUnaffected DEF RunsJoined, Interrupt, running
<1>15. CASE UNCHANGED vars
  BY <1>15, SlotsUnaffected DEF vars, running
<1> QED
  BY <1>1, <1>2, <1>3, <1>4, <1>5, <1>6, <1>8, <1>10, <1>11, <1>12, <1>13,
     <1>14, <1>15 DEF Next, Work, Exited

LEMMA SlotCountsCorrect == Spec => []SlotCounts
  BY BasicCorrect, SlotCountsInit, SlotCountsStep, PTL DEF Spec

\* No more boots of a platform run at once than its limit allows, and none of
\* them without a slot (PlatformConcurrency, run.rs), for any number of
\* workers, runs and platforms.
THEOREM PlatformLimitCorrect == Spec => []PlatformLimitHolds
<1>1. SlotCounts => PlatformLimitHolds
  BY DEF SlotCounts, SlotsHeld, Holding, PlatformLimitHolds
<1> QED
  BY <1>1, SlotCountsCorrect, PTL

-----------------------------------------------------------------------------
(* The planned runs.                                                       *)

Pending == Working \ {"release"}

\* Every run below `next` has its result or is in the hands of one worker, and
\* the others have neither.
RunClaims ==
    /\ \A v, w \in Workers :
          v # w /\ worker[v] \in Working /\ worker[w] \in Working => run[v] # run[w]
    /\ \A w \in Workers : worker[w] \in Pending => completed[run[w]] = NoResult
    /\ \A index \in Boots : index >= next => completed[index] = NoResult
    /\ \A index \in Boots :
          index < next /\ completed[index] = NoResult
              => \E w \in Workers : worker[w] \in Pending /\ run[w] = index
    /\ \A w \in Workers : worker[w] = "exited" => next \notin Boots

LEMMA RunClaimsInit == Init => RunClaims
  BY BootsAreIndices DEF Init, RunClaims, Working, Pending

\* A step that gives out no run and stores no result.
LEMMA RunsUnaffected ==
  ASSUME RunClaims, UNCHANGED <<next, run, completed>>,
         \A w \in Workers : /\ worker'[w] \in Working <=> worker[w] \in Working
                            /\ worker'[w] \in Pending <=> worker[w] \in Pending
                            /\ worker'[w] = "exited" => worker[w] = "exited"
  PROVE  RunClaims'
  BY DEF RunClaims

LEMMA RunClaimsStep == Basic /\ RunClaims /\ [Next]_vars => RunClaims'
<1> SUFFICES ASSUME Basic, RunClaims, [Next]_vars PROVE RunClaims'
  OBVIOUS
<1>a. /\ worker \in [Workers -> WorkerSteps] /\ run \in [Workers -> Nat]
      /\ completed \in [Boots -> Codes \cup {NoResult}] /\ next \in Nat \ {0}
      /\ code \in [Workers -> Codes] /\ WorksOnRun
  BY DEF Basic, BasicTypes
<1>1. ASSUME NEW thread \in Builders, Build(thread) PROVE RunClaims'
  BY <1>1, RunsUnaffected DEF Build, ClaimImage, ImagePrepared, running
<1>2. CASE PreparationJoined
  BY <1>2, RunsUnaffected DEF PreparationJoined, running
<1>3. ASSUME NEW w \in Workers, ClaimRun(w) PROVE RunClaims'
  <2>1. /\ worker[w] = "claim" /\ next' = next + 1 /\ completed' = completed
        /\ run' = [run EXCEPT ![w] = next]
        /\ worker' = [worker EXCEPT ![w] = IF next \in Boots THEN "slot" ELSE "exited"]
    BY <1>3 DEF ClaimRun, At, Goto
  <2>2. \A v, u \in Workers :
           v # u /\ worker'[v] \in Working /\ worker'[u] \in Working
               => run'[v] # run'[u]
    BY <1>a, <2>1 DEF RunClaims, WorksOnRun, Working
  <2>3. \A v \in Workers : worker'[v] \in Pending => completed'[run'[v]] = NoResult
    BY <1>a, <2>1 DEF RunClaims, Working, Pending
  <2>4. \A index \in Boots : index >= next' => completed'[index] = NoResult
    BY <1>a, <2>1, BootsAreIndices DEF RunClaims
  <2>5. \A index \in Boots :
           index < next' /\ completed'[index] = NoResult
               => \E v \in Workers : worker'[v] \in Pending /\ run'[v] = index
    <3> SUFFICES ASSUME NEW index \in Boots, index < next', completed'[index] = NoResult
                 PROVE  \E v \in Workers : worker'[v] \in Pending /\ run'[v] = index
      OBVIOUS
    <3>1. CASE index = next
      BY <1>a, <2>1, <3>1 DEF Working, Pending
    <3>2. CASE index < next
      <4>1. PICK v \in Workers : worker[v] \in Pending /\ run[v] = index
        BY <2>1, <3>2 DEF RunClaims
      <4>2. v # w
        BY <2>1, <4>1 DEF Working, Pending
      <4> QED
        BY <1>a, <2>1, <4>1, <4>2
    <3> QED
      BY <1>a, <2>1, <3>1, <3>2, BootsAreIndices
  <2>6. \A v \in Workers : worker'[v] = "exited" => next' \notin Boots
    BY <1>a, <2>1, BootsAreIndices DEF RunClaims
  <2> QED
    BY <2>2, <2>3, <2>4, <2>5, <2>6 DEF RunClaims
<1>4. ASSUME NEW w \in Workers, AcquireSlot(w) PROVE RunClaims'
  BY <1>4, <1>a, RunsUnaffected DEF AcquireSlot, At, Goto, Working, Pending
<1>5. ASSUME NEW w \in Workers, Decide(w) PROVE RunClaims'
  BY <1>5, <1>a, RunsUnaffected DEF Decide, At, Goto, Working, Pending
<1>6. ASSUME NEW w \in Workers, AcquirePermit(w) PROVE RunClaims'
  BY <1>6, <1>a, RunsUnaffected DEF AcquirePermit, At, Goto, Working, Pending
<1>7. ASSUME NEW w \in Workers, NEW there \in Pending, worker[w] = "boot",
             DropPermit(w, there), UNCHANGED <<next, run, completed>>
      PROVE  RunClaims'
  BY <1>7, <1>a, RunsUnaffected DEF DropPermit, Goto, Working, Pending
<1>8. ASSUME NEW w \in Workers, Registered(w) PROVE RunClaims'
  BY <1>8, <1>7 DEF Registered, At, Working, Pending
<1>9. ASSUME NEW w \in Workers, NEW there \in Pending, LaunchOver(w, there),
             UNCHANGED <<next, run, completed>>
      PROVE  RunClaims'
  <2>1. CASE permit[w]
    BY <1>9, <2>1, <1>7 DEF LaunchOver, At
  <2>2. CASE ~permit[w]
    BY <1>9, <2>2, <1>a, RunsUnaffected DEF LaunchOver, At, Goto, Working, Pending
  <2> QED BY <2>1, <2>2
<1>10. ASSUME NEW w \in Workers, BootReturns(w) PROVE RunClaims'
  BY <1>10, <1>9 DEF BootReturns, Working, Pending
<1>11. ASSUME NEW w \in Workers, LaunchAgain(w) PROVE RunClaims'
  BY <1>11, <1>9 DEF LaunchAgain, Working, Pending
<1>12. ASSUME NEW w \in Workers, StoreResult(w) PROVE RunClaims'
  <2>1. /\ worker[w] = "store" /\ UNCHANGED <<next, run>>
        /\ completed' = [completed EXCEPT ![run[w]] = code[w]]
        /\ worker' = [worker EXCEPT ![w] = "release"]
    BY <1>12 DEF StoreResult, At, Goto
  <2>2. run[w] \in Boots /\ run[w] < next
    BY <1>a, <2>1 DEF WorksOnRun, Working
  <2>3. \A v, u \in Workers :
           v # u /\ worker'[v] \in Working /\ worker'[u] \in Working
               => run'[v] # run'[u]
    BY <1>a, <2>1 DEF RunClaims, Working
  <2>4. \A v \in Workers : worker'[v] \in Pending => completed'[run'[v]] = NoResult
    <3> SUFFICES ASSUME NEW v \in Workers, worker'[v] \in Pending
                 PROVE  completed'[run'[v]] = NoResult
      OBVIOUS
    <3>1. v # w /\ worker[v] \in Pending
      BY <1>a, <2>1 DEF Pending
    <3>2. run[v] # run[w]
      BY <2>1, <3>1 DEF RunClaims, Working, Pending
    <3>3. run[v] \in Boots /\ completed[run[v]] = NoResult
      BY <1>a, <3>1 DEF RunClaims, WorksOnRun, Pending
    <3> QED
      BY <1>a, <2>1, <3>2, <3>3
  <2>5. \A index \in Boots : index >= next' => completed'[index] = NoResult
    BY <1>a, <2>1, <2>2, BootsAreIndices DEF RunClaims
  <2>6. \A index \in Boots :
           index < next' /\ completed'[index] = NoResult
               => \E v \in Workers : worker'[v] \in Pending /\ run'[v] = index
    <3> SUFFICES ASSUME NEW index \in Boots, index < next', completed'[index] = NoResult
                 PROVE  \E v \in Workers : worker'[v] \in Pending /\ run'[v] = index
      OBVIOUS
    <3>1. code[w] # NoResult
      BY <1>a, ExitCodes
    <3>2. index # run[w] /\ completed[index] = NoResult
      BY <1>a, <2>1, <2>2, <3>1
    <3>3. PICK v \in Workers : worker[v] \in Pending /\ run[v] = index
      BY <2>1, <3>2 DEF RunClaims
    <3> QED
      BY <1>a, <2>1, <3>2, <3>3
  <2>7. \A v \in Workers : worker'[v] = "exited" => next' \notin Boots
    BY <1>a, <2>1 DEF RunClaims
  <2> QED
    BY <2>3, <2>4, <2>5, <2>6, <2>7 DEF RunClaims
<1>13. ASSUME NEW w \in Workers, ReleaseSlot(w) PROVE RunClaims'
  <2>1. /\ worker[w] = "release" /\ UNCHANGED <<next, run, completed>>
        /\ worker'[w] = "claim"
        /\ \A v \in Workers \ {w} :
              \/ worker'[v] = worker[v]
              \/ worker[v] = "slotWait" /\ worker'[v] = "slot"
    BY <1>13, <1>a DEF ReleaseSlot, At, Goto
  <2>2. \A v \in Workers : worker'[v] \in Working => worker[v] \in Working
    BY <2>1 DEF Working
  <2>3. \A v \in Workers : worker'[v] \in Pending <=> worker[v] \in Pending
    BY <2>1 DEF Working, Pending
  <2>4. \A v \in Workers : worker'[v] = "exited" => worker[v] = "exited"
    BY <2>1
  <2> QED
    BY <2>1, <2>2, <2>3, <2>4 DEF RunClaims
<1>14. CASE RunsJoined \/ Interrupt
  BY <1>14, RunsUnaffected DEF RunsJoined, Interrupt, running
<1>15. CASE UNCHANGED vars
  BY <1>15, RunsUnaffected DEF vars, running
<1> QED
  BY <1>1, <1>2, <1>3, <1>4, <1>5, <1>6, <1>8, <1>10, <1>11, <1>12, <1>13,
     <1>14, <1>15 DEF Next, Work, Exited

LEMMA RunClaimsCorrect == Spec => []RunClaims
  BY BasicCorrect, RunClaimsInit, RunClaimsStep, PTL DEF Spec

\* Two workers never work on the same planned run: the shared counter of
\* run_targets (run.rs:514) gives each index to one of them.
THEOREM RunsAreNotSharedCorrect == Spec => []RunsAreNotShared
<1>1. Basic /\ RunClaims => RunsAreNotShared
  BY DEF Basic, BasicTypes, RunClaims, RunsAreNotShared, Working, WorkerSteps
<1> QED
  BY <1>1, BasicCorrect, RunClaimsCorrect, PTL

\* A stored result is never replaced: a worker only stores a result for the
\* run it claimed, and that run has none.
THEOREM ResultsAreFinalCorrect == Spec => ResultsAreFinal
<1> DEFINE Kept == \A index \in Boots :
       completed[index] # NoResult => completed'[index] = completed[index]
<1>1. Basic /\ RunClaims /\ [Next]_vars => [Kept]_vars
  <2> SUFFICES ASSUME Basic, RunClaims, Next PROVE Kept
    OBVIOUS
  <2>1. ASSUME NEW w \in Workers, StoreResult(w) PROVE Kept
    <3>1. completed' = [completed EXCEPT ![run[w]] = code[w]]
          /\ completed[run[w]] = NoResult
      BY <2>1 DEF StoreResult, At, RunClaims, Working, Pending
    <3> QED
      BY <3>1 DEF Basic, BasicTypes
  <2>2. CASE UNCHANGED completed
    BY <2>2
  <2> QED
    BY <2>1, <2>2
    DEF Next, Build, Work, ClaimImage, ImagePrepared, PreparationJoined, ClaimRun,
        AcquireSlot, Decide, AcquirePermit, Registered, BootReturns, LaunchAgain,
        ReleaseSlot, RunsJoined, Interrupt, Exited, running, vars
<1> QED
  BY <1>1, BasicCorrect, RunClaimsCorrect, PTL DEF Spec, ResultsAreFinal

\* A step after which every worker at the gate was there for the same run,
\* and every worker with a run that may pass had it before.
LEMMA NoneAdded ==
  ASSUME \A w \in Workers :
            /\ worker'[w] \in {"gate", "gateWait"} =>
                  worker[w] \in {"gate", "gateWait"} /\ run'[w] = run[w]
            /\ worker'[w] \in LaunchSteps \/ (worker'[w] = "store" /\ code'[w] = 0) =>
                  /\ worker[w] \in LaunchSteps \/ (worker[w] = "store" /\ code[w] = 0)
                  /\ run'[w] = run[w],
         \A index \in Boots : completed'[index] = 0 => index \in MayPass
  PROVE  AtGate' \subseteq AtGate /\ MayPass' \subseteq MayPass
  BY DEF AtGate, MayPass

\* Once the program is cancelled, no run comes to the launch gate: not from
\* the plan (run.rs:519) and not from the retry loop (run.rs:711-713); and a
\* run that was not being launched does not end in success.
THEOREM CancelStopsLaunchingCorrect == Spec => CancelStopsLaunching
<1> DEFINE Stops == cancelled => AtGate' \subseteq AtGate /\ MayPass' \subseteq MayPass
<1>1. Basic /\ [Next]_vars => [Stops]_vars
  <2> SUFFICES ASSUME Basic, Next, cancelled
               PROVE  AtGate' \subseteq AtGate /\ MayPass' \subseteq MayPass
    OBVIOUS
  <2>a. /\ worker \in [Workers -> WorkerSteps] /\ run \in [Workers -> Nat]
        /\ code \in [Workers -> Codes]
        /\ completed \in [Boots -> Codes \cup {NoResult}]
        /\ 0 \in Codes /\ Cancelled # 0
    BY ExitCodes DEF Basic, BasicTypes
  <2>b. ASSUME UNCHANGED completed
        PROVE  \A index \in Boots : completed'[index] = 0 => index \in MayPass
    BY <2>b DEF MayPass
  <2>1. CASE UNCHANGED <<worker, run, code, completed>>
    BY <2>1, <2>b, NoneAdded
  <2>2. ASSUME NEW w \in Workers, ClaimRun(w) \/ AcquireSlot(w) \/ ReleaseSlot(w)
        PROVE  AtGate' \subseteq AtGate /\ MayPass' \subseteq MayPass
    <3>1. UNCHANGED <<code, completed>>
      BY <2>2 DEF ClaimRun, AcquireSlot, ReleaseSlot
    <3>2. \A v \in Workers :
             worker'[v] \in LaunchSteps \cup {"store"} => worker'[v] = worker[v] /\ run'[v] = run[v]
      BY <2>2, <2>a DEF ClaimRun, AcquireSlot, ReleaseSlot, At, Goto, LaunchSteps
    <3> QED
      BY <2>b, <3>1, <3>2, NoneAdded DEF LaunchSteps
  <2>3. ASSUME NEW w \in Workers, Decide(w)
        PROVE  AtGate' \subseteq AtGate /\ MayPass' \subseteq MayPass
    <3>1. /\ code' = [code EXCEPT ![w] = Cancelled]
          /\ worker' = [worker EXCEPT ![w] = "store"]
          /\ UNCHANGED <<run, completed>>
      BY <2>3 DEF Decide, Goto
    <3> QED
      BY <2>a, <2>b, <3>1, NoneAdded DEF LaunchSteps
  <2>4. ASSUME NEW w \in Workers, NEW there \in {"boot", "store"}, worker[w] = "boot",
               DropPermit(w, there), UNCHANGED <<run, completed>>,
               \A v \in Workers \ {w} : code'[v] = code[v]
        PROVE  AtGate' \subseteq AtGate /\ MayPass' \subseteq MayPass
    <3>1. CASE worker' = [worker EXCEPT ![w] = there]
      BY <2>4, <2>a, <2>b, <3>1, NoneAdded DEF LaunchSteps
    <3>2. ASSUME NEW v \in Workers, worker[v] = "gateWait",
                 worker' = [worker EXCEPT ![w] = there, ![v] = "gate"]
          PROVE  AtGate' \subseteq AtGate /\ MayPass' \subseteq MayPass
      BY <2>4, <2>a, <2>b, <3>2, NoneAdded DEF LaunchSteps
    <3> QED
      BY <2>4, <3>1, <3>2 DEF DropPermit, Goto
  <2>5. ASSUME NEW w \in Workers, AcquirePermit(w) \/ Registered(w) \/ BootReturns(w)
        PROVE  AtGate' \subseteq AtGate /\ MayPass' \subseteq MayPass
    <3>1. CASE AcquirePermit(w)
      <4>1. /\ worker[w] = "gate" /\ UNCHANGED <<run, code, completed>>
            /\ worker' \in {[worker EXCEPT ![w] = "gateWait"], [worker EXCEPT ![w] = "boot"]}
        BY <3>1 DEF AcquirePermit, At, Goto
      <4> QED
        BY <2>a, <2>b, <4>1, NoneAdded DEF LaunchSteps
    <3>2. CASE Registered(w)
      BY <2>4, <3>2 DEF Registered, At
    <3>3. CASE BootReturns(w)
      <4>1. /\ worker[w] = "boot" /\ UNCHANGED <<run, completed>>
            /\ \A v \in Workers \ {w} : code'[v] = code[v]
        BY <3>3, <2>a DEF BootReturns, LaunchOver, At
      <4>2. CASE DropPermit(w, "store")
        BY <2>4, <4>1, <4>2
      <4>3. CASE worker' = [worker EXCEPT ![w] = "store"]
        BY <2>a, <2>b, <4>1, <4>3, NoneAdded DEF LaunchSteps
      <4> QED
        BY <3>3, <4>2, <4>3 DEF BootReturns, LaunchOver, Goto
    <3> QED
      BY <2>5, <3>1, <3>2, <3>3
  <2>6. ASSUME NEW w \in Workers, LaunchAgain(w) PROVE FALSE
    BY <2>6 DEF LaunchAgain
  <2>7. ASSUME NEW w \in Workers, StoreResult(w)
        PROVE  AtGate' \subseteq AtGate /\ MayPass' \subseteq MayPass
    <3>1. /\ worker[w] = "store" /\ worker' = [worker EXCEPT ![w] = "release"]
          /\ completed' = [completed EXCEPT ![run[w]] = code[w]]
          /\ code' = [code EXCEPT ![w] = 0]
          /\ UNCHANGED run
      BY <2>7 DEF StoreResult, At, Goto
    <3>2. \A index \in Boots : completed'[index] = 0 => index \in MayPass
      BY <2>a, <3>1 DEF MayPass
    <3> QED
      BY <2>a, <3>1, <3>2, NoneAdded DEF LaunchSteps
  <2> QED
    BY <2>1, <2>2, <2>3, <2>5, <2>6, <2>7
    DEF Next, Build, Work, ClaimImage, ImagePrepared, PreparationJoined, RunsJoined,
        Interrupt, Exited, running, vars
<1> QED
  BY <1>1, BasicCorrect, PTL DEF Spec, CancelStopsLaunching

-----------------------------------------------------------------------------
(* The images, and what the program returns.                               *)

\* As RunClaims, for the build pool; and run_targets goes on only after it.
ImageClaims ==
    /\ \A index \in 1..Images :
          index < nextBuild /\ built[index] = NoResult
              => \E thread \in Builders :
                    builder[thread] = "build" /\ image[thread] = index
    /\ \A thread \in Builders : builder[thread] = "exited" => nextBuild > Images
    /\ phase # "prepare" => \A thread \in Builders : builder[thread] = "exited"

LEMMA ImageClaimsInit == Init => ImageClaims
  BY DEF Init, ImageClaims

LEMMA ImageClaimsStep == Basic /\ ImageClaims /\ [Next]_vars => ImageClaims'
<1> SUFFICES ASSUME Basic, ImageClaims, [Next]_vars PROVE ImageClaims'
  OBVIOUS
<1>a. /\ builder \in [Builders -> {"claim", "build", "exited"}]
      /\ image \in [Builders -> Nat] /\ nextBuild \in Nat \ {0}
      /\ built \in [1..Images -> Codes \cup {NoResult}] /\ BuildsImage
      /\ Images \in Nat
  BY Limits DEF Basic, BasicTypes
<1>1. ASSUME NEW thread \in Builders, ClaimImage(thread) PROVE ImageClaims'
  <2>1. /\ phase = "prepare" /\ phase' = phase /\ builder[thread] = "claim"
        /\ nextBuild' = nextBuild + 1 /\ built' = built
        /\ image' = [image EXCEPT ![thread] = nextBuild]
        /\ builder' = [builder EXCEPT ![thread] =
                          IF nextBuild \in 1..Images THEN "build" ELSE "exited"]
    BY <1>1 DEF ClaimImage
  <2>2. \A index \in 1..Images :
           index < nextBuild' /\ built'[index] = NoResult
               => \E t \in Builders : builder'[t] = "build" /\ image'[t] = index
    <3> SUFFICES ASSUME NEW index \in 1..Images, index < nextBuild',
                        built'[index] = NoResult
                 PROVE  \E t \in Builders : builder'[t] = "build" /\ image'[t] = index
      OBVIOUS
    <3>1. CASE index = nextBuild
      BY <1>a, <2>1, <3>1
    <3>2. CASE index < nextBuild
      <4>1. PICK t \in Builders : builder[t] = "build" /\ image[t] = index
        BY <2>1, <3>2 DEF ImageClaims
      <4> QED
        BY <1>a, <2>1, <4>1
    <3> QED
      BY <1>a, <2>1, <3>1, <3>2
  <2>3. \A t \in Builders : builder'[t] = "exited" => nextBuild' > Images
    BY <1>a, <2>1 DEF ImageClaims
  <2> QED
    BY <2>1, <2>2, <2>3 DEF ImageClaims
<1>2. ASSUME NEW thread \in Builders, ImagePrepared(thread) PROVE ImageClaims'
  <2>1. PICK result \in Codes : built' = [built EXCEPT ![image[thread]] = result]
    BY <1>2 DEF ImagePrepared
  <2>2. /\ builder[thread] = "build" /\ UNCHANGED <<phase, nextBuild, image>>
        /\ builder' = [builder EXCEPT ![thread] = "claim"]
    BY <1>2 DEF ImagePrepared
  <2>3. \A index \in 1..Images :
           index < nextBuild' /\ built'[index] = NoResult
               => \E t \in Builders : builder'[t] = "build" /\ image'[t] = index
    <3> SUFFICES ASSUME NEW index \in 1..Images, index < nextBuild',
                        built'[index] = NoResult
                 PROVE  \E t \in Builders : builder'[t] = "build" /\ image'[t] = index
      OBVIOUS
    <3>1. index # image[thread] /\ built[index] = NoResult
      BY <1>a, <2>1, ExitCodes
    <3>2. PICK t \in Builders : builder[t] = "build" /\ image[t] = index
      BY <2>2, <3>1 DEF ImageClaims
    <3> QED
      BY <1>a, <2>2, <3>1, <3>2
  <2>4. \A t \in Builders : builder'[t] = "exited" => nextBuild' > Images
    BY <1>a, <2>2 DEF ImageClaims
  <2>5. phase = "prepare"
    BY <2>2 DEF ImageClaims
  <2> QED
    BY <2>2, <2>3, <2>4, <2>5 DEF ImageClaims
<1>3. CASE PreparationJoined
  BY <1>3 DEF PreparationJoined, preparation, ImageClaims
<1>4. CASE RunsJoined
  BY <1>4 DEF RunsJoined, preparation, ImageClaims
<1>5. CASE UNCHANGED <<phase, preparation>>
  BY <1>5 DEF preparation, ImageClaims
<1> QED
  BY <1>1, <1>2, <1>3, <1>4, <1>5
  DEF Next, Build, Work, ClaimRun, AcquireSlot, Decide, AcquirePermit, Registered,
      BootReturns, LaunchAgain, StoreResult, ReleaseSlot, Interrupt, Exited, vars

LEMMA ImageClaimsCorrect == Spec => []ImageClaims
  BY BasicCorrect, ImageClaimsInit, ImageClaimsStep, PTL DEF Spec

\* A non-empty set of exit codes has a worst one.
LEMMA WorstIsLargest ==
  ASSUME NEW S \in SUBSET Codes, S # {}
  PROVE  Worst(S) \in S /\ \A c \in S : c <= Worst(S)
<1> DEFINE Below == {255 - c : c \in S}
<1>1. S \subseteq 0..255
  BY SchedulerAssumption DEF SchedulerAssumption
<1>2. Below \subseteq Nat /\ Below # {}
  <2>1. \A c \in S : 255 - c \in Nat
    BY <1>1
  <2> QED
    BY <2>1
<1>3. \A c \in S : 255 - c \in Below
  OBVIOUS
<1> HIDE DEF Below
<1>4. \E x \in Below : \A y \in Below : ~ (<<y, x>> \in OpToRel(<, Nat))
  BY <1>2, NatLessThanWellFounded, WFMin
<1>5. PICK x \in Below : \A y \in Below : ~ (y < x)
  BY <1>2, <1>4 DEF OpToRel
<1>6. PICK worst \in S : x = 255 - worst
  BY <1>5 DEF Below
<1>7. ASSUME NEW c \in S PROVE c <= worst
  <2>1. ~ (255 - c < 255 - worst)
    BY <1>3, <1>5, <1>6
  <2>2. c \in 0..255 /\ worst \in 0..255
    BY <1>1
  <2> QED
    BY <2>1, <2>2
<1> QED
  BY <1>7 DEF Worst

Outcome ==
    /\ finalCode \in Codes \cup {NoResult}
    /\ phase # "exit" => finalCode = NoResult
    /\ phase = "run" => \A index \in 1..Images : built[index] = 0
    /\ SuccessIsComplete

LEMMA OutcomeInit == Init => Outcome
  BY ExitCodes DEF Init, Outcome, SuccessIsComplete

\* A step that leaves results and the phase alone.
LEMMA OutcomeUnaffected ==
  ASSUME Outcome, UNCHANGED <<phase, built, completed, finalCode>>
  PROVE  Outcome'
  BY DEF Outcome, SuccessIsComplete

LEMMA OutcomeStep ==
  Basic /\ RunClaims /\ ImageClaims /\ Outcome /\ [Next]_vars => Outcome'
<1> SUFFICES ASSUME Basic, RunClaims, ImageClaims, Outcome, [Next]_vars
             PROVE  Outcome'
  OBVIOUS
<1>a. /\ built \in [1..Images -> Codes \cup {NoResult}]
      /\ completed \in [Boots -> Codes \cup {NoResult}]
      /\ next \in Nat /\ nextBuild \in Nat /\ Images \in Nat
  BY Limits DEF Basic, BasicTypes
<1>1. ASSUME NEW thread \in Builders, ImagePrepared(thread) PROVE Outcome'
  <2>1. phase = "prepare" /\ phase' = phase /\ finalCode' = finalCode
    BY <1>1 DEF ImagePrepared, ImageClaims
  <2> QED
    BY <2>1, ExitCodes DEF Outcome, SuccessIsComplete
<1>2. CASE PreparationJoined
  <2>1. /\ phase = "prepare" /\ finalCode = NoResult /\ built' = built
        /\ \A thread \in Builders : builder[thread] = "exited"
    BY <1>2 DEF PreparationJoined, preparation, Outcome
  <2>2. CASE \A index \in 1..Images : built[index] = 0
    <3>1. \/ phase' = "run" /\ finalCode' = finalCode
          \/ phase' = "exit" /\ finalCode' \in Codes \ {0}
      BY <1>2, <2>2 DEF PreparationJoined
    <3> QED
      BY <2>1, <2>2, <3>1, ExitCodes DEF Outcome, SuccessIsComplete
  <2>3. CASE ~ \A index \in 1..Images : built[index] = 0
    <3> DEFINE Results == {built[index] : index \in 1..Images}
    <3>1. phase' = "exit" /\ finalCode' = Worst(Results)
      BY <1>2, <2>3 DEF PreparationJoined
    <3>2. nextBuild > Images
      BY <2>1, SchedulerAssumption DEF SchedulerAssumption, ImageClaims
    <3>3. \A index \in 1..Images : built[index] # NoResult
      BY <1>a, <2>1, <3>2 DEF ImageClaims
    <3>4. Results \in SUBSET Codes
      BY <1>a, <3>3
    <3>5. PICK index \in 1..Images : built[index] # 0
      BY <2>3
    <3>6. built[index] \in Results /\ Results # {}
      BY <3>5
    <3> HIDE DEF Results
    <3>7. Worst(Results) \in Codes /\ built[index] <= Worst(Results)
      BY <3>4, <3>6, WorstIsLargest
    <3>8. built[index] \in Nat
      BY <3>4, <3>6, ExitCodes
    <3>9. Worst(Results) # 0
      BY <3>5, <3>7, <3>8
    <3> QED
      BY <3>1, <3>7, <3>9 DEF Outcome, SuccessIsComplete
  <2> QED BY <2>2, <2>3
<1>3. ASSUME NEW w \in Workers, StoreResult(w) PROVE Outcome'
  <2>1. phase = "run" /\ UNCHANGED <<phase, built, finalCode>>
    BY <1>3 DEF StoreResult, At, preparation
  <2> QED
    BY <2>1, ExitCodes DEF Outcome, SuccessIsComplete
<1>4. CASE RunsJoined
  <2> DEFINE Results == {0} \cup {completed[index] : index \in Boots}
  <2>1. /\ phase = "run" /\ phase' = "exit" /\ finalCode' = Worst(Results)
        /\ built' = built /\ completed' = completed
        /\ \A w \in Workers : worker[w] = "exited"
    BY <1>4 DEF RunsJoined, preparation, running
  <2>2. next \notin Boots
    BY <2>1, SchedulerAssumption DEF SchedulerAssumption, RunClaims
  <2>3. next > Len(Planned)
    BY <2>2, BootsAreIndices DEF Basic, BasicTypes
  <2>4. \A index \in Boots : completed[index] # NoResult
    BY <1>a, <2>1, <2>3, BootsAreIndices DEF RunClaims, Working, Pending
  <2>5. Results \in SUBSET Codes /\ Results # {}
    BY <1>a, <2>4, ExitCodes
  <2>6. \A index \in Boots : completed[index] \in Results
    OBVIOUS
  <2> HIDE DEF Results
  <2>7. Worst(Results) \in Codes /\ \A c \in Results : c <= Worst(Results)
    BY <2>5, WorstIsLargest
  <2>8. ASSUME Worst(Results) = 0, NEW index \in Boots PROVE completed[index] = 0
    <3>1. completed[index] \in Nat
      BY <2>5, <2>6, ExitCodes
    <3>2. completed[index] <= 0
      BY <2>6, <2>7, <2>8
    <3> QED
      BY <3>1, <3>2
  <2> QED
    BY <2>1, <2>7, <2>8 DEF Outcome, SuccessIsComplete
<1>5. CASE UNCHANGED <<phase, built, completed, finalCode>>
  BY <1>5, OutcomeUnaffected
<1> QED
  BY <1>1, <1>2, <1>3, <1>4, <1>5
  DEF Next, Build, Work, ClaimImage, ClaimRun, AcquireSlot, Decide, AcquirePermit,
      Registered, BootReturns, LaunchAgain, ReleaseSlot, Interrupt, Exited, running,
      preparation, vars

LEMMA OutcomeCorrect == Spec => []Outcome
  BY BasicCorrect, RunClaimsCorrect, ImageClaimsCorrect, OutcomeInit, OutcomeStep,
     PTL DEF Spec

\* run_targets only returns success when every image was prepared and every
\* planned run was booted and succeeded (run.rs:560-569): no result is lost
\* between the workers and the exit code.
THEOREM SuccessIsCompleteCorrect == Spec => []SuccessIsComplete
  BY OutcomeCorrect, PTL DEF Outcome

\* The state keeps to its types; in particular `active` never falls below zero
\* and `gate` stays within the gate's limit.
THEOREM TypeCorrect == Spec => []TypeOK
<1>1. Basic /\ SlotCounts /\ Outcome => TypeOK
  <2> SUFFICES ASSUME Basic, SlotCounts, Outcome PROVE TypeOK
    OBVIOUS
  <2>1. \A platform \in Limited : active[platform] \in Nat
    BY OnPlatformIsFinite, FS_CardinalityType DEF SlotCounts
  <2>2. active \in [Limited -> Nat]
    BY <2>1 DEF Basic, BasicTypes
  <2>3. nextBuild \in Nat /\ next \in Nat
    BY DEF Basic, BasicTypes
  <2>4. finalCode \in Codes \cup {NoResult}
    BY DEF Outcome
  <2> QED
    BY Zenon, <2>2, <2>3, <2>4 DEF Basic, BasicTypes, TypeOK
<1> QED
  BY <1>1, BasicCorrect, SlotCountsCorrect, OutcomeCorrect, PTL
=============================================================================
