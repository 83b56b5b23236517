---------------------------- MODULE BootScheduler ----------------------------
(***************************************************************************)
(* run_targets (host/cli/src/run.rs): a pool of threads prepares the       *)
(* firmware images, then a pool of workers boots the planned runs.  A      *)
(* worker holds a slot of its run's platform (PlatformConcurrency) for the *)
(* whole boot, and a permit of the launch gate (LaunchGate, process.rs)    *)
(* while Podman registers its container.  Both are a counter under a mutex *)
(* with a condition variable: a thread is in the condition's wait set, or  *)
(* awake and about to test the counter.                                    *)
(*                                                                         *)
(* What happens inside a boot is Supervisor's; here a boot registers,      *)
(* returns a code, or is launched again.  Definitions ending in _Bug are   *)
(* defects, see ResultProtocol.                                            *)
(***************************************************************************)
EXTENDS Naturals, Sequences, FiniteSets

CONSTANTS
    Builders,    \* the threads of the build pool
    Workers,     \* the threads of the run pool
    Images,      \* the number of firmware images to prepare
    Platforms,   \* Platform::ALL
    Limited,     \* the platforms that have a runtime_concurrency_limit
    SlotLimit,   \* that limit, for each of them
    Planned,     \* the platform of each planned run
    GateLimit,   \* MAX_PARALLEL_PODMAN_HANDSHAKES
    Codes,       \* the exit codes a boot may end with, Success = 0 among them
    Cancelled,   \* ExitCode::Cancelled
    NoResult,    \* the value None in a vector of results
    MaxRetries   \* bound: launches of a boot beyond the first

Boots == DOMAIN Planned

ASSUME SchedulerAssumption ==
    /\ Builders # {}
    /\ Workers # {} /\ IsFiniteSet(Workers)
    /\ Images \in Nat
    /\ Limited \subseteq Platforms
    /\ SlotLimit \in [Limited -> Nat \ {0}]
    /\ Planned \in Seq(Platforms)
    /\ GateLimit \in Nat \ {0}
    /\ Codes \subseteq 0..255 /\ 0 \in Codes
    /\ Cancelled \in Codes \ {0}
    /\ NoResult \notin Nat
    /\ MaxRetries \in Nat

VARIABLES
    phase,      \* which part of run_targets executes
    nextBuild,  \* next_build
    builder,    \* each build thread's step
    image,      \* the image it works on
    built,      \* build_results
    next,       \* the run pool's next
    worker,     \* each worker's step
    run,        \* the planned run it works on
    slot,       \* it holds a PlatformConcurrencyGuard
    permit,     \* it holds a LaunchPermit
    retries,    \* how often its boot was launched again
    code,       \* the code its boot returned
    active,     \* PlatformConcurrency::active
    gate,       \* LaunchGate::active
    completed,  \* completed
    cancelled,  \* cancellation::requested()
    finalCode   \* final_code, NoResult until run_targets returns

preparation == <<nextBuild, builder, image, built>>
running == <<next, worker, run, slot, permit, retries, code, active, gate,
             completed>>
vars == <<phase, preparation, running, cancelled, finalCode>>

WorkerSteps == {"claim", "slot", "slotWait", "decide", "gate", "gateWait",
                "boot", "store", "release", "exited"}

TypeOK ==
    /\ phase \in {"prepare", "run", "exit"}
    /\ nextBuild \in Nat
    /\ builder \in [Builders -> {"claim", "build", "exited"}]
    /\ image \in [Builders -> Nat]
    /\ built \in [1..Images -> Codes \cup {NoResult}]
    /\ next \in Nat
    /\ worker \in [Workers -> WorkerSteps]
    /\ run \in [Workers -> Nat]
    /\ slot \in [Workers -> BOOLEAN]
    /\ permit \in [Workers -> BOOLEAN]
    /\ retries \in [Workers -> Nat]
    /\ code \in [Workers -> Codes]
    /\ active \in [Limited -> Nat]
    /\ gate \in 0..GateLimit
    /\ completed \in [Boots -> Codes \cup {NoResult}]
    /\ cancelled \in BOOLEAN
    /\ finalCode \in Codes \cup {NoResult}

Init ==
    /\ phase = "prepare"
    /\ nextBuild = 1
    /\ builder = [thread \in Builders |-> "claim"]
    /\ image = [thread \in Builders |-> 0]
    /\ built = [index \in 1..Images |-> NoResult]
    /\ next = 1
    /\ worker = [w \in Workers |-> "claim"]
    /\ run = [w \in Workers |-> 0]
    /\ slot = [w \in Workers |-> FALSE]
    /\ permit = [w \in Workers |-> FALSE]
    /\ retries = [w \in Workers |-> 0]
    /\ code = [w \in Workers |-> 0]
    /\ active = [platform \in Limited |-> 0]
    /\ gate = 0
    /\ completed = [index \in Boots |-> NoResult]
    /\ cancelled = FALSE
    /\ finalCode = NoResult

Worst_Bug(codes) == CHOOSE c \in codes : \A other \in codes : c <= other

\* The largest of a non-empty set of exit codes.
Worst(codes) == CHOOSE c \in codes : \A other \in codes : other <= c

-----------------------------------------------------------------------------
(* The build pool.                                                         *)

\* next_build.fetch_add, past the end the thread leaves its loop.
ClaimImage(thread) ==
    /\ phase = "prepare"
    /\ builder[thread] = "claim"
    /\ nextBuild' = nextBuild + 1
    /\ image' = [image EXCEPT ![thread] = nextBuild]
    /\ builder' = [builder EXCEPT ![thread] =
                      IF nextBuild \in 1..Images THEN "build" ELSE "exited"]
    /\ UNCHANGED <<phase, built, running, cancelled, finalCode>>

\* prepare_target returns.
ImagePrepared(thread) ==
    /\ builder[thread] = "build"
    /\ \E result \in Codes : built' = [built EXCEPT ![image[thread]] = result]
    /\ builder' = [builder EXCEPT ![thread] = "claim"]
    /\ UNCHANGED <<phase, nextBuild, image, running, cancelled, finalCode>>

\* The build pool is joined.  A failed image ends the program with the worst
\* of the failures; so does a platform whose version cannot be read, or a
\* dashboard that cannot be created.
PreparationJoined ==
    /\ phase = "prepare"
    /\ \A thread \in Builders : builder[thread] = "exited"
    /\ IF \A index \in 1..Images : built[index] = 0
       THEN \/ phase' = "run" /\ UNCHANGED finalCode
            \/ phase' = "exit" /\ finalCode' \in Codes \ {0}
       ELSE phase' = "exit"
            /\ finalCode' = Worst({built[index] : index \in 1..Images})
    /\ UNCHANGED <<preparation, running, cancelled>>

-----------------------------------------------------------------------------
(* A worker of the run pool.                                               *)

At(w, here) == phase = "run" /\ worker[w] = here
Goto(w, there) == worker' = [worker EXCEPT ![w] = there]

ClaimRun_RaceBug(w) ==
    /\ At(w, "claim")
    /\ next' \in {next, next + 1}
    /\ run' = [run EXCEPT ![w] = next]
    /\ Goto(w, IF next \in Boots THEN "slot" ELSE "exited")
    /\ UNCHANGED <<phase, preparation, slot, permit, retries, code, active, gate,
                   completed, cancelled, finalCode>>

\* next.fetch_add, past the end the worker leaves its loop.
ClaimRun(w) ==
    /\ At(w, "claim")
    /\ next' = next + 1
    /\ run' = [run EXCEPT ![w] = next]
    /\ Goto(w, IF next \in Boots THEN "slot" ELSE "exited")
    /\ UNCHANGED <<phase, preparation, slot, permit, retries, code, active, gate,
                   completed, cancelled, finalCode>>

Platform(w) == Planned[run[w]]

Full_Bug(platform) == active[platform] > SlotLimit[platform]

Full(platform) == active[platform] >= SlotLimit[platform]

\* acquire: an unlimited platform needs no slot; a full one is waited for.
AcquireSlot(w) ==
    /\ At(w, "slot")
    /\ IF Platform(w) \notin Limited
       THEN Goto(w, "decide") /\ UNCHANGED <<slot, active>>
       ELSE IF Full(Platform(w))
       THEN Goto(w, "slotWait") /\ UNCHANGED <<slot, active>>
       ELSE /\ active' = [active EXCEPT ![Platform(w)] = @ + 1]
            /\ slot' = [slot EXCEPT ![w] = TRUE]
            /\ Goto(w, "decide")
    /\ UNCHANGED <<phase, preparation, next, run, permit, retries, code, gate,
                   completed, cancelled, finalCode>>

\* A cancelled program launches nothing; a boot whose artifacts cannot be
\* created is not launched either.
Decide(w) ==
    /\ At(w, "decide")
    /\ \/ /\ cancelled
          /\ code' = [code EXCEPT ![w] = Cancelled]
          /\ Goto(w, "store")
       \/ /\ ~cancelled
          /\ \/ /\ Goto(w, "gate")
                /\ UNCHANGED code
             \/ /\ \E c \in Codes \ {0} : code' = [code EXCEPT ![w] = c]
                /\ Goto(w, "store")
    /\ UNCHANGED <<phase, preparation, next, run, slot, permit, retries,
                   active, gate, completed, cancelled, finalCode>>

GateFull_Bug == gate > GateLimit

GateFull == gate >= GateLimit

\* acquire_launch_permit.
AcquirePermit(w) ==
    /\ At(w, "gate")
    /\ IF GateFull
       THEN Goto(w, "gateWait") /\ UNCHANGED <<permit, gate>>
       ELSE /\ gate' = gate + 1
            /\ permit' = [permit EXCEPT ![w] = TRUE]
            /\ Goto(w, "boot")
    /\ UNCHANGED <<phase, preparation, next, run, slot, retries, code, active,
                   completed, cancelled, finalCode>>

DropPermit_SilentBug(w, there) ==
    /\ gate' = IF gate = 0 THEN 0 ELSE gate - 1
    /\ permit' = [permit EXCEPT ![w] = FALSE]
    /\ Goto(w, there)

\* Dropping a LaunchPermit wakes one of the threads waiting at the gate; the
\* dropping worker goes on at `there`.
DropPermit(w, there) ==
    /\ gate' = IF gate = 0 THEN 0 ELSE gate - 1
    /\ permit' = [permit EXCEPT ![w] = FALSE]
    /\ LET waiting == {v \in Workers : worker[v] = "gateWait"}
       IN  \/ /\ waiting = {}
              /\ Goto(w, there)
           \/ \E v \in waiting :
                 worker' = [worker EXCEPT ![w] = there, ![v] = "gate"]

\* The container is registered, or the guest spoke.
Registered(w) ==
    /\ At(w, "boot")
    /\ permit[w]
    /\ DropPermit(w, "boot")
    /\ UNCHANGED <<phase, preparation, next, run, slot, retries, code, active,
                   completed, cancelled, finalCode>>

LaunchOver_TwiceBug(w, there) ==
    /\ At(w, "boot")
    /\ DropPermit(w, there)

\* A launch is over: a permit it still holds is dropped.
LaunchOver(w, there) ==
    /\ At(w, "boot")
    /\ IF permit[w] THEN DropPermit(w, there)
       ELSE Goto(w, there) /\ UNCHANGED <<gate, permit>>

BootReturns(w) ==
    /\ LaunchOver(w, "store")
    /\ \E c \in Codes : code' = [code EXCEPT ![w] = c]
    /\ UNCHANGED <<phase, preparation, next, run, slot, retries, active,
                   completed, cancelled, finalCode>>

LaunchAgain_CancelBug(w) ==
    /\ retries[w] < MaxRetries
    /\ LaunchOver(w, "gate")
    /\ retries' = [retries EXCEPT ![w] = @ + 1]
    /\ UNCHANGED <<phase, preparation, next, run, slot, code, active,
                   completed, cancelled, finalCode>>

\* The retry loop of run_target.
LaunchAgain(w) ==
    /\ ~cancelled
    /\ retries[w] < MaxRetries
    /\ LaunchOver(w, "gate")
    /\ retries' = [retries EXCEPT ![w] = @ + 1]
    /\ UNCHANGED <<phase, preparation, next, run, slot, code, active,
                   completed, cancelled, finalCode>>

StoreResult(w) ==
    /\ At(w, "store")
    /\ completed' = [completed EXCEPT ![run[w]] = code[w]]
    /\ code' = [code EXCEPT ![w] = 0]
    /\ retries' = [retries EXCEPT ![w] = 0]
    /\ Goto(w, "release")
    /\ UNCHANGED <<phase, preparation, next, run, slot, permit, active, gate,
                   cancelled, finalCode>>

\* Dropping the guard of a limited platform wakes every waiting worker.
ReleaseSlot(w) ==
    /\ At(w, "release")
    /\ IF slot[w]
       THEN /\ active' = [active EXCEPT ![Platform(w)] = @ - 1]
            /\ slot' = [slot EXCEPT ![w] = FALSE]
            /\ worker' = [v \in Workers |->
                             IF v = w THEN "claim"
                             ELSE IF worker[v] = "slotWait" THEN "slot"
                             ELSE worker[v]]
       ELSE Goto(w, "claim") /\ UNCHANGED <<active, slot>>
    /\ UNCHANGED <<phase, preparation, next, run, permit, retries, code, gate,
                   completed, cancelled, finalCode>>

\* The run pool is joined: the program's exit code is the worst of all.
RunsJoined ==
    /\ phase = "run"
    /\ \A w \in Workers : worker[w] = "exited"
    /\ phase' = "exit"
    /\ finalCode' = Worst({0} \cup {completed[index] : index \in Boots})
    /\ UNCHANGED <<preparation, running, cancelled>>

Interrupt ==
    /\ phase # "exit"
    /\ ~cancelled
    /\ cancelled' = TRUE
    /\ UNCHANGED <<phase, preparation, running, finalCode>>

Build(thread) == ClaimImage(thread) \/ ImagePrepared(thread)

Work(w) ==
    \/ ClaimRun(w)
    \/ AcquireSlot(w)
    \/ Decide(w)
    \/ AcquirePermit(w)
    \/ Registered(w)
    \/ BootReturns(w)
    \/ LaunchAgain(w)
    \/ StoreResult(w)
    \/ ReleaseSlot(w)

Exited == phase = "exit" /\ UNCHANGED vars

Next ==
    \/ \E thread \in Builders : Build(thread)
    \/ PreparationJoined
    \/ \E w \in Workers : Work(w)
    \/ RunsJoined
    \/ Interrupt
    \/ Exited

Spec == Init /\ [][Next]_vars

\* The operating system schedules every thread, a preparation and a boot
\* return (Boot shows the latter), and a scope joins its threads.
Fairness ==
    /\ \A thread \in Builders : WF_vars(Build(thread))
    /\ \A w \in Workers : WF_vars(Work(w))
    /\ WF_vars(PreparationJoined)
    /\ WF_vars(RunsJoined)

FairSpec == Spec /\ Fairness

-----------------------------------------------------------------------------
(* Properties.                                                             *)

OnPlatform(platform) == {w \in Workers : slot[w] /\ Platform(w) = platform}
LaunchSteps == {"gate", "gateWait", "boot"}
Launching == {w \in Workers : permit[w]}

\* No more boots of a platform run at once than its limit allows, and none
\* of them without a slot.
PlatformLimitHolds ==
    /\ \A platform \in Limited :
          Cardinality(OnPlatform(platform)) <= SlotLimit[platform]
    /\ \A w \in Workers :
          worker[w] \in {"decide", "gate", "gateWait", "boot", "store"}
              /\ Platform(w) \in Limited
              => slot[w]

\* No more launches are in progress at once than the gate allows.
GateLimitHolds == Cardinality(Launching) <= GateLimit

\* Two workers never work on the same planned run.
RunsAreNotShared ==
    \A v, w \in Workers :
        v # w /\ worker[v] \notin {"claim", "exited"}
              /\ worker[w] \notin {"claim", "exited"}
        => run[v] # run[w]

\* A result, once stored, is never replaced.
ResultsAreFinal ==
    [][\A index \in Boots :
          completed[index] # NoResult => completed'[index] = completed[index]]_vars

\* run_targets only returns success when every image was prepared and every
\* planned run was booted and succeeded, and never before all runs ended.
SuccessIsComplete ==
    finalCode = 0 =>
        /\ \A index \in 1..Images : built[index] = 0
        /\ \A index \in Boots : completed[index] = 0

\* The runs that wait for their launch, and those that may end in success:
\* they did, they are on their way through a launch, or they came back from it.
AtGate == {run[w] : w \in {v \in Workers : worker[v] \in {"gate", "gateWait"}}}
MayPass ==
    {index \in Boots : completed[index] = 0}
        \cup {run[w] : w \in {v \in Workers :
                 worker[v] \in LaunchSteps \/ (worker[v] = "store" /\ code[v] = 0)}}

\* Once the program is cancelled, no run comes to the launch gate any more,
\* neither one of those left nor one whose boot would be retried; and a run
\* that was not being launched by then is never recorded as a success.
CancelStopsLaunching ==
    [][cancelled => AtGate' \subseteq AtGate /\ MayPass' \subseteq MayPass]_vars

\* run_targets returns: no worker is left waiting for a slot or a permit.
SchedulerEnds == <>(phase = "exit")
=============================================================================
