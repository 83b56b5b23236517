------------------------------ MODULE FvpRelay ------------------------------
(***************************************************************************)
(* The process inside the container (container/run.py): it starts the FVP  *)
(* model, copies the UART's protocol lines to its standard output, and     *)
(* ends the model at END or at a firmware panic.  A boot is run with       *)
(* --require-cache, so nothing is prepared or built here.                  *)
(***************************************************************************)
EXTENDS ResultProtocol, Sequences

CONSTANTS PipeSize   \* bound: lines printed and not yet received

VARIABLES
    relay,     \* where run_fvp and main are
    model,     \* the FVP process
    sawEnd,    \* saw_end
    panicked,  \* firmware_panic is not None
    exitCode,  \* the status main returns
    uart,      \* the UART's lines on their way to the loop of run_fvp
    printed    \* the lines on standard output

local == <<relay, model, sawEnd, panicked, exitCode>>
vars == <<local, uart, printed>>

TypeOK ==
    /\ relay \in {"starting", "relaying", "exited"}
    /\ model \in {"off", "running", "terminating", "dead"}
    /\ sawEnd \in BOOLEAN
    /\ panicked \in BOOLEAN
    /\ exitCode \in {0, 20, 21}

Init ==
    /\ relay = "starting"
    /\ model = "off"
    /\ sawEnd = FALSE
    /\ panicked = FALSE
    /\ exitCode = 0

Printing(line) ==
    /\ Len(printed) < PipeSize
    /\ printed' = Append(printed, line)

Exits(code) == relay' = "exited" /\ exitCode' = code

\* The firmware's images are not in the cache (20), or the run's own copies
\* cannot be made (21).
ImagesMissing ==
    /\ relay = "starting"
    /\ Exits(20) \/ Exits(21)
    /\ UNCHANGED <<model, sawEnd, panicked, uart, printed>>

StartModel ==
    /\ relay = "starting"
    /\ Printing(Plain("FVP_START"))
    /\ \/ relay' = "relaying" /\ model' = "running" /\ UNCHANGED exitCode
       \/ Exits(21) /\ UNCHANGED model
    /\ UNCHANGED <<sawEnd, panicked, uart>>

\* One line of the UART.  SIGTERM follows the first END, and SIGKILL one
\* second later; a panic before END is reported and kills the model.
Relay ==
    /\ relay = "relaying"
    /\ uart # <<>>
    /\ uart' = Tail(uart)
    /\ LET line == Head(uart)
       IN  IF line.kind = "PANIC" THEN
               IF sawEnd \/ panicked
               THEN UNCHANGED <<model, panicked, printed>>
               ELSE /\ Printing(Plain("HARNESS_FAILURE"))
                    /\ panicked' = TRUE
                    /\ model' = "dead"
           ELSE /\ Printing(line)
                /\ model' = IF line.kind = "END" /\ model = "running"
                            THEN "terminating" ELSE model
                /\ UNCHANGED panicked
    /\ sawEnd' = (sawEnd \/ Head(uart).kind = "END")
    /\ UNCHANGED <<relay, exitCode>>

\* The signals take effect.
ModelTerminates ==
    /\ model = "terminating"
    /\ model' = "dead"
    /\ UNCHANGED <<relay, sawEnd, panicked, exitCode, uart, printed>>

\* The model ends by itself.
ModelCrashes ==
    /\ model = "running"
    /\ model' = "dead"
    /\ UNCHANGED <<relay, sawEnd, panicked, exitCode, uart, printed>>

ExitStatus == IF panicked \/ ~sawEnd THEN 21 ELSE 0

\* The streams are closed.  The loop usually took every line; but if its wait
\* for one timed out just before the readers delivered the last lines of a
\* model that ended, it leaves without them.
RelayEnds ==
    /\ relay = "relaying"
    /\ model = "dead"
    /\ uart' = <<>>
    /\ Exits(ExitStatus)
    /\ UNCHANGED <<model, sawEnd, panicked, printed>>

Next ==
    \/ ImagesMissing
    \/ StartModel
    \/ Relay
    \/ ModelTerminates
    \/ ModelCrashes
    \/ RelayEnds
=============================================================================
