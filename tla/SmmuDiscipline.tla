--------------------------- MODULE SmmuDiscipline ---------------------------
(***************************************************************************)
(* What the script of a live SMMU test has to keep to, whatever else it    *)
(* does, so that its agent never works past the SMMU.                      *)
(***************************************************************************)
EXTENDS SmmuLive

\* Between two steps the script has none of these kinds.
NoneBetween(n, i, p, kinds) == \A r \in (i + 1)..(p - 1) : Body(n)[r].do \notin kinds

Enabling == {"client", "control"}
Switching == Enabling \cup {"restore"}
Unsettling == {"start", "poll", "drop"}

\* Before step p the registers were last told to enable the SMMU, and it is known
\* to have done so: v2 obeys at once, v3 acknowledges.
Requests(n, i, p) ==
    /\ i \in 1..(p - 1)
    /\ Body(n)[i].do \in Enabling /\ "on" \in Body(n)[i].on
    /\ NoneBetween(n, i, p, Switching)
Asked(n, p) == \E i \in 1..(p - 1) : Requests(n, i, p)
Enabled(n, p) ==
    \E i \in 1..(p - 1) :
        /\ Requests(n, i, p)
        /\ \/ Body(n)[i].do = "client"
           \/ \E k \in (i + 1)..(p - 1) : Body(n)[k].do = "acknowledged"

\* v2 has a context for the stream.
Configured(n, p) ==
    \E i \in 1..(p - 1) : Body(n)[i].do = "context" /\ NoneBetween(n, i, p, {"restore"})

\* Step i is what is in the line before step p, and has left the caches.
Written(n, i, p, line) ==
    /\ i \in 1..(p - 1)
    /\ Body(n)[i].do = "store" /\ Body(n)[i].line = line
    /\ NoneBetween(n, i, p, Unsettling)
    /\ \A r \in (i + 1)..(p - 1) : Body(n)[r].do = "store" => Body(n)[r].line # line
Cleaned(n, i, p, line) ==
    /\ Written(n, i, p, line)
    /\ \E k \in (i + 1)..(p - 1) : Body(n)[k].do = "clean" /\ Body(n)[k].line = line

StartsFrom(n, p) == \E k \in p..Len(Body(n)) : Body(n)[k].do = "start"

\* A copy starts on an SMMU that is known to be enabled and to have a context.
\* The next step waits for it, and if it waits for data, these are not there yet.
StartsSafely(n, p) ==
    LET next == Body(n)[p + 1]
    IN  /\ p < Len(Body(n))
        /\ Enabled(n, p)
        /\ n[1] = "v2" => Configured(n, p) /\ Body(n)[p].sid \in SidsOf(n)
        /\ next.do \in {"poll", "engine"}
        /\ next.do = "poll" =>
              \A l \in DOMAIN next.wanted :
                  /\ l \in Lines \ {"events"}
                  /\ \E i \in 1..(p - 1) :
                        Cleaned(n, i, p, l) /\ Body(n)[i].value \notin next.wanted[l]

TableValues == {"zero", "destination", "alternate"}

IsDisciplined(n) ==
    /\ Len(Body(n)) \in Nat
    /\ \A p \in 1..Len(Body(n)) :
          LET step == Body(n)[p]
          IN  /\ step.do = "start" => StartsSafely(n, p)
              /\ step.do = "store" /\ step.line = "tables" => step.value \in TableValues
              \* No copy starts after a branch that skips steps.
              /\ step.do = "observe" => step.over \in Nat /\ ~StartsFrom(n, p + 1 + step.over)
              /\ step.do = "engine" => step.events \in Nat /\ ~StartsFrom(n, p + 1)

ASSUME DisciplineAssumption == \A n \in Names : IsDisciplined(n)
=============================================================================
