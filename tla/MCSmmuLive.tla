----------------------------- MODULE MCSmmuLive -----------------------------
\* The module has no constants of its own: its bounds are its scripts.
EXTENDS SmmuOutline, FiniteSetsExt, SequencesExt

SheetsOf(n) ==
    LET Onward(sheets, p) ==
            IF p \in DOMAIN sheets /\ Body(n)[p].do \notin Ending
            THEN (Onto(p, sheets[p], Body(n)[p]) :> After(n, sheets[p], Body(n)[p])) @@ sheets
            ELSE sheets
    IN  FoldLeft(Onward, 1 :> FirstSheet, [p \in DOMAIN Body(n) |-> p])
\* TLC evaluates the first of these once, and reads the second often.
AllSheets == [n \in Names |-> SheetsOf(n)] @@ <<>>
MCSheets == AllSheets
=============================================================================
