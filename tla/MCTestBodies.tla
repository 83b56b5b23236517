---------------------------- MODULE MCTestBodies ----------------------------
(* Every body on every PE, and every body after every other one.  The       *)
(* outline is found by running each body on the fullest TLBs there are.     *)
EXTENDS BodyOutline

\* The places of a body that begins with a TLB.
Places(b, tlb) ==
    LET Onward(places, s) ==
            LET all == Outcomes(Last(places).m, Last(places).owned, s)
                one == CHOOSE r \in all : TRUE
            IN  Append(places, [m |-> WithTlb(one.m, UNION {r.m.tlb : r \in all}),
                                owned |-> one.owned])
    IN  FoldLeft(Onward, <<[m |-> Machine(tlb, "nothing"), owned |-> Nothing]>>, Bodies[b])

\* With @@, TLC makes a table of it.
OutlineFrom(tlb) == [b \in DOMAIN Bodies |-> Places(b, tlb)] @@ <<>>

\* What the bodies leave that begin with empty TLBs: the assumption checks that
\* those that begin with all of this leave nothing more.
MCLeftover ==
    LET outline == OutlineFrom({})
    IN  UNION {Dropped(Last(outline[b]).m).tlb : b \in DOMAIN Bodies}
MCOutline == OutlineFrom(MCLeftover)
=============================================================================
