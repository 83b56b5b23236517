------------------------------- MODULE MCBoot -------------------------------
(* A profile of two ordinary tests (a, b) and a destructive one (c).        *)
EXTENDS Boot

CONSTANTS a, b, c

MCTests == {a, b, c}
MCCatalog == <<a, c, b>>
MCSequential == {a, b}
MCDestructive == {c}
\* Lines come from the relay: no line is written at will.
NoOutput == {}
=============================================================================
