------------------------------ MODULE MCAdapter ------------------------------
(* The adapter on a small boot.                                             *)
EXTENDS Adapter
=============================================================================
