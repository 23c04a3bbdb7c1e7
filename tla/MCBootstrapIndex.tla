-------------------------- MODULE MCBootstrapIndex --------------------------
(***************************************************************************)
(* Small instances of BootstrapIndex.                                      *)
(***************************************************************************)
EXTENDS BootstrapIndex, TLC
=============================================================================
