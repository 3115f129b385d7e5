---------------------------- MODULE MCOfdmRadio ----------------------------
(* A small instance of OfdmRadio for TLC.                                  *)
EXTENDS OfdmRadio
=============================================================================
