--------------------------- MODULE MCZmsgReceive ---------------------------
(* A small instance of ZmsgReceive for TLC.                                *)
EXTENDS ZmsgReceive
=============================================================================
