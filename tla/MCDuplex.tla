------------------------------ MODULE MCDuplex -------------------------------
(* Duplex on small instances.                                              *)
EXTENDS Duplex
=============================================================================
