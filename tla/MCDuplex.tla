------------------------------ MODULE MCDuplex ------------------------------
(* Model-checking instance of Duplex: the constants are numbers and are given *)
(* in the configuration.                                                      *)
EXTENDS Duplex
=============================================================================
