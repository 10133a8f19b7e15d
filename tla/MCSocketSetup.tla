--------------------------- MODULE MCSocketSetup ----------------------------
(* Model-checking instance of SocketSetup: daemons that start more than once. *)
EXTENDS SocketSetup

CONSTANTS p1, p2, p3

TwoProcs == {p1, p2}
ThreeProcs == {p1, p2, p3}
=============================================================================
