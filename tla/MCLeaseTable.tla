---------------------------- MODULE MCLeaseTable ----------------------------
(* Model-checking instance of LeaseTable: more ids than slots, so that slots  *)
(* are reused while receivers of earlier leases are still alive.              *)
EXTENDS LeaseTable

CONSTANTS a, b, c, s1, s2

MCIds == {a, b, c}
MCSlots == {s1, s2}
=============================================================================
