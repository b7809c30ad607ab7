------------------------------ MODULE MCSidecar ------------------------------
(* Instances of Sidecar for TLC. *)
EXTENDS Sidecar

CONSTANTS s1, s2, u1

MCScanners  == {s1, s2}
MCUploaders == {u1}

=============================================================================
