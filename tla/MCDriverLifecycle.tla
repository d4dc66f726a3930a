-------------------------- MODULE MCDriverLifecycle --------------------------
(* DriverLifecycle with two volumes the filter attaches to and one it does *)
(* not, and a process that connects and disconnects at will.               *)
EXTENDS DriverLifecycle

CONSTANTS a, v1, v2, readOnly, t1, m

MCMessage == {m}
=============================================================================
