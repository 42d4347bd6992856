-------------------------- MODULE MCCircuitBreaker ---------------------------
(* CircuitBreaker for TLC: the constants are given values in circuit.cfg.   *)
EXTENDS CircuitBreaker
=============================================================================
