------------------------ MODULE MCTransportScheduler ------------------------
(* Small instances of TransportScheduler for TLC.                          *)
EXTENDS TransportScheduler, TLC

(* Calls and devices are interchangeable.                                  *)
Symmetry == Permutations(Calls) \cup Permutations(Devices)
=============================================================================
