--------------------------- MODULE MCEventLimits ---------------------------
(* Instances of EventLimits for TLC.  Reservations and addresses are interchangeable. *)
EXTENDS EventLimits, TLC

Symmetry == Permutations(Reservation) \cup Permutations(Address)
=============================================================================
