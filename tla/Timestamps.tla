----------------------------- MODULE Timestamps -----------------------------
(* The device's timestamps: unsigned, in microseconds, modulo Wrap = 2^32. *)
EXTENDS Integers

CONSTANT Wrap

ASSUME WrapAssumption == Wrap \in Nat /\ Wrap > 0

(* static_cast<std::int32_t>(a - b) *)
SignedDelta(a, b) ==
  LET delta == (a - b) % Wrap
  IN  IF 2 * delta >= Wrap THEN delta - Wrap ELSE delta

(* device_timestamp_distance *)
Distance(a, b) ==
  LET delta == SignedDelta(a, b) IN IF delta < 0 THEN -delta ELSE delta

=============================================================================
