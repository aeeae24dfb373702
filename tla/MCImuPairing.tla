---------------------------- MODULE MCImuPairing ----------------------------
(* A tolerance for the pairing of IMU samples. *)
EXTENDS ImuPairing

EachOne == [topic \in Topics |-> 1]

=============================================================================
