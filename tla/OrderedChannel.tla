--------------------------- MODULE OrderedChannel ---------------------------
(***************************************************************************)
(* What RtcmWriter promises about the corrections it admits: they are      *)
(* handed to the device whole, once each and in the order of admission,    *)
(* until the channel is closed; what still waits then is never handed on.  *)
(***************************************************************************)
EXTENDS Naturals, Sequences

CONSTANT Items

VARIABLES
  accepted,  \* every item admitted so far, in order
  taken,     \* every item handed on so far, in order
  open

Init == accepted = <<>> /\ taken = <<>> /\ open = TRUE

Accept ==
  /\ open
  /\ \E item \in Items : accepted' = Append(accepted, item)
  /\ UNCHANGED <<taken, open>>

Take ==
  /\ open
  /\ Len(taken) < Len(accepted)
  /\ taken' = Append(taken, accepted[Len(taken) + 1])
  /\ UNCHANGED <<accepted, open>>

Close == open /\ open' = FALSE /\ UNCHANGED <<accepted, taken>>

Spec == Init /\ [][Accept \/ Take \/ Close]_<<accepted, taken, open>>
=============================================================================
