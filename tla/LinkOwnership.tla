--------------------------- MODULE LinkOwnership ---------------------------
(***************************************************************************)
(* What SbgDriverNode promises about the connection to the device, without *)
(* saying how: the link is closed, or open and free, or held by exactly    *)
(* one of two owners - a request/response command of the executor, or the  *)
(* streaming workers (the polling thread and the RTCM writer together).    *)
(* Ownership is never handed over directly: the link is free in between,   *)
(* and it is opened and closed only while nobody holds it.                 *)
(***************************************************************************)

VARIABLE owner

Move(from, to) == owner = from /\ owner' = to

Open         == Move("closed", "free")
Close        == Move("free", "closed")
BeginCommand == Move("free", "command")
EndCommand   == Move("command", "free")
StartStream  == Move("free", "stream")
StopStream   == Move("stream", "free")

Init == owner = "closed"

Next ==
    \/ Open
    \/ Close
    \/ BeginCommand
    \/ EndCommand
    \/ StartStream
    \/ StopStream

Spec == Init /\ [][Next]_owner
=============================================================================
