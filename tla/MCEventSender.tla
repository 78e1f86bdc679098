--------------------------- MODULE MCEventSender ---------------------------
(* Small instances of EventSender for TLC; the bounds are in the cfg files. *)
EXTENDS EventSender, TLC
=============================================================================
