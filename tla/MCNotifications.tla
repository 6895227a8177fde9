--------------------------- MODULE MCNotifications ---------------------------
(* Notifications on small instances: the channel holds fewer notifications *)
(* than the extensions emit, so that it fills up as 64 does in a long run. *)
EXTENDS Notifications
=============================================================================
