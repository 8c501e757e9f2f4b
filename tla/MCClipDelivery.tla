--------------------------- MODULE MCClipDelivery ---------------------------
(* Instances of ClipDelivery for TLC: the bounds are given in the configuration. *)
EXTENDS ClipDelivery
=============================================================================
