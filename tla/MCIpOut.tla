------------------------------- MODULE MCIpOut -------------------------------
(* Instances of IpOut for TLC: MaxConnections is given in the configurations. *)
EXTENDS IpOut
=============================================================================
