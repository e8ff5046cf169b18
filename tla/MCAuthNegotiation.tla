-------------------------- MODULE MCAuthNegotiation --------------------------
(* AuthNegotiation and UserToken on a small instance: two services, clocks  *)
(* that agree, differ within the tolerance, and differ beyond what a device *)
(* forgives.                                                                *)
EXTENDS UserToken

MCSkew == {-3, 0, 1}
==============================================================================
