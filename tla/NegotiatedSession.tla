-------------------------- MODULE NegotiatedSession --------------------------
(***************************************************************************)
(* What the password-type negotiation of a DUT session promises, without   *)
(* saying how it gets there.  A session starts undecided, learns from the  *)
(* device, and only from it, which types it refuses, may expose the        *)
(* password in cleartext (the weak type) only where the mode allows it and *)
(* only once the strong type, if it is allowed at all, was refused, and    *)
(* decides at most once, for a type the device takes at that moment.       *)
(* AuthNegotiation implements this specification.                          *)
(***************************************************************************)
CONSTANTS Strong, Weak   \* the two password types, as the reports name them

VARIABLES
  allowed,   \* the password types the requested mode permits
  takes,     \* the types the device would accept from this client now
  refused,   \* the types it refused, less those it accepted later
  exposed,   \* has the password been on the wire in cleartext?
  verdict    \* the set of types the session settled on: at most one

vars == <<allowed, takes, refused, exposed, verdict>>

Init ==
  /\ allowed \in SUBSET {Strong, Weak}
  /\ takes \in SUBSET {Strong, Weak}
  /\ refused = {}
  /\ exposed = FALSE
  /\ verdict = {}

\* A type is sent: never a weaker one than has to be.
Send(t) ==
  /\ verdict = {}
  /\ t \in allowed
  /\ t = Weak /\ Strong \in allowed => Strong \in refused
  /\ exposed' = (exposed \/ t = Weak)
  /\ UNCHANGED <<allowed, takes>>

Refuse(t) ==
  /\ Send(t)
  /\ t \notin takes
  /\ refused' = refused \cup {t}
  /\ UNCHANGED verdict

\* The exchange was lost and says nothing about the device.
Lose(t) == Send(t) /\ UNCHANGED <<refused, verdict>>

Decide(t) ==
  /\ Send(t)
  /\ t \in takes
  /\ verdict' = {t}
  /\ refused' = refused \ {t}

\* The device's clock, or what this client believes of it, changes.
Drift ==
  /\ takes' \in SUBSET {Strong, Weak}
  /\ UNCHANGED <<allowed, refused, exposed, verdict>>

Next ==
  \/ \E t \in {Strong, Weak} : Refuse(t) \/ Lose(t) \/ Decide(t)
  \/ Drift

Spec == Init /\ [][Next]_vars
==============================================================================
