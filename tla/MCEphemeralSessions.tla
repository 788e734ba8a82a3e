-------------------------- MODULE MCEphemeralSessions --------------------------
(* A small instance of EphemeralSessions: one root session. *)
EXTENDS EphemeralSessions

CONSTANT root
MCParent(s) == NoSession
===============================================================================
