----------------------------- MODULE MCTurnGate -----------------------------
(* A small instance of the turn gate: a lead session with one child session. *)
EXTENDS TurnGate

CONSTANTS lead, child

MCSessions == {lead, child}
MCChildOf(s) == IF s = lead THEN {child} ELSE {}
MCCauses == {"user_cancel", "handoff"}
=============================================================================
