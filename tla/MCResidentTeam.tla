--------------------------- MODULE MCResidentTeam ---------------------------
(***************************************************************************)
(* The lead alone, one member alone, and the two together, each with its   *)
(* bounds on mails, acts of the user and faults.                           *)
(***************************************************************************)
EXTENDS ResidentTeam

Scenario(lead, members, mails, a, f) ==
  [lead |-> lead, members |-> members, mail |-> mails, acts |-> a, faults |-> f]

MCScenarios == {Scenario(TRUE, {}, 2, 1, 1), Scenario(TRUE, {}, 1, 2, 1),
                Scenario(FALSE, Members, 1, 2, 0), Scenario(FALSE, Members, 1, 1, 1),
                Scenario(TRUE, Members, 0, 1, 0), Scenario(TRUE, Members, 0, 0, 1)}

\* A report and one mail.
MCReport == {Scenario(FALSE, Members, 1, 0, 0)}
=============================================================================
