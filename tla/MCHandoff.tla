------------------------------ MODULE MCHandoff ------------------------------
(***************************************************************************)
(* Bounds for the model-checking runs of Handoff: how many prompts, wakes  *)
(* of a main actor and of a member, restart handoffs, stops, crashes,      *)
(* startup passes that time out, store faults, Workflow runs and archives  *)
(* there are.                                                              *)
(***************************************************************************)
EXTENDS Handoff

Bounds(prompt, main, wake, handoff, stop, crash, timeout, fault, run,
       archive) ==
    [prompt |-> prompt, main |-> main, wake |-> wake, handoff |-> handoff,
     stop |-> stop, crash |-> crash, timeout |-> timeout, fault |-> fault,
     run |-> run, archive |-> archive]

\* Two restarts with a crash and a timed-out pass between them, next to a member.
LimitRestarts == Bounds(1, 0, 1, 2, 0, 1, 1, 0, 0, 0)
\* Two restarts, a drain, a store call that fails anywhere, a Workflow run, an
\* archive.
LimitFaults == Bounds(2, 0, 0, 2, 1, 0, 0, 1, 1, 1)
\* A restart, a drain and a crash, with a main actor that wakes at any time.
LimitLive == Bounds(1, 1, 0, 1, 1, 1, 0, 0, 0, 0)

\* One restart with a second prompt.
LimitPrompt == Bounds(2, 0, 0, 1, 0, 0, 0, 0, 0, 0)
==============================================================================
