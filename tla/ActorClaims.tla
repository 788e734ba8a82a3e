----------------------------- MODULE ActorClaims -----------------------------
(***************************************************************************)
(* The durable claim row of a resident actor                               *)
(* (crates/hya-store/src/resident_claim.rs).  An epoch names one           *)
(* incarnation of the actor.  Whoever writes for the actor presents the    *)
(* epoch and the run it was claimed under, and the transaction is refused  *)
(* unless both still stand in an active row.                               *)
(***************************************************************************)
EXTENDS Integers

CONSTANTS
    Actors,     \* resident actors
    MaxEpoch,   \* bound: last epoch handed out (the code stops at 2^63 - 1)
    MaxRuns     \* bound: number of processes that open the store in turn

ASSUME EpochAssumption == MaxEpoch \in Nat
ASSUME RunsAssumption == MaxRuns \in Nat \ {0}

VARIABLES
    claim,      \* actor -> its resident_actor_claim row
    run         \* owner_run_id of the running process

\* A missing row is one that was never claimed: epoch 0.
Claim == [epoch : 0..MaxEpoch, owner : 0..MaxRuns, state : {"none", "active", "released"}]

Active(a) == claim[a].state = "active"

\* MUTANT: the fence compares the owner and the state, not the epoch.
Fenced_anyEpoch(a, e) == Active(a) /\ claim[a].owner = run

\* fence_actor_claim: the transaction goes on for exactly the current capability.
Fenced(a, e) == claim[a] = [epoch |-> e, owner |-> run, state |-> "active"]

\* try_claim_new: a never-claimed or a released actor, under a new epoch.
TryClaimNew(a) ==
    /\ ~Active(a)
    /\ claim[a].epoch < MaxEpoch
    /\ claim' = [claim EXCEPT ![a] = [epoch |-> @.epoch + 1, owner |-> run, state |-> "active"]]

\* recover_claim: an active actor is taken over under a new epoch.
RecoverClaim(a) ==
    /\ Active(a)
    /\ claim[a].epoch < MaxEpoch
    /\ claim' = [claim EXCEPT ![a] = [epoch |-> @.epoch + 1, owner |-> run, state |-> "active"]]

\* The release of the current capability.
SetReleased(a) == claim' = [claim EXCEPT ![a] = [@ EXCEPT !.state = "released"]]
===============================================================================
