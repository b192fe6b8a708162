----------------------------- MODULE RunContract ----------------------------
(***************************************************************************)
(* What the asynchronous interface promises of ONE run, without saying how *)
(* workers, leases and attempts bring it about.  The run is accepted once; *)
(* it can be canceled until its publication is decided; it ends once; a    *)
(* completed run has a published result, a canceled one never has; one     *)
(* event announces its end.  The sink may receive the result of a run that *)
(* failed after the decision: the promise does not exclude it.             *)
(***************************************************************************)

VARIABLES phase,      \* the status a request shows
          decided,    \* publication began: completion beats cancellation
          published,  \* the result sink holds a result of the run
          event       \* the status that the callback event reports

contractVars == <<phase, decided, published, event>>

Ended == {"completed", "failed", "canceled"}

ContractInit ==
  /\ phase = "absent"
  /\ ~decided
  /\ ~published
  /\ event = "none"

Accept ==
  /\ phase = "absent"
  /\ phase' = "queued"
  /\ UNCHANGED <<decided, published, event>>

Begin ==
  /\ phase = "queued"
  /\ phase' = "running"
  /\ UNCHANGED <<decided, published, event>>

Decide ==
  /\ phase = "running"
  /\ decided' = TRUE
  /\ UNCHANGED <<phase, published, event>>

Publish ==
  /\ (phase = "running" /\ decided) \/ phase = "failed"
  /\ published' = TRUE
  /\ UNCHANGED <<phase, decided, event>>

(* The run ends in "status"; a run with a callback address is announced in *)
(* the same step.                                                          *)
EndIn(status) ==
  /\ phase' = status
  /\ event' \in {event, status}
  /\ UNCHANGED published

Complete ==
  /\ phase = "running"
  /\ decided
  /\ published
  /\ EndIn("completed")
  /\ UNCHANGED decided

Fail ==
  /\ phase = "running"
  /\ EndIn("failed")
  /\ decided' = FALSE

Cancel ==
  /\ phase \in {"queued", "running"}
  /\ ~decided
  /\ ~published
  /\ EndIn("canceled")
  /\ UNCHANGED decided

(* A replayed submission brings the callback address after the end. *)
Announce ==
  /\ phase \in Ended
  /\ event = "none"
  /\ event' = phase
  /\ UNCHANGED <<phase, decided, published>>

ContractNext ==
  \/ Accept \/ Begin \/ Decide \/ Publish
  \/ Complete \/ Fail \/ Cancel \/ Announce

(* A step of a system with many runs: this one moves or is left alone. *)
ContractStep == ContractNext \/ UNCHANGED contractVars

ContractSpec == ContractInit /\ [][ContractNext]_contractVars
=============================================================================
