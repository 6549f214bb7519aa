------------------------------ MODULE MCRelay -------------------------------
(***************************************************************************)
(* Relaying bytes: a behaviour is one copy in one direction, in detail, or *)
(* one relay task with its two copies as the pipes they implement, as      *)
(* which says.                                                             *)
(***************************************************************************)
EXTENDS StreamCopy

CONSTANTS RelaySize, RelayTotal, MaxIdle

ASSUME RelayAssumption == RelaySize \in Nat /\ RelayTotal \in Nat /\ MaxIdle \in Nat

VARIABLES which,
  nsent, neof, ntaken, nout, nactive, nstate, ssent, seof, staken, sout, sactive, sstate,
  phase, idle_count, outcome, blocked, force_quit, quiet

T == INSTANCE Transit WITH Size <- RelaySize, Total <- RelayTotal, result <- outcome

tvars == <<nsent, neof, ntaken, nout, nactive, nstate, ssent, seof, staken, sout, sactive, sstate,
           phase, idle_count, outcome, blocked, force_quit, quiet>>

mcvars == <<vars, tvars, which>>

\* The part that does not run stays in one initial state
Inert ==
  /\ which = "transit" => preload = 0 /\ ~active
  /\ which = "copy" => nsent = 0 /\ ssent = 0 /\ ~nactive /\ ~sactive

MCInit == which \in {"copy", "transit"} /\ Init /\ T!Init /\ Inert

IsCopy == which = "copy" /\ UNCHANGED <<tvars, which>>

IsTransit == which = "transit" /\ UNCHANGED <<vars, which>>

MCNext == (IsCopy /\ Next) \/ (IsTransit /\ T!Next)

\* The fairness of StreamCopy and of Transit
MCSpec ==
  /\ MCInit /\ [][MCNext]_mcvars
  /\ WF_mcvars((IsCopy /\ Copy) \/ (IsTransit /\ T!Scheduled))
  /\ SF_mcvars(IsCopy /\ ReadReady) /\ SF_mcvars(IsCopy /\ WriteReady) /\ WF_mcvars(IsCopy /\ Consume)

\* Transit: what the result of a relay task says is true of what it relayed, whichever of its
\* loops ended it.
Outcome == T!Outcome

\* Transit: whatever the two sides do, the task ends once they fall silent.
TaskEnds == <>(which = "transit" => phase = "end")
=============================================================================
