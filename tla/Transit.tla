------------------------------ MODULE Transit -------------------------------
(***************************************************************************)
(* The relay task of g3proxy (StreamTransitTask): one copy from the client *)
(* to the upstream (north), one back (south), the idle check, a user that  *)
(* may be blocked and a server that may be told to quit.  The task first   *)
(* relays both ways; when one side has closed, its writer is shut down and *)
(* the other direction goes on alone (transit_north, transit_south).       *)
(*                                                                         *)
(* Each copy is an instance of BytePipe, which StreamCopy implements.  A   *)
(* step is one ready branch of the select.                                 *)
(***************************************************************************)
EXTENDS Naturals, Sequences

CONSTANTS
  Size,       \* bytes that fit into the buffer of a copy, at least 1
  MaxIdle,    \* max_idle_count
  Total       \* bound: bytes that each side sends

VARIABLES
  nsent, neof, ntaken, nout, nactive, nstate,   \* clt_to_ups
  ssent, seof, staken, sout, sactive, sstate,   \* ups_to_clt
  phase,       \* where the task is
  idle_count,
  result,      \* how it ended
  blocked,     \* user.is_blocked()
  force_quit,  \* quit_policy().force_quit()
  quiet        \* ticks since a direction last moved a byte, the start being a tick

nvars == <<nsent, neof, ntaken, nout, nactive, nstate>>
svars == <<ssent, seof, staken, sout, sactive, sstate>>
task == <<phase, idle_count, result>>
vars == <<nvars, svars, task, blocked, force_quit, quiet>>

N == INSTANCE BytePipe WITH sent <- nsent, eof <- neof, taken <- ntaken, out <- nout,
       active <- nactive, state <- nstate
S == INSTANCE BytePipe WITH sent <- ssent, eof <- seof, taken <- staken, out <- sout,
       active <- sactive, state <- sstate

\* "shut_north" is the await of clt_to_ups.writer().shutdown(), "flush_north"
\* that of clt_to_ups.write_flush()
Phases == {"both", "north", "south", "shut_north", "shut_south", "flush_north", "flush_south", "end"}
Relays == {"both", "north", "south"}
Errors == {"ClientTcpReadFailed", "UpstreamWriteFailed", "UpstreamReadFailed",
           "ClientTcpWriteFailed", "Idle", "CanceledAsUserBlocked", "CanceledAsServerQuit"}
Directions == {"north", "south"}

Relaying(d) == phase \in {"both", d}

Moved(d) == quiet' = [quiet EXCEPT ![d] = 0]

End(r) == phase' = "end" /\ result' = r

-----------------------------------------------------------------------------
(* The two sides, the operator and the server *)

Peers ==
  \/ (N!Send \/ N!Close) /\ UNCHANGED <<svars, task, blocked, force_quit, quiet>>
  \/ (S!Send \/ S!Close) /\ UNCHANGED <<nvars, task, blocked, force_quit, quiet>>

BlockUser ==
  /\ ~blocked /\ blocked' = TRUE
  /\ UNCHANGED <<nvars, svars, task, force_quit, quiet>>

\* ServerQuitPolicy::set_force_quit
SetForceQuit ==
  /\ ~force_quit /\ force_quit' = TRUE
  /\ UNCHANGED <<nvars, svars, task, blocked, quiet>>

-----------------------------------------------------------------------------
(* The copies make progress when the select polls them *)

RelayNorth ==
  /\ Relaying("north")
  /\ \E n \in 1..Size : N!Take(n) \/ N!Give(n)
  /\ Moved("north")
  /\ UNCHANGED <<svars, task, blocked, force_quit>>

RelaySouth ==
  /\ Relaying("south")
  /\ \E n \in 1..Size : S!Take(n) \/ S!Give(n)
  /\ Moved("south")
  /\ UNCHANGED <<nvars, task, blocked, force_quit>>

\* A copy ends well: shut its writer down
FinishNorth ==
  /\ Relaying("north")
  /\ N!Finish
  /\ phase' = "shut_north"
  /\ UNCHANGED <<svars, idle_count, result, blocked, force_quit, quiet>>

FinishSouth ==
  /\ Relaying("south")
  /\ S!Finish
  /\ phase' = "shut_south"
  /\ UNCHANGED <<nvars, idle_count, result, blocked, force_quit, quiet>>

\* The shutdown is over, well or not: relay the other way, or end
ShutNorth ==
  /\ phase = "shut_north"
  /\ IF sstate = "ok"
     THEN End("ok")
     ELSE phase' = "south" /\ result' = result
  /\ UNCHANGED <<nvars, svars, idle_count, blocked, force_quit, quiet>>

ShutSouth ==
  /\ phase = "shut_south"
  /\ IF nstate = "ok"
     THEN End("ok")
     ELSE phase' = "north" /\ result' = result
  /\ UNCHANGED <<nvars, svars, idle_count, blocked, force_quit, quiet>>

\* A copy fails.  If its writer did while both ways are relayed, what the
\* other way holds is still handed out.
FailNorth ==
  /\ Relaying("north")
  /\ N!Fail
  /\ result' = IF nstate' = "readfail" THEN "ClientTcpReadFailed" ELSE "UpstreamWriteFailed"
  /\ IF phase = "both" /\ nstate' = "writefail"
     THEN phase' = "flush_south" /\ S!StartFlush
     ELSE phase' = "end" /\ UNCHANGED svars
  /\ UNCHANGED <<idle_count, blocked, force_quit, quiet>>

FailSouth ==
  /\ Relaying("south")
  /\ S!Fail
  /\ result' = IF sstate' = "readfail" THEN "UpstreamReadFailed" ELSE "ClientTcpWriteFailed"
  /\ IF phase = "both" /\ sstate' = "writefail"
     THEN phase' = "flush_north" /\ N!StartFlush
     ELSE phase' = "end" /\ UNCHANGED nvars
  /\ UNCHANGED <<idle_count, blocked, force_quit, quiet>>

FlushSouth ==
  /\ phase = "flush_south"
  /\ \/ /\ \E n \in 1..Size : S!Drain(n)
        /\ UNCHANGED task
     \/ /\ Len(sout) = staken
        /\ phase' = "end"
        /\ UNCHANGED <<svars, idle_count, result>>
  /\ UNCHANGED <<nvars, blocked, force_quit, quiet>>

FlushNorth ==
  /\ phase = "flush_north"
  /\ \/ /\ \E n \in 1..Size : N!Drain(n)
        /\ UNCHANGED task
     \/ /\ Len(nout) = ntaken
        /\ phase' = "end"
        /\ UNCHANGED <<nvars, idle_count, result>>
  /\ UNCHANGED <<svars, blocked, force_quit, quiet>>

FlushFails ==
  /\ \/ phase = "flush_south" /\ sstate' = "writefail" /\ nstate' = nstate
     \/ phase = "flush_north" /\ nstate' = "writefail" /\ sstate' = sstate
  /\ phase' = "end"
  /\ UNCHANGED <<nsent, neof, ntaken, nout, nactive, ssent, seof, staken, sout, sactive,
                 idle_count, result, blocked, force_quit, quiet>>

-----------------------------------------------------------------------------
(* The idle check *)

IsIdle == (Relaying("north") => ~nactive) /\ (Relaying("south") => ~sactive)

CountIdleKept == idle_count' = IF IsIdle THEN idle_count + 1 ELSE idle_count

CountIdle == idle_count' = IF IsIdle THEN idle_count + 1 ELSE 0

ResetActiveNever == UNCHANGED <<nactive, sactive>>

\* reset_active of the copies that are relayed, unless they are idle anyway
ResetActive ==
  /\ nactive' = (nactive /\ (IsIdle \/ ~Relaying("north")))
  /\ sactive' = (sactive /\ (IsIdle \/ ~Relaying("south")))

Verdict ==
  IF blocked THEN End("CanceledAsUserBlocked")
  ELSE IF IsIdle /\ idle_count' >= MaxIdle THEN End("Idle")
  ELSE IF force_quit THEN End("CanceledAsServerQuit")
  ELSE UNCHANGED <<phase, result>>

Tick ==
  /\ phase \in Relays
  /\ CountIdle /\ ResetActive /\ Verdict
  /\ quiet' = [d \in Directions |-> IF quiet[d] <= MaxIdle THEN quiet[d] + 1 ELSE quiet[d]]
  /\ UNCHANGED <<nsent, neof, ntaken, nout, nstate, ssent, seof, staken, sout, sstate,
                 blocked, force_quit>>

-----------------------------------------------------------------------------

Init ==
  /\ N!PInit /\ S!PInit
  /\ phase = "both" /\ idle_count = 0 /\ result = "none"
  /\ blocked = FALSE /\ force_quit = FALSE
  /\ quiet = [d \in Directions |-> 1]

Task ==
  \/ RelayNorth \/ RelaySouth \/ FinishNorth \/ FinishSouth \/ ShutNorth \/ ShutSouth
  \/ FailNorth \/ FailSouth \/ FlushSouth \/ FlushNorth \/ FlushFails \/ Tick

Next == Peers \/ BlockUser \/ SetForceQuit \/ Task

Spec == Init /\ [][Next]_vars

\* The timer ticks, and the far ends read what write_flush and shutdown hand out
Scheduled == Tick \/ ShutNorth \/ ShutSouth \/ FlushNorth \/ FlushSouth

FairSpec == Spec /\ WF_vars(Scheduled)

-----------------------------------------------------------------------------
(* Properties *)

\* The phase of the task fits the states of its two copies: a direction is
\* relayed only while its copy runs, and handed out only after the other failed.
TypeOK ==
  /\ phase \in Phases /\ idle_count \in 0..(MaxIdle + 1)
  /\ result \in {"none", "ok"} \cup Errors
  /\ phase = "end" => result # "none"
  /\ blocked \in BOOLEAN /\ force_quit \in BOOLEAN
  /\ quiet \in [Directions -> 0..(MaxIdle + 1)]
  /\ nactive \in BOOLEAN /\ sactive \in BOOLEAN
  /\ Relaying("north") => nstate = "run"
  /\ Relaying("south") => sstate = "run"
  /\ phase = "north" => sstate = "ok"
  /\ phase = "south" => nstate = "ok"

\* A task that ends well has relayed all that either side sent before it
\* closed (transit_north and transit_south after the first end of stream).
OkMeansAll ==
  result = "ok" => neof /\ seof /\ Len(nout) = nsent /\ Len(sout) = ssent

\* A task that is closed as idle has not moved a byte for MaxIdle whole check
\* intervals in any direction that it still relayed (the idle check of the three loops, and the
\* count that a half-closed task takes over).
IdleMeansQuiet ==
  result = "Idle" =>
    /\ nstate = "run" => quiet["north"] > MaxIdle
    /\ sstate = "run" => quiet["south"] > MaxIdle

\* When one side can no longer be written to, what was already read from it
\* still reaches the other side, unless that cannot be written to either.
RestHandedOut ==
  phase = "end" =>
    /\ result = "UpstreamWriteFailed" => sstate = "writefail" \/ Len(sout) = staken
    /\ result = "ClientTcpWriteFailed" => nstate = "writefail" \/ Len(nout) = ntaken

\* What the result of the task says is true of what was relayed, whichever loop
\* ended it.
Outcome == TypeOK /\ OkMeansAll /\ IdleMeansQuiet /\ RestHandedOut

\* Whatever the two sides do, the task ends once they fall silent: the idle
\* check, the quit policy or the end of the streams closes it.
TaskEnds == <>(phase = "end")
=============================================================================
