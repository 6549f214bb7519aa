------------------------------ MODULE FailOver ------------------------------
(***************************************************************************)
(* One query of the fail_over resolver driver (FailOverResolverJob): the   *)
(* primary resolver is given fallback_delay, then the two resolvers race.  *)
(***************************************************************************)

CONSTANT RetryEmpty   \* config.retry_empty_record

VARIABLES
  phase,    \* where resolve() is: "rest" awaits the job named by waits
  ans,      \* what each resolver has answered
  waits,    \* the job awaited at "rest"
  kept,     \* the job whose trash record is kept meanwhile
  late,     \* fallback_delay is over
  by, result

vars == <<phase, ans, waits, kept, late, by, result>>

Jobs == {"primary", "standby"}
Other(j) == IF j = "primary" THEN "standby" ELSE "primary"

\* A record with addresses, without one or of an error, from the server or the
\* cache; a record past its expiry, which always has addresses (record.rs: only
\* resolved() sets vanish); or the end of the resolver.
Records == {"usable", "empty", "error", "trash", "closed"}
Absent == {"nojob", "pending"}

is_usable(r) == r = "usable"
is_ok(r) == r \in {"usable", "empty"}

record_is_valid(r) == IF RetryEmpty THEN is_usable(r) ELSE is_ok(r)

Return(j, r) == phase' = "done" /\ by' = j /\ result' = r

\* normalize_job_recv_result: the end of a resolver becomes an error record
NormalizedRecord(r) == IF r = "closed" THEN "error" ELSE r

-----------------------------------------------------------------------------

Answer(j) ==
  /\ phase # "done" /\ ans[j] = "pending"
  /\ \E r \in Records : ans' = [ans EXCEPT ![j] = r]
  /\ UNCHANGED <<phase, waits, kept, late, by, result>>

\* query_v4: a resolver that is not running gives no job
Start ==
  /\ phase = "start"
  /\ \E js \in SUBSET Jobs :
       /\ ans' = [j \in Jobs |-> IF j \in js THEN "pending" ELSE "nojob"]
       /\ \/ js = Jobs /\ phase' = "first" /\ UNCHANGED <<waits, by, result>>
          \/ \E j \in Jobs : js = {j} /\ phase' = "rest" /\ waits' = j /\ UNCHANGED <<by, result>>
          \/ js = {} /\ Return("local", "error") /\ UNCHANGED waits
  /\ UNCHANGED <<kept, late>>

SettleAtOnce(j) == Return(j, NormalizedRecord(ans[j])) /\ UNCHANGED <<ans, waits, kept, late>>

\* a job has answered while the other one may still be used
Settle(j) ==
  /\ \/ /\ record_is_valid(ans[j])
        /\ Return(j, ans[j])
        /\ UNCHANGED <<waits, kept>>
     \/ /\ ~record_is_valid(ans[j])
        /\ phase' = "rest" /\ waits' = Other(j)
        /\ kept' = IF ans[j] = "trash" THEN j ELSE "none"
        /\ UNCHANGED <<by, result>>
  /\ UNCHANGED <<ans, late>>

RecvFirst ==
  /\ phase = "first" /\ ans["primary"] \notin Absent
  /\ Settle("primary")

\* tokio::time::timeout looks at the job first
FallbackDelay ==
  /\ phase = "first" /\ ans["primary"] = "pending"
  /\ phase' = "race" /\ late' = TRUE
  /\ UNCHANGED <<ans, waits, kept, by, result>>

\* the select is biased
RecvRace(j) ==
  /\ phase = "race" /\ ans[j] \notin Absent
  /\ j = "standby" => ans["primary"] = "pending"
  /\ Settle(j)

\* select_trash_usable when a trash record is kept
RecvRest ==
  /\ phase = "rest" /\ ans[waits] \notin Absent
  /\ \/ kept # "none" /\ ~is_usable(ans[waits]) /\ Return(kept, ans[kept])
     \/ /\ kept # "none" => is_usable(ans[waits])
        /\ Return(waits, NormalizedRecord(ans[waits]))
  /\ UNCHANGED <<ans, waits, kept, late>>

\* resolve_protective, looked at when resolve() is waiting
Protect ==
  /\ \/ phase = "first" /\ ans["primary"] = "pending"
     \/ phase = "race" /\ \A j \in Jobs : ans[j] = "pending"
     \/ phase = "rest" /\ ans[waits] = "pending"
  /\ Return("local", "error")
  /\ UNCHANGED <<ans, waits, kept, late>>

Init ==
  /\ phase = "start" /\ ans = [j \in Jobs |-> "nojob"]
  /\ waits = "none" /\ kept = "none" /\ late = FALSE /\ by = "none" /\ result = "none"

Driver == Start \/ RecvFirst \/ FallbackDelay \/ RecvRest \/ Protect \/ \E j \in Jobs : RecvRace(j)

Next == Driver \/ \E j \in Jobs : Answer(j)

Spec == Init /\ [][Next]_vars

\* Fairness: the timers fire and tokio polls a job that was woken; nothing is
\* assumed of the two resolvers.
FairSpec == Spec /\ WF_vars(Driver)

-----------------------------------------------------------------------------
(* Properties *)

Success(r) == record_is_valid(r) \/ r = "trash"

\* Types.
TypeOK ==
  /\ phase \in {"start", "first", "race", "rest", "done"}
  /\ ans \in [Jobs -> Records \cup Absent]
  /\ waits \in Jobs \cup {"none"} /\ kept \in Jobs \cup {"none"}
  /\ late \in BOOLEAN
  /\ by \in Jobs \cup {"none", "local"}
  /\ result \in (Records \ {"closed"}) \cup {"none"}

\* resolve() returns the failure of a resolver only when every resolver asked has
\* answered and no answer was a success.
ErrorMeansNoSuccess ==
  by \in Jobs /\ ~Success(result) =>
    \A j \in Jobs : ans[j] # "pending" /\ ~Success(ans[j])

\* resolve_protective returns its error although a stale record may be kept, but
\* never after a fresh valid answer was there to be received: that of the primary
\* ends resolve() at once, that of the standby once fallback_delay is over.
TimeoutLosesNoFresh ==
  by = "local" =>
    ~record_is_valid(ans["primary"]) /\ (late => ~record_is_valid(ans["standby"]))

\* A stale record is used only when neither resolver had a fresh usable one.
StaleLast ==
  by \in Jobs /\ result = "trash" => \A j \in Jobs : ~is_usable(ans[j])

\* "The success result of the primary resolver will always be used before the
\* timeout."  It does NOT hold of the code: a record from the trash is a success
\* too, and the standby is awaited first.
PrimarySuccessUsed ==
  phase = "done" /\ ~late /\ Success(ans["primary"]) => by = "primary"

\* A query ends although no resolver ever answers.
QueryEnds == <>(phase = "done")

=============================================================================
