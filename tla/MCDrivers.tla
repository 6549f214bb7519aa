----------------------------- MODULE MCDrivers ------------------------------
(***************************************************************************)
(* The two drivers a resolver can be configured with, side by side: a      *)
(* behaviour is one query of the hickory driver or one of the fail_over    *)
(* driver, as which says.                                                  *)
(***************************************************************************)
EXTENDS Hickory

CONSTANT RetryEmpty

VARIABLES which, phase, ans, waits, kept, late, by, answer

F == INSTANCE FailOver WITH result <- answer

fvars == <<phase, ans, waits, kept, late, by, answer>>

mcvars == <<vars, fvars, which>>

MCInit == which \in {"hickory", "fail_over"} /\ Init /\ F!Init

IsHickory == which = "hickory" /\ UNCHANGED <<fvars, which>>

IsFailOver == which = "fail_over" /\ UNCHANGED <<vars, which>>

MCNext == (IsHickory /\ Next) \/ (IsFailOver /\ F!Next)

\* The fairness of Hickory, conjunct by conjunct, and that of FailOver.
MCSpec ==
  /\ MCInit /\ [][MCNext]_mcvars
  /\ WF_mcvars(IsHickory /\ Driver)
  /\ \A c \in Servers : WF_mcvars(IsHickory /\ Job(c)) /\ WF_mcvars(IsHickory /\ Client(c))
  /\ WF_mcvars(IsFailOver /\ F!Driver)

\* FailOver: the failure of a resolver is returned only when every resolver asked
\* has answered and none succeeded, a stale record only when neither had a fresh
\* one.  The error of the protective timeout may be returned while a stale record
\* is kept, but not after a fresh valid answer.
FailOverRight == F!TypeOK /\ F!ErrorMeansNoSuccess /\ F!TimeoutLosesNoFresh /\ F!StaleLast

\* QueryEnds of Hickory and of FailOver: a query ends although no server, or no
\* resolver, ever answers.  JobsEnd of Hickory: so does every job, unless its
\* server answers with CNAMEs without end.
EveryQueryEnds == <>(phase = "done" \/ pc = "done") /\ JobsEnd

=============================================================================
