---------------------------- MODULE MCConnections ---------------------------
(***************************************************************************)
(* The tasks that own a client connection of the HTTP proxy and the pool   *)
(* that owns the idle connections to an ICAP service, side by side: a      *)
(* behaviour is one of the pipeline or one of the pool, as which says.     *)
(***************************************************************************)
EXTENDS HttpPipeline

CONSTANTS Clients, MinIdle, MaxIdle, CmdCap, Fetches, TaskCap, ExpireCap, c1, c2

VARIABLES which, cl, gone, fetches, client_cmd, pool_cmd, conn_req, idle, ended, idle_conn_count,
          creating, probing, probed, asking, expired

I == INSTANCE IcapPool

ASSUME PoolAssumption == I!Bounds

pvars == <<cl, gone, fetches, client_cmd, pool_cmd, conn_req, idle, ended, idle_conn_count,
           creating, probing, probed, asking, expired>>

mcvars == <<vars, pvars, which>>

MCInit == which \in {"pipeline", "pool"} /\ Init /\ I!Init

IsPipeline == which = "pipeline" /\ UNCHANGED <<pvars, which>>

IsPool == which = "pool" /\ UNCHANGED <<vars, which>>

MCNext == (IsPipeline /\ Next) \/ (IsPool /\ I!Next)

\* The fairness of HttpPipeline and that of IcapPool, conjunct by conjunct
PipelineFair == WF_mcvars(IsPipeline /\ Reader) /\ WF_mcvars(IsPipeline /\ Writer)

PoolFair ==
  /\ WF_mcvars(IsPool /\ I!check)
  /\ WF_mcvars(IsPool /\ (I!handle_client_cmd \/ I!handle_pool_cmd))
  /\ SF_mcvars(IsPool /\ I!Created) /\ WF_mcvars(IsPool /\ (I!Created \/ I!CreateFailed))
  /\ WF_mcvars(IsPool /\ I!Probe) /\ WF_mcvars(IsPool /\ I!AskCreate) /\ WF_mcvars(IsPool /\ I!fetch_sub)
  /\ \A c \in Clients : /\ WF_mcvars(IsPool /\ I!CreateForClient(c)) /\ WF_mcvars(IsPool /\ I!Fallback(c))
                        /\ WF_mcvars(IsPool /\ I!Finish(c))
  /\ SF_mcvars(IsPool /\ I!Take)

MCSpec == MCInit /\ [][MCNext]_mcvars /\ PipelineFair /\ PoolFair

\* HttpPipeline: both tasks end, whether the client leaves, falls silent or is refused.
PipelineEnds == which = "pipeline" => BothEnd

\* IcapPool: idle_conn_count is the number of keepers that have not told of their end, and a
\* client's request is in one place, once, whether the client waits for it or is gone.
PoolRight == I!Inv

\* IcapPool: a fetch ends with a connection or at the fallback, unless its client drops it.
FetchEnds == I!FetchEnds

\* IcapPool: the pool gets back to its minimum of idle connections unless keepers go on
\* ending for ever.
PoolRefills == which = "pool" => I!PoolRefills
=============================================================================
