----------------------------- MODULE MCCaches -------------------------------
(***************************************************************************)
(* The effective cache with either of its two query runtimes, as which     *)
(* says: the one of CertAgent or the one of RouteQuery.                    *)
(***************************************************************************)
EXTENDS CertAgent

CONSTANTS r1, r2, k1, k2

VARIABLES which, id_key_map, key_id_map, last_id, packets, sent_ids

R == INSTANCE RouteQuery WITH write_queue <- packets, asked <- sent_ids

cert == <<write_queue, asked>>
route == <<id_key_map, key_id_map, last_id, packets, sent_ids>>
mcvars == <<cvars, cert, route, which>>

MCInit == which \in {"cert", "route"} /\ Init /\ R!Init

IsCert == which = "cert" /\ UNCHANGED <<route, which>>

IsRoute == which = "route" /\ UNCHANGED <<cert, which>>

MCNext == (IsCert /\ Next) \/ (IsRoute /\ R!Next)

FairCache == CacheRuntime /\ ((IsCert /\ Cached) \/ (IsRoute /\ R!Cached))

FairReq == (IsCert /\ HandleReq) \/ (IsRoute /\ R!HandleReq)

FairTimeout(k) == (IsCert /\ QueryTimeout(k)) \/ (IsRoute /\ R!QueryTimeout(k))

\* the fairness of CertAgent for both
MCSpec ==
  /\ MCInit /\ [][MCNext]_mcvars
  /\ WF_mcvars(FairCache) /\ WF_mcvars(FairReq)
  /\ \A k \in Keys : WF_mcvars(FairTimeout(k))

\* EffectiveCache, CertAgent and RouteQuery: types, and what the cache and the
\* query runtime hold of each other: every key in doing is under way once, every
\* query has its timeout, every fetch is known.
CacheInv == TypeOK /\ R!TypeOK /\ OneQueryPerKey /\ TimeoutArmed /\ FetchTracked

\* RouteQuery: the maps between ids and keys are inverse and hold exactly the open
\* queries.
RouteIdsMatch == which = "route" => R!IdsMatchQueries

=============================================================================
