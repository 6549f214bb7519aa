----------------------------- MODULE MCLookups ------------------------------
(***************************************************************************)
(* The ip locate agent beside the drivers of the resolver: while fetches   *)
(* look up locations no driver has a query.                                *)
(***************************************************************************)
EXTENDS MCDrivers

CONSTANTS Ips, Nets, Reqs, Batch, RspCap, ip1, ip2

VARIABLES fetch, req, query, rsp, cache, waiting, runtime, handled, qdoing, qtimers, write_queue,
          qrun, asked, helpful

\* the place of the cache runtime is not that of a driver
A == INSTANCE IpLocate WITH pc <- runtime

ASSUME IpLocateAssumption == A!Bounds

avars == <<fetch, req, query, rsp, cache, waiting, runtime, handled, qdoing, qtimers, write_queue,
           qrun, asked, helpful>>

MCReqs == 1..2

\* two addresses of one network: the answer for one is a location of the other
MCNets == {{ip1, ip2}}

NoQuery == which = "hickory" /\ Init /\ F!Init

\* The fairness of IpLocate, conjunct by conjunct
LocateSpec ==
  /\ A!Init /\ NoQuery
  /\ [][A!Next /\ UNCHANGED mcvars]_<<avars, mcvars>>
  /\ WF_avars(A!CacheRuntime /\ UNCHANGED mcvars)
  /\ WF_avars(A!HandleReq /\ UNCHANGED mcvars)
  /\ WF_avars(A!Send /\ UNCHANGED mcvars)
  /\ \A ip \in Ips : /\ WF_avars(helpful /\ A!Answer(ip) /\ UNCHANGED mcvars)
                     /\ WF_avars(A!QueryTimeout(ip) /\ UNCHANGED mcvars)

\* IpLocate: nobody is forgotten and no query is without its timeout, whatever the service
\* answers, pushes or leaves out (send_rsp_data, handle_rsp).
LocateRight == A!LocateRight

\* IpLocate: when the service answers every query with a location, every fetch ends without
\* its own timeout.
FetchEnds == A!FetchEnds
=============================================================================
