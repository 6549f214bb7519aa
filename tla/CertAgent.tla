----------------------------- MODULE CertAgent ------------------------------
(***************************************************************************)
(* The cert agent: the effective cache with the query runtime that asks a  *)
(* certificate generator over UDP.  The steps of its poll_loop are taken   *)
(* in any order: what arrives between two of them is arbitrary anyway.     *)
(***************************************************************************)
EXTENDS EffectiveCache

VARIABLES
  write_queue,
  asked        \* keys of requests the generator has got, whenever it answers

vars == <<cvars, write_queue, asked>>

Rest == <<fetch, req, records, queries, pc, handled, qrun>>

\* should_send_raw_query, then encode: a request that cannot be encoded is
\* answered with the empty result
HandleReq ==
  /\ qrun /\ query # <<>>
  /\ LET k == Head(query) IN
     IF k \in qdoing THEN UNCHANGED <<qdoing, qtimers, rsp, write_queue>>
     ELSE \/ raw_query(k) /\ write_queue' = Append(write_queue, k) /\ UNCHANGED rsp
          \/ rsp' = (IF Running THEN Append(rsp, k) ELSE rsp) /\ UNCHANGED <<qdoing, qtimers, write_queue>>
  /\ query' = Tail(query)
  /\ UNCHANGED <<Rest, asked>>

SendOk ==
  /\ qrun /\ write_queue # <<>>
  /\ asked' = asked \cup {Head(write_queue)}
  /\ write_queue' = Tail(write_queue)
  /\ UNCHANGED cvars

SendErr ==
  /\ qrun /\ write_queue # <<>>
  /\ send_rsp_data(Head(write_queue), FALSE)
  /\ write_queue' = Tail(write_queue)
  /\ UNCHANGED <<Rest, query, asked>>

\* answers may be late or doubled, or never come
HandleRsp(k) ==
  /\ qrun /\ k \in asked
  /\ send_rsp_data(k, FALSE)
  /\ UNCHANGED <<Rest, query, write_queue, asked>>

QueryTimeoutSilent(k) ==
  /\ qrun /\ k \in qtimers
  /\ qdoing' = qdoing \ {k} /\ qtimers' = qtimers \ {k}
  /\ UNCHANGED <<Rest, query, rsp, write_queue, asked>>

QueryTimeout(k) ==
  /\ qrun /\ k \in qtimers
  /\ send_rsp_data(k, TRUE)
  /\ UNCHANGED <<Rest, query, write_queue, asked>>

\* poll_recv fails, or the cache runtime has ended
EndQuery ==
  /\ qrun
  /\ qrun' = FALSE
  /\ qdoing' = {} /\ qtimers' = {} /\ query' = <<>>
  /\ write_queue' = <<>>
  /\ UNCHANGED <<fetch, req, rsp, records, queries, pc, handled, asked>>

RecvErr == Running /\ EndQuery

RecvNone == ~Running /\ query = <<>> /\ EndQuery

QueryRuntime ==
  HandleReq \/ SendOk \/ SendErr \/ RecvNone \/ \E k \in Keys : HandleRsp(k) \/ QueryTimeout(k)

Cached == UNCHANGED <<write_queue, asked>>

Init == CInit /\ write_queue = <<>> /\ asked = {}

Next ==
  \/ CacheRuntime /\ Cached
  \/ \E k \in Keys : Age(k) /\ Cached
  \/ \E r \in Reqs : (Fetch(r) \/ FetchTimeout(r)) /\ Cached
  \/ QueryRuntime
  \/ RecvErr

Spec == Init /\ [][Next]_vars

\* Fairness: both runtimes are polled when something they wait for is ready, and
\* the timeout of a query fires.  Nothing is assumed of the generator, the socket
\* or the timeout of a fetch.
FairSpec ==
  /\ Spec
  /\ WF_vars(CacheRuntime /\ Cached)
  /\ WF_vars(HandleReq)
  /\ \A k \in Keys : WF_vars(QueryTimeout(k))

-----------------------------------------------------------------------------

\* Types.
TypeOK ==
  /\ CacheTypeOK
  /\ write_queue \in Seq(Keys) /\ asked \subseteq Keys

=============================================================================
