----------------------------- MODULE RouteQuery -----------------------------
(***************************************************************************)
(* The route_query escaper: the effective cache with a query runtime that  *)
(* marks every query to its peer with an id of its own, and finds the key  *)
(* of an answer by that id.                                                *)
(***************************************************************************)
EXTENDS EffectiveCache

VARIABLES
  write_queue,
  id_key_map, key_id_map,   \* as pairs
  last_id,                  \* Uuid::new_v4 counts up
  asked                     \* ids that the peer has got

maps == <<id_key_map, key_id_map>>
vars == <<cvars, write_queue, maps, last_id, asked>>

Rest == <<fetch, req, records, queries, pc, handled, qrun>>

ForgetKey(k) ==
  /\ key_id_map' = {p \in key_id_map : p[1] # k}
  /\ UNCHANGED id_key_map

Forget(k) ==
  /\ key_id_map' = {p \in key_id_map : p[1] # k}
  /\ id_key_map' = {p \in id_key_map : <<k, p[1]>> \notin key_id_map}

HandleReq ==
  /\ qrun /\ query # <<>>
  /\ LET k == Head(query) id == last_id + 1 IN
     IF k \in qdoing THEN UNCHANGED <<qdoing, qtimers, rsp, write_queue, maps, last_id>>
     ELSE \/ /\ raw_query(k)
             /\ id_key_map' = id_key_map \cup {<<id, k>>}
             /\ key_id_map' = {p \in key_id_map : p[1] # k} \cup {<<k, id>>}
             /\ write_queue' = Append(write_queue, <<k, id>>)
             /\ last_id' = id
             /\ UNCHANGED rsp
          \/ /\ rsp' = (IF Running THEN Append(rsp, k) ELSE rsp)
             /\ UNCHANGED <<qdoing, qtimers, write_queue, maps, last_id>>
  /\ query' = Tail(query)
  /\ UNCHANGED <<Rest, asked>>

SendOk ==
  /\ qrun /\ write_queue # <<>>
  /\ asked' = asked \cup {Head(write_queue)[2]}
  /\ write_queue' = Tail(write_queue)
  /\ UNCHANGED <<cvars, maps, last_id>>

\* the ids of the key go even if this query was given up and asked anew
handle_query_failed(k, expired) == Forget(k) /\ send_rsp_data(k, expired)

SendErr ==
  /\ qrun /\ write_queue # <<>>
  /\ handle_query_failed(Head(write_queue)[1], FALSE)
  /\ write_queue' = Tail(write_queue)
  /\ UNCHANGED <<Rest, query, last_id, asked>>

QueryTimeout(k) ==
  /\ qrun /\ k \in qtimers
  /\ handle_query_failed(k, TRUE)
  /\ UNCHANGED <<Rest, query, write_queue, last_id, asked>>

\* an id that is not known any more is ignored
HandleRsp(id) ==
  /\ qrun /\ id \in asked
  /\ \E p \in id_key_map :
       /\ p[1] = id
       /\ id_key_map' = id_key_map \ {p}
       /\ key_id_map' = {q \in key_id_map : q[1] # p[2]}
       /\ send_rsp_data(p[2], FALSE)
  /\ UNCHANGED <<Rest, query, write_queue, last_id, asked>>

EndQuery ==
  /\ qrun
  /\ qrun' = FALSE
  /\ qdoing' = {} /\ qtimers' = {} /\ query' = <<>>
  /\ write_queue' = <<>> /\ id_key_map' = {} /\ key_id_map' = {}
  /\ UNCHANGED <<fetch, req, rsp, records, queries, pc, handled, last_id, asked>>

RecvErr == Running /\ EndQuery

RecvNone == ~Running /\ query = <<>> /\ EndQuery

QueryRuntime ==
  \/ HandleReq \/ SendOk \/ SendErr \/ RecvNone
  \/ \E k \in Keys : QueryTimeout(k)
  \/ \E id \in asked : HandleRsp(id)

Cached == UNCHANGED <<write_queue, maps, last_id, asked>>

Init == CInit /\ write_queue = <<>> /\ id_key_map = {} /\ key_id_map = {} /\ last_id = 0 /\ asked = {}

Next ==
  \/ CacheRuntime /\ Cached
  \/ \E k \in Keys : Age(k) /\ Cached
  \/ \E r \in Reqs : (Fetch(r) \/ FetchTimeout(r)) /\ Cached
  \/ QueryRuntime
  \/ RecvErr

Spec == Init /\ [][Next]_vars

-----------------------------------------------------------------------------

\* Types.
TypeOK ==
  /\ CacheTypeOK
  /\ write_queue \in Seq(Keys \X Nat) /\ last_id \in Nat /\ asked \subseteq Nat
  /\ id_key_map \subseteq Nat \X Keys /\ key_id_map \subseteq Keys \X Nat

\* The two maps of QueryRuntime are inverse to each other and hold exactly the
\* queries that wait for an answer: no id is left behind by a timeout or a failed
\* send, and none is missing when the answer comes.
IdsMatchQueries ==
  /\ {<<p[2], p[1]>> : p \in id_key_map} = key_id_map
  /\ {p[1] : p \in key_id_map} = qdoing
  /\ \A p, q \in key_id_map : p[1] = q[1] => p = q

=============================================================================
