----------------------------- MODULE RuntimeApi -----------------------------
(***************************************************************************)
(* The Lambda Runtime API, the HTTP service run_handler talks to.  It is   *)
(* not in the repository: it is modelled from what runtime.cpp sends to it *)
(* and reads from it.  A client asks for an invocation and later posts one *)
(* result for it.  The service names an invocation with two ids:           *)
(*   - the request id, which stays the same when a request is tried again; *)
(*   - the invocation id, fresh on every attempt and sent in an optional   *)
(*     header ("The unique invocation ID for cross-wiring protection").    *)
(* The module owns the service's state and operations; RunHandler composes *)
(* it with the threads of the C++ runtime.                                 *)
(***************************************************************************)
EXTENDS Integers, FiniteSets

CONSTANTS
  RequestIds,     \* requests the clients of the function have made
  InvocationIds,  \* every attempt the service can make; bounds the model
  NoId            \* the empty string: an id that was not sent

ASSUME NoIdAssumption == /\ NoId \notin InvocationIds
                         /\ NoId \notin RequestIds

VARIABLES
  queue,     \* requests that wait for an attempt
  assigned,  \* assigned[i]: the request attempt i was made for, NoId if not made
  inflight,  \* inflight[r]: the attempt the service waits on for r, or NoId
  results    \* the results the service has taken

apiVars == <<queue, assigned, inflight, results>>

MaybeRequest    == RequestIds \cup {NoId}
MaybeInvocation == InvocationIds \cup {NoId}

(* A taken result: the attempt it was credited to, the attempt whose      *)
(* payload the handler worked on, and the invocation id the POST carried.  *)
Result == [request_id : RequestIds, credited : InvocationIds,
           origin : InvocationIds, invocation_id : MaybeInvocation,
           endpoint : {"response", "error"}]

(* One POST to /runtime/invocation/<request_id>/response or .../error.     *)
(* origin is not on the wire: it records whose work the body is.           *)
Post == [request_id : RequestIds, invocation_id : MaybeInvocation,
         origin : InvocationIds, endpoint : {"response", "error"}]

ApiInit ==
  /\ queue    = RequestIds
  /\ assigned = [i \in InvocationIds |-> NoId]
  /\ inflight = [r \in RequestIds |-> NoId]
  /\ results  = {}

(* Attempt i of request r is handed to whoever asked.                      *)
Dispatch(r, i) ==
  /\ r \in queue
  /\ assigned[i] = NoId
  /\ queue'    = queue \ {r}
  /\ assigned' = [assigned EXCEPT ![i] = r]
  /\ inflight' = [inflight EXCEPT ![r] = i]
  /\ UNCHANGED results

(* A result is taken only for a request in flight and, when the POST names *)
(* an attempt, only if that attempt is the one the service waits on.       *)
Accepts(m) ==
  /\ inflight[m.request_id] # NoId
  /\ m.invocation_id \in {NoId, inflight[m.request_id]}

Take(m) ==
  /\ Accepts(m)
  /\ results'  = results \cup {[request_id    |-> m.request_id,
                                credited      |-> inflight[m.request_id],
                                origin        |-> m.origin,
                                invocation_id |-> m.invocation_id,
                                endpoint      |-> m.endpoint]}
  /\ inflight' = [inflight EXCEPT ![m.request_id] = NoId]
  /\ UNCHANGED <<queue, assigned>>

(* The deadline of an attempt passes without a result: the request is      *)
(* queued for another attempt.                                             *)
Expire(r) ==
  /\ inflight[r] # NoId
  /\ inflight' = [inflight EXCEPT ![r] = NoId]
  /\ queue'    = queue \cup {r}
  /\ UNCHANGED <<assigned, results>>

ApiTypeOK ==
  /\ queue    \subseteq RequestIds
  /\ assigned \in [InvocationIds -> MaybeRequest]
  /\ inflight \in [RequestIds -> MaybeInvocation]
  /\ results  \subseteq Result
=============================================================================
