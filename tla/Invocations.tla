---------------------------- MODULE Invocations ----------------------------
(***************************************************************************)
(* What the runtime and the service promise the clients of a function,     *)
(* without threads, messages or retries.  A request is worked on in        *)
(* attempts, one after the other.  An attempt is issued, and then answered *)
(* with its own result or abandoned; a request that is answered stays so.  *)
(***************************************************************************)
CONSTANTS Requests, Attempts, None

VARIABLES
  of,      \* of[i]: the request attempt i is for, None if it is not issued
  status,  \* of each attempt
  answer   \* the pairs <<i, w>>: attempt i was answered with the work of w

vars == <<of, status, answer>>

AttemptsOf(r, s) == {i \in Attempts : of[i] = r /\ status[i] = s}

Init ==
  /\ of     = [i \in Attempts |-> None]
  /\ status = [i \in Attempts |-> "unissued"]
  /\ answer = {}

Issue(r, i) ==
  /\ status[i] = "unissued"
  /\ AttemptsOf(r, "open") = {} /\ AttemptsOf(r, "answered") = {}
  /\ of'     = [of EXCEPT ![i] = r]
  /\ status' = [status EXCEPT ![i] = "open"]
  /\ UNCHANGED answer

Answer(i) ==
  /\ status[i] = "open"
  /\ status' = [status EXCEPT ![i] = "answered"]
  /\ answer' = answer \cup {<<i, i>>}
  /\ UNCHANGED of

Abandon(i) ==
  /\ status[i] = "open"
  /\ status' = [status EXCEPT ![i] = "abandoned"]
  /\ UNCHANGED <<of, answer>>

Next ==
  \/ \E r \in Requests, i \in Attempts : Issue(r, i)
  \/ \E i \in Attempts : Answer(i) \/ Abandon(i)

Spec == Init /\ [][Next]_vars
=============================================================================
