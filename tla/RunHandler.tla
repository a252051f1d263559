----------------------------- MODULE RunHandler -----------------------------
(***************************************************************************)
(* run_handler (src/src/runtime.cpp): the loop that asks the Runtime API   *)
(* for an invocation, calls the user's handler and posts the result.  Each *)
(* thread of Threads executes one call of run_handler; the threads share   *)
(* the process, so a crash in one of them ends all of them.                *)
(*                                                                         *)
(* An HTTP exchange takes three steps: the thread enters curl_easy_perform,*)
(* the service answers (or never does), and the thread leaves it, with the *)
(* answer or with a transport error.  A transport error can come before or *)
(* after the service acted, so the thread cannot tell which.               *)
(***************************************************************************)
EXTENDS RuntimeApi

CONSTANTS
  Threads,    \* threads that call run_handler
  Codes,      \* HTTP status codes the service answers with
  IdSent,     \* whether the invocation id header is sent: a set of BOOLEANs
  Asserts,    \* TRUE when NDEBUG is not defined, so that assert() aborts
  MaxFaults   \* bounds the faults of a behaviour, see Fault

ASSUME CodesAssumption == Codes \subseteq Nat \ {0}
ASSUME FlagsAssumption == IdSent \subseteq BOOLEAN /\ Asserts \in BOOLEAN
ASSUME MaxFaultsAssumption == MaxFaults \in Nat

VARIABLES
  pc,         \* where in run_handler each thread is
  retries,    \* the local of that name
  req,        \* the local of that name: the invocation being worked on
  res,        \* the local of that name, as far as is_success() tells it
  wire,       \* what the service answered on the thread's open exchange
  reachable,  \* FALSE once the endpoint refuses connections, for good
  faults,     \* the faults so far
  streak,     \* history: failed get_next() calls since the last good one
  refused,    \* history: the last POST did not end in success
  posts,      \* history: the POSTs made with the work of each attempt
  named       \* history: the attempts whose invocation id was sent along

threadVars  == <<pc, retries, req, res, wire>>
envVars     == <<reachable, faults>>
historyVars == <<streak, refused, posts, named>>
vars        == <<apiVars, threadVars, envVars, historyVars>>

max_retries == 3

MaxStreak == 4   \* where the history stops counting: one more than max_retries

(* Reasons for which an answer to get_next() is dangerous to read.         *)
Defects == {"none", "no_content_type", "bad_deadline"}

Answer  == [code : Codes \cup {0}, request_id : MaybeRequest,
            invocation_id : MaybeInvocation, origin : MaybeInvocation,
            defect : Defects]
Request == [request_id : MaybeRequest, invocation_id : MaybeInvocation,
            origin : MaybeInvocation]

NoAnswer == [code |-> 0, request_id |-> NoId, invocation_id |-> NoId,
             origin |-> NoId, defect |-> "none"]
NoReq    == [request_id |-> NoId, invocation_id |-> NoId, origin |-> NoId]
Bare(code, defect) == [NoAnswer EXCEPT !.code = code, !.defect = defect]

is_success(code) == code \in 200..299

Init ==
  /\ ApiInit
  /\ pc        = [t \in Threads |-> "loop"]
  /\ retries   = [t \in Threads |-> 0]
  /\ req       = [t \in Threads |-> NoReq]
  /\ res       = [t \in Threads |-> TRUE]
  /\ wire      = [t \in Threads |-> NoAnswer]
  /\ reachable = TRUE
  /\ faults    = 0
  /\ streak    = [t \in Threads |-> 0]
  /\ refused   = [t \in Threads |-> FALSE]
  /\ posts     = [i \in InvocationIds |-> 0]
  /\ named     = {}

(* Something went wrong that run_handler does not cause.                   *)
Fault == faults < MaxFaults /\ faults' = faults + 1

(* An exchange fails in transit: a fault while the endpoint is reachable,  *)
(* what is bound to happen once it is not.                                 *)
Outage == (IF reachable THEN Fault ELSE UNCHANGED faults) /\ UNCHANGED reachable

Goto(t, label) == pc' = [pc EXCEPT ![t] = label]

(* The process is gone: every thread of it loses its stack.                *)
CrashProcess ==
  /\ pc'   = [t \in Threads |-> "down"]
  /\ req'  = [t \in Threads |-> NoReq]
  /\ wire' = [t \in Threads |-> NoAnswer]
  /\ UNCHANGED <<retries, res>>

-----------------------------------------------------------------------------
(* The head of the while loop, and get_next() up to curl_easy_perform.     *)

MayTryOnceMore(n) == n <= max_retries   \* mutant

MayTry(n) == n < max_retries

GetNext(t) ==
  /\ pc[t] = "loop"
  /\ MayTry(retries[t])
  /\ Goto(t, "next")
  /\ UNCHANGED <<apiVars, retries, req, res, wire, envVars, historyVars>>

GiveUp(t) ==
  /\ pc[t] = "loop"
  /\ ~MayTry(retries[t])
  /\ Goto(t, "returned")
  /\ UNCHANGED <<apiVars, retries, req, res, wire, envVars, historyVars>>

(* The count of failures after one more of them, and after a success.      *)
NotCounted(n)   == n   \* mutant
AfterFailure(n) == n + 1
NotReset(n)     == n   \* mutant
AfterSuccess(n) == 0

(* get_next() failed with a response code or with REQUEST_NOT_MADE: both   *)
(* branches of the loop count the failure and go round again.              *)
NextFailed(t) ==
  /\ retries' = [retries EXCEPT ![t] = AfterFailure(@)]
  /\ streak'  = [streak EXCEPT ![t] = IF @ < MaxStreak THEN @ + 1 ELSE @]
  /\ wire'    = [wire EXCEPT ![t] = NoAnswer]
  /\ Goto(t, "loop")
  /\ UNCHANGED <<apiVars, req, res, refused, posts, named>>

(* curl_easy_perform did not return CURLE_OK, whatever the service did.    *)
NextNotMade(t) ==
  /\ pc[t] = "next"
  /\ Outage
  /\ NextFailed(t)

(* set_content_type(nullptr): the content type is read before the status   *)
(* code is looked at, and curl has none to give.                           *)
NextNullContentType(t) ==
  /\ pc[t] = "next"
  /\ wire[t].defect = "no_content_type"
  /\ CrashProcess
  /\ UNCHANGED <<apiVars, envVars, historyVars>>

NextRefused(t) ==
  /\ pc[t] = "next"
  /\ wire[t].code # 0
  /\ wire[t].defect # "no_content_type"
  /\ ~is_success(wire[t].code) \/ wire[t].request_id = NoId
  /\ NextFailed(t)
  /\ UNCHANGED envVars

(* assert(ms > 0) or assert(ms < ULONG_MAX) on the deadline header.        *)
NextBadDeadline(t) ==
  /\ pc[t] = "next"
  /\ is_success(wire[t].code) /\ wire[t].request_id # NoId
  /\ wire[t].defect = "bad_deadline"
  /\ Asserts
  /\ CrashProcess
  /\ UNCHANGED <<apiVars, envVars, historyVars>>

NextOk(t) ==
  /\ pc[t] = "next"
  /\ is_success(wire[t].code) /\ wire[t].request_id # NoId
  /\ wire[t].defect = "none" \/ (wire[t].defect = "bad_deadline" /\ ~Asserts)
  /\ retries' = [retries EXCEPT ![t] = AfterSuccess(@)]
  /\ req'     = [req EXCEPT ![t] = [request_id    |-> wire[t].request_id,
                                    invocation_id |-> wire[t].invocation_id,
                                    origin        |-> wire[t].origin]]
  /\ wire'    = [wire EXCEPT ![t] = NoAnswer]
  /\ streak'  = [streak EXCEPT ![t] = 0]
  /\ Goto(t, "handler")
  /\ UNCHANGED <<apiVars, res, envVars, refused, posts, named>>

-----------------------------------------------------------------------------
(* The user's handler: it returns a success or a failure, or takes the     *)
(* process down (an exception cannot leave run_handler).                   *)

(* Successes and failures are both posted.                                 *)
DropsFailures(success) == IF success THEN "post" ELSE "loop"   \* mutant
AfterHandler(success)  == "post"

HandlerReturns(t, success) ==
  /\ pc[t] = "handler"
  /\ res' = [res EXCEPT ![t] = success]
  /\ Goto(t, AfterHandler(success))
  /\ UNCHANGED <<apiVars, retries, req, wire, envVars, historyVars>>

HandlerCrashes(t) ==
  /\ pc[t] = "handler"
  /\ CrashProcess
  /\ Fault
  /\ UNCHANGED <<apiVars, reachable, historyVars>>

-----------------------------------------------------------------------------
(* post_success() and post_failure(), which differ in the URL only, and    *)
(* what the loop does with their outcome.                                  *)

(* The id in the URL, and the one in the invocation id header, which is    *)
(* left out when it is empty.                                              *)
SharedUrl(t) ==   \* mutant: one buffer for the URLs of all threads
  req[CHOOSE u \in Threads : req[u].request_id # NoId].request_id
UrlId(t)     == req[t].request_id
NoHeader(t)  == NoId   \* mutant
HeaderId(t)  == req[t].invocation_id

PostOf(t) ==
  [endpoint      |-> IF res[t] THEN "response" ELSE "error",
   request_id    |-> UrlId(t),
   invocation_id |-> HeaderId(t),
   origin        |-> req[t].origin]

SendPost(t) ==
  /\ pc[t] = "post"
  /\ posts' = [posts EXCEPT ![req[t].origin] = @ + 1]
  /\ Goto(t, "posting")
  /\ UNCHANGED <<apiVars, retries, req, res, wire, envVars, streak, refused, named>>

(* req and res go out of scope at the end of the loop's body.              *)
EndOfBody(t) ==
  /\ req'  = [req EXCEPT ![t] = NoReq]
  /\ res'  = [res EXCEPT ![t] = TRUE]
  /\ wire' = [wire EXCEPT ![t] = NoAnswer]
  /\ UNCHANGED <<apiVars, retries, streak, posts, named>>

PostOk(t) ==
  /\ pc[t] = "posting"
  /\ is_success(wire[t].code)
  /\ Goto(t, "loop")
  /\ refused' = [refused EXCEPT ![t] = FALSE]
  /\ EndOfBody(t)
  /\ UNCHANGED envVars

(* handle_post_outcome() returned false, and run_handler returns.          *)
AfterFailedPost == "returned"

PostRefused(t) ==
  /\ pc[t] = "posting"
  /\ wire[t].code # 0 /\ ~is_success(wire[t].code)
  /\ Goto(t, AfterFailedPost)
  /\ refused' = [refused EXCEPT ![t] = TRUE]
  /\ EndOfBody(t)
  /\ UNCHANGED envVars

(* The POST was not made, or was made and its answer lost: not tried again. *)
TriesAgain(t) ==   \* mutant
  /\ pc[t] = "posting"
  /\ Outage
  /\ Goto(t, "post")
  /\ UNCHANGED <<apiVars, retries, req, res, wire, historyVars>>

PostNotMade(t) ==
  /\ pc[t] = "posting"
  /\ Outage
  /\ Goto(t, AfterFailedPost)
  /\ refused' = [refused EXCEPT ![t] = TRUE]
  /\ EndOfBody(t)

-----------------------------------------------------------------------------
(* The service's side of an exchange, and what else the environment does.  *)

Waiting(t, label) == pc[t] = label /\ wire[t] = NoAnswer /\ reachable

(* Nobody works on attempt i, or will.                                     *)
Orphan(i) == \A t \in Threads : i \notin {req[t].origin, wire[t].origin}

(* An attempt is handed out in a 2xx answer.  The answer is a fault when   *)
(* it has no request id or reading it is dangerous.                        *)
AnswerNext(t, r, i, code, sent, complete, defect) ==
  /\ Waiting(t, "next")
  /\ is_success(code)
  /\ Dispatch(r, i)
  /\ wire' = [wire EXCEPT ![t] =
                [code          |-> code,
                 request_id    |-> IF complete THEN r ELSE NoId,
                 invocation_id |-> IF sent THEN i ELSE NoId,
                 origin        |-> i,
                 defect        |-> defect]]
  /\ named' = IF sent THEN named \cup {i} ELSE named
  /\ IF complete /\ defect = "none" THEN UNCHANGED faults ELSE Fault
  /\ UNCHANGED <<pc, retries, req, res, reachable, streak, refused, posts>>

(* Nothing is handed out: the service, or a proxy before it, has an error. *)
AnswerNextWithError(t, code, defect) ==
  /\ Waiting(t, "next")
  /\ ~is_success(code)
  /\ wire' = [wire EXCEPT ![t] = Bare(code, defect)]
  /\ Fault
  /\ UNCHANGED <<apiVars, pc, retries, req, res, reachable, historyVars>>

AnswerPost(t, code) ==
  /\ Waiting(t, "posting")
  /\ is_success(code)
  /\ Take(PostOf(t))
  /\ wire' = [wire EXCEPT ![t] = Bare(code, "none")]
  /\ UNCHANGED <<pc, retries, req, res, envVars, historyVars>>

(* The POST names a request or an attempt the service no longer waits on,  *)
(* or the service has an error.                                            *)
AnswerPostWithError(t, code) ==
  /\ Waiting(t, "posting")
  /\ ~is_success(code)
  /\ wire' = [wire EXCEPT ![t] = Bare(code, "none")]
  /\ IF Accepts(PostOf(t)) THEN Fault ELSE UNCHANGED faults
  /\ UNCHANGED <<apiVars, pc, retries, req, res, reachable, historyVars>>

(* The deadline passes.  It is a fault if a thread still works on the      *)
(* attempt: that thread is late, and does not know it.                     *)
ExpireRequest(r) ==
  /\ Expire(r)
  /\ IF Orphan(inflight[r]) THEN UNCHANGED faults ELSE Fault
  /\ UNCHANGED <<threadVars, reachable, historyVars>>

(* From now on connections are refused and reset.                          *)
GoDark ==
  /\ reachable
  /\ reachable' = FALSE
  /\ Fault
  /\ UNCHANGED <<apiVars, threadVars, historyVars>>

(* main() returned or the process died: the platform starts a new one.     *)
Restart ==
  /\ \A t \in Threads : pc[t] \in {"returned", "down"}
  /\ reachable
  /\ pc'      = [t \in Threads |-> "loop"]
  /\ retries' = [t \in Threads |-> 0]
  /\ req'     = [t \in Threads |-> NoReq]
  /\ res'     = [t \in Threads |-> TRUE]
  /\ wire'    = [t \in Threads |-> NoAnswer]
  /\ streak'  = [t \in Threads |-> 0]
  /\ refused' = [t \in Threads |-> FALSE]
  /\ UNCHANGED <<apiVars, envVars, posts, named>>

-----------------------------------------------------------------------------
AfterGetNext(t) == NextNullContentType(t) \/ NextRefused(t)
                     \/ NextBadDeadline(t) \/ NextOk(t)

ThreadStep(t) ==
  \/ GetNext(t) \/ GiveUp(t)
  \/ NextNotMade(t) \/ AfterGetNext(t)
  \/ \E success \in BOOLEAN : HandlerReturns(t, success)
  \/ HandlerCrashes(t)
  \/ SendPost(t) \/ PostOk(t) \/ PostRefused(t) \/ PostNotMade(t)

ServiceStep(t) ==
  \/ \E r \in RequestIds, i \in InvocationIds, code \in Codes, sent \in IdSent,
        complete \in BOOLEAN, defect \in Defects :
        AnswerNext(t, r, i, code, sent, complete, defect)
  \/ \E code \in Codes, defect \in {"none", "no_content_type"} :
        AnswerNextWithError(t, code, defect)
  \/ \E code \in Codes : AnswerPost(t, code) \/ AnswerPostWithError(t, code)

Next ==
  \/ \E t \in Threads : ThreadStep(t) \/ ServiceStep(t)
  \/ \E r \in RequestIds : ExpireRequest(r)
  \/ GoDark
  \/ Restart

Spec == Init /\ [][Next]_vars

(* What is bound to happen: a thread leaves every wait that has ended, the *)
(* handler returns (the platform kills one that does not), the service     *)
(* answers, an attempt nobody works on expires, and a dead process is      *)
(* replaced.  A transport error is certain only when connections are       *)
(* refused: CURLOPT_TIMEOUT is 0, a silent peer is waited for for ever.    *)
Fairness ==
  /\ \A t \in Threads :
       /\ WF_vars(GetNext(t) \/ GiveUp(t))
       /\ WF_vars(AfterGetNext(t))
       /\ WF_vars(\E success \in BOOLEAN : HandlerReturns(t, success))
       /\ WF_vars(SendPost(t))
       /\ WF_vars(PostOk(t) \/ PostRefused(t))
       /\ WF_vars(~reachable /\ (NextNotMade(t) \/ PostNotMade(t)))
       /\ WF_vars(ServiceStep(t) /\ faults' = faults)
  /\ \A r \in RequestIds : WF_vars(ExpireRequest(r) /\ faults' = faults)
  /\ WF_vars(Restart)

FairSpec == Spec /\ Fairness

-----------------------------------------------------------------------------
(* Properties.                                                             *)

Labels == {"loop", "next", "handler", "post", "posting", "returned", "down"}

(* Type correctness of the composed state.                                 *)
TypeOK ==
  /\ ApiTypeOK
  /\ pc        \in [Threads -> Labels]
  /\ retries   \in [Threads -> 0..3]
  /\ req       \in [Threads -> Request]
  /\ res       \in [Threads -> BOOLEAN]
  /\ wire      \in [Threads -> Answer]
  /\ reachable \in BOOLEAN
  /\ faults    \in 0..MaxFaults
  /\ streak    \in [Threads -> 0..MaxStreak]
  /\ refused   \in [Threads -> BOOLEAN]
  /\ posts     \in [InvocationIds -> Nat]
  /\ named     \subseteq InvocationIds

(* run_handler echoes an invocation id it was given: the late result of an *)
(* attempt that has timed out is then never credited to the attempt that   *)
(* replaced it, although both carry the same request id.                   *)
NoCrossWiring ==
  \A x \in results : x.origin \in named => x.origin = x.credited

(* With or without invocation ids, and however the threads interleave, the *)
(* result of one request is never credited to another request.             *)
ResultMatchesRequest ==
  \A x \in results : /\ assigned[x.origin]   = x.request_id
                     /\ assigned[x.credited] = x.request_id

(* The loop never posts the work of one attempt twice, whatever the        *)
(* outcome of the first POST, and the service never gets work it was not   *)
(* sent ("TODO: implement a better retry strategy").                       *)
PostedAtMostOnce ==
  /\ \A i \in InvocationIds : posts[i] \in {0, 1}
  /\ \A x \in results : posts[x.origin] = 1

(* run_handler returns only after three consecutive get_next() failures or *)
(* one failed POST; a success in between starts the count anew, and no     *)
(* fourth consecutive attempt is ever made.                                *)
ReturnsOnlyWhenSpent ==
  \A t \in Threads :
    /\ pc[t] = "returned" => streak[t] = 3 \/ refused[t]
    /\ pc[t] = "next"     => streak[t] < 3
    /\ pc[t] # "down"     => ~(refused[t] /\ pc[t] # "returned")

(* No attempt is wasted unless something goes wrong outside run_handler,   *)
(* and one fault wastes at most one attempt of each request.               *)
NoAttemptWasted ==
  Cardinality({i \in InvocationIds : assigned[i] # NoId})
    <= Cardinality(results) + Cardinality({r \in RequestIds : inflight[r] # NoId})
         + faults * Cardinality(RequestIds)

(* An answer to get_next() that is not a 2xx is retried: "HTTP request was *)
(* not successful. HTTP response code: %d. Retrying.." (runtime.cpp:504).  *)
NonSuccessIsRetried ==
  [][\A t \in Threads :
       (/\ pc[t] = "next" /\ pc'[t] # "next"
        /\ wire[t].code # 0 /\ ~is_success(wire[t].code)) => pc'[t] = "loop"]_vars

(* Once the endpoint refuses connections every call of run_handler ends.   *)
GivesUp ==
  <>~reachable => <>[](\A t \in Threads : pc[t] \in {"returned", "down"})

(* While the endpoint stays reachable every request is answered in the     *)
(* end, through lost answers, crashes, timeouts and restarts.              *)
EventuallyAnswered ==
  []reachable => \A r \in RequestIds : <>(\E x \in results : x.request_id = r)

-----------------------------------------------------------------------------
(* With the invocation id on every attempt, what the clients of the        *)
(* function see is the abstract specification Invocations.                 *)
StatusOf(i) ==
  CASE assigned[i] = NoId                    -> "unissued"
    [] \E x \in results : x.credited = i     -> "answered"
    [] \E r \in RequestIds : inflight[r] = i -> "open"
    [] OTHER                                 -> "abandoned"

Abstract == INSTANCE Invocations WITH
  Requests <- RequestIds, Attempts <- InvocationIds, None <- NoId,
  of       <- assigned,
  status   <- [i \in InvocationIds |-> StatusOf(i)],
  answer   <- {<<x.credited, x.origin>> : x \in results}

(* run_handler and the service together implement Invocations.             *)
ImplementsInvocations == Abstract!Spec
=============================================================================
