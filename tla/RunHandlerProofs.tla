-------------------------- MODULE RunHandlerProofs --------------------------
(***************************************************************************)
(* Safety of RunHandler for any set of threads, requests and attempts.     *)
(* The invariants of the runs are not inductive: that a result goes to the *)
(* attempt it was computed for rests on who holds which attempt (Holding,  *)
(* Disjoint), and the type of retries on when it may reach max_retries     *)
(* (Counting).                                                             *)
(***************************************************************************)
EXTENDS RunHandler, TLAPS

Working == {"handler", "post", "posting"}

(* The failures counted, and when run_handler is over.                     *)
Counting ==
  \A t \in Threads :
    /\ retries[t] = streak[t]
    /\ pc[t] = "next"     => retries[t] < 3
    /\ pc[t] = "returned" => retries[t] = 3 \/ refused[t]
    /\ refused[t]         => pc[t] \in {"returned", "down"}

(* The invocation id a thread has for attempt i is i's, and known if sent. *)
IdOk(i, id) == id \in {i, NoId} /\ (i \in named => id = i)

(* A thread that works holds one attempt, of the request it names, posted  *)
(* once it has left "post".                                                *)
HoldsRequest(t) ==
  IF pc[t] \in Working
    THEN /\ req[t].origin \in InvocationIds
         /\ req[t].request_id \in RequestIds
         /\ assigned[req[t].origin] = req[t].request_id
         /\ posts[req[t].origin] = (IF pc[t] = "posting" THEN 1 ELSE 0)
         /\ IdOk(req[t].origin, req[t].invocation_id)
    ELSE req[t].origin = NoId

(* An attempt on the wire is one that nobody has worked on.                *)
HoldsAnswer(t) ==
  IF wire[t].origin = NoId
    THEN wire[t].request_id = NoId
    ELSE /\ pc[t] = "next"
         /\ assigned[wire[t].origin] \in RequestIds
         /\ wire[t].request_id \in {NoId, assigned[wire[t].origin]}
         /\ posts[wire[t].origin] = 0
         /\ IdOk(wire[t].origin, wire[t].invocation_id)

Holding == \A t \in Threads : HoldsRequest(t) /\ HoldsAnswer(t)

(* No attempt is held by two threads.                                      *)
Disjoint ==
  \A t, u \in Threads :
    t # u => {req[t].origin, wire[t].origin}
               \cap {req[u].origin, wire[u].origin} \subseteq {NoId}

(* An attempt that is not made yet has left no trace.                      *)
FreshUntouched ==
  \A i \in InvocationIds : assigned[i] = NoId => posts[i] = 0 /\ i \notin named

(* The service waits for attempts it made for that very request.           *)
InflightAssigned ==
  \A r \in RequestIds : inflight[r] # NoId => assigned[inflight[r]] = r

(* What the service and the history say of attempts and their results.     *)
Crediting ==
  /\ FreshUntouched
  /\ InflightAssigned
  /\ PostedAtMostOnce
  /\ ResultMatchesRequest
  /\ NoCrossWiring

(* What every step preserves, and implies the invariants of the runs.      *)
IInv == TypeOK /\ Counting /\ Holding /\ Disjoint /\ Crediting

-----------------------------------------------------------------------------
(* A freshly started process and an idle service satisfy the invariant.    *)
LEMMA InitInv == Init => IInv
<1> SUFFICES ASSUME Init PROVE IInv
    OBVIOUS
<1> USE NoIdAssumption DEF Init, ApiInit
<1>1. TypeOK
      BY MaxFaultsAssumption DEF TypeOK, ApiTypeOK, MaxStreak, Labels, MaybeRequest,
         MaybeInvocation, Request, Answer, NoReq, NoAnswer, Defects
<1>2. Counting
      BY DEF Counting
<1>3. Holding /\ Disjoint
      BY DEF Holding, HoldsRequest, HoldsAnswer, Disjoint, Working, NoReq,
         NoAnswer
<1>4. Crediting
      BY DEF Crediting, FreshUntouched, InflightAssigned, PostedAtMostOnce,
         ResultMatchesRequest, NoCrossWiring
<1> QED BY <1>1, <1>2, <1>3, <1>4 DEF IInv

(* The empty records have their types, and an answer with no attempt too.  *)
LEMMA BareTypes ==
  /\ NoReq \in Request
  /\ NoAnswer \in Answer
  /\ \A code \in Codes, defect \in Defects : Bare(code, defect) \in Answer
BY DEF NoReq, Request, NoAnswer, Answer, Bare, MaybeRequest, MaybeInvocation,
   Defects

(* Every step keeps the types and the count of failures.                   *)
LEMMA TypeStep == IInv /\ [Next]_vars => TypeOK' /\ Counting'
<1> SUFFICES ASSUME TypeOK, Counting, Holding, [Next]_vars
             PROVE TypeOK' /\ Counting'
    BY DEF IInv
<1> USE BareTypes, MaxFaultsAssumption DEF TypeOK, Counting, ApiTypeOK,
    historyVars, MaxStreak,
    envVars, apiVars, threadVars, Goto, Labels
<1>1. ASSUME NEW t \in Threads, GetNext(t) PROVE TypeOK' /\ Counting'
      BY <1>1 DEF GetNext, MayTry, max_retries
<1>2. ASSUME NEW t \in Threads, GiveUp(t) PROVE TypeOK' /\ Counting'
      BY <1>2 DEF GiveUp, MayTry, max_retries
<1>3. ASSUME NEW t \in Threads, NextNotMade(t) PROVE TypeOK' /\ Counting'
      BY <1>3 DEF NextNotMade, NextFailed, AfterFailure, Outage, Fault
<1>4. ASSUME NEW t \in Threads, NextNullContentType(t)
       PROVE TypeOK' /\ Counting'
      BY <1>4 DEF NextNullContentType, CrashProcess
<1>5. ASSUME NEW t \in Threads, NextRefused(t) PROVE TypeOK' /\ Counting'
      BY <1>5 DEF NextRefused, NextFailed, AfterFailure
<1>6. ASSUME NEW t \in Threads, NextBadDeadline(t) PROVE TypeOK' /\ Counting'
      BY <1>6 DEF NextBadDeadline, CrashProcess
<1>7. ASSUME NEW t \in Threads, NextOk(t) PROVE TypeOK' /\ Counting'
      BY <1>7 DEF NextOk, AfterSuccess, Answer, Request
<1>8. ASSUME NEW t \in Threads, NEW success \in BOOLEAN, HandlerReturns(t, success)
       PROVE TypeOK' /\ Counting'
      BY <1>8 DEF HandlerReturns, AfterHandler
<1>9. ASSUME NEW t \in Threads, HandlerCrashes(t) PROVE TypeOK' /\ Counting'
      BY <1>9 DEF HandlerCrashes, CrashProcess, Fault
<1>10. ASSUME NEW t \in Threads, SendPost(t) PROVE TypeOK' /\ Counting'
  <2>1. posts' \in [InvocationIds -> Nat]
    <3>1. ASSUME NEW i \in InvocationIds PROVE posts'[i] \in Nat
          BY <1>10, <3>1 DEF SendPost
    <3> QED BY <1>10, <3>1 DEF SendPost
  <2> QED BY <1>10, <2>1 DEF SendPost
<1>11. ASSUME NEW t \in Threads, PostOk(t) PROVE TypeOK' /\ Counting'
      BY <1>11 DEF PostOk, EndOfBody
<1>12. ASSUME NEW t \in Threads, PostRefused(t) PROVE TypeOK' /\ Counting'
      BY <1>12 DEF PostRefused, EndOfBody, AfterFailedPost
<1>13. ASSUME NEW t \in Threads, PostNotMade(t) PROVE TypeOK' /\ Counting'
      BY <1>13 DEF PostNotMade, EndOfBody, AfterFailedPost, Outage, Fault
<1>14. ASSUME NEW t \in Threads, NEW r \in RequestIds,
              NEW i \in InvocationIds, NEW code \in Codes, NEW sent \in IdSent,
              NEW complete \in BOOLEAN, NEW defect \in Defects,
              AnswerNext(t, r, i, code, sent, complete, defect)
       PROVE TypeOK' /\ Counting'
      BY <1>14 DEF AnswerNext, Waiting, Dispatch, Fault, Answer, MaybeRequest,
         MaybeInvocation
<1>15. ASSUME NEW t \in Threads, NEW code \in Codes, NEW defect \in Defects,
             AnswerNextWithError(t, code, defect) PROVE TypeOK' /\ Counting'
      BY <1>15 DEF AnswerNextWithError, Waiting, Fault
<1>16. ASSUME NEW t \in Threads, NEW code \in Codes, AnswerPost(t, code)
       PROVE TypeOK' /\ Counting'
  <2> DEFINE m == PostOf(t)
  <2>1. m \in Post /\ inflight[m.request_id] \in InvocationIds
        BY <1>16 DEF AnswerPost, Waiting, Holding, HoldsRequest, Working,
           PostOf, UrlId, HeaderId, Post, Take, Accepts, Request, MaybeInvocation
  <2>2. results' \subseteq Result /\ inflight' \in [RequestIds -> MaybeInvocation]
    <3> HIDE DEF m
    <3> QED BY <1>16, <2>1 DEF AnswerPost, Take, Post, Result, MaybeInvocation, m
  <2>3. wire' \in [Threads -> Answer]
        BY <1>16 DEF AnswerPost, Defects
  <2> QED BY <1>16, <2>2, <2>3 DEF AnswerPost, Take, Waiting
<1>17. ASSUME NEW t \in Threads, NEW code \in Codes, AnswerPostWithError(t, code)
       PROVE TypeOK' /\ Counting'
      BY <1>17 DEF AnswerPostWithError, Waiting, Fault, Defects
<1>18. ASSUME NEW r \in RequestIds, ExpireRequest(r)
       PROVE TypeOK' /\ Counting'
      BY <1>18 DEF ExpireRequest, Expire, Fault, MaybeInvocation
<1>19. ASSUME GoDark PROVE TypeOK' /\ Counting'
  <2>1. faults' \in 0..MaxFaults
        BY <1>19 DEF GoDark, Fault
  <2>2. reachable' \in BOOLEAN
        BY <1>19 DEF GoDark
  <2> QED BY <1>19, <2>1, <2>2 DEF GoDark
<1>20. ASSUME Restart PROVE TypeOK' /\ Counting'
      BY <1>20 DEF Restart
<1>21. ASSUME UNCHANGED vars PROVE TypeOK' /\ Counting'
      BY <1>21 DEF vars
<1> HIDE DEF TypeOK, Counting, ApiTypeOK,
    historyVars, MaxStreak,
    envVars, apiVars, threadVars, Goto, Labels
<1> QED
     BY <1>1, <1>2, <1>3, <1>4, <1>5, <1>6, <1>7, <1>8, <1>9, <1>10, <1>11,
       <1>12, <1>13, <1>14, <1>15, <1>16, <1>17, <1>18, <1>19, <1>20, <1>21
       DEF Next, ThreadStep, ServiceStep, AfterGetNext, Defects

(* Every step keeps each attempt in the hands of at most one thread.       *)
LEMMA HoldStep == IInv /\ [Next]_vars => Holding' /\ Disjoint'
<1> SUFFICES ASSUME IInv, [Next]_vars PROVE Holding' /\ Disjoint'
    OBVIOUS
<1> USE NoIdAssumption DEF IInv, TypeOK, Holding, HoldsRequest, HoldsAnswer,
    IdOk, Disjoint, Working, ApiTypeOK, historyVars, envVars, apiVars, threadVars,
    Goto, NoReq, NoAnswer, Bare
<1>1. ASSUME NEW t \in Threads, GetNext(t) PROVE Holding' /\ Disjoint'
      BY <1>1 DEF GetNext, MayTry, max_retries
<1>2. ASSUME NEW t \in Threads, GiveUp(t) PROVE Holding' /\ Disjoint'
      BY <1>2 DEF GiveUp, MayTry, max_retries
<1>3. ASSUME NEW t \in Threads, NextNotMade(t) PROVE Holding' /\ Disjoint'
      BY <1>3 DEF NextNotMade, NextFailed, AfterFailure, Outage, Fault
<1>4. ASSUME NEW t \in Threads, NextNullContentType(t)
       PROVE Holding' /\ Disjoint'
      BY <1>4 DEF NextNullContentType, CrashProcess
<1>5. ASSUME NEW t \in Threads, NextRefused(t) PROVE Holding' /\ Disjoint'
      BY <1>5 DEF NextRefused, NextFailed, AfterFailure
<1>6. ASSUME NEW t \in Threads, NextBadDeadline(t) PROVE Holding' /\ Disjoint'
      BY <1>6 DEF NextBadDeadline, CrashProcess
<1>7. ASSUME NEW t \in Threads, NextOk(t) PROVE Holding' /\ Disjoint'
  <2>1. /\ pc'[t] = "handler" /\ wire'[t] = NoAnswer
        /\ req'[t].origin = wire[t].origin
        /\ req'[t].request_id = wire[t].request_id
        /\ req'[t].invocation_id = wire[t].invocation_id
        BY <1>7 DEF NextOk
  <2>2. \A u \in Threads : u # t => /\ pc'[u] = pc[u] /\ wire'[u] = wire[u]
                                   /\ req'[u] = req[u]
        BY <1>7 DEF NextOk
  <2>3. UNCHANGED <<assigned, posts, named>>
        BY <1>7 DEF NextOk
  <2>4. /\ wire[t].request_id # NoId /\ wire[t].origin \in InvocationIds
        /\ assigned[wire[t].origin] = wire[t].request_id
        /\ wire[t].request_id \in RequestIds /\ posts[wire[t].origin] = 0
        /\ req[t].origin = NoId
    <3>1. pc[t] = "next" /\ wire[t].request_id # NoId
          BY <1>7 DEF NextOk
    <3>2. wire[t].origin \in MaybeInvocation
          BY DEF Answer
    <3>3. HoldsRequest(t) /\ HoldsAnswer(t)
          OBVIOUS
    <3> QED BY <3>1, <3>2, <3>3 DEF MaybeInvocation
  <2>5. \A u \in Threads : u # t => HoldsRequest(u)' /\ HoldsAnswer(u)'
        BY <2>2, <2>3
  <2>6. HoldsRequest(t)' /\ HoldsAnswer(t)'
        BY <2>1, <2>3, <2>4
  <2>7. Disjoint'
        BY <2>1, <2>2, <2>4
  <2> QED BY <2>5, <2>6, <2>7
<1>8. ASSUME NEW t \in Threads, NEW success \in BOOLEAN, HandlerReturns(t, success)
       PROVE Holding' /\ Disjoint'
      BY <1>8 DEF HandlerReturns, AfterHandler
<1>9. ASSUME NEW t \in Threads, HandlerCrashes(t) PROVE Holding' /\ Disjoint'
      BY <1>9 DEF HandlerCrashes, CrashProcess, Fault
<1>10. ASSUME NEW t \in Threads, SendPost(t) PROVE Holding' /\ Disjoint'
  <2>1. pc'[t] = "posting" /\ \A u \in Threads : u # t => pc'[u] = pc[u]
        BY <1>10 DEF SendPost
  <2>2. UNCHANGED <<assigned, named, req, wire>>
        BY <1>10 DEF SendPost
  <2>3. /\ req[t].origin \in InvocationIds /\ wire[t].origin = NoId
        /\ posts'[req[t].origin] = 1
        /\ \A i \in InvocationIds : i # req[t].origin => posts'[i] = posts[i]
        BY <1>10 DEF SendPost
  <2>4. ASSUME NEW u \in Threads, u # t PROVE HoldsRequest(u)' /\ HoldsAnswer(u)'
    <3>1. req[u].origin # req[t].origin /\ wire[u].origin # req[t].origin
      <4>1. {req[u].origin, wire[u].origin}
              \cap {req[t].origin, wire[t].origin} \subseteq {NoId}
            BY <2>4
      <4>2. req[t].origin # NoId
            BY <2>3
      <4> QED BY <4>1, <4>2
    <3>2. HoldsRequest(u)'
          BY <2>1, <2>2, <2>3, <2>4, <3>1
    <3>3. HoldsAnswer(u)'
      <4>1. wire[u].origin \in MaybeInvocation
            BY DEF Answer
      <4> QED BY <2>1, <2>2, <2>3, <2>4, <3>1, <4>1 DEF MaybeInvocation
    <3> QED BY <3>2, <3>3
  <2>5. HoldsRequest(t)' /\ HoldsAnswer(t)'
        BY <1>10, <2>1, <2>2, <2>3 DEF SendPost
  <2>6. Disjoint'
        BY <2>2
  <2> QED BY <2>4, <2>5, <2>6
<1>11. ASSUME NEW t \in Threads, PostOk(t) PROVE Holding' /\ Disjoint'
      BY <1>11 DEF PostOk, EndOfBody
<1>12. ASSUME NEW t \in Threads, PostRefused(t) PROVE Holding' /\ Disjoint'
      BY <1>12 DEF PostRefused, EndOfBody, AfterFailedPost
<1>13. ASSUME NEW t \in Threads, PostNotMade(t) PROVE Holding' /\ Disjoint'
      BY <1>13 DEF PostNotMade, EndOfBody, AfterFailedPost, Outage, Fault
<1>14. ASSUME NEW t \in Threads, NEW r \in RequestIds, NEW i \in InvocationIds,
              NEW code \in Codes, NEW sent \in IdSent, NEW complete \in BOOLEAN,
              NEW defect \in Defects,
              AnswerNext(t, r, i, code, sent, complete, defect)
       PROVE Holding' /\ Disjoint'
  <2>1. /\ pc[t] = "next" /\ wire[t].origin = NoId /\ wire'[t].origin = i
        /\ wire'[t].request_id = (IF complete THEN r ELSE NoId)
        /\ wire'[t].invocation_id = (IF sent THEN i ELSE NoId)
        /\ \A u \in Threads : u # t => wire'[u] = wire[u]
        BY <1>14 DEF AnswerNext, Waiting
  <2>2. UNCHANGED <<pc, req, posts>>
        BY <1>14 DEF AnswerNext
  <2>3. /\ assigned[i] = NoId /\ assigned'[i] = r
        /\ \A j \in InvocationIds : j # i => assigned'[j] = assigned[j]
        BY <1>14 DEF AnswerNext, Dispatch
  <2>4. named' = (IF sent THEN named \cup {i} ELSE named)
        BY <1>14 DEF AnswerNext
  <2>5. posts[i] = 0 /\ i \notin named
        BY <2>3 DEF Crediting, FreshUntouched
  <2>6. \A u \in Threads : req[u].origin # i /\ wire[u].origin # i
        BY <2>3
  <2>7. \A u \in Threads : HoldsRequest(u)'
        BY <2>1, <2>2, <2>3, <2>4, <2>6
  <2>8. \A u \in Threads : u # t => HoldsAnswer(u)'
    <3> TAKE u \in Threads
    <3> HAVE u # t
    <3>1. wire[u].origin \in MaybeInvocation
          BY DEF Answer
    <3> QED BY <2>1, <2>2, <2>3, <2>4, <2>6, <3>1 DEF MaybeInvocation
  <2>9. HoldsAnswer(t)'
        BY <2>1, <2>2, <2>3, <2>4, <2>5
  <2>10. Disjoint'
        BY <2>1, <2>2, <2>6
  <2> QED BY <2>7, <2>8, <2>9, <2>10
<1>15. ASSUME NEW t \in Threads, NEW code \in Codes, NEW defect \in Defects,
             AnswerNextWithError(t, code, defect) PROVE Holding' /\ Disjoint'
      BY <1>15 DEF AnswerNextWithError, Waiting, Fault
<1>16. ASSUME NEW t \in Threads, NEW code \in Codes, AnswerPost(t, code)
       PROVE Holding' /\ Disjoint'
  <2>1. UNCHANGED <<assigned, named, posts, pc, req>>
        BY <1>16 DEF AnswerPost, Take
  <2>2. /\ wire'[t].origin = NoId /\ wire'[t].request_id = NoId
        /\ \A u \in Threads : u # t => wire'[u] = wire[u]
        BY <1>16 DEF AnswerPost
  <2> QED BY <2>1, <2>2
<1>17. ASSUME NEW t \in Threads, NEW code \in Codes, AnswerPostWithError(t, code)
       PROVE Holding' /\ Disjoint'
      BY <1>17 DEF AnswerPostWithError, Waiting, Fault, Defects
<1>18. ASSUME NEW r \in RequestIds, ExpireRequest(r)
       PROVE Holding' /\ Disjoint'
      BY <1>18 DEF ExpireRequest, Expire, Fault, MaybeInvocation
<1>19. ASSUME GoDark PROVE Holding' /\ Disjoint'
      BY <1>19 DEF GoDark, Fault
<1>20. ASSUME Restart PROVE Holding' /\ Disjoint'
      BY <1>20 DEF Restart
<1>21. ASSUME UNCHANGED vars PROVE Holding' /\ Disjoint'
      BY <1>21 DEF vars
<1> HIDE DEF IInv, TypeOK, Holding, HoldsRequest, HoldsAnswer,
    IdOk, Disjoint, Working, ApiTypeOK, historyVars, envVars, apiVars, threadVars,
    Goto, NoReq, NoAnswer, Bare
<1> QED
     BY <1>1, <1>2, <1>3, <1>4, <1>5, <1>6, <1>7, <1>8, <1>9, <1>10, <1>11,
       <1>12, <1>13, <1>14, <1>15, <1>16, <1>17, <1>18, <1>19, <1>20, <1>21
       DEF Next, ThreadStep, ServiceStep, AfterGetNext, Defects

(* Every step keeps results with the attempt they were computed for: only  *)
(* SendPost, AnswerNext, AnswerPost and ExpireRequest touch what it says.  *)
LEMMA CreditStep == IInv /\ [Next]_vars => Crediting'
<1> SUFFICES ASSUME IInv, [Next]_vars PROVE Crediting'
    OBVIOUS
<1> USE NoIdAssumption DEF IInv, TypeOK, ApiTypeOK, Crediting, FreshUntouched,
    InflightAssigned, PostedAtMostOnce, ResultMatchesRequest, NoCrossWiring
<1>1. CASE UNCHANGED <<apiVars, posts, named>>
      BY <1>1 DEF apiVars
<1>2. ASSUME NEW t \in Threads, SendPost(t) PROVE Crediting'
  <2>1. UNCHANGED <<assigned, inflight, results, named>>
        BY <1>2 DEF SendPost, apiVars
  <2>2. /\ req[t].origin \in InvocationIds /\ assigned[req[t].origin] # NoId
        /\ posts[req[t].origin] = 0 /\ posts'[req[t].origin] = 1
        /\ \A i \in InvocationIds : i # req[t].origin => posts'[i] = posts[i]
        BY <1>2 DEF SendPost, Holding, HoldsRequest, Working
  <2>3. \A x \in results : x.origin \in InvocationIds /\ x.origin # req[t].origin
        BY <2>2 DEF Result
  <2> QED BY <2>1, <2>2, <2>3
<1>3. ASSUME NEW t \in Threads, NEW r \in RequestIds, NEW i \in InvocationIds,
             NEW code \in Codes, NEW sent \in IdSent, NEW complete \in BOOLEAN,
             NEW defect \in Defects,
             AnswerNext(t, r, i, code, sent, complete, defect)
      PROVE Crediting'
  <2>1. UNCHANGED <<results, posts>>
        BY <1>3 DEF AnswerNext, Dispatch
  <2>2. /\ assigned[i] = NoId /\ assigned'[i] = r
        /\ \A j \in InvocationIds : j # i => assigned'[j] = assigned[j]
        BY <1>3 DEF AnswerNext, Dispatch
  <2>3. /\ inflight'[r] = i
        /\ \A q \in RequestIds : q # r => inflight'[q] = inflight[q]
        BY <1>3 DEF AnswerNext, Dispatch
  <2>4. named \subseteq named' /\ named' \subseteq named \cup {i}
        BY <1>3 DEF AnswerNext
  <2>5. \A x \in results : /\ x.origin \in InvocationIds \ {i}
                           /\ x.credited \in InvocationIds \ {i}
        BY <2>2 DEF Result
  <2>6. \A q \in RequestIds : inflight[q] # NoId => inflight[q] \in
           InvocationIds \ {i}
        BY <2>2 DEF MaybeInvocation
  <2>7. FreshUntouched'
        BY <2>1, <2>2, <2>4
  <2>8. InflightAssigned'
        BY <2>2, <2>3, <2>6
  <2>9. PostedAtMostOnce' /\ ResultMatchesRequest'
        BY <2>1, <2>2, <2>5
  <2>10. NoCrossWiring'
        BY <2>1, <2>4, <2>5
  <2> QED BY <2>7, <2>8, <2>9, <2>10
<1>4. ASSUME NEW t \in Threads, NEW code \in Codes, AnswerPost(t, code)
      PROVE Crediting'
  <2> DEFINE a == inflight[req[t].request_id]
             w == req[t].origin
  <2>1. UNCHANGED <<assigned, posts, named>>
        BY <1>4 DEF AnswerPost, Take, historyVars
  <2>2. /\ w \in InvocationIds /\ assigned[w] = req[t].request_id /\ posts[w] = 1
        /\ req[t].request_id \in RequestIds /\ IdOk(w, req[t].invocation_id)
        BY <1>4 DEF AnswerPost, Waiting, Holding, HoldsRequest, Working
  <2>3. a # NoId /\ req[t].invocation_id \in {NoId, a}
        BY <1>4 DEF AnswerPost, Take, Accepts, PostOf, UrlId, HeaderId
  <2>4. assigned[a] = req[t].request_id /\ (w \in named => w = a)
        BY <2>2, <2>3 DEF IdOk
  <2>5. ASSUME NEW x \in results', x \notin results
        PROVE x.origin = w /\ x.credited = a /\ x.request_id = req[t].request_id
        BY <1>4, <2>5 DEF AnswerPost, Take, PostOf, UrlId
  <2>6. \A r \in RequestIds : inflight'[r] # NoId => inflight'[r] = inflight[r]
        BY <1>4, <2>2 DEF AnswerPost, Take, PostOf, UrlId
  <2>7. FreshUntouched' /\ InflightAssigned'
        BY <2>1, <2>6
  <2>8. PostedAtMostOnce' /\ ResultMatchesRequest' /\ NoCrossWiring'
        BY <2>1, <2>2, <2>4, <2>5
  <2> QED BY <2>7, <2>8
<1>5. ASSUME NEW r \in RequestIds, ExpireRequest(r) PROVE Crediting'
      BY <1>5 DEF ExpireRequest, Expire, historyVars
<1> HIDE DEF IInv, TypeOK, ApiTypeOK, Crediting, FreshUntouched,
    InflightAssigned, PostedAtMostOnce, ResultMatchesRequest, NoCrossWiring
<1> QED
  <2> USE DEF apiVars, historyVars
  <2>1. ASSUME NEW t \in Threads, ThreadStep(t)
        PROVE SendPost(t) \/ UNCHANGED <<apiVars, posts, named>>
        BY <2>1 DEF ThreadStep, AfterGetNext, GetNext, GiveUp, NextNotMade,
           NextRefused,
           NextFailed, NextNullContentType, NextBadDeadline, NextOk, HandlerReturns,
           HandlerCrashes, PostOk, PostRefused, PostNotMade, EndOfBody
  <2>2. ASSUME NEW t \in Threads, ServiceStep(t) PROVE Crediting'
        BY <1>1, <1>3, <1>4, <2>2 DEF ServiceStep, AnswerNextWithError,
           AnswerPostWithError
  <2>3. GoDark \/ Restart \/ UNCHANGED vars => UNCHANGED <<apiVars, posts, named>>
        BY DEF GoDark, Restart, vars
  <2> QED BY <1>1, <1>2, <1>5, <2>1, <2>2, <2>3 DEF Next

(***************************************************************************)
(* The theorems.                                                           *)
(***************************************************************************)
(* The inductive invariant holds in every reachable state.                 *)
THEOREM Safety == Spec => []IInv
<1>1. IInv /\ [Next]_vars => IInv'
      BY TypeStep, HoldStep, CreditStep DEF IInv
<1> QED BY InitInv, <1>1, PTL DEF Spec

(* The variables of RunHandler stay in their types.                        *)
THEOREM TypeCorrect == Spec => []TypeOK
BY Safety, PTL DEF IInv

(* The result of one attempt is never credited to another one of the same  *)
(* request when the service sends invocation ids.                          *)
THEOREM NeverCrossWired == Spec => []NoCrossWiring
BY Safety, PTL DEF IInv, Crediting

(* The result of one request is never credited to another request.         *)
THEOREM ResultsMatch == Spec => []ResultMatchesRequest
BY Safety, PTL DEF IInv, Crediting

(* The work of an attempt is posted at most once.                          *)
THEOREM NeverPostedTwice == Spec => []PostedAtMostOnce
BY Safety, PTL DEF IInv, Crediting

(* run_handler returns after three failures in a row or one failed POST.   *)
THEOREM ReturnJustified == Spec => []ReturnsOnlyWhenSpent
<1>1. IInv => ReturnsOnlyWhenSpent
      BY DEF IInv, Counting, ReturnsOnlyWhenSpent, TypeOK
<1> QED BY <1>1, Safety, PTL
=============================================================================
