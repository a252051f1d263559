-------------------------- MODULE InvocationsProofs --------------------------
(***************************************************************************)
(* What becomes of the attempts at a request, for any threads, requests,   *)
(* attempts and faults.  Where invocation ids are sent, run_handler and    *)
(* the service implement Invocations: answering, handing out and expiring  *)
(* an attempt are its steps, and all the rest of the loop, the crashes and *)
(* the restarts are not seen by clients.  With or without ids, the         *)
(* attempts that are wasted are paid for by faults.                        *)
(***************************************************************************)
EXTENDS RunHandlerProofs, FiniteSetTheorems

(* Besides the invariant of RunHandlerProofs: every attempt has its id, a  *)
(* request waits either in the queue or for an attempt, and one that is    *)
(* answered for neither.                                                   *)
AllNamed == \A i \in InvocationIds : assigned[i] # NoId => i \in named

OnePlace ==
  /\ \A r \in queue : inflight[r] = NoId
  /\ \A x \in results : x.request_id \notin queue /\ inflight[x.request_id] = NoId

RInv == IInv /\ AllNamed /\ OnePlace

Credited(i) == \E x \in results : x.credited = i
Open(i)     == \E r \in RequestIds : inflight[r] = i

Unseen == UNCHANGED <<queue, assigned, inflight, results, named>>

(* The steps that are seen.                                                *)
Handed(t, r, i) == \E code \in Codes, complete \in BOOLEAN, defect \in Defects :
                     AnswerNext(t, r, i, code, TRUE, complete, defect)
Posted(t)       == \E code \in Codes : AnswerPost(t, code)

-----------------------------------------------------------------------------
(* What StatusOf says, whatever the order of its cases.                    *)
CasesExclude ==
  \A i \in InvocationIds :
    /\ (StatusOf(i) = "unissued")  <=> assigned[i] = NoId
    /\ (StatusOf(i) = "answered")  <=> Credited(i)
    /\ (StatusOf(i) = "open")      <=> Open(i)
    /\ StatusOf(i) \in {"unissued", "answered", "open", "abandoned"}

(* Under the invariant the cases of StatusOf exclude each other.           *)
LEMMA StatusIs == RInv => CasesExclude
<1> SUFFICES ASSUME RInv, NEW i \in InvocationIds
             PROVE  /\ (StatusOf(i) = "unissued")  <=> assigned[i] = NoId
                    /\ (StatusOf(i) = "answered")  <=> Credited(i)
                    /\ (StatusOf(i) = "open")      <=> Open(i)
                    /\ StatusOf(i) \in {"unissued", "answered", "open", "abandoned"}
  BY DEF CasesExclude
<1>1. \A x \in results : /\ x.request_id \in RequestIds /\ x.credited \in InvocationIds
                         /\ assigned[x.credited] = x.request_id
  BY DEF RInv, IInv, TypeOK, ApiTypeOK, Result, Crediting, ResultMatchesRequest
<1>2. \A r \in RequestIds : inflight[r] = i => assigned[i] = r
  BY NoIdAssumption DEF RInv, IInv, Crediting, InflightAssigned
<1>3. assigned[i] = NoId => ~Credited(i) /\ ~Open(i)
  BY <1>1, <1>2, NoIdAssumption DEF Credited, Open
<1>4. ~(Credited(i) /\ Open(i))
  BY <1>1, <1>2, NoIdAssumption DEF RInv, OnePlace, Credited, Open
<1>5. CASE assigned[i] = NoId
  BY <1>3, <1>5 DEF StatusOf, Credited, Open
<1>6. CASE Credited(i)
  BY <1>3, <1>4, <1>6 DEF StatusOf, Credited, Open
<1>7. CASE Open(i)
  BY <1>3, <1>4, <1>7 DEF StatusOf, Credited, Open
<1>8. CASE assigned[i] # NoId /\ ~Credited(i) /\ ~Open(i)
  BY <1>8 DEF StatusOf, Credited, Open
<1> QED BY <1>5, <1>6, <1>7, <1>8

(* Every step is seen as one of three, or not at all.                      *)
LEMMA StepsSeen ==
  ASSUME IdSent = {TRUE}, [Next]_vars
  PROVE  \/ \E t \in Threads, r \in RequestIds, i \in InvocationIds : Handed(t, r, i)
         \/ \E t \in Threads : Posted(t)
         \/ \E r \in RequestIds : ExpireRequest(r)
         \/ Unseen
<1> USE DEF apiVars, historyVars, Unseen
<1>1. ASSUME NEW t \in Threads, ThreadStep(t) PROVE Unseen
  BY <1>1 DEF ThreadStep, AfterGetNext, GetNext, GiveUp, NextNotMade, NextRefused, NextFailed,
     NextNullContentType, NextBadDeadline, NextOk, HandlerReturns, HandlerCrashes, SendPost,
     PostOk, PostRefused, PostNotMade, EndOfBody
<1>2. ASSUME NEW t \in Threads, ServiceStep(t)
      PROVE  \/ \E r \in RequestIds, i \in InvocationIds : Handed(t, r, i)
             \/ Posted(t) \/ Unseen
  BY <1>2 DEF ServiceStep, Handed, Posted, AnswerNextWithError, AnswerPostWithError
<1>3. GoDark \/ Restart \/ UNCHANGED vars => Unseen
  BY DEF GoDark, Restart, vars
<1> QED BY <1>1, <1>2, <1>3 DEF Next

(* What an attempt that is handed out changes.                             *)
LEMMA HandedChanges ==
  ASSUME NEW t \in Threads, NEW r \in RequestIds, NEW i \in InvocationIds, Handed(t, r, i), RInv
  PROVE  /\ r \in queue /\ assigned[i] = NoId
         /\ queue' = queue \ {r} /\ assigned' = [assigned EXCEPT ![i] = r]
         /\ inflight' = [inflight EXCEPT ![r] = i]
         /\ results' = results /\ named' = named \cup {i}
BY DEF Handed, AnswerNext, Dispatch

(* What a result that is taken changes: it is credited to the attempt it   *)
(* was computed for.                                                       *)
LEMMA PostedChanges ==
  ASSUME NEW t \in Threads, Posted(t), RInv
  PROVE  \E r \in RequestIds, i \in InvocationIds, x \in Result :
           /\ inflight[r] = i /\ assigned[i] = r
           /\ x.request_id = r /\ x.credited = i /\ x.origin = i
           /\ results' = results \cup {x} /\ inflight' = [inflight EXCEPT ![r] = NoId]
           /\ UNCHANGED <<queue, assigned, named>>
<1> DEFINE r == req[t].request_id
           i == inflight[r]
           w == req[t].origin
           x == [request_id |-> r, credited |-> i, origin |-> w,
                 invocation_id |-> req[t].invocation_id,
                 endpoint |-> IF res[t] THEN "response" ELSE "error"]
<1>1. PICK code \in Codes : AnswerPost(t, code)
  BY DEF Posted
<1>2. /\ w \in InvocationIds /\ r \in RequestIds /\ assigned[w] = r
      /\ IdOk(w, req[t].invocation_id)
  BY <1>1 DEF AnswerPost, Waiting, RInv, IInv, Holding, HoldsRequest, Working
<1>3. i # NoId /\ req[t].invocation_id \in {NoId, i}
  BY <1>1 DEF AnswerPost, Take, Accepts, PostOf, UrlId, HeaderId
<1>4. i \in InvocationIds /\ assigned[i] = r
  BY <1>2, <1>3 DEF RInv, IInv, TypeOK, ApiTypeOK, MaybeInvocation, Crediting, InflightAssigned
<1>5. w = i
  BY <1>2, <1>3, NoIdAssumption DEF IdOk, RInv, AllNamed
<1>6. results' = results \cup {x} /\ inflight' = [inflight EXCEPT ![r] = NoId]
  BY <1>1 DEF AnswerPost, Take, PostOf, UrlId, HeaderId
<1>7. UNCHANGED <<queue, assigned, named>>
  BY <1>1 DEF AnswerPost, Take, historyVars
<1>8. x \in Result
  BY <1>2, <1>3, <1>4 DEF Result, MaybeInvocation
<1>9. inflight[r] = i /\ x.request_id = r /\ x.credited = i /\ x.origin = i
  BY <1>5
<1> HIDE DEF r, i, w, x
<1> QED BY <1>2, <1>4, <1>6, <1>7, <1>8, <1>9

(* What an attempt that expires changes.                                   *)
LEMMA ExpiredChanges ==
  ASSUME NEW r \in RequestIds, ExpireRequest(r), RInv
  PROVE  \E i \in InvocationIds :
           /\ inflight[r] = i /\ assigned[i] = r
           /\ queue' = queue \cup {r} /\ inflight' = [inflight EXCEPT ![r] = NoId]
           /\ UNCHANGED <<assigned, results, named>>
<1>1. inflight[r] \in InvocationIds /\ assigned[inflight[r]] = r
  BY DEF ExpireRequest, Expire, RInv, IInv, TypeOK, ApiTypeOK, MaybeInvocation, Crediting,
     InflightAssigned
<1> QED BY <1>1 DEF ExpireRequest, Expire, historyVars

-----------------------------------------------------------------------------
(* A fresh service has every request in the queue and answers none.        *)
LEMMA InitRefines == Init => RInv /\ Abstract!Init
<1> SUFFICES ASSUME Init PROVE RInv /\ Abstract!Init
  OBVIOUS
<1>1. RInv
  BY InitInv DEF RInv, AllNamed, OnePlace, Init, ApiInit
<1>2. \A i \in InvocationIds : StatusOf(i) = "unissued"
  BY <1>1, StatusIs DEF CasesExclude, Init, ApiInit
<1> QED BY <1>1, <1>2 DEF Abstract!Init, Init, ApiInit

(* The invariant is kept.                                                  *)
LEMMA StepKeeps ==
  ASSUME IdSent = {TRUE}, RInv, [Next]_vars
  PROVE  RInv'
<1>1. IInv'
  BY TypeStep, HoldStep, CreditStep DEF IInv, RInv
<1>2. \A x \in results : x.request_id \in RequestIds
  BY DEF RInv, IInv, TypeOK, ApiTypeOK, Result
<1> USE <1>2 DEF RInv, AllNamed, OnePlace, IInv, TypeOK, ApiTypeOK
<1>3. ASSUME NEW t \in Threads, NEW r \in RequestIds, NEW i \in InvocationIds, Handed(t, r, i)
      PROVE  AllNamed' /\ OnePlace'
  BY <1>3, HandedChanges, SMTT(20)
<1>4. ASSUME NEW t \in Threads, Posted(t) PROVE AllNamed' /\ OnePlace'
  BY <1>4, PostedChanges, NoIdAssumption
<1>5. ASSUME NEW r \in RequestIds, ExpireRequest(r) PROVE AllNamed' /\ OnePlace'
  BY <1>5, ExpiredChanges, NoIdAssumption
<1>6. Unseen => AllNamed' /\ OnePlace'
  BY DEF Unseen
<1> QED BY <1>1, <1>3, <1>4, <1>5, <1>6, StepsSeen

(* The status of every attempt, as Invocations sees it.                    *)
Status == [i \in InvocationIds |-> StatusOf(i)]

(* A step that leaves every other attempt as it is changes the status of   *)
(* that one only.                                                          *)
LEMMA StatusChanges ==
  ASSUME RInv, RInv', NEW i \in InvocationIds,
         \A j \in InvocationIds \ {i} :
            /\ assigned'[j] = NoId <=> assigned[j] = NoId
            /\ Credited(j)' <=> Credited(j)
            /\ Open(j)' <=> Open(j)
  PROVE  Status' = [Status EXCEPT ![i] = StatusOf(i)']
<1>1. (RInv => CasesExclude)'
  BY StatusIs, PTL
<1>2. ASSUME NEW j \in InvocationIds \ {i} PROVE StatusOf(j)' = StatusOf(j)
  BY <1>1, <1>2, StatusIs DEF CasesExclude
<1> QED BY <1>2 DEF Status

(* Handing out an attempt is Issue.                                        *)
LEMMA HandedIsIssue ==
  ASSUME RInv, RInv', NEW t \in Threads, NEW r \in RequestIds, NEW i \in InvocationIds,
         Handed(t, r, i)
  PROVE  Abstract!Issue(r, i)
<1> USE NoIdAssumption DEF RInv, IInv, TypeOK, ApiTypeOK
<1>0. (RInv => CasesExclude)'
  BY StatusIs, PTL
<1>1. /\ r \in queue /\ assigned[i] = NoId
      /\ assigned' = [assigned EXCEPT ![i] = r]
      /\ inflight' = [inflight EXCEPT ![r] = i] /\ results' = results
  BY HandedChanges
<1>2. inflight[r] = NoId /\ \A x \in results : x.request_id # r
  BY <1>1 DEF OnePlace
<1>3. Open(i)' /\ \A j \in InvocationIds \ {i} : Open(j)' <=> Open(j)
  BY <1>1, <1>2 DEF Open
<1>4. Status' = [Status EXCEPT ![i] = "open"]
  <2>1. StatusOf(i)' = "open"
    BY <1>0, <1>3 DEF CasesExclude
  <2>2. \A j \in InvocationIds : Credited(j)' <=> Credited(j)
    BY <1>1 DEF Credited
  <2> QED BY <1>1, <1>3, <2>1, <2>2, StatusChanges
<1>5. Status[i] = "unissued"
  BY <1>1, StatusIs DEF CasesExclude, Status
<1>6. \A j \in InvocationIds : assigned[j] = r => Status[j] \notin {"open", "answered"}
  <2> SUFFICES ASSUME NEW j \in InvocationIds, assigned[j] = r PROVE ~Open(j) /\ ~Credited(j)
    BY StatusIs DEF CasesExclude, Status
  <2>1. ~Open(j)
    BY <1>2 DEF Open, Crediting, InflightAssigned
  <2>2. ~Credited(j)
    BY <1>2 DEF Credited, Crediting, ResultMatchesRequest
  <2> QED BY <2>1, <2>2
<1> QED BY <1>1, <1>4, <1>5, <1>6 DEF Abstract!Issue, Abstract!AttemptsOf, Status

(* Taking a result is Answer of the attempt it was computed for.           *)
LEMMA PostedIsAnswer ==
  ASSUME RInv, RInv', NEW t \in Threads, Posted(t)
  PROVE  \E i \in InvocationIds : Abstract!Answer(i)
<1> USE NoIdAssumption DEF RInv, IInv, TypeOK, ApiTypeOK
<1>0. (RInv => CasesExclude)'
  BY StatusIs, PTL
<1>1. PICK r \in RequestIds, i \in InvocationIds, x \in Result :
        /\ inflight[r] = i /\ assigned[i] = r
        /\ x.request_id = r /\ x.credited = i /\ x.origin = i
        /\ results' = results \cup {x} /\ inflight' = [inflight EXCEPT ![r] = NoId]
        /\ UNCHANGED <<queue, assigned, named>>
  BY PostedChanges
<1>2. Credited(i)' /\ \A j \in InvocationIds \ {i} : Credited(j)' <=> Credited(j)
  BY <1>1 DEF Credited
<1>3. \A j \in InvocationIds \ {i} : Open(j)' <=> Open(j)
  BY <1>1 DEF Open
<1>4. Status' = [Status EXCEPT ![i] = "answered"]
  <2>1. StatusOf(i)' = "answered"
    BY <1>0, <1>2 DEF CasesExclude
  <2> QED BY <1>1, <1>2, <1>3, <2>1, StatusChanges
<1>5. Status[i] = "open"
  BY <1>1, StatusIs DEF CasesExclude, Status, Open
<1>6. {<<y.credited, y.origin>> : y \in results}'
        = {<<y.credited, y.origin>> : y \in results} \cup {<<i, i>>}
  BY <1>1
<1> QED BY <1>1, <1>4, <1>5, <1>6 DEF Abstract!Answer, Status

(* An expired attempt is abandoned.                                        *)
LEMMA ExpiredIsAbandon ==
  ASSUME RInv, RInv', NEW r \in RequestIds, ExpireRequest(r)
  PROVE  \E i \in InvocationIds : Abstract!Abandon(i)
<1> USE NoIdAssumption DEF RInv, IInv, TypeOK, ApiTypeOK
<1>0. (RInv => CasesExclude)'
  BY StatusIs, PTL
<1>1. PICK i \in InvocationIds :
        /\ inflight[r] = i /\ assigned[i] = r
        /\ inflight' = [inflight EXCEPT ![r] = NoId]
        /\ UNCHANGED <<assigned, results, named>>
  BY ExpiredChanges
<1>2. \A j \in InvocationIds : Credited(j)' <=> Credited(j)
  BY <1>1 DEF Credited
<1>3. \A j \in InvocationIds \ {i} : Open(j)' <=> Open(j)
  BY <1>1 DEF Open
<1>4. ~Open(i)'
  BY <1>1 DEF Open, Crediting, InflightAssigned
<1>5. Status[i] = "open"
  BY <1>1, StatusIs DEF CasesExclude, Status, Open
<1>6. Status' = [Status EXCEPT ![i] = "abandoned"]
  <2>1. ~Credited(i)'
    BY <1>2, <1>5, StatusIs DEF CasesExclude, Status
  <2>2. StatusOf(i)' = "abandoned"
    BY <1>0, <1>1, <1>4, <2>1 DEF CasesExclude
  <2> QED BY <1>1, <1>2, <1>3, <2>2, StatusChanges
<1> QED BY <1>1, <1>5, <1>6 DEF Abstract!Abandon, Status

(* Every step of the loop and the service is a step of Invocations, or one *)
(* that its variables do not show.                                         *)
LEMMA StepRefines ==
  ASSUME IdSent = {TRUE}, RInv, RInv', [Next]_vars
  PROVE  [Abstract!Next]_Abstract!vars
<1>1. ASSUME NEW t \in Threads, NEW r \in RequestIds, NEW i \in InvocationIds, Handed(t, r, i)
      PROVE  Abstract!Next
  BY <1>1, HandedIsIssue DEF Abstract!Next
<1>2. ASSUME NEW t \in Threads, Posted(t) PROVE Abstract!Next
  BY <1>2, PostedIsAnswer DEF Abstract!Next
<1>3. ASSUME NEW r \in RequestIds, ExpireRequest(r) PROVE Abstract!Next
  BY <1>3, ExpiredIsAbandon DEF Abstract!Next
<1>4. Unseen => UNCHANGED Abstract!vars
  BY DEF Unseen, Abstract!vars, StatusOf
<1> QED BY <1>1, <1>2, <1>3, <1>4, StepsSeen

(***************************************************************************)
(* The theorem.                                                            *)
(***************************************************************************)
(* Where every attempt is handed out with its invocation id, run_handler   *)
(* and the service implement Invocations.                                  *)
THEOREM ImplementsAbstract == IdSent = {TRUE} => (Spec => ImplementsInvocations)
<1> SUFFICES ASSUME IdSent = {TRUE} PROVE Spec => ImplementsInvocations
  OBVIOUS
<1>1. RInv /\ [Next]_vars => RInv'
  BY StepKeeps
<1>2. RInv /\ RInv' /\ [Next]_vars => [Abstract!Next]_Abstract!vars
  BY StepRefines
<1> QED BY InitRefines, <1>1, <1>2, PTL DEF Spec, ImplementsInvocations, Abstract!Spec

(***************************************************************************)
(* What a fault costs.                                                     *)
(***************************************************************************)
InFlight == {i \in InvocationIds : \E r \in RequestIds : inflight[r] = i}
Held(i)  == \E t \in Threads : i \in {req[t].origin, wire[t].origin}

(* The attempts that will not be answered with their own work any more: a  *)
(* thread that cannot reach the service will not answer the one it has.    *)
OnTrack(i) == reachable /\ i \in InFlight /\ Held(i)
Lost == {i \in InvocationIds : /\ assigned[i] # NoId /\ ~OnTrack(i)
                               /\ ~Credited(i)}

(* The answers on the wire that are a fault and will cost their threads,   *)
(* or all threads of the process, what they have.                          *)
Flawed(t) ==
  \/ wire[t].defect # "none"
  \/ wire[t].origin # NoId /\ wire[t].request_id = NoId
  \/ /\ pc[t] = "posting" /\ wire[t].code # 0 /\ ~is_success(wire[t].code)
     /\ req[t].origin \in InFlight
AllFlawed == {t \in Threads : Flawed(t)}

(* What the answers on the wire are, and where a request waits.            *)
OnTheWire ==
  /\ \A r \in queue : inflight[r] = NoId
  /\ \A t \in Threads :
       /\ pc[t] \notin {"next", "posting"} => wire[t] = NoAnswer
       /\ wire[t].origin # NoId            => is_success(wire[t].code)
       /\ pc[t] = "posting" /\ is_success(wire[t].code) => req[t].origin \notin InFlight

(* Every fault pays for one attempt of each request, and so does every     *)
(* answer that is one while it is on the wire.                             *)
Charged ==
  /\ IsFiniteSet(Lost) /\ IsFiniteSet(AllFlawed) /\ IsFiniteSet(results)
  /\ Cardinality(Lost) + Cardinality(AllFlawed) * Cardinality(RequestIds)
       <= faults * Cardinality(RequestIds)

(* What a step may do to them.                                             *)
Harmless == /\ Lost' \subseteq Lost /\ AllFlawed' \subseteq AllFlawed
            /\ faults' \in {faults, faults + 1}
Faulty   == /\ Lost' \subseteq Lost \cup InFlight /\ AllFlawed' \subseteq AllFlawed
            /\ faults' = faults + 1
Answered(t) == /\ Lost' \subseteq Lost /\ AllFlawed' \subseteq AllFlawed \cup {t}
               /\ faults' = faults + 1
Consumed(t) == /\ Lost' \subseteq Lost \cup InFlight
               /\ t \in AllFlawed /\ AllFlawed' \subseteq AllFlawed \ {t}
               /\ faults' = faults
Kind == Harmless \/ Faulty \/ \E t \in Threads : Answered(t) \/ Consumed(t)

(* Attempts that are handed out before are lost only while in flight.      *)
LEMMA LostGrows ==
  ASSUME assigned' = assigned, results \subseteq results'
  PROVE  /\ Lost' \subseteq Lost \cup InFlight
         /\ (\A i \in InvocationIds : OnTrack(i) => \/ OnTrack(i)' 
                                                    \/ \E x \in results' : x.credited = i)
              => Lost' \subseteq Lost
BY DEF Lost, OnTrack, Credited

(* At first nothing is on the wire.                                        *)
LEMMA WireInit == Init => OnTheWire
BY NoIdAssumption DEF Init, ApiInit, OnTheWire, InFlight, NoAnswer, is_success

(* Every step keeps what the answers on the wire are.                      *)
LEMMA WireStep == IInv /\ OnTheWire /\ [Next]_vars => OnTheWire'
<1> SUFFICES ASSUME IInv, OnTheWire, [Next]_vars PROVE OnTheWire'
    OBVIOUS
<1>0. CodesAssumption /\ ~is_success(0)
  BY CodesAssumption DEF is_success, CodesAssumption
<1> USE NoIdAssumption, <1>0 DEF IInv, OnTheWire, InFlight, Goto, TypeOK, ApiTypeOK, apiVars,
    threadVars, envVars, historyVars, NoAnswer
<1>1. ASSUME NEW t \in Threads, ThreadStep(t) PROVE OnTheWire'
  BY <1>1 DEF ThreadStep, AfterGetNext, GetNext, GiveUp, NextNotMade, NextRefused, NextFailed,
     NextNullContentType, NextBadDeadline, NextOk, HandlerReturns, AfterHandler, HandlerCrashes,
     CrashProcess, SendPost, PostOk, PostRefused, PostNotMade, AfterFailedPost, EndOfBody
<1>2. ASSUME NEW t \in Threads, NEW r \in RequestIds, NEW i \in InvocationIds, NEW code \in Codes,
             NEW sent \in IdSent, NEW complete \in BOOLEAN, NEW defect \in Defects,
             AnswerNext(t, r, i, code, sent, complete, defect)
      PROVE OnTheWire'
  <2>1. \A u \in Threads : req[u].origin # i
    BY <1>2 DEF AnswerNext, Dispatch, Holding, HoldsRequest
  <2> QED BY <1>2, <2>1 DEF AnswerNext, Waiting, Dispatch
<1>3. ASSUME NEW t \in Threads, NEW code \in Codes, NEW defect \in Defects,
             AnswerNextWithError(t, code, defect) PROVE OnTheWire'
  BY <1>3 DEF AnswerNextWithError, Waiting, Bare
<1>4. ASSUME NEW t \in Threads, NEW code \in Codes, AnswerPost(t, code) PROVE OnTheWire'
  <2>1. /\ pc[t] = "posting" /\ req[t].request_id \in RequestIds
        /\ assigned[req[t].origin] = req[t].request_id
        /\ \A r \in RequestIds : inflight[r] # NoId => assigned[inflight[r]] = r
    BY <1>4 DEF AnswerPost, Waiting, Holding, HoldsRequest, Working, Crediting, InflightAssigned
  <2>2. /\ inflight' = [inflight EXCEPT ![req[t].request_id] = NoId]
        /\ UNCHANGED <<queue, assigned, pc, req>>
        /\ wire' = [wire EXCEPT ![t] = Bare(code, "none")]
    BY <1>4 DEF AnswerPost, Take, PostOf, UrlId
  <2>3. req[t].origin \in InvocationIds
    BY <2>1 DEF Holding, HoldsRequest, Working
  <2>4. req[t].origin \notin InFlight'
    BY <2>1, <2>2, <2>3
  <2> QED BY <2>1, <2>2, <2>4 DEF Bare
<1>5. ASSUME NEW t \in Threads, NEW code \in Codes, AnswerPostWithError(t, code) PROVE OnTheWire'
  BY <1>5 DEF AnswerPostWithError, Waiting, Bare
<1>6. ASSUME NEW r \in RequestIds, ExpireRequest(r) PROVE OnTheWire'
  BY <1>6 DEF ExpireRequest, Expire
<1>7. GoDark \/ Restart \/ UNCHANGED vars => OnTheWire'
  BY DEF GoDark, Restart, vars
<1> HIDE DEF IInv, OnTheWire
<1> QED BY <1>1, <1>2, <1>3, <1>4, <1>5, <1>6, <1>7 DEF Next, ServiceStep, Defects

(* Every step is of one of the kinds.                                      *)
LEMMA StepKind == ASSUME IInv, OnTheWire, [Next]_vars PROVE Kind
<1>0. CodesAssumption /\ ~is_success(0)
  BY CodesAssumption DEF is_success, CodesAssumption
<1> USE NoIdAssumption, <1>0 DEF IInv, OnTheWire, Goto, TypeOK, ApiTypeOK, apiVars,
    threadVars, envVars, historyVars, NoAnswer
<1>1. ASSUME NEW t \in Threads, NextNotMade(t) \/ PostNotMade(t) PROVE Harmless \/ Faulty
  <2>1. /\ UNCHANGED apiVars /\ reachable' = reachable
        /\ \A u \in Threads : Flawed(u)' => Flawed(u)
    BY <1>1 DEF NextNotMade, NextFailed, PostNotMade, EndOfBody, Outage, Flawed, InFlight,
       AfterFailedPost
  <2>2. (reachable => faults' = faults + 1) /\ (~reachable => faults' = faults)
    <3>1. Outage
      BY <1>1 DEF NextNotMade, PostNotMade
    <3> QED BY <3>1, Zenon DEF Outage, Fault
  <2> QED BY <2>1, <2>2, LostGrows DEF Harmless, Faulty, OnTrack, AllFlawed
<1>2. ASSUME NEW t \in Threads, NextNullContentType(t) \/ NextBadDeadline(t) PROVE Consumed(t)
  <2>1. /\ UNCHANGED <<apiVars, faults>>
        /\ Flawed(t) /\ \A u \in Threads : ~Flawed(u)'
    BY <1>2 DEF NextNullContentType, NextBadDeadline, CrashProcess, Flawed
  <2> QED BY <2>1, LostGrows DEF Consumed, AllFlawed
<1>3. ASSUME NEW t \in Threads, NextRefused(t) \/ PostRefused(t) \/ PostOk(t)
      PROVE Harmless \/ Consumed(t)
  <2>1. /\ UNCHANGED <<apiVars, faults, reachable>>
        /\ ~Flawed(t)' /\ \A u \in Threads : Flawed(u)' => Flawed(u)
    BY <1>3 DEF NextRefused, NextFailed, PostRefused, PostOk, EndOfBody, Flawed, InFlight,
       AfterFailedPost
  <2>2. Lost' \subseteq Lost \cup InFlight
    BY <2>1, LostGrows
  <2>3. CASE Flawed(t)
    BY <2>1, <2>2, <2>3 DEF Consumed, AllFlawed
  <2>4. CASE ~Flawed(t)
    <3>1. ASSUME NEW i \in InFlight, Held(i) PROVE Held(i)'
      <4>1. i # NoId /\ \A u \in Threads : u # t => req'[u] = req[u] /\ wire'[u] = wire[u]
        BY <1>3 DEF NextRefused, NextFailed, PostRefused, PostOk, EndOfBody, InFlight
      <4>2. CASE NextRefused(t)
        <5>1. wire[t].origin = NoId /\ req' = req
          BY <2>4, <4>2 DEF NextRefused, NextFailed, Flawed
        <5> QED BY <3>1, <4>1, <5>1 DEF Held
      <4>3. CASE PostRefused(t) \/ PostOk(t)
        <5>1. pc[t] = "posting" /\ req[t].origin # i
          BY <2>4, <3>1, <4>3 DEF PostRefused, PostOk, Flawed
        <5>2. wire[t].origin = NoId
          BY <5>1 DEF Holding, HoldsAnswer
        <5> QED BY <3>1, <4>1, <5>1, <5>2 DEF Held
      <4> QED BY <1>3, <4>2, <4>3
    <3>2. \A i \in InvocationIds : OnTrack(i) => OnTrack(i)'
      BY <2>1, <3>1 DEF OnTrack, InFlight
    <3> QED BY <2>1, <3>2, LostGrows DEF Harmless, AllFlawed
  <2> QED BY <2>3, <2>4
<1>4. ASSUME NEW t \in Threads, GetNext(t) \/ GiveUp(t) \/ SendPost(t)
                                  \/ \E success \in BOOLEAN : HandlerReturns(t, success)
      PROVE Harmless
  <2>1. /\ UNCHANGED <<apiVars, faults, reachable, req, wire>>
        /\ \A u \in Threads : Flawed(u)' => Flawed(u)
    BY <1>4 DEF GetNext, GiveUp, SendPost, HandlerReturns, AfterHandler, Flawed, InFlight
  <2> QED BY <2>1, LostGrows DEF Harmless, OnTrack, Held, AllFlawed, InFlight
<1>5. ASSUME NEW t \in Threads, HandlerCrashes(t) PROVE Faulty
  <2>1. /\ UNCHANGED apiVars /\ faults' = faults + 1
        /\ \A u \in Threads : ~Flawed(u)'
    BY <1>5 DEF HandlerCrashes, CrashProcess, Fault, Flawed
  <2> QED BY <2>1, LostGrows DEF Faulty, AllFlawed
<1>6. ASSUME NEW t \in Threads, NextOk(t) PROVE Harmless
  <2>1. /\ UNCHANGED <<apiVars, faults, reachable>>
        /\ ~Flawed(t)' /\ \A u \in Threads : Flawed(u)' => Flawed(u)
    BY <1>6 DEF NextOk, Flawed, InFlight
  <2>2. ASSUME NEW i \in InFlight, Held(i) PROVE Held(i)'
    <3>1. /\ req[t].origin = NoId /\ req'[t].origin = wire[t].origin
          /\ \A u \in Threads : u # t => req'[u] = req[u] /\ wire'[u] = wire[u]
      BY <1>6 DEF NextOk, Holding, HoldsRequest, Working
    <3>2. i # NoId
      BY DEF InFlight
    <3> QED BY <2>2, <3>1, <3>2 DEF Held
  <2>3. \A i \in InvocationIds : OnTrack(i) => OnTrack(i)'
    BY <2>1, <2>2 DEF OnTrack, InFlight
  <2> QED BY <2>1, <2>3, LostGrows DEF Harmless, AllFlawed
<1>7. ASSUME NEW t \in Threads, NEW r \in RequestIds, NEW i \in InvocationIds, NEW code \in Codes,
             NEW sent \in IdSent, NEW complete \in BOOLEAN, NEW defect \in Defects,
             AnswerNext(t, r, i, code, sent, complete, defect)
      PROVE Harmless \/ Answered(t)
  <2>1. /\ assigned' = [assigned EXCEPT ![i] = r] /\ assigned[i] = NoId
        /\ inflight' = [inflight EXCEPT ![r] = i] /\ inflight[r] = NoId
        /\ UNCHANGED <<results, req, pc, reachable>> /\ reachable
        /\ \A u \in Threads : u # t => wire'[u] = wire[u]
        /\ pc[t] = "next" /\ wire[t] = NoAnswer /\ wire'[t].origin = i
        /\ wire'[t].request_id = (IF complete THEN r ELSE NoId) /\ wire'[t].defect = defect
    BY <1>7 DEF AnswerNext, Waiting, Dispatch
  <2>2. \A u \in Threads : req[u].origin # i
    BY <2>1 DEF Holding, HoldsRequest
  <2>3. Lost' \subseteq Lost
    <3>1. OnTrack(i)'
      BY <2>1 DEF OnTrack, InFlight, Held
    <3>2. ASSUME NEW j \in InvocationIds, OnTrack(j) PROVE OnTrack(j)'
      BY <2>1, <3>2 DEF OnTrack, InFlight, Held
    <3> QED BY <2>1, <3>1, <3>2 DEF Lost, Credited
  <2>4. \A u \in Threads : u # t => (Flawed(u)' => Flawed(u))
    BY <2>1, <2>2 DEF Flawed, InFlight
  <2>5. CASE complete /\ defect = "none"
    <3>1. ~Flawed(t)' /\ faults' = faults
      BY <1>7, <2>1, <2>5 DEF Flawed, AnswerNext
    <3> QED BY <2>3, <2>4, <3>1 DEF Harmless, AllFlawed
  <2>6. CASE ~(complete /\ defect = "none")
    <3>1. faults' = faults + 1
      BY <1>7, <2>6, Zenon DEF AnswerNext, Fault
    <3> QED BY <2>3, <2>4, <3>1 DEF Answered, AllFlawed
  <2> QED BY <2>5, <2>6
<1>8. ASSUME NEW t \in Threads, NEW code \in Codes,
             \/ \E defect \in Defects : AnswerNextWithError(t, code, defect)
             \/ AnswerPostWithError(t, code)
      PROVE Harmless \/ Answered(t)
  <2>1. /\ UNCHANGED <<apiVars, req, pc, reachable>>
        /\ \A u \in Threads : u # t => wire'[u] = wire[u]
        /\ wire[t].origin = NoId /\ wire'[t].origin = NoId
    <3>1. PICK defect \in Defects \cup {"none"} :
            /\ wire[t] = NoAnswer /\ wire' = [wire EXCEPT ![t] = Bare(code, defect)]
            /\ UNCHANGED <<apiVars, req, pc, reachable>>
      BY <1>8 DEF AnswerNextWithError, AnswerPostWithError, Waiting
    <3> QED BY <3>1 DEF Bare
  <2>2. \A j \in InvocationIds : OnTrack(j) => OnTrack(j)'
    BY <2>1 DEF OnTrack, InFlight, Held
  <2>3. Lost' \subseteq Lost
    BY <2>1, <2>2, LostGrows
  <2>4. \A u \in Threads : u # t => (Flawed(u)' => Flawed(u))
    BY <2>1 DEF Flawed, InFlight
  <2>5. CASE faults' = faults + 1
    BY <2>3, <2>4, <2>5 DEF Answered, AllFlawed
  <2>6. CASE AnswerPostWithError(t, code) /\ ~Accepts(PostOf(t))
    <3>1. faults' = faults /\ pc[t] = "posting" /\ wire'[t].defect = "none"
      BY <2>6 DEF AnswerPostWithError, Waiting, Bare
    <3>2. /\ req[t].request_id \in RequestIds /\ req[t].origin \in InvocationIds
          /\ assigned[req[t].origin] = req[t].request_id
          /\ req[t].invocation_id \in {req[t].origin, NoId}
      BY <3>1 DEF Holding, HoldsRequest, Working, IdOk
    <3>3. inflight[req[t].request_id] # req[t].origin
      BY <2>6, <3>2 DEF Accepts, PostOf, UrlId, HeaderId
    <3>4. req[t].origin \notin InFlight
      BY <3>2, <3>3 DEF InFlight, Crediting, InflightAssigned
    <3>5. ~Flawed(t)'
      BY <2>1, <3>1, <3>4 DEF Flawed, InFlight
    <3> QED BY <2>3, <2>4, <3>1, <3>5 DEF Harmless, AllFlawed
  <2> QED BY <1>8, <2>5, <2>6, Zenon DEF AnswerNextWithError, AnswerPostWithError, Fault
<1>9. ASSUME NEW t \in Threads, NEW code \in Codes, AnswerPost(t, code) PROVE Harmless
  <2> DEFINE r == req[t].request_id
  <2>1. /\ UNCHANGED <<assigned, req, pc, reachable, faults>>
        /\ \A u \in Threads : u # t => wire'[u] = wire[u]
        /\ wire[t].origin = NoId /\ wire'[t].origin = NoId
        /\ wire'[t].defect = "none" /\ wire'[t].code = code /\ is_success(code)
        /\ inflight' = [inflight EXCEPT ![r] = NoId]
    BY <1>9 DEF AnswerPost, Take, PostOf, UrlId, Waiting, Bare
  <2>2. results \subseteq results' /\ \E x \in results' : x.credited = inflight[r]
    <3> DEFINE x == [request_id |-> r, credited |-> inflight[r], origin |-> req[t].origin,
                     invocation_id |-> req[t].invocation_id,
                     endpoint |-> IF res[t] THEN "response" ELSE "error"]
    <3>1. results' = results \cup {x}
      BY <1>9 DEF AnswerPost, Take, PostOf, UrlId, HeaderId
    <3>2. x.credited = inflight[r]
      OBVIOUS
    <3> QED BY <3>1, <3>2
  <2>3. ASSUME NEW i \in InvocationIds, OnTrack(i), \A x \in results' : x.credited # i
        PROVE OnTrack(i)'
    BY <2>1, <2>2, <2>3 DEF OnTrack, InFlight, Held
  <2>4. \A u \in Threads : Flawed(u)' => Flawed(u)
    BY <2>1 DEF Flawed, InFlight
  <2> QED BY <2>1, <2>2, <2>3, <2>4, LostGrows DEF Harmless, AllFlawed
<1>10. ASSUME NEW r \in RequestIds, ExpireRequest(r) PROVE Harmless \/ Faulty
  <2>1. /\ UNCHANGED <<assigned, results, threadVars, reachable>>
        /\ inflight' = [inflight EXCEPT ![r] = NoId]
    BY <1>10 DEF ExpireRequest, Expire
  <2>2. \A u \in Threads : Flawed(u)' => Flawed(u)
    BY <2>1 DEF Flawed, InFlight
  <2>3. CASE Orphan(inflight[r])
    <3>1. faults' = faults
      BY <1>10, <2>3 DEF ExpireRequest
    <3>2. ASSUME NEW i \in InvocationIds, OnTrack(i) PROVE OnTrack(i)'
      BY <2>1, <2>3, <3>2 DEF OnTrack, InFlight, Held, Orphan
    <3> QED BY <2>1, <2>2, <3>1, <3>2, LostGrows DEF Harmless, AllFlawed
  <2>4. CASE ~Orphan(inflight[r])
    <3>1. faults' = faults + 1
      BY <1>10, <2>4, Zenon DEF ExpireRequest, Fault
    <3> QED BY <2>1, <2>2, <3>1, LostGrows DEF Faulty, AllFlawed
  <2> QED BY <2>3, <2>4
<1>11. ASSUME GoDark PROVE Faulty
  <2>1. UNCHANGED <<apiVars, threadVars>> /\ faults' = faults + 1
    BY <1>11 DEF GoDark, Fault
  <2> QED BY <2>1, LostGrows DEF Faulty, AllFlawed, Flawed, InFlight
<1>12. ASSUME Restart PROVE Harmless
  <2>1. /\ UNCHANGED <<apiVars, faults>>
        /\ \A u \in Threads : /\ ~Flawed(u)'
                              /\ req[u].origin = NoId /\ wire[u].origin = NoId
    BY <1>12 DEF Restart, Flawed, Holding, HoldsRequest, HoldsAnswer, Working
  <2>2. \A i \in InvocationIds : ~OnTrack(i)
    BY <2>1 DEF OnTrack, Held
  <2> QED BY <2>1, <2>2, LostGrows DEF Harmless, AllFlawed
<1>13. ASSUME UNCHANGED vars PROVE Harmless
  BY <1>13 DEF vars, Harmless, Lost, Credited, OnTrack, Held, InFlight, AllFlawed, Flawed
<1> HIDE DEF IInv, OnTheWire
<1> QED
  <2>1. ASSUME NEW t \in Threads, ThreadStep(t) PROVE Kind
    BY <1>1, <1>2, <1>3, <1>4, <1>5, <1>6, <2>1 DEF ThreadStep, AfterGetNext, Kind
  <2>2. ASSUME NEW t \in Threads, ServiceStep(t) PROVE Kind
    BY <1>7, <1>8, <1>9, <2>2 DEF ServiceStep, Kind, Defects
  <2> QED BY <1>10, <1>11, <1>12, <1>13, <2>1, <2>2 DEF Next, Kind

-----------------------------------------------------------------------------
(* At most as many attempts are in flight as requests wait for one.        *)
LEMMA InFlightFew ==
  ASSUME IsFiniteSet(RequestIds), TypeOK
  PROVE  LET waiting == {r \in RequestIds : inflight[r] # NoId}
         IN /\ IsFiniteSet(InFlight) /\ IsFiniteSet(waiting)
            /\ Cardinality(InFlight) <= Cardinality(waiting)
            /\ Cardinality(waiting) <= Cardinality(RequestIds)
            /\ Cardinality(InFlight) \in Nat /\ Cardinality(waiting) \in Nat
            /\ Cardinality(RequestIds) \in Nat
<1> DEFINE waiting == {r \in RequestIds : inflight[r] # NoId}
           f       == [r \in waiting |-> inflight[r]]
<1>1. IsFiniteSet(waiting) /\ Cardinality(waiting) <= Cardinality(RequestIds)
  BY FS_Subset
<1>2. f \in Surjection(waiting, InFlight)
  BY NoIdAssumption DEF Surjection, InFlight, TypeOK, ApiTypeOK, MaybeInvocation
<1>3. IsFiniteSet(InFlight) /\ Cardinality(InFlight) <= Cardinality(waiting)
  BY <1>1, <1>2, FS_Surjection
<1> QED BY <1>1, <1>3, FS_CardinalityType

(* The credited attempts are no more than the results.                     *)
LEMMA CreditedFew ==
  ASSUME IsFiniteSet(results)
  PROVE  LET credited == {x.credited : x \in results}
         IN IsFiniteSet(credited) /\ Cardinality(credited) <= Cardinality(results)
<1> DEFINE credited == {x.credited : x \in results}
           f        == [x \in results |-> x.credited]
<1>1. f \in Surjection(results, credited)
  BY DEF Surjection
<1> QED BY <1>1, FS_Surjection

(* A step adds one result at most.                                         *)
LEMMA ResultsFinite == ASSUME IsFiniteSet(results), [Next]_vars PROVE IsFiniteSet(results')
<1> USE DEF apiVars
<1>1. ASSUME NEW t \in Threads, ThreadStep(t) PROVE results' = results
  BY <1>1 DEF ThreadStep, AfterGetNext, GetNext, GiveUp, NextNotMade, NextRefused, NextFailed,
     NextNullContentType, NextBadDeadline, NextOk, HandlerReturns, HandlerCrashes, SendPost,
     PostOk, PostRefused, PostNotMade, EndOfBody
<1>2. ASSUME NEW t \in Threads, ServiceStep(t) PROVE IsFiniteSet(results')
  <2>1. ASSUME NEW code \in Codes, AnswerPost(t, code) PROVE IsFiniteSet(results')
    <3>1. PICK x : results' = results \cup {x}
      BY <2>1 DEF AnswerPost, Take
    <3> QED BY <3>1, FS_AddElement
  <2> QED BY <1>2, <2>1 DEF ServiceStep, AnswerNext, Dispatch, AnswerNextWithError,
             AnswerPostWithError
<1>3. (\E r \in RequestIds : ExpireRequest(r)) \/ GoDark \/ Restart \/ UNCHANGED vars
        => results' = results
  BY DEF ExpireRequest, Expire, GoDark, Restart, vars
<1> QED BY <1>1, <1>2, <1>3 DEF Next

(* The account of n faults: f of them are on the wire, l attempts are lost.*)
LEMMA Account ==
  ASSUME NEW r \in Nat, NEW l \in Nat, NEW f \in Nat, NEW n \in Nat,
         NEW l2 \in Nat, NEW f2 \in Nat, l + f * r <= n * r
  PROVE  /\ l2 <= l     /\ f2 <= f     => l2 + f2 * r <= n * r
         /\ l2 <= l     /\ f2 <= f     => l2 + f2 * r <= (n + 1) * r
         /\ l2 <= l + r /\ f2 <= f     => l2 + f2 * r <= (n + 1) * r
         /\ l2 <= l     /\ f2 <= f + 1 => l2 + f2 * r <= (n + 1) * r
         /\ l2 <= l + r /\ f2 + 1 <= f => l2 + f2 * r <= n * r
<1>1. (n + 1) * r = n * r + r /\ (f + 1) * r = f * r + r /\ (f2 + 1) * r = f2 * r + r
  OBVIOUS
<1>2. \A a, b \in Nat : a <= b => a * r <= b * r
  <2> SUFFICES ASSUME NEW a \in Nat, NEW b \in Nat, a <= b PROVE a * r <= b * r
    OBVIOUS
  <2>1. (b - a) \in Nat /\ (b - a) * r \in Nat /\ b * r = a * r + (b - a) * r
    OBVIOUS
  <2> QED BY <2>1
<1>3. /\ f2 <= f => f2 * r <= f * r
      /\ f2 <= f + 1 => f2 * r <= (f + 1) * r
      /\ f2 + 1 <= f => (f2 + 1) * r <= f * r
  BY <1>2
<1>4. f * r \in Nat /\ f2 * r \in Nat /\ n * r \in Nat
  OBVIOUS
<1> QED BY <1>1, <1>3, <1>4

(* Every step keeps the account.                                           *)
LEMMA ChargedStep ==
  ASSUME IsFiniteSet(RequestIds), IInv, OnTheWire, Charged, [Next]_vars
  PROVE  Charged'
<1> DEFINE R == Cardinality(RequestIds)
           L == Cardinality(Lost)
           F == Cardinality(AllFlawed)
<1>1. /\ R \in Nat /\ L \in Nat /\ F \in Nat /\ faults \in Nat /\ L + F * R <= faults * R
      /\ IsFiniteSet(Lost) /\ IsFiniteSet(AllFlawed)
  BY FS_CardinalityType, MaxFaultsAssumption DEF Charged, IInv, TypeOK
<1>2. /\ IsFiniteSet(Lost \cup InFlight) /\ Cardinality(Lost \cup InFlight) \in Nat
      /\ Cardinality(Lost \cup InFlight) <= L + R
  <2>1. /\ IsFiniteSet(InFlight) /\ Cardinality(InFlight) <= R /\ Cardinality(InFlight) \in Nat
    BY InFlightFew, <1>1 DEF IInv
  <2>2. IsFiniteSet(Lost \cap InFlight) /\ Cardinality(Lost \cap InFlight) \in Nat
    BY <1>1, FS_Intersection, FS_CardinalityType
  <2>3. /\ IsFiniteSet(Lost \cup InFlight)
        /\ Cardinality(Lost \cup InFlight) = L + Cardinality(InFlight) - Cardinality(Lost \cap InFlight)
    BY <1>1, <2>1, FS_Union
  <2>4. Cardinality(Lost \cup InFlight) \in Nat
    BY <2>3, FS_CardinalityType
  <2> HIDE DEF R, L
  <2> QED BY <1>1, <2>1, <2>2, <2>3, <2>4
<1>3. IsFiniteSet(results')
  BY ResultsFinite DEF Charged
<1>4. faults' \in Nat
  BY StepKind, <1>1 DEF Kind, Harmless, Faulty, Answered, Consumed
<1>5. ASSUME IsFiniteSet(Lost'), IsFiniteSet(AllFlawed'),
             Cardinality(Lost') + Cardinality(AllFlawed') * R <= faults' * R
      PROVE  Charged'
  BY <1>3, <1>5 DEF Charged
<1>6. ASSUME Lost' \subseteq Lost
      PROVE  IsFiniteSet(Lost') /\ Cardinality(Lost') \in Nat /\ Cardinality(Lost') <= L
  BY <1>1, <1>6, FS_Subset, FS_CardinalityType
<1>7. ASSUME Lost' \subseteq Lost \cup InFlight
      PROVE  IsFiniteSet(Lost') /\ Cardinality(Lost') \in Nat /\ Cardinality(Lost') <= L + R
  <2>1. /\ IsFiniteSet(Lost') /\ Cardinality(Lost') <= Cardinality(Lost \cup InFlight)
        /\ Cardinality(Lost') \in Nat
    BY <1>2, <1>7, FS_Subset, FS_CardinalityType
  <2> HIDE DEF R, L
  <2> QED BY <1>1, <1>2, <2>1
<1>8. ASSUME AllFlawed' \subseteq AllFlawed
      PROVE  IsFiniteSet(AllFlawed') /\ Cardinality(AllFlawed') \in Nat
             /\ Cardinality(AllFlawed') <= F
  BY <1>1, <1>8, FS_Subset, FS_CardinalityType
<1>9. ASSUME NEW t, AllFlawed' \subseteq AllFlawed \cup {t}
      PROVE  IsFiniteSet(AllFlawed') /\ Cardinality(AllFlawed') \in Nat
             /\ Cardinality(AllFlawed') <= F + 1
  <2>1. /\ IsFiniteSet(AllFlawed \cup {t}) /\ Cardinality(AllFlawed \cup {t}) \in Nat
        /\ Cardinality(AllFlawed \cup {t}) <= F + 1
    <3>1. /\ IsFiniteSet(AllFlawed \cup {t})
          /\ Cardinality(AllFlawed \cup {t}) \in {F, F + 1}
      BY <1>1, FS_AddElement
    <3> HIDE DEF F
    <3> QED BY <1>1, <3>1
  <2>2. /\ IsFiniteSet(AllFlawed') /\ Cardinality(AllFlawed') \in Nat
        /\ Cardinality(AllFlawed') <= Cardinality(AllFlawed \cup {t})
    BY <1>9, <2>1, FS_Subset, FS_CardinalityType
  <2> HIDE DEF F
  <2> QED BY <1>1, <2>1, <2>2
<1>10. ASSUME NEW t \in AllFlawed, AllFlawed' \subseteq AllFlawed \ {t}
      PROVE  IsFiniteSet(AllFlawed') /\ Cardinality(AllFlawed') \in Nat
             /\ Cardinality(AllFlawed') + 1 <= F
  <2>1. /\ IsFiniteSet(AllFlawed \ {t}) /\ Cardinality(AllFlawed \ {t}) = F - 1
    BY <1>1, FS_RemoveElement
  <2>2. /\ IsFiniteSet(AllFlawed') /\ Cardinality(AllFlawed') \in Nat
        /\ Cardinality(AllFlawed') <= Cardinality(AllFlawed \ {t})
    BY <1>10, <2>1, FS_Subset, FS_CardinalityType
  <2> HIDE DEF F
  <2> QED BY <1>1, <2>1, <2>2
<1> HIDE DEF R, L, F
<1>11. CASE Harmless
  BY <1>1, <1>4, <1>5, <1>6, <1>8, <1>11, Account DEF Harmless
<1>12. CASE Faulty
  BY <1>1, <1>4, <1>5, <1>7, <1>8, <1>12, Account DEF Faulty
<1>13. ASSUME NEW t \in Threads, Answered(t) PROVE Charged'
  BY <1>1, <1>4, <1>5, <1>6, <1>9, <1>13, Account DEF Answered
<1>14. ASSUME NEW t \in Threads, Consumed(t) PROVE Charged'
  BY <1>1, <1>4, <1>5, <1>7, <1>10, <1>14, Account DEF Consumed
<1> QED BY <1>11, <1>12, <1>13, <1>14, StepKind DEF Kind

(* At first nothing is lost.                                               *)
LEMMA ChargedInit == ASSUME IsFiniteSet(RequestIds), Init PROVE Charged
<1>1. Lost = {} /\ AllFlawed = {} /\ results = {} /\ faults = 0
  BY NoIdAssumption DEF Init, ApiInit, Lost, AllFlawed, Flawed, NoAnswer
<1>2. Cardinality(RequestIds) \in Nat
  BY FS_CardinalityType
<1> QED BY <1>1, <1>2, FS_EmptySet DEF Charged

(* Every attempt that was made is credited, in flight or lost.             *)
LEMMA ChargedEnough ==
  ASSUME IsFiniteSet(RequestIds), TypeOK, Charged
  PROVE  NoAttemptWasted
<1> DEFINE Assigned == {i \in InvocationIds : assigned[i] # NoId}
           Credits  == {x.credited : x \in results}
           Waits    == {r \in RequestIds : inflight[r] # NoId}
           R        == Cardinality(RequestIds)
<1>1. Assigned \subseteq (Credits \cup InFlight) \cup Lost
  BY DEF Lost, OnTrack, Credited
<1>2. /\ IsFiniteSet(Credits) /\ Cardinality(Credits) <= Cardinality(results)
      /\ Cardinality(Credits) \in Nat /\ Cardinality(results) \in Nat
  BY CreditedFew, FS_CardinalityType DEF Charged
<1>3. /\ IsFiniteSet(InFlight) /\ Cardinality(InFlight) <= Cardinality(Waits)
      /\ Cardinality(InFlight) \in Nat /\ Cardinality(Waits) \in Nat
  BY InFlightFew
<1>4. /\ IsFiniteSet(Lost) /\ Cardinality(Lost) \in Nat
      /\ R \in Nat /\ faults * R \in Nat /\ Cardinality(Lost) <= faults * R
  <2>1. /\ IsFiniteSet(Lost) /\ Cardinality(Lost) \in Nat /\ Cardinality(AllFlawed) \in Nat
        /\ R \in Nat /\ faults \in Nat
        /\ Cardinality(Lost) + Cardinality(AllFlawed) * R <= faults * R
    BY FS_CardinalityType, MaxFaultsAssumption DEF Charged, TypeOK
  <2> HIDE DEF R
  <2>2. Cardinality(AllFlawed) * R \in Nat /\ faults * R \in Nat
    BY <2>1
  <2> QED BY <2>1, <2>2
<1>5. \A S, T : IsFiniteSet(S) /\ IsFiniteSet(T) =>
        IsFiniteSet(S \cup T) /\ Cardinality(S \cup T) <= Cardinality(S) + Cardinality(T)
  <2> SUFFICES ASSUME NEW S, NEW T, IsFiniteSet(S), IsFiniteSet(T)
      PROVE IsFiniteSet(S \cup T) /\ Cardinality(S \cup T) <= Cardinality(S) + Cardinality(T)
    OBVIOUS
  <2>1. Cardinality(S) \in Nat /\ Cardinality(T) \in Nat /\ Cardinality(S \cap T) \in Nat
    BY FS_CardinalityType, FS_Intersection
  <2>2. /\ IsFiniteSet(S \cup T)
        /\ Cardinality(S \cup T) = Cardinality(S) + Cardinality(T) - Cardinality(S \cap T)
    BY FS_Union
  <2> QED BY <2>1, <2>2
<1>6. /\ IsFiniteSet((Credits \cup InFlight) \cup Lost)
      /\ Cardinality((Credits \cup InFlight) \cup Lost)
           <= Cardinality(Credits \cup InFlight) + Cardinality(Lost)
      /\ Cardinality(Credits \cup InFlight) <= Cardinality(Credits) + Cardinality(InFlight)
      /\ Cardinality(Credits \cup InFlight) \in Nat
      /\ Cardinality((Credits \cup InFlight) \cup Lost) \in Nat
  BY <1>2, <1>3, <1>4, <1>5, FS_CardinalityType
<1>7. /\ Cardinality(Assigned) <= Cardinality((Credits \cup InFlight) \cup Lost)
      /\ Cardinality(Assigned) \in Nat
  BY <1>1, <1>6, FS_Subset, FS_CardinalityType
<1>8. Cardinality(Assigned) <= Cardinality(results) + Cardinality(Waits) + faults * R
  <2> HIDE DEF Assigned, Credits, Waits, R
  <2> QED BY <1>2, <1>3, <1>4, <1>6, <1>7
<1> QED BY <1>8 DEF NoAttemptWasted

(* For finitely many requests, and any threads, attempts and faults, no    *)
(* attempt is wasted but by a fault, and one fault wastes at most one      *)
(* attempt of each request.                                                *)
THEOREM FaultsAreAllThatWaste == IsFiniteSet(RequestIds) => (Spec => []NoAttemptWasted)
<1> SUFFICES ASSUME IsFiniteSet(RequestIds) PROVE Spec => []NoAttemptWasted
  OBVIOUS
<1>1. Init => OnTheWire /\ Charged
  BY WireInit, ChargedInit
<1>2. IInv /\ OnTheWire /\ Charged /\ [Next]_vars => OnTheWire' /\ Charged'
  BY WireStep, ChargedStep
<1>3. IInv /\ Charged => NoAttemptWasted
  BY ChargedEnough DEF IInv
<1> QED BY Safety, <1>1, <1>2, <1>3, PTL DEF Spec
=============================================================================
