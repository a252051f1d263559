------------------------------ MODULE GetNext ------------------------------
(***************************************************************************)
(* What runtime::get_next() makes of an answer: the headers go one by one  *)
(* through one local outcome, out, that is assigned again for each, into   *)
(* the fields of a request, and the request through another outcome to the *)
(* loop of run_handler().  The order of the headers, the tests of out and  *)
(* the moves out of it are the code's.  A header's value is called after   *)
(* the field it goes to, so that one that ends in another field shows.     *)
(***************************************************************************)
EXTENDS Outcome, Deadline, SequencesExt

CONSTANT Texts   \* of the deadline header, those that are numbers

ASSUME TextsAssumption  == Texts \subseteq Nat
ASSUME LocalsAssumption == {"out", "tmp", "next"} \subseteq Objects

VARIABLES
  at,       \* the statement that comes next
  index,    \* which of the headers it is about
  ndebug,   \* whether the build leaves out the asserts
  answer,   \* the answer of the service
  req,      \* the local of get_next()
  handled   \* what the loop makes of it: a request or a failure

requestVars == <<store, at, index, ndebug, answer, req, handled>>

REQUEST_ID == "request_id"
DEADLINE   == "deadline"

(* The headers after the request id, in the order they are looked up.      *)
LookedUp == <<"xray_trace_id", "client_context", "cognito_identity", "function_arn",
              "tenant_id", "invocation_id", DEADLINE>>

Others == {REQUEST_ID} \cup ToSet(Front(LookedUp))   \* all but the deadline

Empty  == "empty"
Absent == -2       \* a deadline header that is not there

NoRequest ==
  [f \in Others \cup {DEADLINE, "payload", "content_type"} |->
     IF f = DEADLINE THEN Epoch ELSE Empty]

(* No answer, one that is refused, or one with a body, a type and any of   *)
(* the headers.  (RunHandler has the answer without a type.)               *)
NoAnswer == [outcome |-> "none", deadline |-> Absent, headers |-> {}]
Answers ==
  {NoAnswer, [NoAnswer EXCEPT !.outcome = "refused"]} \cup
  [outcome : {"ok"}, deadline : Texts \cup {NaN, Absent},
   headers : SUBSET Others]

Has(header) == IF header = DEADLINE THEN answer.deadline # Absent ELSE header \in answer.headers
ValueOf(header) == IF header = DEADLINE THEN answer.deadline ELSE header

RequestInit ==
  /\ OutcomeInit
  /\ at = "perform" /\ index = 1 /\ ndebug \in BOOLEAN
  /\ answer = NoAnswer /\ req = NoRequest
  /\ handled = [is |-> "nothing"]

Moves(from, to) == at = from /\ at' = to /\ UNCHANGED ndebug

Perform ==
  /\ Moves("perform", "performed")
  /\ answer' \in Answers
  /\ UNCHANGED <<store, index, req, handled>>

(* return response_code: next is the outcome get_next() returns.           *)
Fail(code) == Construct("next", FALSE, code) /\ UNCHANGED <<index, answer, req, handled>>

NotMade == answer.outcome = "none"    /\ Moves("performed", "returned") /\ Fail("REQUEST_NOT_MADE")
Refused == answer.outcome = "refused" /\ Moves("performed", "returned") /\ Fail("response code")

(* resp.get_header(header), into an object that is not made yet.           *)
resp_get_header(header, o) ==
  /\ IF Has(header) THEN Construct(o, TRUE, ValueOf(header)) ELSE Construct(o, FALSE, FALSE)
  /\ UNCHANGED <<index, answer, req, handled>>

FindRequestId == answer.outcome = "ok" /\ Moves("performed", "found") /\ resp_get_header(REQUEST_ID, "out")

NoRequestId == ~store["out"].success /\ Moves("found", "leave") /\ Fail("REQUEST_NOT_MADE")

TakeRequestId ==
  /\ Moves("found", "find")
  /\ req' = [req EXCEPT !.payload = "body", !.request_id = store["out"].value,
                        !.content_type = "type"]
  /\ Take("out", TRUE)
  /\ UNCHANGED <<index, answer, handled>>

(* out = resp.get_header(...): a temporary, its assignment and its end.    *)
Find == Moves("find", "assign") /\ resp_get_header(LookedUp[index], "tmp")

KeepsOld ==   \* mutant: a missing header, other than the deadline, assigns nothing
  /\ Moves("assign", "drop")
  /\ IF store["tmp"].success \/ LookedUp[index] = DEADLINE THEN MoveAssign("out", "tmp") ELSE UNCHANGED store
  /\ UNCHANGED <<index, answer, req, handled>>

Assign ==
  /\ Moves("assign", "drop")
  /\ MoveAssign("out", "tmp")
  /\ UNCHANGED <<index, answer, req, handled>>

Drop ==
  /\ Moves("drop", "use")
  /\ Destroy("tmp")
  /\ UNCHANGED <<index, answer, req, handled>>

ToNext == /\ index' = IF index < Len(LookedUp) THEN index + 1 ELSE 1
          /\ Moves("use", IF index < Len(LookedUp) THEN "find" ELSE "return")

(* if (out.is_success()): the field gets the value.                        *)
UseNothing == ToNext /\ ~store["out"].success /\ UNCHANGED <<store, answer, req, handled>>

UseField ==
  /\ ToNext
  /\ LookedUp[index] # DEADLINE
  /\ Take("out", TRUE)
  /\ req' = [req EXCEPT ![LookedUp[index]] = store["out"].value]
  /\ UNCHANGED <<answer, handled>>

(* The deadline's text is read where it is, and not moved.                 *)
UseDeadline ==
  /\ ToNext
  /\ LookedUp[index] = DEADLINE /\ store["out"].success
  /\ LET ms == strtoul(store["out"].value)
     IN /\ ndebug \/ Asserted(ms)
        /\ req' = [req EXCEPT !.deadline = DeadlineAfter(@, ms)]
  /\ UNCHANGED <<store, answer, handled>>

(* An assert fails, and ends the process.                                  *)
Abort ==
  /\ Moves("use", "aborted")
  /\ LookedUp[index] = DEADLINE /\ store["out"].success
  /\ ~ndebug /\ ~Asserted(strtoul(store["out"].value))
  /\ UNCHANGED <<store, index, answer, req, handled>>

(* return {req}, and the end of out.                                       *)
Return ==
  /\ Moves("return", "leave")
  /\ Construct("next", TRUE, req)
  /\ UNCHANGED <<index, answer, req, handled>>

Leave ==
  /\ Moves("leave", "returned")
  /\ Destroy("out")
  /\ UNCHANGED <<index, answer, req, handled>>

(* run_handler(): the failure is looked at, or the request is moved out    *)
(* and the handler called with it.                                         *)
NextFailed ==
  /\ Moves("returned", "again")
  /\ ~store["next"].success
  /\ handled' = [is |-> "failure", code |-> store["next"].value]
  /\ UNCHANGED <<store, index, answer, req>>

Handle ==
  /\ Moves("returned", "again")
  /\ handled' = [is |-> "request", request |-> store["next"].value]
  /\ Take("next", TRUE)
  /\ UNCHANGED <<index, answer, req>>

Again ==
  /\ Moves("again", "perform")
  /\ Destroy("next")
  /\ index' = 1 /\ answer' = NoAnswer /\ req' = NoRequest /\ handled' = [is |-> "nothing"]

RequestNext ==
  \/ Perform \/ NotMade \/ Refused \/ FindRequestId \/ NoRequestId \/ TakeRequestId
  \/ Find \/ Assign \/ Drop \/ UseNothing \/ UseField \/ UseDeadline \/ Abort
  \/ Return \/ Leave \/ NextFailed \/ Handle \/ Again

RequestSpec == RequestInit /\ [][RequestNext]_requestVars

-----------------------------------------------------------------------------
(* The handler gets the values of this answer's headers, each in its own   *)
(* field and the fields without a header empty, and it is called if and    *)
(* only if there is an answer with a request id; otherwise the loop learns *)
(* why not.                                                                *)
RequestIsTheAnswer ==
  /\ handled.is = "request" =>
       /\ answer.outcome = "ok" /\ Has(REQUEST_ID)
       /\ handled.request.payload = "body" /\ handled.request.content_type = "type"
       /\ \A f \in Others : handled.request[f] = IF Has(f) THEN f ELSE Empty
  /\ handled.is = "failure" =>
       /\ answer.outcome # "ok" \/ ~Has(REQUEST_ID)
       /\ handled.code = IF answer.outcome = "refused" THEN "response code" ELSE "REQUEST_NOT_MADE"

(* A header whose deadline the clock can count gives that deadline; and no *)
(* text, nor its absence, makes the handler believe at any time that it    *)
(* has more time left than the header gives it.                            *)
DeadlineIsHonest ==
  handled.is = "request" =>
    LET text     == answer.deadline
        deadline == handled.request.deadline
    IN /\ text >= 0 /\ text * TicksPerMs <= MaxCount => deadline = text * TicksPerMs
       /\ \A now \in 0..MaxCount :
            LET left == get_time_remaining(deadline, now) * TicksPerMs
            IN left > 0 => text > 0 /\ left <= text * TicksPerMs - now
=============================================================================
