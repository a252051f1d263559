----------------------------- MODULE PostResult -----------------------------
(***************************************************************************)
(* What a handler's result becomes on its way to the service: the ways to  *)
(* make an invocation_response, the choice of the endpoint, and the list   *)
(* of headers that do_post() gives to curl, which has headers of its own   *)
(* for a POST and sends both merged.  Exchange has the body's bytes, and   *)
(* RunHandler what the service does with the result.                       *)
(***************************************************************************)
EXTENDS Sequences

CONSTANTS
  Types,          \* what handlers give as content type
  Causes,         \* the serialised X-Ray causes
  Ids,            \* the invocation ids that get_next() finds in answers
  PayloadLengths  \* of the payloads, in decimal

None == ""    \* an empty string

ASSUME LengthsAssumption == None \notin PayloadLengths   \* a number has digits

Json == "application/json"
Html == "text/html"
Form == "application/x-www-form-urlencoded"

VARIABLES
  res,      \* what the handler returned, or NoResponse
  headers,  \* the curl_slist of the call, a sequence of <<name, value>>
  request   \* history: the last POST the service got, with its res and
            \* the invocation id it is for

postVars == <<res, headers, request>>

runtime_response(length, type, cause) ==
  [length |-> length, type |-> type, cause |-> cause]

invocation_response(length, type, is_success, cause) ==
  [by |-> "handler", response |-> runtime_response(length, type, cause), is_success |-> is_success]

success(length, type)  == invocation_response(length, type, TRUE, None)
failure(length, cause) == invocation_response(length, Json, FALSE, cause)

NoResponse  == [by |-> "nobody"]
NothingSent == [endpoint |-> "none"]

PostInit == res = NoResponse /\ headers = <<>> /\ request = NothingSent

(* The handler returns: a constructor, success() or one of failure(); or   *)
(* the program reports that its initialisation failed.                     *)
Respond ==
  /\ res = NoResponse
  /\ \E length \in PayloadLengths, type \in Types \cup {None}, cause \in Causes \cup {None} :
       \/ \E ok \in BOOLEAN : res' = invocation_response(length, type, ok, cause)
       \/ res' = success(length, type) \/ res' = failure(length, cause)
       \/ res' = [by |-> "init", response |-> runtime_response(length, type, cause)]
  /\ UNCHANGED <<headers, request>>

(* Before the first get_next() there is no id to echo.                     *)
Endpoint(r) == CASE r.by = "init"                     -> "init/error"
                 [] r.by = "handler" /\ r.is_success -> "response"
                 [] OTHER                             -> "error"

(* The list of headers of a response, for an invocation with or without id.*)
AsGiven(type) == type   \* mutant
TypeOf(type)  == IF type = None THEN Html ELSE type

OnlyExpect == <<<<"expect", None>>>>   \* mutant
Disabled   == <<<<"expect", None>>, <<"transfer-encoding", None>>>>

HeadersOf(response, id) ==
  <<<<"content-type", TypeOf(response.type)>>, <<"xray-error-cause", response.cause>>>>
  \o Disabled \o <<<<"user-agent", "AWS_Lambda_Cpp">>>>
  \o (IF id = None THEN <<>> ELSE <<<<"invocation-id", id>>>>)
  \o <<<<"content-length", response.length>>>>

(* curl's own headers for a POST whose size it is not told.  One of the    *)
(* list replaces curl's of that name, and is not sent if it has no value.  *)
OfCurl == {<<"content-type", Form>>, <<"transfer-encoding", "chunked">>, <<"expect", "100-continue">>}
InList(list) == {list[k] : k \in DOMAIN list}
Merged(list) ==
  {h \in InList(list) : h[2] # None}
  \cup {h \in OfCurl : \A l \in InList(list) : l[1] # h[1]}

(* do_post() up to curl_easy_perform.                                      *)
do_post(id) ==
  /\ res # NoResponse /\ headers = <<>>
  /\ headers' = HeadersOf(res.response, id)
  /\ request' = [endpoint |-> Endpoint(res), headers |-> Merged(headers'), of |-> res, id |-> id]
  /\ UNCHANGED res

(* curl_slist_free_all, and the end of the response.                       *)
Done ==
  /\ headers # <<>>
  /\ headers' = <<>> /\ res' = NoResponse
  /\ UNCHANGED request

PostNext == Respond \/ Done \/ \E id \in Ids \cup {None} : do_post(id) /\ (res.by = "init" => id = None)

PostSpec == PostInit /\ [][PostNext]_postVars

-----------------------------------------------------------------------------
ValuesOf(name) == {h[2] : h \in {h \in request.headers : h[1] = name}}

(* A POST says the length of its body once and frames it by nothing else:  *)
(* curl's own chunks, and its wait for a 100-continue, are out.            *)
FramedByLength ==
  request # NothingSent =>
    /\ ValuesOf("content-length") = {request.of.response.length}
    /\ ValuesOf("transfer-encoding") = {} /\ ValuesOf("expect") = {}

(* The service learns what the handler said, whichever way it made its     *)
(* response: whether it failed, the type of its payload, of which there is *)
(* always one, and the cause and the id where there are any.               *)
SaysWhatHandlerSaid ==
  request # NothingSent =>
    LET said == request.of.response
    IN /\ request.endpoint = "response" <=> request.of.by = "handler" /\ request.of.is_success
       /\ ValuesOf("content-type") = {IF said.type = None THEN Html ELSE said.type}
       /\ ValuesOf("xray-error-cause") = {said.cause} \ {None}
       /\ ValuesOf("invocation-id") = {request.id} \ {None}
=============================================================================
