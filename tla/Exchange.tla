------------------------------ MODULE Exchange ------------------------------
(***************************************************************************)
(* One HTTP exchange in detail: what get_next() and do_post() do around    *)
(* curl_easy_perform, and what curl does with the callbacks they give it.  *)
(*                                                                         *)
(* Each call has a frame on its thread's stack: the response, the read     *)
(* context and the list of headers.  The curl handle holds pointers into   *)
(* the frame and outlives it; between two calls its pointers dangle.  The  *)
(* threads share the runtime object but not the handle, which is           *)
(* thread_local.  A byte is a pair <<frame, position>>, so that it can be  *)
(* told where it comes from.                                               *)
(***************************************************************************)
EXTENDS Naturals, Sequences

CONSTANTS
  Threads,   \* threads that use the runtime
  MaxCalls,  \* bounds the calls a thread makes
  MaxBody,   \* bounds the length of a payload and of an answer
  MaxChunk   \* the most bytes curl asks for or delivers at once

ASSUME ExchangeAssumption ==
  MaxCalls \in Nat /\ MaxBody \in Nat /\ MaxChunk \in Nat \ {0}

VARIABLES
  pc,      \* "idle", "options", "perform" or "after" curl_easy_perform
  usable,  \* whether curl_easy_init gave the thread a handle
  opts,    \* the options of each handle
  frame,   \* the frame of each thread's current or last call
  net,     \* what went over the connection in each thread's exchange
  result   \* what the call returns: "ok" or "not_made"

vars == <<pc, usable, opts, frame, net, result>>

NoFrame == <<>>
FrameOf(t) == <<t, frame[t].call>>

(* A callback follows a pointer to a frame that is on a stack; PointersFresh*)
(* says that it never meets another, whose effect would be undefined.      *)
Live(f)    == \E t \in Threads : pc[t] # "idle" /\ f = FrameOf(t)

(* n bytes of frame f after position k.                                    *)
Bytes(f, k, n) == [j \in 1..n |-> <<f, k + j>>]

SmallerOf(a, b) == IF a <= b THEN a ELSE b

(* The handle a thread uses: its own, named after it.                      *)
StaticHandle(t) == CHOOSE u \in Threads : TRUE   \* mutant: not thread_local
HandleOf(t)     == t
Opts(t)         == opts[HandleOf(t)]

(* The frame of call n: the payload's length, how much of it read_data()   *)
(* has read, m_body of the response, and the bodies the service has taken. *)
NewFrame(n, kind, length) ==
  [call |-> n, kind |-> kind, length |-> length, read |-> 0, body |-> <<>>,
   taken |-> <<>>]

(* A connection before the request: new, or left over from an exchange.    *)
Connected(reused) ==
  [reused |-> reused, sent |-> <<>>, ended |-> FALSE,
   taken |-> FALSE, answered |-> FALSE, length |-> 0, got |-> 0]

Init ==
  /\ pc     = [t \in Threads |-> "idle"]
  /\ usable \in [Threads -> BOOLEAN]
  /\ opts   = [t \in Threads |-> [verb |-> "GET", read |-> NoFrame, write |-> NoFrame]]
  /\ frame  = [t \in Threads |-> NewFrame(0, "GET", 0)]
  /\ net    = [t \in Threads |-> Connected(FALSE)]
  /\ result = [t \in Threads |-> "ok"]

-----------------------------------------------------------------------------
(* A call of get_next() or do_post() up to curl_easy_perform.              *)

(* set_curl_next_options() and set_curl_post_result_options(): the handle  *)
(* forgets the last call, and learns the verb and the callbacks.           *)
NoReset(o, kind)      == [o EXCEPT !.verb = kind]   \* mutant
ResetOptions(o, kind) == [verb |-> kind, read |-> NoFrame, write |-> NoFrame]

Begin(t, kind, length) ==
  /\ pc[t] = "idle" /\ frame[t].call < MaxCalls
  /\ kind = "GET" => length = 0
  /\ pc'    = [pc EXCEPT ![t] = "options"]
  /\ frame' = [frame EXCEPT ![t] = NewFrame(@.call + 1, kind, length)]
  /\ opts'  = IF usable[t] THEN [opts EXCEPT ![HandleOf(t)] = ResetOptions(@, kind)]
                           ELSE opts
  /\ UNCHANGED <<usable, net, result>>

(* CURLOPT_WRITEDATA, CURLOPT_HEADERDATA and, for a POST, CURLOPT_READDATA *)
(* point into the frame.                                                   *)
SetPointers(t) ==
  /\ pc[t] = "options"
  /\ pc'   = [pc EXCEPT ![t] = "perform"]
  /\ opts' = IF usable[t]
             THEN [opts EXCEPT ![HandleOf(t)].write = FrameOf(t),
                               ![HandleOf(t)].read  = IF frame[t].kind = "POST"
                                                      THEN FrameOf(t) ELSE @]
             ELSE opts
  /\ \E reused \in BOOLEAN : net' = [net EXCEPT ![t] = Connected(reused)]
  /\ UNCHANGED <<usable, frame, result>>

-----------------------------------------------------------------------------
(* Inside curl_easy_perform.                                               *)

Performing(t) == pc[t] = "perform" /\ usable[t]

Finish(t, outcome) ==
  /\ pc'     = [pc EXCEPT ![t] = "after"]
  /\ result' = [result EXCEPT ![t] = outcome]
  /\ UNCHANGED <<usable, opts, frame, net>>

(* curl_easy_init had failed, and curl does nothing with a null handle.    *)
NoHandle(t) ==
  /\ pc[t] = "perform" /\ ~usable[t]
  /\ Finish(t, "not_made")

(* read_data(): as much of the payload as fits, 0 at its end.              *)
OneShort(unread, limit) == SmallerOf(unread - 1, limit)   \* mutant
Portion(unread, limit)  == SmallerOf(unread, limit)
NotAdvanced(read, n)    == read   \* mutant
Advanced(read, n)       == read + n

ReadData(t, limit) ==
  /\ Performing(t)
  /\ Opts(t).verb = "POST" /\ ~net[t].ended /\ ~net[t].answered
  /\ Live(Opts(t).read)
  /\ LET f == Opts(t).read
         u == f[1]
         n == Portion(frame[u].length - frame[u].read, limit)
     IN /\ frame' = [frame EXCEPT ![u].read = Advanced(@, n)]
        /\ net'   = [net EXCEPT ![t].sent  = @ \o Bytes(f, frame[u].read, n),
                                ![t].ended = (n = 0)]
  /\ UNCHANGED <<pc, usable, opts, result>>

(* An old connection is lost.  curl makes the request again on a new one   *)
(* if it has not read from the body: there is no CURLOPT_SEEKFUNCTION to   *)
(* rewind it with.                                                         *)
ResendFromStart(t) ==   \* mutant: a seek function that rewinds the context
  /\ net'   = [net EXCEPT ![t] = Connected(FALSE)]
  /\ frame' = [frame EXCEPT ![t].read = 0]

ResendUnread(t) ==
  /\ net[t].sent = <<>>
  /\ net' = [net EXCEPT ![t] = Connected(FALSE)]
  /\ UNCHANGED frame

Reconnect(t) ==
  /\ Performing(t)
  /\ net[t].reused /\ ~net[t].answered
  /\ ResendUnread(t)
  /\ UNCHANGED <<pc, usable, opts, result>>

(* Any other loss ends curl_easy_perform, before, in or after an answer.   *)
ConnectionLost(t) ==
  /\ Performing(t)
  /\ Finish(t, "not_made")

(* The service takes a POST once it has as many bytes as content-length    *)
(* says.                                                                   *)
CountsTerminator(t) == frame[t].length + 1   \* mutant: the size of the C string
ContentLength(t)    == frame[t].length

TakePost(t) ==
  /\ Performing(t) /\ Opts(t).verb = "POST"
  /\ ~net[t].taken /\ Len(net[t].sent) >= ContentLength(t)
  /\ net'   = [net EXCEPT ![t].taken = TRUE]
  /\ frame' = [frame EXCEPT ![t].taken =
                 Append(@, SubSeq(net[t].sent, 1, ContentLength(t)))]
  /\ UNCHANGED <<pc, usable, opts, result>>

(* It answers what it has taken, with a body of its own.                   *)
Answer(t, length) ==
  /\ Performing(t)
  /\ Opts(t).verb = "GET" \/ net[t].taken
  /\ ~net[t].answered
  /\ net' = [net EXCEPT ![t].answered = TRUE, ![t].length = length]
  /\ UNCHANGED <<pc, usable, opts, frame, result>>

(* write_data(): append_body() to the response.                            *)
WriteData(t, n) ==
  /\ Performing(t)
  /\ net[t].answered /\ net[t].got + n <= net[t].length
  /\ Live(Opts(t).write)
  /\ frame' = [frame EXCEPT ![Opts(t).write[1]].body = @ \o Bytes(FrameOf(t), net[t].got, n)]
  /\ net'   = [net EXCEPT ![t].got = @ + n]
  /\ UNCHANGED <<pc, usable, opts, result>>

AllRead(t) ==
  /\ Performing(t)
  /\ net[t].answered /\ net[t].got = net[t].length
  /\ Finish(t, "ok")

-----------------------------------------------------------------------------
(* The call returns: its frame is gone, the handle's pointers are not.     *)
Return(t) ==
  /\ pc[t] = "after"
  /\ pc'     = [pc EXCEPT ![t] = "idle"]
  /\ frame'  = [frame EXCEPT ![t] = NewFrame(@.call, "GET", 0)]
  /\ net'    = [net EXCEPT ![t] = Connected(FALSE)]
  /\ result' = [result EXCEPT ![t] = "ok"]
  /\ UNCHANGED <<usable, opts>>

Progress(t) ==
  \/ SetPointers(t) \/ NoHandle(t)
  \/ \E limit \in 1..MaxChunk : ReadData(t, limit)
  \/ TakePost(t)
  \/ \E length \in 0..MaxBody : Answer(t, length)
  \/ \E n \in 1..MaxChunk : WriteData(t, n)
  \/ AllRead(t) \/ Return(t)

Next == \E t \in Threads :
  \/ \E kind \in {"GET", "POST"}, length \in 0..MaxBody : Begin(t, kind, length)
  \/ Progress(t)
  \/ Reconnect(t) \/ ConnectionLost(t)

(* The threads run, curl goes on with an exchange for as long as the       *)
(* connection is up, and the service answers what it has taken.            *)
Fairness == \A t \in Threads : WF_vars(Progress(t))

Spec     == Init /\ [][Next]_vars
FairSpec == Spec /\ Fairness

-----------------------------------------------------------------------------
(* Properties.                                                             *)

FrameIds == Threads \X (0..MaxCalls)
ByteSeqs == Seq(FrameIds \X (1..MaxBody))

(* Type correctness; in particular read_data() never reads past the end.   *)
TypeOK ==
  /\ pc     \in [Threads -> {"idle", "options", "perform", "after"}]
  /\ usable \in [Threads -> BOOLEAN]
  /\ opts   \in [Threads -> [verb : {"GET", "POST"}, read : FrameIds \cup {NoFrame},
                             write : FrameIds \cup {NoFrame}]]
  /\ frame  \in [Threads -> [call : 0..MaxCalls, kind : {"GET", "POST"},
                             length : 0..MaxBody, read : 0..MaxBody, body : ByteSeqs,
                             taken : Seq(ByteSeqs)]]
  /\ \A t \in Threads : frame[t].read <= frame[t].length
  /\ net    \in [Threads -> [reused : BOOLEAN, sent : ByteSeqs, ended : BOOLEAN,
                             taken : BOOLEAN, answered : BOOLEAN, length : 0..MaxBody,
                             got : 0..MaxBody]]
  /\ result \in [Threads -> {"ok", "not_made"}]

(* While curl works for a call, the handle points into the frame of that   *)
(* very call, and a GET has no pointer left from an earlier POST.          *)
PointersFresh ==
  \A t \in Threads : Performing(t) =>
    Opts(t) = [verb  |-> frame[t].kind,
               read  |-> IF frame[t].kind = "POST" THEN FrameOf(t) ELSE NoFrame,
               write |-> FrameOf(t)]

(* A call that succeeds returns the whole answer to its own request and no *)
(* byte of another, however curl cut it up and the threads interleaved.    *)
AnswerIsOwn ==
  \A t \in Threads : pc[t] = "after" /\ result[t] = "ok" =>
    frame[t].body = Bytes(FrameOf(t), 0, net[t].length)

(* What the service takes is the payload of the call, whole and in order.  *)
TakenIsWhole ==
  \A t \in Threads : \A k \in 1..Len(frame[t].taken) :
    frame[t].taken[k] = Bytes(FrameOf(t), 0, frame[t].length)

(* curl's own retries never make the service take a payload twice; an      *)
(* empty one it may, as nothing of it has to be rewound.                   *)
TakenOnce ==
  \A t \in Threads : frame[t].length > 0 => Len(frame[t].taken) <= 1

(* A call returns in the end: the payload is as long as content-length     *)
(* says, so that the service never waits for more.                         *)
CallsReturn == \A t \in Threads : pc[t] # "idle" ~> pc[t] = "idle"
=============================================================================
