--------------------------- MODULE ExchangeProofs ---------------------------
(***************************************************************************)
(* Safety of Exchange for any number of threads and calls and any length   *)
(* of bodies and chunks.  Since the handle is the thread's own, its        *)
(* pointers stay those of the call that set them (Pointing); so what was   *)
(* read from the payload is what went over the connection (Sending), and   *)
(* what the service answered is what the response holds (Receiving).       *)
(***************************************************************************)
EXTENDS Exchange, TLAPS

(* The handle holds the options of the call, and no other pointers.        *)
Pointing ==
  \A t \in Threads : usable[t] =>
    /\ pc[t] = "options" =>
         opts[t] = [verb |-> frame[t].kind, read |-> NoFrame, write |-> NoFrame]
    /\ pc[t] = "perform" =>
         opts[t] = [verb  |-> frame[t].kind,
                    read  |-> IF frame[t].kind = "POST" THEN FrameOf(t) ELSE NoFrame,
                    write |-> FrameOf(t)]

(* The connection has the bytes of the payload that were read, in order.   *)
Sending ==
  \A t \in Threads :
    /\ pc[t] = "options" => frame[t].read = 0
    /\ pc[t] = "perform" => net[t].sent = Bytes(FrameOf(t), 0, frame[t].read)

(* The response has the bytes of the answer that were delivered, in order. *)
Receiving ==
  \A t \in Threads :
    /\ pc[t] = "options" => frame[t].body = <<>>
    /\ pc[t] \in {"perform", "after"} =>
         frame[t].body = Bytes(FrameOf(t), 0, net[t].got)
    /\ ~net[t].answered => net[t].got = 0
    /\ pc[t] = "after" /\ result[t] = "ok" => net[t].got = net[t].length

(* A payload that is taken has been read to its end.                       *)
Taking ==
  \A t \in Threads : frame[t].length > 0 =>
    /\ pc[t] \in {"idle", "options"} => frame[t].taken = <<>>
    /\ Len(frame[t].taken) <= (IF net[t].taken THEN 1 ELSE 0)
    /\ net[t].taken /\ pc[t] = "perform" => net[t].sent # <<>>

IInv == TypeOK /\ Pointing /\ Sending /\ Receiving /\ Taking /\ TakenIsWhole

-----------------------------------------------------------------------------
(* Bytes in the order of their positions: their type and length, and what  *)
(* appending the next of them gives.                                       *)
LEMMA BytesType ==
  ASSUME NEW f \in FrameIds, NEW k \in Nat, NEW n \in Nat, k + n <= MaxBody
  PROVE  Bytes(f, k, n) \in ByteSeqs /\ Len(Bytes(f, k, n)) = n
BY ExchangeAssumption DEF Bytes, ByteSeqs

(* Parts of a payload that follow each other are one part.               *)
LEMMA BytesConcat ==
  ASSUME NEW f, NEW k \in Nat, NEW n \in Nat
  PROVE  Bytes(f, 0, k) \o Bytes(f, k, n) = Bytes(f, 0, k + n)
BY DEF Bytes

(* All of the bytes of a part are the part.                              *)
LEMMA BytesWhole ==
  ASSUME NEW f, NEW n \in Nat
  PROVE  SubSeq(Bytes(f, 0, n), 1, n) = Bytes(f, 0, n)
BY DEF Bytes

(* A part of no bytes.                                                   *)
LEMMA BytesNone ==
  ASSUME NEW f, NEW k \in Nat
  PROVE  Bytes(f, k, 0) = <<>>
BY DEF Bytes

-----------------------------------------------------------------------------
(* A step of thread t that leaves the parts of the other threads alone and *)
(* gives t a part of the right type that satisfies the invariant keeps it. *)
FrameType ==
  [call : 0..MaxCalls, kind : {"GET", "POST"}, length : 0..MaxBody,
   read : 0..MaxBody, body : ByteSeqs, taken : Seq(ByteSeqs)]

NetType ==
  [reused : BOOLEAN, sent : ByteSeqs, ended : BOOLEAN, taken : BOOLEAN,
   answered : BOOLEAN, length : 0..MaxBody, got : 0..MaxBody]

OptsType ==
  [verb : {"GET", "POST"}, read : FrameIds \cup {NoFrame},
   write : FrameIds \cup {NoFrame}]

(* The invariant of one thread with frame f, connection n, handle o.       *)
ThreadInv(t, p, u, o, f, n, r) ==
  /\ f.read <= f.length
  /\ u /\ p = "options" =>
       o = [verb |-> f.kind, read |-> NoFrame, write |-> NoFrame]
  /\ u /\ p = "perform" =>
       o = [verb  |-> f.kind,
            read  |-> IF f.kind = "POST" THEN <<t, f.call>> ELSE NoFrame,
            write |-> <<t, f.call>>]
  /\ p = "options" => f.read = 0 /\ f.body = <<>>
  /\ p = "perform" => n.sent = Bytes(<<t, f.call>>, 0, f.read)
  /\ p \in {"perform", "after"} => f.body = Bytes(<<t, f.call>>, 0, n.got)
  /\ ~n.answered => n.got = 0
  /\ p = "after" /\ r = "ok" => n.got = n.length
  /\ f.length > 0 =>
       /\ p \in {"idle", "options"} => f.taken = <<>>
       /\ Len(f.taken) <= (IF n.taken THEN 1 ELSE 0)
       /\ n.taken /\ p = "perform" => n.sent # <<>>
  /\ \A k \in 1..Len(f.taken) : f.taken[k] = Bytes(<<t, f.call>>, 0, f.length)

Step(t, p, o, f, n, r) ==
  /\ usable' = usable
  /\ pc'     = [pc EXCEPT ![t] = p]
  /\ opts'   = [opts EXCEPT ![t] = o]
  /\ frame'  = [frame EXCEPT ![t] = f]
  /\ net'    = [net EXCEPT ![t] = n]
  /\ result' = [result EXCEPT ![t] = r]

(* A step of one thread keeps IInv if it keeps that thread's part.       *)
LEMMA OneThread ==
  ASSUME IInv, NEW t \in Threads,
         NEW p \in {"idle", "options", "perform", "after"}, NEW o \in OptsType,
         NEW f \in FrameType, NEW n \in NetType, NEW r \in {"ok", "not_made"},
         Step(t, p, o, f, n, r),
         ThreadInv(t, p, usable[t], o, f, n, r)
  PROVE  IInv'
<1>1. TypeOK'
  BY DEF Step, IInv, TypeOK, OptsType, FrameType, NetType, ThreadInv
<1>2. Pointing'
  <2> DEFINE Points(s) ==
        usable[s] =>
          /\ pc[s] = "options" =>
               opts[s] = [verb |-> frame[s].kind, read |-> NoFrame, write |-> NoFrame]
          /\ pc[s] = "perform" =>
               opts[s] = [verb  |-> frame[s].kind,
                          read  |-> IF frame[s].kind = "POST" THEN FrameOf(s) ELSE NoFrame,
                          write |-> FrameOf(s)]
  <2>1. ASSUME NEW s \in Threads, s = t PROVE Points(s)'
    <3>1. pc'[s] = p /\ opts'[s] = o /\ frame'[s] = f /\ usable'[s] = usable[t]
      BY <2>1 DEF Step, IInv, TypeOK
    <3>2. QED
      BY <2>1, <3>1 DEF ThreadInv, FrameOf
  <2>2. ASSUME NEW s \in Threads, s # t PROVE Points(s)'
    <3>1. UNCHANGED <<pc[s], opts[s], frame[s], usable[s]>>
      BY <2>2 DEF Step, IInv, TypeOK
    <3>2. QED
      BY <3>1 DEF IInv, Pointing, FrameOf
  <2>3. QED
    BY <2>1, <2>2 DEF Pointing
<1>3. Sending'
  BY DEF Step, IInv, TypeOK, Sending, FrameOf, ThreadInv
<1>4. Receiving'
  BY DEF Step, IInv, TypeOK, Receiving, FrameOf, ThreadInv
<1>5. Taking'
  BY DEF Step, IInv, TypeOK, Taking, ThreadInv
<1>6. TakenIsWhole'
  <2> SUFFICES ASSUME NEW s \in Threads, NEW k \in 1..Len(frame'[s].taken)
               PROVE  frame'[s].taken[k] = Bytes(<<s, frame'[s].call>>, 0, frame'[s].length)
    BY DEF TakenIsWhole, FrameOf
  <2>1. CASE s = t
    <3>1. frame'[s] = f
      BY <2>1 DEF Step, IInv, TypeOK
    <3>2. QED
      BY <2>1, <3>1 DEF ThreadInv
  <2>2. CASE s # t
    <3>1. frame'[s] = frame[s]
      BY <2>2 DEF Step, IInv, TypeOK
    <3>2. QED
      BY <3>1 DEF IInv, TakenIsWhole, FrameOf
  <2>3. QED
    BY <2>1, <2>2
<1>7. QED
  BY <1>1, <1>2, <1>3, <1>4, <1>5, <1>6 DEF IInv

(* What the invariant says of thread t.                                    *)
ThreadFacts(t) ==
  /\ ThreadInv(t, pc[t], usable[t], opts[t], frame[t], net[t], result[t])
  /\ pc[t] \in {"idle", "options", "perform", "after"}
  /\ usable[t] \in BOOLEAN
  /\ opts[t] \in OptsType
  /\ frame[t] \in FrameType
  /\ net[t] \in NetType
  /\ result[t] \in {"ok", "not_made"}
  /\ FrameOf(t) \in FrameIds
  /\ pc \in [Threads -> {"idle", "options", "perform", "after"}]
  /\ opts \in [Threads -> OptsType]
  /\ frame \in [Threads -> FrameType]
  /\ net \in [Threads -> NetType]
  /\ result \in [Threads -> {"ok", "not_made"}]

(* What the invariant says of one thread.                                *)
LEMMA ThreadOf ==
  ASSUME IInv, NEW t \in Threads
  PROVE  ThreadFacts(t)
<1>1. TypeOK
  BY DEF IInv
<1>2. /\ pc \in [Threads -> {"idle", "options", "perform", "after"}]
      /\ usable \in [Threads -> BOOLEAN]
      /\ opts \in [Threads -> OptsType]
      /\ frame \in [Threads -> FrameType]
      /\ net \in [Threads -> NetType]
      /\ result \in [Threads -> {"ok", "not_made"}]
      /\ frame[t].read <= frame[t].length
  BY <1>1 DEF TypeOK, OptsType, FrameType, NetType
<1>3. FrameOf(t) \in FrameIds
  BY <1>2 DEF FrameOf, FrameIds, FrameType
<1>4. ThreadInv(t, pc[t], usable[t], opts[t], frame[t], net[t], result[t])
  BY <1>2 DEF IInv, Pointing, Sending, Receiving, Taking, TakenIsWhole, FrameOf,
              ThreadInv
<1>5. QED
  BY <1>2, <1>3, <1>4 DEF ThreadFacts

(* The values a call starts from.                                          *)
LEMMA Fresh ==
  /\ <<>> \in ByteSeqs /\ <<>> \in Seq(ByteSeqs)
  /\ \A c \in 0..MaxCalls, kind \in {"GET", "POST"}, length \in 0..MaxBody :
       NewFrame(c, kind, length) \in FrameType
  /\ \A reused \in BOOLEAN : Connected(reused) \in NetType
BY ExchangeAssumption DEF ByteSeqs, NewFrame, FrameType, Connected, NetType

(* At first no thread has called and no handle is made.                  *)
LEMMA InitInv == Init => IInv
<1> SUFFICES ASSUME Init PROVE IInv
  OBVIOUS
<1>1. \A t \in Threads : frame[t] = NewFrame(0, "GET", 0) /\ net[t] = Connected(FALSE)
                         /\ pc[t] = "idle"
  BY DEF Init
<1>2. TypeOK
  <2>1. 0 \in 0..MaxCalls /\ 0 \in 0..MaxBody
    BY ExchangeAssumption
  <2>2. NewFrame(0, "GET", 0) \in FrameType /\ Connected(FALSE) \in NetType
    BY <2>1, Fresh
  <2>3. frame \in [Threads -> FrameType] /\ net \in [Threads -> NetType]
    BY <2>2 DEF Init
  <2>4. \A t \in Threads : frame[t].read <= frame[t].length
    <3>1. NewFrame(0, "GET", 0).read = 0 /\ NewFrame(0, "GET", 0).length = 0
      BY DEF NewFrame
    <3> SUFFICES ASSUME NEW t \in Threads PROVE frame[t].read <= frame[t].length
      OBVIOUS
    <3>2. frame[t].read = 0 /\ frame[t].length = 0
      BY <1>1, <3>1
    <3>3. QED
      BY <3>2
  <2>5. opts \in [Threads -> OptsType]
    BY DEF Init, OptsType
  <2>6. QED
    BY <2>3, <2>4, <2>5 DEF Init, TypeOK, FrameType, NetType, OptsType
<1>3. Pointing /\ Sending
  BY <1>1 DEF Pointing, Sending
<1>4. Receiving /\ Taking /\ TakenIsWhole
  BY <1>1 DEF Receiving, Taking, TakenIsWhole, NewFrame, Connected
<1>5. QED
  BY <1>2, <1>3, <1>4 DEF IInv

(* Each step of a thread keeps the invariant.                              *)
LEMMA BeginInv ==
  ASSUME IInv, NEW t \in Threads, NEW kind \in {"GET", "POST"},
         NEW length \in 0..MaxBody, Begin(t, kind, length)
  PROVE  IInv'
<1>0. ThreadFacts(t)
  BY ThreadOf
<1> DEFINE f == NewFrame(frame[t].call + 1, kind, length)
           o == IF usable[t] THEN ResetOptions(opts[t], kind) ELSE opts[t]
<1>1. f \in FrameType
  <2>1. frame[t].call + 1 \in 0..MaxCalls
    BY <1>0, ExchangeAssumption DEF ThreadFacts, Begin, FrameType
  <2>2. QED
    BY <2>1, Fresh
<1>2. o \in OptsType
  BY <1>0 DEF ThreadFacts, OptsType, ResetOptions
<1>3. ThreadInv(t, "options", usable[t], o, f, net[t], result[t])
  BY <1>0 DEF ThreadFacts, ThreadInv, NewFrame, ResetOptions, NetType
<1>4. Step(t, "options", o, f, net[t], result[t])
  BY <1>0 DEF Step, ThreadFacts, Begin, HandleOf
<1> HIDE DEF f, o
<1>5. QED
  BY <1>1, <1>2, <1>3, <1>4, <1>0, OneThread DEF ThreadFacts

(* The handle points to what the call in progress has.                   *)
LEMMA SetPointersInv ==
  ASSUME IInv, NEW t \in Threads, SetPointers(t)
  PROVE  IInv'
<1>0. ThreadFacts(t)
  BY ThreadOf
<1> DEFINE o == IF usable[t]
                THEN [opts[t] EXCEPT !.write = FrameOf(t),
                                     !.read = IF frame[t].kind = "POST"
                                              THEN FrameOf(t) ELSE @]
                ELSE opts[t]
<1>1. PICK reused \in BOOLEAN : net' = [net EXCEPT ![t] = Connected(reused)]
  BY DEF SetPointers
<1>2. Connected(reused) \in NetType
  BY Fresh
<1>3. o \in OptsType
  BY <1>0 DEF ThreadFacts, OptsType
<1>4. ThreadInv(t, "perform", usable[t], o, frame[t], Connected(reused), result[t])
  <2>1. frame[t].body = <<>> /\ frame[t].read = 0
    BY <1>0 DEF ThreadFacts, ThreadInv, SetPointers
  <2>2. Bytes(FrameOf(t), 0, 0) = <<>>
    BY BytesNone
  <2>3. usable[t] =>
          o = [verb  |-> frame[t].kind,
               read  |-> IF frame[t].kind = "POST" THEN FrameOf(t) ELSE NoFrame,
               write |-> FrameOf(t)]
    <3>1. usable[t] =>
            opts[t] = [verb |-> frame[t].kind, read |-> NoFrame, write |-> NoFrame]
      BY <1>0 DEF ThreadFacts, ThreadInv, SetPointers
    <3>2. o.verb = opts[t].verb /\ (usable[t] => o.write = FrameOf(t))
          /\ (usable[t] => o.read = IF frame[t].kind = "POST" THEN FrameOf(t)
                                    ELSE opts[t].read)
      BY <1>0 DEF ThreadFacts, OptsType
    <3> HIDE DEF o
    <3>3. QED
      BY <1>3, <3>1, <3>2 DEF OptsType
  <2>4. /\ frame[t].read <= frame[t].length
        /\ frame[t].length > 0 => frame[t].taken = <<>>
        /\ \A k \in 1..Len(frame[t].taken) :
             frame[t].taken[k] = Bytes(FrameOf(t), 0, frame[t].length)
    BY <1>0 DEF ThreadFacts, ThreadInv, SetPointers, FrameOf
  <2>5. /\ Connected(reused).sent = <<>> /\ Connected(reused).taken = FALSE
        /\ Connected(reused).got = 0
    BY DEF Connected
  <2>6. Len(<<>>) <= 0
    OBVIOUS
  <2> HIDE DEF o
  <2>7. QED
    BY <2>1, <2>2, <2>3, <2>4, <2>5, <2>6 DEF ThreadInv, FrameOf
<1>5. Step(t, "perform", o, frame[t], Connected(reused), result[t])
  BY <1>0, <1>1 DEF Step, ThreadFacts, SetPointers, HandleOf
<1> HIDE DEF o
<1>6. QED
  BY <1>1, <1>2, <1>3, <1>4, <1>5, <1>0, OneThread DEF ThreadFacts

(* The end of a call, with or without an answer.                         *)
LEMMA FinishInv ==
  ASSUME IInv, NEW t \in Threads, NEW outcome \in {"ok", "not_made"},
         pc[t] = "perform", Finish(t, outcome),
         outcome = "ok" => net[t].got = net[t].length
  PROVE  IInv'
<1>0. ThreadFacts(t)
  BY ThreadOf
<1>1. ThreadInv(t, "after", usable[t], opts[t], frame[t], net[t], outcome)
  BY <1>0 DEF ThreadFacts, ThreadInv
<1>2. Step(t, "after", opts[t], frame[t], net[t], outcome)
  BY <1>0 DEF Step, ThreadFacts, Finish
<1>3. QED
  BY <1>1, <1>2, <1>0, OneThread DEF ThreadFacts

(* read_data() gives curl the next part of the payload.                  *)
LEMMA ReadDataInv ==
  ASSUME IInv, NEW t \in Threads, NEW limit \in 1..MaxChunk, ReadData(t, limit)
  PROVE  IInv'
<1>0. ThreadFacts(t)
  BY ThreadOf
<1> DEFINE k == frame[t].read
           m == Portion(frame[t].length - k, limit)
           f == [frame[t] EXCEPT !.read = k + m]
           n == [net[t] EXCEPT !.sent = Bytes(FrameOf(t), 0, k + m), !.ended = (m = 0)]
<1>1. Opts(t).read = FrameOf(t)
  <2>1. /\ pc[t] = "perform" /\ usable[t] /\ opts[t].verb = "POST"
    BY DEF ReadData, Performing, Opts, HandleOf
  <2>2. opts[t] = [verb  |-> frame[t].kind,
                   read  |-> IF frame[t].kind = "POST" THEN FrameOf(t) ELSE NoFrame,
                   write |-> FrameOf(t)]
    BY <1>0, <2>1 DEF ThreadFacts, ThreadInv, FrameOf
  <2>3. QED
    BY <2>1, <2>2 DEF Opts, HandleOf
<1>2. FrameOf(t)[1] = t
  BY DEF FrameOf
<1>3. /\ k \in Nat /\ m \in Nat /\ k + m <= frame[t].length
      /\ frame[t].length <= MaxBody /\ k + m \in 0..MaxBody
  BY <1>0, ExchangeAssumption DEF ThreadFacts, FrameType, ThreadInv, Portion, SmallerOf
<1>4. net[t].sent = Bytes(FrameOf(t), 0, k)
  BY <1>0 DEF ThreadFacts, ReadData, Performing, ThreadInv, FrameOf
<1>5. net[t].sent \o Bytes(FrameOf(t), k, m) = Bytes(FrameOf(t), 0, k + m)
  BY <1>3, <1>4, BytesConcat
<1>6. /\ frame' = [frame EXCEPT ![t].read = k + m]
      /\ net' = [net EXCEPT ![t].sent = net[t].sent \o Bytes(FrameOf(t), k, m),
                            ![t].ended = (m = 0)]
  BY <1>1, <1>2, <1>0 DEF ThreadFacts, ReadData, Advanced
<1>7. frame' = [frame EXCEPT ![t] = f] /\ net' = [net EXCEPT ![t] = n]
  BY <1>5, <1>6, <1>0 DEF ThreadFacts
<1>8. Bytes(FrameOf(t), 0, k + m) \in ByteSeqs /\ Len(Bytes(FrameOf(t), 0, k + m)) = k + m
  <2>1. 0 \in Nat /\ k + m \in Nat /\ 0 + (k + m) <= MaxBody
    BY <1>3
  <2>2. QED
    BY <2>1, BytesType, <1>0 DEF ThreadFacts
<1>9. f \in FrameType /\ n \in NetType
  BY <1>3, <1>8, <1>0 DEF ThreadFacts, FrameType, NetType
<1>10. ThreadInv(t, "perform", usable[t], opts[t], f, n, result[t])
  <2>1. frame[t].length > 0 /\ n.taken => n.sent # <<>>
    <3> SUFFICES ASSUME frame[t].length > 0, n.taken PROVE n.sent # <<>>
      OBVIOUS
    <3>1. net[t].sent # <<>>
      BY <1>0 DEF ThreadFacts, ThreadInv, ReadData, Performing, NetType
    <3>2. k # 0
      BY <3>1, <1>4, BytesNone
    <3>3. Len(n.sent) # 0
      BY <3>2, <1>3, <1>8, <1>0 DEF ThreadFacts, NetType
    <3>4. QED
      BY <3>3
  <2>2. /\ f.length = frame[t].length /\ f.read = k + m /\ f.kind = frame[t].kind
        /\ f.call = frame[t].call /\ f.body = frame[t].body /\ f.taken = frame[t].taken
        /\ n.sent = Bytes(FrameOf(t), 0, k + m) /\ n.got = net[t].got
        /\ n.taken = net[t].taken /\ n.answered = net[t].answered
        /\ n.length = net[t].length
    BY <1>0 DEF ThreadFacts, FrameType, NetType
  <2> HIDE DEF f, n
  <2>3. QED
    <3>1. pc[t] = "perform" /\ usable[t]
      BY DEF ReadData, Performing
    <3>2. ThreadInv(t, "perform", usable[t], opts[t], frame[t], net[t], result[t])
      BY <1>0, <3>1 DEF ThreadFacts
    <3>3. QED
      BY <2>1, <2>2, <3>2, <1>3 DEF ThreadInv, FrameOf
<1>11. Step(t, "perform", opts[t], f, n, result[t])
  <2>1. pc[t] = "perform" /\ UNCHANGED <<pc, usable, opts, result>>
    BY DEF ReadData, Performing
  <2> HIDE DEF f, n
  <2>2. QED
    BY <1>0, <1>7, <2>1 DEF Step, ThreadFacts
<1> HIDE DEF f, n
<1>12. QED
  BY <1>7, <1>9, <1>10, <1>11, <1>0, OneThread DEF ThreadFacts

(* curl tries again only where nothing of the payload was read.          *)
LEMMA ReconnectInv ==
  ASSUME IInv, NEW t \in Threads, Reconnect(t)
  PROVE  IInv'
<1>0. ThreadFacts(t)
  BY ThreadOf
<1>1. Connected(FALSE) \in NetType
  BY Fresh
<1>2. ThreadInv(t, "perform", usable[t], opts[t], frame[t], Connected(FALSE), result[t])
  BY <1>0 DEF ThreadFacts, ThreadInv, Reconnect, ResendUnread, Performing, Connected,
              NetType, FrameType
<1>3. Step(t, "perform", opts[t], frame[t], Connected(FALSE), result[t])
  BY <1>0 DEF Step, ThreadFacts, Reconnect, ResendUnread, Performing
<1>4. QED
  BY <1>1, <1>2, <1>3, <1>0, OneThread DEF ThreadFacts

(* The service takes what is on the connection.                          *)
LEMMA TakePostInv ==
  ASSUME IInv, NEW t \in Threads, TakePost(t)
  PROVE  IInv'
<1>0. ThreadFacts(t)
  BY ThreadOf
<1> DEFINE body == Bytes(FrameOf(t), 0, frame[t].length)
           f    == [frame[t] EXCEPT !.taken = Append(@, body)]
           n    == [net[t] EXCEPT !.taken = TRUE]
<1>1. /\ frame[t].length \in 0..MaxBody /\ frame[t].read \in 0..MaxBody
      /\ frame[t].read <= frame[t].length
      /\ net[t].sent = Bytes(FrameOf(t), 0, frame[t].read)
  BY <1>0 DEF ThreadFacts, ThreadInv, FrameType, TakePost, Performing, FrameOf
<1>2. body \in ByteSeqs /\ Len(body) = frame[t].length
      /\ Len(net[t].sent) = frame[t].read
  BY <1>0, <1>1, BytesType, ExchangeAssumption DEF ThreadFacts
<1>3. frame[t].read = frame[t].length
  BY <1>1, <1>2 DEF TakePost, ContentLength
<1>4. SubSeq(net[t].sent, 1, ContentLength(t)) = body
  BY <1>1, <1>3, BytesWhole DEF ContentLength
<1>5. Step(t, "perform", opts[t], f, n, result[t])
  BY <1>0, <1>4 DEF Step, ThreadFacts, TakePost, Performing
<1>6. f \in FrameType /\ n \in NetType
  <2>1. Append(frame[t].taken, body) \in Seq(ByteSeqs)
    BY <1>0, <1>2 DEF ThreadFacts, FrameType
  <2> HIDE DEF body
  <2>2. QED
    BY <1>0, <2>1 DEF ThreadFacts, FrameType, NetType
<1>7. ThreadInv(t, "perform", usable[t], opts[t], f, n, result[t])
  <2>1. frame[t].length > 0 => Len(f.taken) <= 1 /\ n.sent # <<>>
    <3> SUFFICES ASSUME frame[t].length > 0 PROVE Len(f.taken) <= 1 /\ n.sent # <<>>
      OBVIOUS
    <3>1. /\ frame[t].taken \in Seq(ByteSeqs) /\ Len(frame[t].taken) <= 0
          /\ f.taken = Append(frame[t].taken, body)
      BY <1>0 DEF ThreadFacts, ThreadInv, TakePost, FrameType
    <3>2. Len(f.taken) <= 1
      <4> HIDE DEF f, body
      <4>1. QED
        BY <3>1
    <3>3. n.sent = net[t].sent /\ Len(net[t].sent) # 0
      BY <1>0, <1>1, <1>2, <1>3 DEF ThreadFacts, NetType
    <3>4. QED
      BY <3>2, <3>3
  <2>2. \A k \in 1..Len(f.taken) : f.taken[k] = body
    <3>1. /\ frame[t].taken \in Seq(ByteSeqs)
          /\ f.taken = Append(frame[t].taken, body)
          /\ \A k \in 1..Len(frame[t].taken) : frame[t].taken[k] = body
      BY <1>0 DEF ThreadFacts, ThreadInv, FrameType, FrameOf
    <3> HIDE DEF f, body
    <3>2. QED
      BY <3>1
  <2>3. /\ f.length = frame[t].length /\ f.read = frame[t].read /\ f.kind = frame[t].kind
        /\ f.call = frame[t].call /\ f.body = frame[t].body
        /\ n.sent = net[t].sent /\ n.got = net[t].got /\ n.taken
        /\ n.answered = net[t].answered /\ n.length = net[t].length
    BY <1>0 DEF ThreadFacts, FrameType, NetType
  <2> HIDE DEF f, n
  <2>4. QED
    BY <1>0, <2>1, <2>2, <2>3 DEF ThreadFacts, ThreadInv, TakePost, Performing, FrameOf
<1> HIDE DEF f, n
<1>8. QED
  BY <1>0, <1>5, <1>6, <1>7, OneThread DEF ThreadFacts

(* The service answers, whole or not.                                    *)
LEMMA AnswerInv ==
  ASSUME IInv, NEW t \in Threads, NEW length \in 0..MaxBody, Answer(t, length)
  PROVE  IInv'
<1>0. ThreadFacts(t)
  BY ThreadOf
<1> DEFINE n == [net[t] EXCEPT !.answered = TRUE, !.length = length]
<1>1. n \in NetType
  BY <1>0 DEF ThreadFacts, NetType
<1>2. ThreadInv(t, "perform", usable[t], opts[t], frame[t], n, result[t])
  BY <1>0 DEF ThreadFacts, ThreadInv, Answer, Performing, NetType
<1>3. Step(t, "perform", opts[t], frame[t], n, result[t])
  BY <1>0 DEF Step, ThreadFacts, Answer, Performing
<1> HIDE DEF n
<1>4. QED
  BY <1>0, <1>1, <1>2, <1>3, OneThread DEF ThreadFacts

(* write_data() appends the next part of the answer.                     *)
LEMMA WriteDataInv ==
  ASSUME IInv, NEW t \in Threads, NEW d \in 1..MaxChunk, WriteData(t, d)
  PROVE  IInv'
<1>0. ThreadFacts(t)
  BY ThreadOf
<1> DEFINE g == net[t].got
           f == [frame[t] EXCEPT !.body = Bytes(FrameOf(t), 0, g + d)]
           n == [net[t] EXCEPT !.got = g + d]
<1>1. Opts(t).write[1] = t
  BY <1>0 DEF ThreadFacts, WriteData, Performing, Opts, HandleOf, ThreadInv
<1>2. /\ g \in Nat /\ d \in Nat /\ g + d \in 0..MaxBody
      /\ frame[t].body = Bytes(FrameOf(t), 0, g)
  BY <1>0, ExchangeAssumption
  DEF ThreadFacts, ThreadInv, NetType, WriteData, Performing, FrameOf
<1>3. frame[t].body \o Bytes(FrameOf(t), g, d) = Bytes(FrameOf(t), 0, g + d)
  BY <1>2, BytesConcat
<1>4. Bytes(FrameOf(t), 0, g + d) \in ByteSeqs
  <2>1. 0 \in Nat /\ g + d \in Nat /\ 0 + (g + d) <= MaxBody
    BY <1>2, ExchangeAssumption
  <2>2. QED
    BY <1>0, <2>1, BytesType DEF ThreadFacts
<1>5. f \in FrameType /\ n \in NetType
  BY <1>0, <1>2, <1>4 DEF ThreadFacts, FrameType, NetType
<1>6. /\ frame' = [frame EXCEPT ![t].body = Bytes(FrameOf(t), 0, g + d)]
      /\ net' = [net EXCEPT ![t].got = g + d]
  BY <1>0, <1>1, <1>3 DEF ThreadFacts, WriteData
<1>7. Step(t, "perform", opts[t], f, n, result[t])
  <2>1. frame' = [frame EXCEPT ![t] = f]
    BY <1>0, <1>6 DEF ThreadFacts
  <2>2. net' = [net EXCEPT ![t] = n]
    BY <1>0, <1>6 DEF ThreadFacts
  <2> HIDE DEF f, n
  <2>3. pc[t] = "perform" /\ UNCHANGED <<pc, usable, opts, result>>
    BY DEF WriteData, Performing
  <2>4. QED
    BY <1>0, <2>1, <2>2, <2>3 DEF Step, ThreadFacts
<1>8. ThreadInv(t, "perform", usable[t], opts[t], f, n, result[t])
  BY <1>0, <1>2 DEF ThreadFacts, ThreadInv, WriteData, Performing, FrameOf,
                    FrameType, NetType
<1> HIDE DEF f, n
<1>9. QED
  BY <1>0, <1>5, <1>7, <1>8, OneThread DEF ThreadFacts

(* The call returns what is in the response.                             *)
LEMMA ReturnInv ==
  ASSUME IInv, NEW t \in Threads, Return(t)
  PROVE  IInv'
<1>0. ThreadFacts(t)
  BY ThreadOf
<1> DEFINE f == NewFrame(frame[t].call, "GET", 0)
<1>1. f \in FrameType /\ Connected(FALSE) \in NetType
  <2>1. frame[t].call \in 0..MaxCalls /\ 0 \in 0..MaxBody
    BY <1>0, ExchangeAssumption DEF ThreadFacts, FrameType
  <2>2. QED
    BY <2>1, Fresh
<1>2. ThreadInv(t, "idle", usable[t], opts[t], f, Connected(FALSE), "ok")
  BY DEF ThreadInv, NewFrame, Connected
<1>3. Step(t, "idle", opts[t], f, Connected(FALSE), "ok")
  BY <1>0 DEF Step, ThreadFacts, Return
<1> HIDE DEF f
<1>4. QED
  BY <1>0, <1>1, <1>2, <1>3, OneThread DEF ThreadFacts

(* Every step keeps the invariant.                                       *)
LEMMA NextInv == IInv /\ [Next]_vars => IInv'
<1> SUFFICES ASSUME IInv, [Next]_vars PROVE IInv'
  OBVIOUS
<1>1. CASE UNCHANGED vars
  BY <1>1 DEF vars, IInv, TypeOK, Pointing, Sending, Receiving, Taking, TakenIsWhole,
              FrameOf
<1>2. ASSUME NEW t \in Threads, NEW kind \in {"GET", "POST"},
             NEW length \in 0..MaxBody, Begin(t, kind, length)
      PROVE  IInv'
  BY <1>2, BeginInv
<1>3. ASSUME NEW t \in Threads, Progress(t)
      PROVE  IInv'
  <2>1. CASE SetPointers(t)
    BY <2>1, SetPointersInv
  <2>2. CASE NoHandle(t)
    BY <2>2, FinishInv DEF NoHandle
  <2>3. ASSUME NEW limit \in 1..MaxChunk, ReadData(t, limit) PROVE IInv'
    BY <2>3, ReadDataInv
  <2>4. CASE TakePost(t)
    BY <2>4, TakePostInv
  <2>5. ASSUME NEW length \in 0..MaxBody, Answer(t, length) PROVE IInv'
    BY <2>5, AnswerInv
  <2>6. ASSUME NEW n \in 1..MaxChunk, WriteData(t, n) PROVE IInv'
    BY <2>6, WriteDataInv
  <2>7. CASE AllRead(t)
    BY <2>7, FinishInv DEF AllRead, Performing
  <2>8. CASE Return(t)
    BY <2>8, ReturnInv
  <2>9. QED
    BY <1>3, <2>1, <2>2, <2>3, <2>4, <2>5, <2>6, <2>7, <2>8 DEF Progress
<1>4. ASSUME NEW t \in Threads, Reconnect(t)
      PROVE  IInv'
  BY <1>4, ReconnectInv
<1>5. ASSUME NEW t \in Threads, ConnectionLost(t)
      PROVE  IInv'
  BY <1>5, FinishInv DEF ConnectionLost, Performing
<1>6. QED
  BY <1>1, <1>2, <1>3, <1>4, <1>5 DEF Next

-----------------------------------------------------------------------------
(* The invariant holds in every behaviour.                                 *)
THEOREM Safety == Spec => []IInv
BY InitInv, NextInv, PTL DEF Spec

(* The state keeps its type; read_data() never reads past the payload's    *)
(* end.                                                                    *)
THEOREM TypeCorrect == Spec => []TypeOK
<1>1. IInv => TypeOK
  BY DEF IInv
<1>2. QED
  BY <1>1, Safety, PTL

(* curl never follows a pointer to the frame of another or an earlier call:*)
(* set_curl_next_options() and set_curl_post_result_options() reset the    *)
(* handle, and no other thread has it.                                     *)
THEOREM PointersStayFresh == Spec => []PointersFresh
<1>1. IInv => PointersFresh
  BY DEF IInv, Pointing, PointersFresh, Performing, Opts, HandleOf
<1>2. QED
  BY <1>1, Safety, PTL

(* get_next() and do_post() return the whole answer to their own request.  *)
THEOREM AnswersAreOwn == Spec => []AnswerIsOwn
<1>1. IInv => AnswerIsOwn
  BY DEF IInv, Receiving, AnswerIsOwn
<1>2. QED
  BY <1>1, Safety, PTL

(* The service takes a payload whole and in order, however it was read.    *)
THEOREM PayloadsAreWhole == Spec => []TakenIsWhole
<1>1. IInv => TakenIsWhole
  BY DEF IInv
<1>2. QED
  BY <1>1, Safety, PTL

(* A payload that is not empty is taken at most once in a call, although   *)
(* curl makes requests again on its own.                                   *)
THEOREM PayloadsTakenOnce == Spec => []TakenOnce
<1>1. IInv => TakenOnce
  <2> SUFFICES ASSUME IInv, NEW t \in Threads, frame[t].length > 0
               PROVE  Len(frame[t].taken) <= 1
    BY DEF TakenOnce
  <2>1. frame[t].taken \in Seq(ByteSeqs)
    BY DEF IInv, TypeOK
  <2>2. Len(frame[t].taken) <= (IF net[t].taken THEN 1 ELSE 0)
    BY DEF IInv, Taking
  <2>3. QED
    BY <2>1, <2>2
<1>2. QED
  BY <1>1, Safety, PTL
=============================================================================
