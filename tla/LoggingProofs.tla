--------------------------- MODULE LoggingProofs ---------------------------
(***************************************************************************)
(* That log() never writes past its buffer, never cuts a message and frees *)
(* what it allocates, for any number of threads and messages of any        *)
(* length.  The invariant behind it says what a thread knows of its        *)
(* message, its buffer and its arguments at each place.                    *)
(***************************************************************************)
EXTENDS Logging, TLAPS

Buffers == [on : {"stack", "heap"}, size : Int, holds : Int]

TypeOK ==
  /\ pc    \in [Threads -> {"idle", "measured", "allocated", "formatted", "printed"}]
  /\ msg   \in [Threads -> Messages \cup {NoMsg}]
  /\ args  \in [Threads -> SUBSET {"copy"}]
  /\ sz    \in [Threads -> Int]
  /\ buf   \in [Threads -> Buffers]
  /\ heap  \subseteq Threads
  /\ lines \in Seq((Messages \cup {NoMsg}) \X Int)

Formats(t) == msg[t].length # FormatError

(* What holds at each place of log().                                      *)
InPlace(t) ==
  /\ pc[t] \in {"measured", "allocated"} => sz[t] = msg[t].length + 1 /\ args[t] = {"copy"}
  /\ pc[t] = "allocated" => sz[t] >= 0 /\ sz[t] <= buf[t].size
  /\ pc[t] = "formatted" /\ Formats(t) => buf[t].holds = msg[t].length
  /\ pc[t] \in {"idle", "measured"} => buf[t].on = "stack"

IInv == TypeOK /\ (\A t \in Threads : InPlace(t)) /\ PrintedWhole /\ NoLeak

(* Error results are no lengths.                                           *)
LEMMA Numbers ==
  /\ FormatError = -1 /\ Garbage = -2 /\ Reported = -3 /\ max_stack_buffer_size = 512
  /\ \A m \in Messages \cup {NoMsg} : m.length \in Int /\ m.length >= -1
  /\ NoBuf \in Buffers /\ NoBuf.on = "stack" /\ NoBuf.size = 512
<1>1. FormatError = -1 /\ Garbage = -2 /\ Reported = -3 /\ max_stack_buffer_size = 512
  BY DEF FormatError, Garbage, Reported, max_stack_buffer_size
<1>2. ASSUME NEW m \in Messages PROVE m.length \in Int /\ m.length >= -1
  <2> DEFINE lengths == IF CanFail THEN Lengths \cup {FormatError} ELSE Lengths
  <2>1. Messages = [level : {"error", "info", "debug"}, length : lengths]
    BY DEF Messages
  <2>2. lengths \subseteq Lengths \cup {FormatError}
    BY Zenon
  <2> HIDE DEF lengths
  <2>3. m.length \in lengths
    BY <2>1
  <2>4. m.length \in Nat \/ m.length = FormatError
    <3>1. Lengths \subseteq Nat
      BY Zenon, LoggingAssumption
    <3> QED
      BY <2>2, <2>3, <3>1
  <2> QED
    BY <1>1, <2>4
<1>3. NoMsg.length = 0
  BY DEF NoMsg
<1>4. NoBuf \in Buffers /\ NoBuf.on = "stack" /\ NoBuf.size = 512
  BY <1>1 DEF NoBuf, Buffers
<1> QED
  BY <1>1, <1>2, <1>3, <1>4

(* The invariant holds initially.                                          *)
THEOREM LogInitIsSafe == LogInit => IInv
<1> SUFFICES ASSUME LogInit PROVE IInv
  OBVIOUS
<1>1. TypeOK
  BY Numbers DEF LogInit, TypeOK
<1>2. \A t \in Threads : InPlace(t)
  BY Numbers DEF LogInit, InPlace
<1>3. PrintedWhole /\ NoLeak
  BY DEF LogInit, PrintedWhole, NoLeak
<1> QED
  BY <1>1, <1>2, <1>3 DEF IInv

(* A line is added to what was printed, and it is right.                   *)
LEMMA AddLine ==
  ASSUME TypeOK, PrintedWhole, NEW m \in Messages \cup {NoMsg}, NEW n \in Int,
         lines' = Append(lines, <<m, n>>), m.length # FormatError => n = m.length
  PROVE  PrintedWhole' /\ lines' \in Seq((Messages \cup {NoMsg}) \X Int)
<1>1. lines \in Seq((Messages \cup {NoMsg}) \X Int)
  BY DEF TypeOK
<1>2. lines' \in Seq((Messages \cup {NoMsg}) \X Int)
  BY <1>1
<1>3. \A k \in 1 .. Len(lines') : IF k = Len(lines) + 1 THEN lines'[k] = <<m, n>>
                                  ELSE k \in 1 .. Len(lines) /\ lines'[k] = lines[k]
  BY <1>1
<1> QED
  BY <1>2, <1>3 DEF PrintedWhole

(* The first pass has the stack buffer.                                    *)
LEMMA MeasureIsSafe ==
  ASSUME IInv, NEW t \in Threads, NEW m \in Messages, Measure(t, m)
  PROVE  IInv'
<1>1. TypeOK'
  BY Numbers DEF IInv, TypeOK, Measure, Goto, SizeOf
<1>2. ASSUME NEW u \in Threads PROVE InPlace(u)'
  BY Numbers DEF IInv, TypeOK, InPlace, Formats, Measure, Goto, SizeOf
<1>3. NoLeak' /\ PrintedWhole'
  BY DEF IInv, TypeOK, InPlace, NoLeak, PrintedWhole, Measure, Goto
<1> QED
  BY <1>1, <1>2, <1>3 DEF IInv

(* A buffer is as big as sz, on the heap, or the smaller sz fits the stack.*)
LEMMA AllocateIsSafe ==
  ASSUME IInv, NEW t \in Threads, Allocate(t)
  PROVE  IInv'
<1>0. sz[t] \in Int /\ msg[t] \in Messages \cup {NoMsg}
  BY DEF IInv, TypeOK
<1>1. CASE sz[t] < 0
  <2>1. /\ pc[t] = "measured" /\ pc' = [pc EXCEPT ![t] = "idle"]
        /\ lines' = Append(lines, <<msg[t], Reported>>)
        /\ msg' = [msg EXCEPT ![t] = NoMsg] /\ sz' = [sz EXCEPT ![t] = 0]
        /\ args' = [args EXCEPT ![t] = {}] /\ UNCHANGED <<buf, heap>>
    BY <1>1 DEF Allocate, Goto, Returned
  <2>2. PrintedWhole' /\ lines' \in Seq((Messages \cup {NoMsg}) \X Int)
    <3>1. msg[t].length = FormatError /\ Reported \in Int
      BY <1>0, <1>1, <2>1, Numbers DEF IInv, InPlace
    <3> QED
      BY <1>0, <2>1, <3>1, AddLine DEF IInv
  <2>3. TypeOK'
    BY <2>1, <2>2 DEF IInv, TypeOK
  <2>4. ASSUME NEW u \in Threads PROVE InPlace(u)'
    BY <2>1 DEF IInv, TypeOK, InPlace, Formats
  <2>5. NoLeak'
    BY <2>1 DEF IInv, TypeOK, InPlace, NoLeak
  <2> QED
    BY <2>2, <2>3, <2>4, <2>5 DEF IInv
<1>2. CASE ~(sz[t] < 0)
  <2>1. /\ pc[t] = "measured" /\ pc' = [pc EXCEPT ![t] = "allocated"]
        /\ IF NeedsHeap(sz[t]) THEN OnHeap(t) ELSE OnStack(t)
        /\ UNCHANGED <<msg, args, sz, lines>>
    BY <1>2 DEF Allocate, Goto
  <2>2. PICK b \in Buffers :
          /\ buf' = [buf EXCEPT ![t] = b] /\ sz[t] <= b.size
          /\ heap' = IF b.on = "heap" THEN heap \cup {t} ELSE heap
    <3>1. CASE NeedsHeap(sz[t])
      <4> DEFINE b == [on |-> "heap", size |-> sz[t], holds |-> Garbage]
      <4>1. b \in Buffers /\ b.on = "heap" /\ sz[t] <= b.size
        BY <1>0, Numbers DEF Buffers
      <4>2. buf' = [buf EXCEPT ![t] = b] /\ heap' = heap \cup {t}
        BY <2>1, <3>1 DEF OnHeap
      <4> HIDE DEF b
      <4> QED
        BY <4>1, <4>2
    <3>2. CASE ~NeedsHeap(sz[t])
      BY <1>0, <2>1, <3>2, Numbers DEF OnStack, NeedsHeap
    <3> QED
      BY <3>1, <3>2
  <2>3. TypeOK'
    BY <2>1, <2>2 DEF IInv, TypeOK
  <2>4. ASSUME NEW u \in Threads PROVE InPlace(u)'
    BY <1>0, <1>2, <2>1, <2>2 DEF IInv, TypeOK, InPlace, Formats
  <2>5. NoLeak' /\ PrintedWhole'
    BY <2>1, <2>2 DEF IInv, TypeOK, InPlace, NoLeak, PrintedWhole, Buffers
  <2> QED
    BY <2>3, <2>4, <2>5 DEF IInv
<1> QED
  BY <1>1, <1>2

(* The second pass has a buffer of the length measured.                    *)
LEMMA FormatIsSafe ==
  ASSUME IInv, NEW t \in Threads, Format(t)
  PROVE  IInv'
<1> DEFINE length == msg[t].length
<1>1. /\ pc[t] = "allocated" /\ sz[t] = length + 1 /\ args[t] = {"copy"}
      /\ length \in Int /\ sz[t] \in Int /\ buf[t] \in Buffers
  BY Numbers DEF IInv, TypeOK, InPlace, Format
<1>2. PICK n \in Int : buf' = [buf EXCEPT ![t].holds = n] /\ (length # FormatError => n = length)
  <2>1. CASE length = FormatError
    BY <1>1, <2>1 DEF Format, Buffers
  <2>2. CASE length # FormatError
    <3>1. length < sz[t] /\ sz[t] # 0 /\ "copy" \in args[t]
      BY <1>1, <2>2, Numbers DEF IInv, TypeOK
    <3>2. buf' = [buf EXCEPT ![t].holds = length]
      BY <2>2, <3>1 DEF Format
    <3> QED
      BY <1>1, <3>2
  <2> QED
    BY <2>1, <2>2
<1>3. buf' \in [Threads -> Buffers] /\ \A u \in Threads : buf'[u].on = buf[u].on
  BY <1>2 DEF IInv, TypeOK, Buffers
<1>4. TypeOK'
  BY <1>3 DEF IInv, TypeOK, Format, Goto
<1>5. ASSUME NEW u \in Threads PROVE InPlace(u)'
  <2>1. CASE u = t
    BY <1>1, <1>2, <2>1 DEF IInv, TypeOK, InPlace, Formats, Format, Goto, Buffers
  <2>2. CASE u # t
    BY <1>2, <2>2 DEF IInv, TypeOK, InPlace, Formats, Format, Goto
  <2> QED
    BY <2>1, <2>2
<1>6. NoLeak' /\ PrintedWhole'
  BY <1>1, <1>3 DEF IInv, TypeOK, NoLeak, PrintedWhole, Format, Goto
<1> QED
  BY <1>4, <1>5, <1>6 DEF IInv

(* What is printed was formatted whole.                                    *)
LEMMA PrintLineIsSafe ==
  ASSUME IInv, NEW t \in Threads, PrintLine(t)
  PROVE  IInv'
<1>1. buf[t].holds \in Int /\ msg[t] \in Messages \cup {NoMsg}
  BY DEF IInv, TypeOK, Buffers
<1>2. PrintedWhole' /\ lines' \in Seq((Messages \cup {NoMsg}) \X Int)
  BY <1>1, AddLine DEF IInv, InPlace, Formats, PrintLine
<1>3. TypeOK'
  BY <1>2 DEF IInv, TypeOK, PrintLine, Goto
<1>4. ASSUME NEW u \in Threads PROVE InPlace(u)'
  BY DEF IInv, TypeOK, InPlace, Formats, PrintLine, Goto
<1>5. NoLeak'
  BY DEF IInv, TypeOK, NoLeak, PrintLine, Goto
<1> QED
  BY <1>2, <1>3, <1>4, <1>5 DEF IInv

(* The buffer that is freed is the call's own.                             *)
LEMMA FreeIsSafe ==
  ASSUME IInv, NEW t \in Threads, Free(t)
  PROVE  IInv'
<1>1. TypeOK'
  BY Numbers DEF IInv, TypeOK, Free, Goto, Returned
<1>2. ASSUME NEW u \in Threads PROVE InPlace(u)'
  BY Numbers DEF IInv, TypeOK, InPlace, Formats, Free, Goto, Returned
<1>3. NoLeak' /\ PrintedWhole'
  BY DEF IInv, TypeOK, NoLeak, PrintedWhole, Free, Goto, IsHeap
<1> QED
  BY <1>1, <1>2, <1>3 DEF IInv

(* Every step keeps the invariant.                                         *)
THEOREM LogStepIsSafe == IInv /\ [LogNext]_logVars => IInv'
<1> SUFFICES ASSUME IInv, [LogNext]_logVars PROVE IInv'
  OBVIOUS
<1>1. CASE UNCHANGED logVars
  BY <1>1 DEF IInv, TypeOK, InPlace, Formats, PrintedWhole, NoLeak, logVars
<1>2. CASE LogNext
  BY <1>2, MeasureIsSafe, AllocateIsSafe, FormatIsSafe, PrintLineIsSafe, FreeIsSafe DEF LogNext
<1> QED
  BY <1>1, <1>2

(* vsnprintf() is never given a size its buffer does not have (log()).     *)
THEOREM BufferIsSafe == LogSpec => []WritesFit
<1>1. IInv => WritesFit
  BY DEF IInv, InPlace, WritesFit
<1> QED
  BY <1>1, LogInitIsSafe, LogStepIsSafe, PTL DEF LogSpec

(* A message that can be formatted is printed whole (log()).               *)
THEOREM MessagesAreWhole == LogSpec => []PrintedWhole
<1>1. IInv => PrintedWhole
  BY DEF IInv
<1> QED
  BY <1>1, LogInitIsSafe, LogStepIsSafe, PTL DEF LogSpec

(* A buffer is on the heap as long as a call of log() uses it.             *)
THEOREM BuffersAreFreed == LogSpec => []NoLeak
<1>1. IInv => NoLeak
  BY DEF IInv
<1> QED
  BY <1>1, LogInitIsSafe, LogStepIsSafe, PTL DEF LogSpec
=============================================================================
