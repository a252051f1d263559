------------------------------ MODULE Logging ------------------------------
(***************************************************************************)
(* logging: log_error(), log_info() and log_debug(), which the build's     *)
(* AWS_LAMBDA_LOG leaves in or out, and log(), which formats a message     *)
(* twice, once to learn its length and once into a buffer, which is on the *)
(* stack if it fits and on the heap if it does not.  Several threads log   *)
(* at once; each has its own buffer, and a line of stdout is written       *)
(* whole.  A message has a level and a formatted length, or FormatError if *)
(* vsnprintf cannot format it and returns -1 (a wide character the locale  *)
(* does not have, say).                                                    *)
(***************************************************************************)
EXTENDS Integers, Sequences

CONSTANTS
  Threads,
  Lengths,    \* the lengths messages have once formatted
  CanFail,    \* whether there are messages that cannot be formatted
  LogLevel,   \* AWS_LAMBDA_LOG: 0, or 3 in a debug build, or as
               \* LOG_VERBOSITY says
  MaxLines    \* bounds the lines printed

ASSUME LoggingAssumption ==
  Lengths \subseteq Nat /\ CanFail \in BOOLEAN /\ LogLevel \in Nat /\ MaxLines \in Nat

FormatError == -1
Messages    == [level  : {"error", "info", "debug"},
                length : IF CanFail THEN Lengths \cup {FormatError} ELSE Lengths]

VARIABLES
  pc,     \* "idle", "measured", "allocated", "formatted" or "printed"
  msg,    \* the message each thread logs
  args,   \* the argument lists of the call that are not used up or ended
  sz,     \* the local of that name
  buf,    \* out: where it is, its size, and what it holds: a number of
          \* characters of msg, or Garbage if nothing was written to it
  heap,   \* the heap buffers that are not freed, by thread
  lines   \* what was printed: <<message, characters of it>>

logVars == <<pc, msg, args, sz, buf, heap, lines>>

max_stack_buffer_size == 512
Garbage == -2
Reported == -3   \* "error occurred during log formatting!"
NoBuf == [on |-> "stack", size |-> max_stack_buffer_size, holds |-> Garbage]

NoMsg == [level |-> "debug", length |-> 0]

LogInit ==
  /\ pc    = [t \in Threads |-> "idle"]
  /\ msg   = [t \in Threads |-> NoMsg]
  /\ args  = [t \in Threads |-> {}]
  /\ sz    = [t \in Threads |-> 0]
  /\ buf   = [t \in Threads |-> NoBuf]
  /\ heap  = {}
  /\ lines = <<>>

Goto(t, label) == pc' = [pc EXCEPT ![t] = label]

(* The end of a call's locals, and of its copy of the arguments.           *)
Returned(t) == /\ msg'  = [msg EXCEPT ![t] = NoMsg]
               /\ sz'   = [sz EXCEPT ![t] = 0]
               /\ args' = [args EXCEPT ![t] = {}]

(* The wrappers that AWS_LAMBDA_LOG leaves without a body.                 *)
log_error(m) == m.level = "error"
log_info(m)  == m.level = "info"  /\ LogLevel >= 1
log_debug(m) == m.level = "debug" /\ LogLevel >= 2

(* sz = vsnprintf(nullptr, 0, msg, args) + 1, which uses up args; copy is  *)
(* left for the second time.                                               *)
NoTerminator(m) == m.length       \* mutant
SizeOf(m)       == m.length + 1

Measure(t, m) ==
  /\ pc[t] = "idle" /\ Len(lines) < MaxLines
  /\ log_error(m) \/ log_info(m) \/ log_debug(m)
  /\ Goto(t, "measured")
  /\ msg'  = [msg EXCEPT ![t] = m]
  /\ args' = [args EXCEPT ![t] = {"copy"}]
  /\ sz'   = [sz EXCEPT ![t] = SizeOf(m)]
  /\ UNCHANGED <<buf, heap, lines>>

ByLength(size)  == size - 1 > max_stack_buffer_size   \* mutant
NeedsHeap(size) == size >= max_stack_buffer_size

OnStack(t) == /\ buf' = [buf EXCEPT ![t] = NoBuf]
              /\ UNCHANGED heap
OnHeap(t)  == /\ buf' = [buf EXCEPT ![t] = [on |-> "heap", size |-> sz[t], holds |-> Garbage]]
              /\ heap' = heap \cup {t}

(* A negative sz is reported and ends the call; otherwise out is chosen.   *)
Allocate(t) ==
  /\ pc[t] = "measured"
  /\ IF sz[t] < 0
     THEN /\ Goto(t, "idle")
          /\ lines' = Append(lines, <<msg[t], Reported>>)
          /\ Returned(t)
          /\ UNCHANGED <<buf, heap>>
     ELSE /\ Goto(t, "allocated")
          /\ IF NeedsHeap(sz[t]) THEN OnHeap(t) ELSE OnStack(t)
          /\ UNCHANGED <<msg, args, sz, lines>>

(* vsnprintf(out, sz, msg, copy) writes at most sz - 1 characters and a    *)
(* terminator, and nothing at all if it fails; copy is ended.              *)
Format(t) ==
  /\ pc[t] = "allocated"
  /\ Goto(t, "formatted")
  /\ LET length == msg[t].length
     IN buf' = [buf EXCEPT ![t].holds =
                 IF length = FormatError \/ sz[t] = 0 \/ "copy" \notin args[t] THEN @
                 ELSE IF length < sz[t] THEN length ELSE sz[t] - 1]
  /\ args' = [args EXCEPT ![t] = {}]
  /\ UNCHANGED <<msg, sz, heap, lines>>

PrintLine(t) ==
  /\ pc[t] = "formatted"
  /\ Goto(t, "printed")
  /\ lines' = Append(lines, <<msg[t], buf[t].holds>>)
  /\ UNCHANGED <<msg, args, sz, buf, heap>>

NeverFreed(t) == FALSE   \* mutant
IsHeap(t)     == buf[t].on = "heap"

Free(t) ==
  /\ pc[t] = "printed"
  /\ Goto(t, "idle")
  /\ heap' = IF IsHeap(t) THEN heap \ {t} ELSE heap
  /\ buf'  = [buf EXCEPT ![t] = NoBuf]
  /\ Returned(t)
  /\ UNCHANGED lines

LogNext == \E t \in Threads :
  \/ \E m \in Messages : Measure(t, m)
  \/ Allocate(t) \/ Format(t) \/ PrintLine(t) \/ Free(t)

LogSpec == LogInit /\ [][LogNext]_logVars

-----------------------------------------------------------------------------
(* vsnprintf never gets a size its buffer does not have: the terminator is *)
(* counted, so that 510 characters are the most the stack buffer gets.     *)
WritesFit == \A t \in Threads : pc[t] = "allocated" => sz[t] <= buf[t].size

(* A message that can be formatted is printed whole, never cut and never   *)
(* from an unwritten buffer.                                               *)
PrintedWhole ==
  \A k \in 1..Len(lines) :
    lines[k][1].length # FormatError => lines[k][2] = lines[k][1].length

(* A buffer on the heap is freed once its line is printed.                 *)
NoLeak == \A t \in Threads : t \in heap <=> pc[t] # "idle" /\ buf[t].on = "heap"

(* "error occurred during log formatting!" (logging.cpp:50) is printed     *)
(* when a message cannot be formatted.                                     *)
ErrorsAreReported ==
  \A k \in 1..Len(lines) : lines[k][1].length = FormatError => lines[k][2] = Reported
=============================================================================
