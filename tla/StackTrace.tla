----------------------------- MODULE StackTrace -----------------------------
(***************************************************************************)
(* The stack traces of backward.h: what load_here() and load_from() read   *)
(* through _Unwind_Backtrace(), which the build leaves as the default, and *)
(* what the holder shows of it.  A stack is the sequence of the frames the *)
(* unwinder comes to, the innermost first: the ip of a frame is the        *)
(* instruction to return to, or, if exact, the one a signal stopped.       *)
(***************************************************************************)
EXTENDS Naturals, Sequences, FiniteSetsExt

CONSTANTS
  MaxAddress,   \* numeric_limits<uintptr_t>::max()
  Depth,        \* 32, the frames a trace shows
  Slack         \* 8, the frames load_from reads beyond them

Empty == [stacktrace |-> <<>>, skip |-> 0]

(* The call is before the instruction to return to.  The mutant records    *)
(* that instruction.                                                       *)
AsReturned(frame) == frame.ip
Recorded(frame) == CASE frame.exact                  -> frame.ip
                     [] ~frame.exact /\ frame.ip = 0 -> MaxAddress
                     [] ~frame.exact /\ frame.ip # 0 -> frame.ip - 1

(* Unwinder: the first frame is ignored.                                   *)
unwind(stack, depth) == [i \in 1 .. Min({Len(stack) - 1, depth}) |-> Recorded(stack[i + 1])]

load_here(stack, depth) == [Empty EXCEPT !.stacktrace = unwind(stack, depth)]

(* The frames above addr are skipped, if it is found.                      *)
Skipped(addresses, addr) ==
  LET found == {i \in DOMAIN addresses : addresses[i] = addr}
  IN  IF found = {} THEN 0 ELSE Min(found) - 1

load_from(stack, addr, depth) ==
  LET addresses == load_here(stack, depth + Slack).stacktrace
      skip      == Skipped(addresses, addr)
  IN  [stacktrace |-> SubSeq(addresses, 1, Min({Len(addresses), skip + depth})), skip |-> skip]

size(st)  == IF Len(st.stacktrace) >= st.skip THEN Len(st.stacktrace) - st.skip ELSE 0
begin(st) == SubSeq(st.stacktrace, st.skip + 1, Len(st.stacktrace))

(* st[idx], idx from 0.                                                    *)
Trace(st, idx) == IF idx >= size(st) THEN [addr |-> 0, idx |-> 0]
                                     ELSE [addr |-> st.stacktrace[idx + st.skip + 1], idx |-> idx]
=============================================================================
