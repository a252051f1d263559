------------------------------ MODULE Deadline ------------------------------
(***************************************************************************)
(* The arithmetic of an invocation's deadline: the header's text becomes   *)
(* an unsigned long, a count of milliseconds, a point in time of the       *)
(* system clock, and from there the milliseconds that are left.  The three *)
(* integers are of the same width, 64 bits in the code; two's complement   *)
(* stands for the overflow of the signed ones, which the builds give.      *)
(***************************************************************************)
EXTENDS Integers

CONSTANTS
  Width,       \* bits of an unsigned long and of a clock's count
  TicksPerMs   \* of system_clock::duration, 10^6 in libstdc++

ASSUME DeadlineAssumption == Width \in Nat \ {0} /\ TicksPerMs \in Nat \ {0}

MaxCount  == 2^(Width - 1) - 1
ULONG_MAX == 2 * MaxCount + 1
NaN       == -1            \* a text that does not start with a number
Epoch     == 0             \* where a time_point starts

AsCount(n) == ((n + MaxCount + 1) % (ULONG_MAX + 1)) - MaxCount - 1

(* A text is the number it stands for, as large as it likes.               *)
strtoul(text) ==
  IF text = NaN THEN 0 ELSE IF text > ULONG_MAX THEN ULONG_MAX ELSE text

(* assert(ms > 0) and assert(ms < ULONG_MAX), which NDEBUG takes out.      *)
Asserted(ms) == ms > 0 /\ ms < ULONG_MAX

(* deadline += std::chrono::milliseconds(ms)                               *)
InTicks(ms) == AsCount(AsCount(ms) * TicksPerMs)

DeadlineAfter(d, ms) == AsCount(d + InTicks(ms))

RoundedUp(ticks) == (ticks + TicksPerMs - 1) \div TicksPerMs   \* mutant
InMs(ticks) ==
  IF ticks >= 0 THEN ticks \div TicksPerMs ELSE -((-ticks) \div TicksPerMs)

get_time_remaining(deadline, now) == InMs(AsCount(deadline - now))
=============================================================================
