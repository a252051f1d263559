---------------------------- MODULE CrashProofs -----------------------------
(***************************************************************************)
(* That a crash trace shows the stack that the signal found, and the first *)
(* signal's before any signal ends the process, for any number of threads, *)
(* signals and frames: the trace that load_from() makes of a stack, then   *)
(* what every thread in the handler has made of its own, and whose turn it *)
(* is.                                                                     *)
(***************************************************************************)
EXTENDS Crash, SequenceTheorems, TLAPS

(* Min() of sets of numbers.                                               *)
LEMMA MinOfTwo == ASSUME NEW a \in Int, NEW b \in Int
                  PROVE  Min({a, b}) = IF a <= b THEN a ELSE b
<1>1. \E x \in {a, b} : \A y \in {a, b} : x <= y
  <2>1. CASE a <= b
    BY <2>1
  <2>2. CASE b < a
    BY <2>2
  <2> QED
    BY <2>1, <2>2
<1>2. Min({a, b}) \in {a, b} /\ \A y \in {a, b} : Min({a, b}) <= y
  BY <1>1, Zenon DEF Min
<1> QED
  BY <1>2

(* The least element is what Min() chooses.                                *)
LEMMA LeastIsMin ==
  ASSUME NEW S \in SUBSET Nat, NEW m \in S, \A x \in S : m <= x
  PROVE  Min(S) = m
<1>1. Min(S) \in S /\ \A y \in S : Min(S) <= y
  <2>1. \E x \in S : \A y \in S : x <= y
    OBVIOUS
  <2> QED
    BY <2>1, Zenon DEF Min
<1>2. Min(S) \in Nat /\ m \in Nat
  BY <1>1
<1>3. Min(S) <= m /\ m <= Min(S)
  BY <1>1
<1> QED
  BY <1>2, <1>3

(* Names for the parts of a stack, which the proofs do not look into.      *)
above         == Len(Above)
pc(on)        == on.pc
depth(on)     == Len(on.callers)
returns(on)   == [i \in DOMAIN on.callers |-> on.callers[i].ip]
Stopped(ip)   == [ip |-> ip, exact |-> TRUE]
Returning(ip) == [ip |-> ip, exact |-> FALSE]
Shown(on)     == Min({1 + depth(on), Depth})

(* The addresses that are shown, the nearest to the signal first.          *)
Nearest(on) == [i \in 1 .. Shown(on) |-> IF i = 1 THEN pc(on) ELSE returns(on)[i - 1] - 1]

(* The callers of a stack, and where they are to return to.                *)
LEMMA Callers ==
  ASSUME NEW on \in Stacks
  PROVE  /\ depth(on) \in Nat /\ DOMAIN on.callers = 1 .. depth(on)
         /\ returns(on) \in [1 .. depth(on) -> Nat \ {0}]
         /\ pc(on) \in Nat
<1>1. on.callers \in Seq(Range(on.callers)) /\ on.pc \in Nat
  BY StacksAssumption
<1>2. Len(on.callers) \in Nat /\ DOMAIN on.callers = 1 .. Len(on.callers)
  BY <1>1, LenProperties, Zenon
<1>3. \A i \in DOMAIN on.callers : on.callers[i].ip \in Nat \ {0}
  BY StacksAssumption
<1> QED
  BY <1>1, <1>2, <1>3 DEF depth, returns, pc

(* A trace shows a frame at least, and Depth at most.                      *)
LEMMA ShownIs ==
  ASSUME NEW on \in Stacks
  PROVE  /\ Shown(on) \in Nat \ {0}
         /\ Shown(on) = IF 1 + depth(on) <= Depth THEN 1 + depth(on) ELSE Depth
  BY Callers, MinOfTwo, CrashAssumption DEF Shown

(* The elements of two sequences put together.                             *)
LEMMA Joins ==
  ASSUME NEW S, NEW a \in Seq(S), NEW b \in Seq(S)
  PROVE  /\ a \o b \in Seq(S) /\ Len(a \o b) = Len(a) + Len(b)
         /\ \A i \in 1 .. Len(a) : (a \o b)[i] = a[i]
         /\ \A i \in 1 .. Len(b) : (a \o b)[Len(a) + i] = b[i]
  BY ConcatProperties

(* The address recorded for a frame of either kind.                        *)
LEMMA RecordedIs ==
  ASSUME NEW ip \in Nat
  PROVE  /\ Recorded(Stopped(ip)) = ip
         /\ Recorded(Returning(ip)) = IF ip = 0 THEN MaxAddress ELSE ip - 1
<1>1. Stopped(ip).exact = TRUE /\ Stopped(ip).ip = ip
  BY DEF Stopped
<1>2. Returning(ip).exact = FALSE /\ Returning(ip).ip = ip
  BY DEF Returning
<1>3. Recorded(Stopped(ip)) = ip
  BY <1>1, Zenon DEF Recorded
<1>4. CASE ip = 0
  BY <1>2, <1>3, <1>4, Zenon DEF Recorded
<1>5. CASE ip # 0
  BY <1>2, <1>3, <1>5, Zenon DEF Recorded
<1> QED
  BY <1>4, <1>5

(* The handler's frames are not taken for the one that was stopped.        *)
LEMMA NotAbove ==
  ASSUME NEW on \in Stacks, pc(on) # 0, NEW i \in DOMAIN Above
  PROVE  Recorded(Returning(Above[i])) # pc(on)
  BY StacksAssumption, Zenon DEF pc, Returning

(* The frames, one by one.                                                 *)
LEMMA FramesOf ==
  ASSUME NEW on \in Stacks, pc(on) # 0
  PROVE  /\ Len(Frames(on)) = 2 + above + depth(on)
         /\ \A i \in 1 .. above : Frames(on)[1 + i] = Returning(Above[i])
         /\ Frames(on)[above + 2] = Stopped(pc(on))
         /\ \A i \in 1 .. depth(on) :
              Frames(on)[above + 2 + i] = Returning(returns(on)[i])
<1> DEFINE F == {Returning(ip) : ip \in Nat} \cup {Stopped(ip) : ip \in Nat}
           A == <<Returning(Above[1])>>
           B == [i \in DOMAIN Above |-> Returning(Above[i])]
           C == <<Stopped(pc(on))>>
           D == [i \in DOMAIN on.callers |-> Returning(on.callers[i].ip)]
<1>1. above \in Nat \ {0} /\ DOMAIN Above = 1 .. above /\ \A i \in 1 .. above : Above[i] \in Nat
  BY StacksAssumption DEF above
<1>2. A \in Seq(F) /\ Len(A) = 1
  BY <1>1
<1>3. B \in Seq(F) /\ Len(B) = above /\ \A i \in 1 .. above : B[i] = Returning(Above[i])
  BY <1>1
<1>4. C \in Seq(F) /\ Len(C) = 1 /\ C[1] = Stopped(pc(on))
  BY Callers
<1>5. /\ D \in Seq(F) /\ Len(D) = depth(on)
      /\ \A i \in 1 .. depth(on) : D[i] = Returning(returns(on)[i])
  <2>1. /\ depth(on) \in Nat /\ DOMAIN on.callers = 1 .. depth(on)
        /\ returns(on) \in [1 .. depth(on) -> Nat]
    BY Callers
  <2>2. D = [i \in 1 .. depth(on) |-> Returning(returns(on)[i])]
    BY <2>1 DEF returns
  <2> HIDE DEF D
  <2> QED
    BY <2>1, <2>2
<1>6. Frames(on) = ((A \o B) \o C) \o D
  BY Zenon DEF Frames, pc, Stopped, Returning
<1> HIDE DEF A, B, C, D, F
<1>7. /\ A \o B \in Seq(F) /\ Len(A \o B) = 1 + above
      /\ \A i \in 1 .. above : (A \o B)[1 + i] = B[i]
  <2>1. A \in Seq(F) /\ B \in Seq(F)
    BY <1>2, <1>3
  <2>2. /\ A \o B \in Seq(F) /\ Len(A \o B) = Len(A) + Len(B)
        /\ \A i \in 1 .. Len(B) : (A \o B)[Len(A) + i] = B[i]
    BY <2>1, Joins
  <2> QED
    BY <1>1, <1>2, <1>3, <2>2
<1>8. /\ (A \o B) \o C \in Seq(F) /\ Len((A \o B) \o C) = 2 + above
      /\ \A i \in 1 .. above : ((A \o B) \o C)[1 + i] = B[i]
      /\ ((A \o B) \o C)[above + 2] = C[1]
  <2>1. /\ (A \o B) \o C \in Seq(F) /\ Len((A \o B) \o C) = Len(A \o B) + Len(C)
        /\ \A i \in 1 .. Len(A \o B) : ((A \o B) \o C)[i] = (A \o B)[i]
        /\ \A i \in 1 .. Len(C) : ((A \o B) \o C)[Len(A \o B) + i] = C[i]
    <3>1. A \o B \in Seq(F) /\ C \in Seq(F)
      BY <1>4, <1>7
    <3> QED
      BY <3>1, Joins
  <2> QED
    BY <1>1, <1>4, <1>7, <2>1, SMTT(20)
<1>9. /\ Len(Frames(on)) = 2 + above + depth(on)
      /\ \A i \in 1 .. above : Frames(on)[1 + i] = B[i]
      /\ Frames(on)[above + 2] = C[1]
      /\ \A i \in 1 .. depth(on) : Frames(on)[above + 2 + i] = D[i]
  <2>1. /\ Len(Frames(on)) = Len((A \o B) \o C) + Len(D)
        /\ \A i \in 1 .. Len((A \o B) \o C) : Frames(on)[i] = ((A \o B) \o C)[i]
        /\ \A i \in 1 .. Len(D) : Frames(on)[Len((A \o B) \o C) + i] = D[i]
    <3>1. (A \o B) \o C \in Seq(F) /\ D \in Seq(F)
      BY <1>5, <1>8
    <3> QED
      BY <1>6, <3>1, Joins
  <2>2. above + 2 \in 1 .. Len((A \o B) \o C) /\ \A i \in 1 .. above : 1 + i \in 1 .. Len((A \o B) \o C)
    BY <1>1, <1>8
  <2>3. \A i \in 1 .. above : Frames(on)[1 + i] = B[i]
    BY <1>8, <2>1, <2>2, Zenon
  <2>4. Frames(on)[above + 2] = C[1]
    BY <1>8, <2>1, <2>2, Zenon
  <2>5. depth(on) \in Nat /\ 2 + above = above + 2
    BY <1>1, Callers
  <2>6. \A i \in 1 .. depth(on) : Frames(on)[above + 2 + i] = D[i]
    BY <1>5, <1>8, <2>1, <2>5, Zenon
  <2> QED
    BY <1>5, <1>8, <2>1, <2>3, <2>4, <2>6, Zenon
<1> QED
  BY <1>3, <1>4, <1>5, <1>9

(* What load_from() reads and keeps.                                       *)
LEMMA Unwound ==
  ASSUME NEW on \in Stacks, pc(on) # 0
  PROVE  LET addresses == unwind(Frames(on), Depth + Slack)
         IN  /\ Len(addresses) = Min({1 + above + depth(on), Depth + Slack})
             /\ addresses \in Seq(Nat)
             /\ \A i \in 1 .. above : addresses[i] # pc(on)
             /\ \A i \in 1 .. Shown(on) : addresses[above + i] = Nearest(on)[i]
<1> DEFINE addresses == unwind(Frames(on), Depth + Slack)
           m == Min({1 + above + depth(on), Depth + Slack})
<1>1. /\ above \in Nat \ {0} /\ above <= Slack /\ DOMAIN Above = 1 .. above /\ Depth \in Nat \ {0} /\ Slack \in Nat
      /\ MaxAddress \in Nat /\ depth(on) \in Nat
      /\ \A i \in 1 .. above : Above[i] \in Nat
  BY StacksAssumption, CrashAssumption, Callers DEF above
<1>2. m \in Nat /\ m = IF 1 + above + depth(on) <= Depth + Slack
                       THEN 1 + above + depth(on) ELSE Depth + Slack
  <2>1. 1 + above + depth(on) \in Nat /\ Depth + Slack \in Nat
    BY <1>1
  <2>2. 1 + above + depth(on) \in Int /\ Depth + Slack \in Int
    BY <2>1
  <2>3. m = IF 1 + above + depth(on) <= Depth + Slack
            THEN 1 + above + depth(on) ELSE Depth + Slack
    BY <2>2, MinOfTwo, Zenon
  <2> QED
    BY <2>1, <2>3
<1>3. addresses = [i \in 1 .. m |-> Recorded(Frames(on)[i + 1])]
  <2>1. Len(Frames(on)) - 1 = 1 + above + depth(on)
    <3>1. Len(Frames(on)) = 2 + above + depth(on)
      BY FramesOf, Zenon
    <3> QED
      BY <1>1, <3>1
  <2> QED
    BY <2>1, Zenon DEF unwind
<1> HIDE DEF m, addresses
<1>4. ASSUME NEW i \in 1 .. above
      PROVE  addresses[i] = Recorded(Returning(Above[i])) /\ addresses[i] \in Nat
  <2>1. i \in 1 .. m /\ Above[i] \in Nat /\ i + 1 = 1 + i
    BY <1>1, <1>2
  <2>2. addresses[i] = Recorded(Frames(on)[1 + i])
    BY <1>3, <2>1
  <2>3. Frames(on)[1 + i] = Returning(Above[i])
    BY FramesOf
  <2> QED
    BY <1>1, <2>1, <2>2, <2>3, RecordedIs
<1>5. addresses[above + 1] = pc(on) /\ pc(on) \in Nat
  <2>1. above + 1 \in 1 .. m /\ above + 1 + 1 = above + 2
    BY <1>1, <1>2
  <2>2. addresses[above + 1] = Recorded(Frames(on)[above + 2])
    BY <1>3, <2>1
  <2> QED
    BY <2>2, FramesOf, Callers, RecordedIs
<1>6. ASSUME NEW i \in 1 .. depth(on), above + 1 + i <= m
      PROVE  addresses[above + 1 + i] = returns(on)[i] - 1 /\ addresses[above + 1 + i] \in Nat
  <2>1. above + 1 + i \in 1 .. m /\ above + 1 + i + 1 = above + 2 + i
    BY <1>1, <1>2, <1>6
  <2>2. returns(on)[i] \in Nat \ {0}
    BY Callers
  <2>3. addresses[above + 1 + i] = Recorded(Frames(on)[above + 2 + i])
    BY <1>3, <2>1
  <2>4. Frames(on)[above + 2 + i] = Returning(returns(on)[i])
    BY FramesOf
  <2> QED
    BY <2>2, <2>3, <2>4, RecordedIs
<1>7. addresses \in Seq(Nat) /\ Len(addresses) = m
  <2>1. ASSUME NEW i \in 1 .. m PROVE addresses[i] \in Nat
    <3>1. CASE i <= above
      BY <1>1, <1>4, <3>1
    <3>2. CASE i = above + 1
      BY <1>5, <3>2
    <3>3. CASE i > above + 1
      <4>1. i - above - 1 \in 1 .. depth(on) /\ above + 1 + (i - above - 1) = i
        BY <1>1, <1>2, <3>3
      <4> HIDE DEF addresses
      <4> QED
        BY <1>6, <4>1
    <3> QED
      BY <1>1, <3>1, <3>2, <3>3
  <2>2. addresses \in [1 .. m -> Nat]
    BY <1>3, <2>1
  <2> QED
    BY <1>2, <2>2
<1>8. \A i \in 1 .. above : addresses[i] # pc(on)
  BY <1>1, <1>4, NotAbove
<1>9. \A i \in 1 .. Shown(on) : addresses[above + i] = Nearest(on)[i]
  <2> TAKE i \in 1 .. Shown(on)
  <2>1. CASE i = 1
    BY <1>5, <2>1, ShownIs DEF Nearest
  <2>2. CASE i # 1
    <3>1. i - 1 \in 1 .. depth(on) /\ above + 1 + (i - 1) = above + i /\ above + i <= m
      BY <1>1, <1>2, <2>2, ShownIs
    <3>2. addresses[above + i] = returns(on)[i - 1] - 1
      BY <1>6, <3>1
    <3> QED
      BY <2>2, <3>2 DEF Nearest
  <2> QED
    BY <2>1, <2>2
<1> QED
  BY <1>7, <1>8, <1>9 DEF m, addresses

Loaded(on) == load_from(Frames(on), pc(on), Depth)

(* load_from() skips the handler's frames and keeps the nearest ones.      *)
LEMMA LoadedIs ==
  ASSUME NEW on \in Stacks, pc(on) # 0
  PROVE  /\ Loaded(on).skip = above
         /\ Len(Loaded(on).stacktrace) = above + Shown(on)
         /\ \A i \in 1 .. Shown(on) : Loaded(on).stacktrace[above + i] = Nearest(on)[i]
<1> DEFINE addresses == unwind(Frames(on), Depth + Slack)
           kept == above + Shown(on)
<1>1. /\ Len(addresses) = Min({1 + above + depth(on), Depth + Slack})
      /\ addresses \in Seq(Nat)
      /\ \A i \in 1 .. above : addresses[i] # pc(on)
      /\ \A i \in 1 .. Shown(on) : addresses[above + i] = Nearest(on)[i]
  BY Unwound
<1>2. above \in Nat \ {0} /\ above <= Slack /\ Depth \in Nat \ {0} /\ Slack \in Nat /\ depth(on) \in Nat
  BY StacksAssumption, CrashAssumption, Callers DEF above
<1>3. load_here(Frames(on), Depth + Slack).stacktrace = addresses
  BY DEF load_here, Empty
<1> HIDE DEF addresses
<1>4. /\ Shown(on) \in Nat \ {0}
      /\ Min({Len(addresses), above + Depth}) = kept
      /\ kept <= Len(addresses)
  <2>1. /\ Len(addresses) \in Int /\ above + Depth \in Int
        /\ 1 + above + depth(on) \in Int /\ Depth + Slack \in Int
    BY <1>1, <1>2
  <2>2. Len(addresses) = IF 1 + above + depth(on) <= Depth + Slack
                         THEN 1 + above + depth(on) ELSE Depth + Slack
    BY <1>1, <2>1, MinOfTwo, Zenon
  <2>3. Min({Len(addresses), above + Depth})
          = IF Len(addresses) <= above + Depth THEN Len(addresses) ELSE above + Depth
    BY <2>1, MinOfTwo, Zenon
  <2> QED
    BY <1>2, <2>2, <2>3, ShownIs, SMTT(20)
<1>5. Skipped(addresses, pc(on)) = above
  <2> DEFINE found == {i \in DOMAIN addresses : addresses[i] = pc(on)}
  <2>1. DOMAIN addresses = 1 .. Len(addresses) /\ Len(addresses) \in Nat
    BY <1>1
  <2>2. above + 1 \in found
    <3>1. Nearest(on)[1] = pc(on)
      BY <1>4 DEF Nearest
    <3>2. 1 \in 1 .. Shown(on) /\ above + 1 \in 1 .. Len(addresses)
      BY <1>2, <1>4, <2>1
    <3>3. addresses[above + 1] = pc(on)
      BY <1>1, <3>1, <3>2, Zenon
    <3> QED
      BY <2>1, <3>2, <3>3
  <2>3. found \in SUBSET Nat /\ \A i \in found : above + 1 <= i
    <3>1. \A i \in 1 .. above : addresses[i] # pc(on)
      BY <1>1
    <3> QED
      BY <1>2, <2>1, <3>1
  <2> HIDE DEF found
  <2>4. Min(found) = above + 1 /\ found # {}
    BY <2>2, <2>3, LeastIsMin
  <2>5. Skipped(addresses, pc(on)) = IF found = {} THEN 0 ELSE Min(found) - 1
    BY DEF Skipped, found
  <2> QED
    BY <1>2, <2>4, <2>5
<1> DEFINE shown == SubSeq(addresses, 1, kept)
<1>6. Loaded(on) = [stacktrace |-> shown, skip |-> above]
  BY <1>3, <1>4, <1>5, Zenon DEF Loaded, load_from
<1>7. /\ Len(shown) = kept
      /\ \A i \in 1 .. kept : shown[i] = addresses[i]
  BY <1>1, <1>2, <1>4
<1>8. \A i \in 1 .. Shown(on) : above + i \in 1 .. kept
  BY <1>2, <1>4
<1> HIDE DEF shown
<1>9. Loaded(on).skip = above /\ Loaded(on).stacktrace = shown
  BY <1>6
<1>10. \A i \in 1 .. Shown(on) : shown[above + i] = Nearest(on)[i]
  BY <1>1, <1>7, <1>8, Zenon
<1> QED
  BY <1>7, <1>9, <1>10, Zenon

(* The first k lines of the trace of a stack.                              *)
Lines(on, k) ==
  [i \in 1 .. k |-> [idx      |-> Shown(on) - i,
                     addr     |-> Nearest(on)[Shown(on) - i + 1],
                     function |-> FunctionOf(Nearest(on)[Shown(on) - i + 1])]]

Places == {"construct", "run", "load", "print", "traces", "raise", "watf"}

Shape ==
  /\ at \in [Threads -> Places] /\ stack \in [Threads -> Stacks \cup {NoStack}]
  /\ st = [t \in Threads |-> st[t]] /\ symbols = [t \in Threads |-> symbols[t]]
  /\ trace_idx = [t \in Threads |-> trace_idx[t]] /\ printed = [t \in Threads |-> printed[t]]
  /\ \A t \in Threads : InHandler(t) => stack[t] \in Stacks /\ signo[t] \in Range(Signals)

(* What a thread in the handler has of its stack.                          *)
Tracing(t) ==
  pc(stack[t]) # 0 =>
    /\ at[t] \in {"load", "print"} => printed[t] = <<>>
    /\ at[t] \in {"print", "traces"} => st[t] = Loaded(stack[t])
    /\ at[t] = "traces" =>
         /\ symbols[t] = [i \in 1 .. Shown(stack[t]) |-> FunctionOf(Nearest(stack[t])[i])]
         /\ trace_idx[t] \in 0 .. Shown(stack[t])
         /\ printed[t] = Lines(stack[t], Shown(stack[t]) - trace_idx[t])

Handled == {i \in DOMAIN signals : signals[i].handled}

(* The hypothesis of FirstCrashIsTold.                                     *)
OneThread == \A i, j \in DOMAIN signals :
  signals[i].thread = signals[j].thread /\ (signals[i].signal = signals[j].signal => i = j)

Told(k) == \E trace \in told : trace.thread = signals[k].thread /\ trace.stack = signals[k].stack

InTurn(k) ==
  LET t == signals[k].thread IN
  /\ process \notin {"killed", "_exited"} /\ at[t] \in {"load", "print", "traces"}
  /\ stack[t] = signals[k].stack /\ signo[t] = signals[k].signal

Waits ==
  /\ \A t \in Threads : InHandler(t) => \E i \in Handled : signals[i].thread = t
  /\ OneThread /\ Handled # {} =>
       \E k \in Handled : (\A i \in Handled : k <= i) /\ (Told(k) \/ InTurn(k))

CrashTypes ==
  /\ signo \in [Threads -> Range(Signals) \cup {None}]
  /\ signals \in Seq([thread : Threads, signal : Range(Signals), stack : Stacks, handled : BOOLEAN])

(* All lines of a stack are what TraceIsWhole asks for.                    *)
LEMMA SaysTheStack ==
  ASSUME NEW on \in Stacks, on.pc # 0
  PROVE  Says(Lines(on, Shown(on))) = Whole(on)
<1> DEFINE functions == <<on.function>> \o [i \in DOMAIN on.callers |-> on.callers[i].function]
           n == Shown(on)
<1>1. n \in Nat \ {0} /\ n <= 1 + depth(on) /\ depth(on) \in Nat /\ DOMAIN on.callers = 1 .. depth(on)
  BY ShownIs, Callers
<1>2. Len(functions) = 1 + depth(on) /\ \A i \in 1 .. n : functions[i] = FunctionOf(Nearest(on)[i])
  <2> DEFINE names == {on.function} \cup {on.callers[i].function : i \in DOMAIN on.callers}
             a == <<on.function>>
             b == [i \in DOMAIN on.callers |-> on.callers[i].function]
  <2>1. a \in Seq(names) /\ Len(a) = 1 /\ a[1] = on.function
    OBVIOUS
  <2>2. b \in Seq(names) /\ Len(b) = depth(on)
    <3>1. b \in [1 .. depth(on) -> names]
      BY <1>1
    <3> HIDE DEF b, names
    <3> QED
      BY <1>1, <3>1
  <2> HIDE DEF names
  <2> HIDE DEF a, b
  <2>3. /\ Len(functions) = Len(a) + Len(b)
        /\ \A i \in 1 .. Len(a) : functions[i] = a[i]
        /\ \A i \in 1 .. Len(b) : functions[Len(a) + i] = b[i]
    <3>1. functions = a \o b
      BY DEF a, b
    <3>2. a \in Seq(names) /\ b \in Seq(names)
      BY <2>1, <2>2
    <3> HIDE DEF functions
    <3> QED
      BY <3>1, <3>2, Joins
  <2>4. \A i \in 1 .. depth(on) : b[i] = FunctionOf(returns(on)[i] - 1)
    BY <1>1, StacksAssumption, Zenon DEF returns, b
  <2>5. on.function = FunctionOf(pc(on))
    BY StacksAssumption, Zenon DEF pc
  <2> HIDE DEF functions
  <2>6. Len(functions) = 1 + depth(on) /\ functions[1] = FunctionOf(pc(on))
    BY <1>1, <2>1, <2>2, <2>3, <2>5
  <2>7. ASSUME NEW i \in 1 .. n, i # 1
        PROVE  functions[i] = FunctionOf(returns(on)[i - 1] - 1)
    <3>1. i - 1 \in 1 .. depth(on) /\ 1 + (i - 1) = i
      BY <1>1, <2>7
    <3>2. functions[1 + (i - 1)] = b[i - 1]
      BY <2>1, <2>2, <2>3, <3>1
    <3> QED
      BY <2>4, <3>1, <3>2
  <2>8. \A i \in 1 .. n : Nearest(on)[i] = IF i = 1 THEN pc(on) ELSE returns(on)[i - 1] - 1
    BY DEF Nearest
  <2> QED
    BY <2>6, <2>7, <2>8
<1>3. Min({Len(functions), Depth}) = n
  BY <1>2, Zenon DEF Shown
<1> HIDE DEF n
<1>4. Whole(on) = [i \in 1 .. n |-> [idx |-> n - i, function |-> functions[n - i + 1]]]
  BY <1>3, Zenon DEF Whole
<1> HIDE DEF functions
<1> DEFINE line(i) == [idx |-> n - i, addr |-> Nearest(on)[n - i + 1], function |-> FunctionOf(Nearest(on)[n - i + 1])]
<1>5. Lines(on, n) = [i \in 1 .. n |-> line(i)]
  BY Zenon DEF Lines, n
<1>6. \A i \in 1 .. n : Lines(on, n)[i].idx = n - i /\ Lines(on, n)[i].function = FunctionOf(Nearest(on)[n - i + 1])
  BY <1>5
<1>7. \A i \in 1 .. n : n - i + 1 \in 1 .. n
  BY <1>1
<1>8. \A i \in 1 .. n : Lines(on, n)[i].idx = n - i /\ Lines(on, n)[i].function = functions[n - i + 1]
  BY <1>2, <1>6, <1>7
<1>9. DOMAIN Lines(on, n) = 1 .. n
  BY <1>5
<1>10. Says(Lines(on, n)) = [i \in 1 .. n |-> [idx |-> Lines(on, n)[i].idx, function |-> Lines(on, n)[i].function]]
  BY <1>9, Zenon DEF Says
<1>11. Says(Lines(on, n)) = Whole(on)
  BY <1>4, <1>8, <1>10
<1> QED
  BY <1>11 DEF n

HandlerInv == Shape /\ (\A t \in Threads : Tracing(t)) /\ TraceIsWhole /\ CrashTypes /\ Waits

(* Crash: the invariant holds initially.                                   *)
LEMMA HandlerInvInit == Init => HandlerInv
<1> SUFFICES ASSUME Init PROVE HandlerInv
  OBVIOUS
<1>1. Shape
  BY CrashAssumption DEF Init, Shape, Places, InHandler
<1>2. \A t \in Threads : Tracing(t)
  <2>1. \A t \in Threads : stack[t] = NoStack
    BY DEF Init
  <2>2. pc(NoStack) = 0
    BY DEF pc, NoStack
  <2> QED
    BY <2>1, <2>2, Zenon DEF Tracing
<1>3. TraceIsWhole
  BY DEF Init, TraceIsWhole
<1>4. CrashTypes
  BY DEF Init, CrashTypes
<1>5. Waits
  <2>1. Handled = {}
    BY DEF Init, Handled
  <2>2. \A t \in Threads : ~InHandler(t)
    BY DEF Init, InHandler
  <2> QED
    BY <2>1, <2>2 DEF Waits
<1> QED
  BY <1>1, <1>2, <1>3, <1>4, <1>5 DEF HandlerInv

(* Signals come to threads.                                                *)
LEMMA Came ==
  ASSUME CrashTypes
  PROVE  /\ Len(signals) \in Nat /\ DOMAIN signals = 1 .. Len(signals)
         /\ \A i \in DOMAIN signals : signals[i].thread \in Threads
<1> DEFINE E == [thread : Threads, signal : Range(Signals), stack : Stacks, handled : BOOLEAN]
<1>1. signals \in Seq(E)
  BY Zenon DEF CrashTypes
<1>2. \A e \in E : e.thread \in Threads
  OBVIOUS
<1> HIDE DEF E
<1>3. Len(signals) \in Nat /\ DOMAIN signals = 1 .. Len(signals) /\ \A i \in DOMAIN signals : signals[i] \in E
  BY <1>1
<1> QED
  BY <1>2, <1>3, Zenon

(* Steps outside of the handler.                                           *)
LEMMA TracesStay ==
  ASSUME HandlerInv, UNCHANGED handlerVars, UNCHANGED told
  PROVE  Shape' /\ (\A t \in Threads : Tracing(t)') /\ TraceIsWhole'
<1>1. Shape'
  BY DEF HandlerInv, Shape, InHandler, handlerVars
<1>2. \A t \in Threads : Tracing(t)'
  BY DEF HandlerInv, Tracing, handlerVars
<1>3. TraceIsWhole'
  BY DEF HandlerInv, TraceIsWhole
<1> QED
  BY <1>1, <1>2, <1>3

(* A step outside of the handler keeps all of it.                          *)
LEMMA OutsideKeeps ==
  ASSUME HandlerInv, UNCHANGED <<handlerVars, history>>,
         process' = process \/ process' = "exited"
  PROVE  HandlerInv'
<1>1. Shape' /\ (\A t \in Threads : Tracing(t)') /\ TraceIsWhole'
  BY TracesStay DEF history
<1>2. CrashTypes'
  BY DEF HandlerInv, CrashTypes, handlerVars, history
<1>3. Waits'
  <2>1. Handled' = Handled /\ (OneThread' <=> OneThread)
    BY DEF Handled, OneThread, history
  <2>2. \A i \in Handled : Told(i)' = Told(i)
    BY DEF Told, history
  <2>3. \A i \in Handled : InTurn(i) => InTurn(i)'
    BY DEF InTurn, history, handlerVars
  <2>4. signals' = signals /\ at' = at
    BY DEF history, handlerVars
  <2> QED
    BY <2>1, <2>2, <2>3, <2>4 DEF HandlerInv, Waits, InHandler
<1> QED
  BY <1>1, <1>2, <1>3 DEF HandlerInv

(* The constructor is in the initial thread, which has no signal yet.      *)
LEMMA InstallKeeps == HandlerInv /\ Install => HandlerInv'
<1> SUFFICES ASSUME HandlerInv, Install PROVE HandlerInv'
  OBVIOUS
<1>1. PICK place \in {"run", "construct"} : at' = [at EXCEPT ![Initial] = place]
  BY DEF Install
<1>2. /\ Initial \in Threads /\ at[Initial] = "construct" /\ at \in [Threads -> Places]
      /\ UNCHANGED <<stack, st, symbols, trace_idx, printed, signo, history, process>>
  BY CrashAssumption DEF HandlerInv, Shape, Install
<1>3. \A t \in Threads : at'[t] \in Places /\ (at'[t] \notin {"run", "construct"} => at'[t] = at[t])
  BY <1>1, <1>2 DEF Places
<1>4. \A t \in Threads : at[t] \notin {"run", "construct"} => at'[t] = at[t]
  BY <1>1, <1>2
<1>5. Shape'
  <2>1. at' \in [Threads -> Places]
    BY <1>1, <1>2 DEF Places
  <2> QED
    BY <1>2, <1>3, <2>1 DEF HandlerInv, Shape, InHandler
<1>6. \A t \in Threads : Tracing(t)'
  BY <1>2, <1>3 DEF HandlerInv, Tracing
<1>7. TraceIsWhole'
  BY <1>2 DEF HandlerInv, TraceIsWhole, history
<1>8. CrashTypes'
  BY <1>2 DEF HandlerInv, CrashTypes, history
<1>9. Waits'
  <2>1. Handled' = Handled /\ (OneThread' <=> OneThread) /\ signals' = signals
    BY <1>2 DEF Handled, OneThread, history
  <2>2. \A i \in Handled : Told(i)' = Told(i)
    BY <1>2 DEF Told, history
  <2>3. \A i \in Handled : signals[i].thread \in Threads
    BY Came, Zenon DEF Handled, HandlerInv
  <2>4. \A i \in Handled : InTurn(i) => InTurn(i)'
    BY <1>2, <1>4, <2>3 DEF InTurn, history
  <2>5. \A t \in Threads : InHandler(t)' => InHandler(t)
    BY <1>3 DEF InHandler
  <2> QED
    BY <2>1, <2>2, <2>4, <2>5 DEF HandlerInv, Waits
<1> QED
  BY <1>5, <1>6, <1>7, <1>8, <1>9 DEF HandlerInv

(* sig_handler() begins with nothing, whatever it interrupts.              *)
LEMMA BeginsAnew ==
  ASSUME HandlerInv, NEW t \in Threads, NEW s \in Range(Signals), NEW on \in Stacks, sig_handler(t, s, on)
  PROVE  /\ Shape' /\ (\A u \in Threads : Tracing(u)') /\ TraceIsWhole'
         /\ signo' \in [Threads -> Range(Signals) \cup {None}]
         /\ at'[t] = "load" /\ signo'[t] = s /\ stack'[t] = on
         /\ \A u \in Threads \ {t} : at'[u] = at[u] /\ signo'[u] = signo[u] /\ stack'[u] = stack[u]
<1>1. /\ at' = [at EXCEPT ![t] = "load"] /\ signo' = [signo EXCEPT ![t] = s]
      /\ stack' = [stack EXCEPT ![t] = on] /\ st' = [st EXCEPT ![t] = Empty]
      /\ symbols' = [symbols EXCEPT ![t] = <<>>] /\ printed' = [printed EXCEPT ![t] = <<>>]
      /\ trace_idx' = trace_idx /\ told' = told
  BY DEF sig_handler, Goto
<1>2. /\ at \in [Threads -> Places] /\ stack \in [Threads -> Stacks \cup {NoStack}]
      /\ signo \in [Threads -> Range(Signals) \cup {None}]
      /\ st = [u \in Threads |-> st[u]] /\ symbols = [u \in Threads |-> symbols[u]]
      /\ trace_idx = [u \in Threads |-> trace_idx[u]] /\ printed = [u \in Threads |-> printed[u]]
  BY DEF HandlerInv, Shape, CrashTypes
<1>3. /\ at' \in [Threads -> Places] /\ stack' \in [Threads -> Stacks \cup {NoStack}]
      /\ signo' \in [Threads -> Range(Signals) \cup {None}]
  BY <1>1, <1>2 DEF Places
<1>4. /\ at'[t] = "load" /\ signo'[t] = s /\ stack'[t] = on /\ printed'[t] = <<>>
      /\ \A u \in Threads \ {t} :
           /\ at'[u] = at[u] /\ signo'[u] = signo[u] /\ stack'[u] = stack[u] /\ st'[u] = st[u]
           /\ symbols'[u] = symbols[u] /\ printed'[u] = printed[u] /\ trace_idx'[u] = trace_idx[u]
  BY <1>1, <1>2
<1>5. Shape'
  <2>1. /\ st' = [u \in Threads |-> st'[u]] /\ symbols' = [u \in Threads |-> symbols'[u]]
        /\ trace_idx' = [u \in Threads |-> trace_idx'[u]] /\ printed' = [u \in Threads |-> printed'[u]]
    BY <1>1, <1>2
  <2>2. \A u \in Threads : InHandler(u)' => stack'[u] \in Stacks /\ signo'[u] \in Range(Signals)
    BY <1>4 DEF HandlerInv, Shape, InHandler
  <2> QED
    BY <1>3, <2>1, <2>2 DEF Shape
<1>6. ASSUME NEW u \in Threads PROVE Tracing(u)'
  <2>1. CASE u = t
    BY <1>4, <2>1 DEF Tracing
  <2>2. CASE u # t
    BY <1>4, <2>2 DEF HandlerInv, Tracing
  <2> QED
    BY <2>1, <2>2
<1>7. TraceIsWhole'
  BY <1>1 DEF HandlerInv, TraceIsWhole
<1> QED
  BY <1>3, <1>4, <1>5, <1>6, <1>7

(* A thread that runs, or that does not block the signal, gets it.  The    *)
(* first thread's own signal is the only one it does not block.            *)
LEMMA ComesKeeps ==
  ASSUME HandlerInv, NEW t \in Threads, NEW s \in Range(Signals), Comes(t, s),
         process = "up", at[t] = "run" \/ s \notin Blocked(t)
  PROVE  HandlerInv'
<1>1. PICK on \in Stacks, handled \in BOOLEAN :
        /\ signals' = Append(signals, [thread |-> t, signal |-> s, stack |-> on, handled |-> handled])
        /\ IF handled THEN sig_handler(t, s, on) ELSE Kill(t, s, on)
  BY Zenon DEF Comes
<1> DEFINE E == [thread : Threads, signal : Range(Signals), stack : Stacks, handled : BOOLEAN]
           e == [thread |-> t, signal |-> s, stack |-> on, handled |-> handled]
<1>2. e \in E /\ e.thread = t /\ e.signal = s /\ e.stack = on
  OBVIOUS
<1>3. e.handled = handled
  OBVIOUS
<1>4. signals \in Seq(E) /\ signals' = Append(signals, e)
  BY <1>1, Zenon DEF HandlerInv, CrashTypes
<1>5. /\ DOMAIN signals = 1 .. Len(signals) /\ Len(signals) \in Nat
      /\ \A i \in DOMAIN signals : signals[i].thread \in Threads
  BY Came, Zenon DEF HandlerInv
<1> HIDE DEF e, E
<1>6. PICK n \in Nat : n = Len(signals) + 1
  BY <1>5
<1>7. /\ signals' \in Seq(E) /\ DOMAIN signals' = 1 .. n /\ signals'[n] = e
      /\ \A i \in DOMAIN signals : signals'[i] = signals[i]
  BY <1>2, <1>4, <1>5, <1>6
<1>8. n \in Nat /\ n \notin DOMAIN signals /\ DOMAIN signals' = DOMAIN signals \cup {n}
      /\ \A i \in DOMAIN signals : i <= n
  BY <1>5, <1>7, <1>6
<1>9. /\ Handled \subseteq Handled' /\ Handled' \subseteq Handled \cup {n}
      /\ n \in Handled' <=> handled
  BY <1>3, <1>7, <1>8, Zenon DEF Handled
<1>10. OneThread' => OneThread
  <2> SUFFICES ASSUME OneThread', NEW i \in DOMAIN signals, NEW j \in DOMAIN signals
               PROVE  /\ signals[i].thread = signals[j].thread
                      /\ signals[i].signal = signals[j].signal => i = j
    BY Zenon DEF OneThread
  <2>1. signals'[i] = signals[i] /\ signals'[j] = signals[j]
    BY <1>7
  <2>2. i \in DOMAIN signals' /\ j \in DOMAIN signals'
    BY <1>8
  <2>3. /\ signals'[i].thread = signals'[j].thread
        /\ signals'[i].signal = signals'[j].signal => i = j
    BY <2>2, Zenon DEF OneThread
  <2> QED
    BY <2>1, <2>3, Zenon
<1>11. Handled \subseteq DOMAIN signals
  BY DEF Handled
<1>12. ASSUME OneThread', NEW k \in Handled, InTurn(k) PROVE FALSE
  <2>1. signals[k].thread = t /\ signals[k].signal # s
    <3>1. k \in DOMAIN signals /\ k \in DOMAIN signals' /\ n \in DOMAIN signals' /\ k # n
      BY <1>8, <1>11
    <3>2. signals'[k].thread = signals'[n].thread /\ signals'[k].signal # signals'[n].signal
      BY <1>12, <3>1, Zenon DEF OneThread
    <3>3. signals'[k] = signals[k] /\ signals'[n] = e
      BY <1>7, <3>1
    <3> QED
      BY <1>2, <3>2, <3>3, Zenon
  <2>2. at[t] \in {"load", "print", "traces"} /\ signo[t] = signals[k].signal
    BY <1>12, <2>1, Zenon DEF InTurn
  <2>3. InHandler(t) /\ s \notin Blocked(t)
    BY <2>2 DEF InHandler
  <2>4. s = signo[t]
    BY <2>3, Zenon DEF Blocked
  <2> QED
    BY <2>1, <2>2, <2>4
<1>13. told' = told
  BY <1>1, Zenon DEF sig_handler, Kill
<1>14. CASE handled
  <2>1. sig_handler(t, s, on)
    BY <1>1, <1>14
  <2>2. /\ Shape' /\ (\A u \in Threads : Tracing(u)') /\ TraceIsWhole'
        /\ signo' \in [Threads -> Range(Signals) \cup {None}]
        /\ at'[t] = "load" /\ signo'[t] = s /\ stack'[t] = on
        /\ \A u \in Threads \ {t} : at'[u] = at[u]
    BY <2>1, BeginsAnew, ZenonT(30)
  <2>3. process' = "up"
    BY <2>1, ZenonT(30) DEF sig_handler
  <2>4. \A u \in Threads : InHandler(u)' => \E i \in Handled' : signals'[i].thread = u
    <3> SUFFICES ASSUME NEW u \in Threads, InHandler(u)' PROVE \E i \in Handled' : signals'[i].thread = u
      OBVIOUS
    <3>1. CASE u = t
      BY <1>2, <1>7, <1>9, <1>14, <3>1, Zenon
    <3>2. CASE u # t
      <4>1. InHandler(u)
        BY <2>2, <3>2 DEF InHandler
      <4> QED
        BY <1>7, <1>9, <1>11, <4>1, Zenon DEF HandlerInv, Waits
    <3> QED
      BY <3>1, <3>2
  <2>5. ASSUME OneThread'
        PROVE  \E k \in Handled' : (\A i \in Handled' : k <= i) /\ (Told(k)' \/ InTurn(k)')
    <3>1. CASE Handled = {}
      <4>1. Handled' = {n}
        BY <1>9, <1>14, <3>1
      <4>2. InTurn(n)'
        <5>1. signals'[n].thread = t /\ signals'[n].stack = on /\ signals'[n].signal = s
          BY <1>2, <1>7, Zenon
        <5> QED
          BY <2>2, <2>3, <5>1 DEF InTurn
      <4>3. n \in Handled' /\ \A i \in Handled' : n <= i
        BY <1>8, <4>1
      <4> QED
        BY <4>2, <4>3, Zenon
    <3>2. CASE Handled # {}
      <4>1. PICK k \in Handled : (\A i \in Handled : k <= i) /\ Told(k)
        BY <1>10, <1>12, <2>5, <3>2 DEF HandlerInv, Waits
      <4>2. Told(k)'
        BY <1>7, <1>11, <1>13, <4>1, Zenon DEF Told
      <4>3. \A i \in Handled' : k <= i
        BY <1>8, <1>9, <1>11, <4>1, Zenon
      <4> QED
        BY <1>9, <4>2, <4>3
    <3> QED
      BY <3>1, <3>2
  <2>6. CrashTypes'
    BY <1>7, <2>2 DEF CrashTypes, E
  <2> QED
    BY <2>2, <2>4, <2>5, <2>6 DEF HandlerInv, Waits
<1>15. CASE ~handled
  <2>1. UNCHANGED handlerVars
    BY <1>1, <1>15 DEF Kill
  <2>2. Shape' /\ (\A u \in Threads : Tracing(u)') /\ TraceIsWhole'
    BY <1>13, <2>1, TracesStay
  <2>3. CrashTypes'
    BY <1>7, <2>1 DEF HandlerInv, CrashTypes, E, handlerVars
  <2>4. Handled' = Handled
    BY <1>9, <1>15
  <2>5. \A u \in Threads : InHandler(u)' => \E i \in Handled' : signals'[i].thread = u
    <3>1. at' = at
      BY <2>1 DEF handlerVars
    <3> QED
      BY <1>7, <1>11, <2>4, <3>1 DEF HandlerInv, Waits, InHandler
  <2>6. ASSUME OneThread', Handled # {}
        PROVE  \E k \in Handled : (\A i \in Handled : k <= i) /\ Told(k)'
    <3>1. PICK k \in Handled : (\A i \in Handled : k <= i) /\ Told(k)
      BY <1>10, <1>12, <2>6 DEF HandlerInv, Waits
    <3>2. Told(k)'
      BY <1>7, <1>11, <1>13, <3>1, Zenon DEF Told
    <3> QED
      BY <3>1, <3>2
  <2> QED
    BY <2>2, <2>3, <2>4, <2>5, <2>6 DEF HandlerInv, Waits
<1> QED
  BY <1>14, <1>15

(* While one thread handles its signal, it is the only one.                *)
LEMMA WaitsOn ==
  ASSUME HandlerInv, NEW t \in Threads, InHandler(t), signals' = signals, told \subseteq told',
         \A u \in Threads \ {t} : at'[u] = at[u],
         \A k \in Handled : signals[k].thread = t /\ InTurn(k) => Told(k)' \/ InTurn(k)'
  PROVE  Waits'
<1>1. Handled' = Handled /\ (OneThread' <=> OneThread)
  BY DEF Handled, OneThread
<1>2. \A u \in Threads : InHandler(u)' => InHandler(u)
  BY DEF InHandler
<1>3. \A k \in Handled : Told(k) => Told(k)'
  BY DEF Told
<1>4. ASSUME OneThread, Handled # {}
      PROVE  \E k \in Handled : (\A i \in Handled : k <= i) /\ (Told(k)' \/ InTurn(k)')
  <2>1. PICK k \in Handled : (\A i \in Handled : k <= i) /\ (Told(k) \/ InTurn(k))
    BY <1>4 DEF HandlerInv, Waits
  <2>2. PICK i \in Handled : signals[i].thread = t
    BY Zenon DEF HandlerInv, Waits
  <2>3. signals[k].thread = t
    BY <1>4, <2>2, Zenon DEF OneThread, Handled
  <2> QED
    BY <1>3, <2>1, <2>3
<1>5. \A u \in Threads : InHandler(u) => \E i \in Handled : signals[i].thread = u
  BY Zenon DEF HandlerInv, Waits
<1> QED
  BY <1>1, <1>2, <1>4, <1>5 DEF Waits

(* What a step of one thread in the handler leaves alone.                  *)
Only(t) ==
  /\ at' \in [Threads -> Places]
  /\ st' = [u \in Threads |-> st'[u]] /\ symbols' = [u \in Threads |-> symbols'[u]]
  /\ trace_idx' = [u \in Threads |-> trace_idx'[u]] /\ printed' = [u \in Threads |-> printed'[u]]
  /\ \A u \in Threads \ {t} :
       /\ at'[u] = at[u] /\ st'[u] = st[u] /\ symbols'[u] = symbols[u]
       /\ trace_idx'[u] = trace_idx[u] /\ printed'[u] = printed[u]
  /\ signo' = signo /\ stack' = stack /\ signals' = signals

(* What the variables are functions of.                                    *)
LEMMA Maps ==
  ASSUME HandlerInv
  PROVE  /\ at \in [Threads -> Places] /\ stack \in [Threads -> Stacks \cup {NoStack}]
         /\ st = [u \in Threads |-> st[u]] /\ symbols = [u \in Threads |-> symbols[u]]
         /\ trace_idx = [u \in Threads |-> trace_idx[u]] /\ printed = [u \in Threads |-> printed[u]]
         /\ \A u \in Threads : InHandler(u) => stack[u] \in Stacks /\ signo[u] \in Range(Signals)
  BY DEF HandlerInv, Shape

(* The other threads are where they were, with what they had.              *)
LEMMA OthersStay ==
  ASSUME HandlerInv, NEW t \in Threads, InHandler(t), Only(t)
  PROVE  /\ Shape' /\ CrashTypes' /\ stack[t] \in Stacks
         /\ \A u \in Threads \ {t} : at'[u] = at[u] /\ Tracing(u)'
<1>1. Shape'
  <2>1. \A u \in Threads : InHandler(u)' => stack'[u] \in Stacks /\ signo'[u] \in Range(Signals)
    BY Maps DEF InHandler, Only
  <2> QED
    BY <2>1, Maps DEF Shape, Only
<1>2. \A u \in Threads \ {t} : Tracing(u)'
  <2> TAKE u \in Threads \ {t}
  <2>1. Tracing(u)
    BY DEF HandlerInv
  <2>2. /\ at'[u] = at[u] /\ st'[u] = st[u] /\ symbols'[u] = symbols[u] /\ stack'[u] = stack[u]
        /\ trace_idx'[u] = trace_idx[u] /\ printed'[u] = printed[u]
    BY DEF Only
  <2> QED
    BY <2>1, <2>2 DEF Tracing
<1>3. CrashTypes'
  BY DEF HandlerInv, CrashTypes, Only
<1>4. \A u \in Threads \ {t} : at'[u] = at[u]
  BY DEF Only
<1> QED
  BY <1>1, <1>2, <1>3, <1>4, Maps

(* The trace is loaded from the stack the signal came to.                  *)
LEMMA LoadKeeps ==
  ASSUME HandlerInv, NEW t \in Threads, Load(t)
  PROVE  HandlerInv'
<1> DEFINE on == stack[t]
           trace == IF on.pc # 0 THEN load_from(Frames(on), on.pc, Depth) ELSE load_here(Frames(on), Depth)
<1>1. /\ at[t] = "load" /\ at' = [at EXCEPT ![t] = "print"] /\ st' = [st EXCEPT ![t] = trace]
      /\ UNCHANGED <<symbols, trace_idx, printed, process, signo, stack, signals, told>>
  BY Zenon DEF Load, Step, Goto, Quiet
<1>2. on.pc # 0 => trace = Loaded(on)
  BY Zenon DEF Loaded, pc
<1>3. InHandler(t) /\ "print" \in Places
  BY <1>1 DEF InHandler, Places
<1> HIDE DEF trace
<1>4. Only(t) /\ at'[t] = "print" /\ st'[t] = trace /\ printed'[t] = printed[t]
  BY <1>1, <1>3, Maps DEF Only
<1>5. /\ Shape' /\ CrashTypes' /\ at'[t] = "print" /\ st'[t] = trace /\ printed'[t] = printed[t]
      /\ \A u \in Threads \ {t} : at'[u] = at[u] /\ Tracing(u)'
  BY <1>3, <1>4, OthersStay
<1>6. Tracing(t)'
  <2>1. Tracing(t)
    BY DEF HandlerInv
  <2>2. pc(stack[t]) # 0 => printed[t] = <<>> /\ trace = Loaded(on)
    BY <1>1, <1>2, <2>1 DEF Tracing, pc
  <2> QED
    BY <1>1, <1>5, <2>2 DEF Tracing
<1>7. Waits'
  <2>1. ASSUME NEW k \in Handled, signals[k].thread = t, InTurn(k) PROVE InTurn(k)'
    BY <1>1, <1>5, <2>1 DEF InTurn
  <2> QED
    BY <1>1, <1>3, <1>5, <2>1, WaitsOn
<1>8. TraceIsWhole'
  BY <1>1 DEF HandlerInv, TraceIsWhole
<1> QED
  BY <1>5, <1>6, <1>7, <1>8 DEF HandlerInv

(* The symbols are looked up for the addresses that are shown.             *)
LEMMA PrintStackKeeps ==
  ASSUME HandlerInv, NEW t \in Threads, PrintStack(t)
  PROVE  HandlerInv'
<1> DEFINE addresses == begin(st[t])
           syms == IF addresses = <<>> THEN symbols[t] ELSE [i \in DOMAIN addresses |-> FunctionOf(addresses[i])]
<1>1. /\ at[t] = "print" /\ at' = [at EXCEPT ![t] = "traces"]
      /\ trace_idx' = [trace_idx EXCEPT ![t] = size(st[t])]
      /\ UNCHANGED <<st, printed, process, signo, stack, signals, told>>
  BY Zenon DEF PrintStack, Step, Goto, Quiet
<1>2. InHandler(t) /\ "traces" \in Places
  BY <1>1 DEF InHandler, Places
<1>3. symbols' = [symbols EXCEPT ![t] = syms]
  <2>1. load_addresses(t, addresses)
    BY DEF PrintStack
  <2>2. symbols = [symbols EXCEPT ![t] = symbols[t]]
    BY Maps
  <2> HIDE DEF addresses
  <2>3. CASE addresses = <<>>
    BY <2>1, <2>2, <2>3, Zenon DEF load_addresses
  <2>4. CASE addresses # <<>>
    BY <2>1, <2>4, Zenon DEF load_addresses, reset
  <2> QED
    BY <2>3, <2>4
<1> HIDE DEF syms
<1>4. /\ Only(t) /\ at'[t] = "traces" /\ st'[t] = st[t] /\ symbols'[t] = syms
      /\ trace_idx'[t] = size(st[t]) /\ printed'[t] = printed[t]
  BY <1>1, <1>2, <1>3, Maps DEF Only
<1>5. /\ Shape' /\ CrashTypes' /\ stack[t] \in Stacks
      /\ at'[t] = "traces" /\ st'[t] = st[t] /\ symbols'[t] = syms
      /\ trace_idx'[t] = size(st[t]) /\ printed'[t] = printed[t]
      /\ \A u \in Threads \ {t} : at'[u] = at[u] /\ Tracing(u)'
  BY <1>2, <1>4, OthersStay
<1>6. Tracing(t)'
  <2> SUFFICES ASSUME pc(stack[t]) # 0
               PROVE  /\ st[t] = Loaded(stack[t])
                      /\ syms = [i \in 1 .. Shown(stack[t]) |-> FunctionOf(Nearest(stack[t])[i])]
                      /\ size(st[t]) \in 0 .. Shown(stack[t])
                      /\ printed[t] = Lines(stack[t], Shown(stack[t]) - size(st[t]))
    BY <1>1, <1>5 DEF Tracing
  <2>1. st[t] = Loaded(stack[t]) /\ printed[t] = <<>>
    BY <1>1 DEF HandlerInv, Tracing
  <2> DEFINE L == Loaded(stack[t])
             n == Shown(stack[t])
  <2>2. /\ L.skip = above /\ Len(L.stacktrace) = above + n
        /\ \A i \in 1 .. n : L.stacktrace[above + i] = Nearest(stack[t])[i]
    BY <1>5, LoadedIs
  <2>3. above \in Nat /\ n \in Nat \ {0}
    BY <1>5, ShownIs, StacksAssumption DEF above
  <2> HIDE DEF L, n
  <2>4. size(L) = n
    BY <2>2, <2>3 DEF size
  <2>5. begin(L) = SubSeq(L.stacktrace, above + 1, above + n)
    BY <2>2, Zenon DEF begin
  <2>6. DOMAIN begin(L) = 1 .. n /\ \A i \in 1 .. n : begin(L)[i] = Nearest(stack[t])[i]
    <3> DEFINE all == L.stacktrace
    <3>1. begin(L) = SubSeq(all, above + 1, above + n) /\ \A i \in 1 .. n : all[above + i] = Nearest(stack[t])[i]
      BY <2>2, <2>5
    <3> HIDE DEF all
    <3>2. /\ DOMAIN SubSeq(all, above + 1, above + n) = 1 .. n
          /\ \A i \in 1 .. n : SubSeq(all, above + 1, above + n)[i] = all[above + i]
      BY <2>3, SMTT(20)
    <3> QED
      BY <3>1, <3>2, Zenon
  <2>7. begin(L) # <<>>
    BY <2>3, <2>6
  <2>8. syms = [i \in 1 .. n |-> FunctionOf(Nearest(stack[t])[i])]
    <3>1. syms = [i \in DOMAIN begin(L) |-> FunctionOf(begin(L)[i])]
      BY <2>1, <2>7, Zenon DEF syms, L
    <3> QED
      BY <2>6, <3>1
  <2>9. printed[t] = Lines(stack[t], n - size(L))
    <3>1. n - size(L) = 0
      BY <2>3, <2>4
    <3>2. Lines(stack[t], 0) = <<>>
      BY DEF Lines
    <3> QED
      BY <2>1, <3>1, <3>2
  <2> QED
    BY <2>1, <2>3, <2>4, <2>8, <2>9 DEF L, n
<1>7. Waits'
  <2>1. ASSUME NEW k \in Handled, signals[k].thread = t, InTurn(k) PROVE InTurn(k)'
    BY <1>1, <1>5, <2>1 DEF InTurn
  <2> QED
    BY <1>1, <1>2, <1>5, <2>1, WaitsOn
<1>8. TraceIsWhole'
  BY <1>1 DEF HandlerInv, TraceIsWhole
<1> QED
  BY <1>5, <1>6, <1>7, <1>8 DEF HandlerInv

(* A line is of the symbol whose index is the trace's.                     *)
LEMMA PrintTraceKeeps ==
  ASSUME HandlerInv, NEW t \in Threads, PrintTrace(t)
  PROVE  HandlerInv'
<1> DEFINE line == resolve(t, Trace(st[t], trace_idx[t] - 1))
<1>1. /\ at[t] = "traces" /\ trace_idx[t] > 0
      /\ printed' = [printed EXCEPT ![t] = Append(printed[t], line)]
      /\ trace_idx' = [trace_idx EXCEPT ![t] = trace_idx[t] - 1]
      /\ UNCHANGED <<at, st, symbols, process, signo, stack, signals, told>>
  BY DEF PrintTrace, Step, Quiet
<1>2. InHandler(t)
  BY <1>1 DEF InHandler
<1> HIDE DEF line
<1>3. Only(t) /\ trace_idx'[t] = trace_idx[t] - 1 /\ printed'[t] = Append(printed[t], line)
  BY <1>1, Maps DEF Only
<1>4. Shape' /\ CrashTypes' /\ stack[t] \in Stacks /\ \A u \in Threads \ {t} : at'[u] = at[u] /\ Tracing(u)'
  BY <1>2, <1>3, OthersStay
<1>5. Tracing(t)'
  <2> DEFINE on == stack[t]
             n == Shown(on)
             L == Loaded(on)
             idx == trace_idx[t]
  <2> SUFFICES ASSUME pc(on) # 0
               PROVE  /\ st[t] = L
                      /\ symbols[t] = [i \in 1 .. n |-> FunctionOf(Nearest(on)[i])]
                      /\ idx - 1 \in 0 .. n
                      /\ Append(printed[t], line) = Lines(on, n - (idx - 1))
    BY <1>1, <1>3 DEF Tracing
  <2>1. /\ st[t] = L /\ symbols[t] = [i \in 1 .. n |-> FunctionOf(Nearest(on)[i])]
        /\ idx \in 0 .. n /\ printed[t] = Lines(on, n - idx)
    BY <1>1 DEF HandlerInv, Tracing
  <2>2. /\ L.skip = above /\ Len(L.stacktrace) = above + n
        /\ \A i \in 1 .. n : L.stacktrace[above + i] = Nearest(on)[i]
    BY <1>4, LoadedIs
  <2>3. above \in Nat /\ n \in Nat \ {0}
    BY <1>4, ShownIs, StacksAssumption DEF above
  <2> HIDE DEF L, n
  <2>4. idx \in 1 .. n /\ size(L) = n
    BY <1>1, <2>1, <2>2, <2>3 DEF size
  <2>5. Trace(L, idx - 1) = [addr |-> Nearest(on)[idx], idx |-> idx - 1]
    <3>1. ~(idx - 1 >= size(L)) /\ idx - 1 + above + 1 = above + idx
      BY <2>3, <2>4
    <3>2. L.stacktrace[idx - 1 + L.skip + 1] = Nearest(on)[idx]
      BY <2>2, <2>4, <3>1
    <3> QED
      BY <3>1, <3>2, Zenon DEF Trace
  <2>6. line = [idx |-> idx - 1, addr |-> Nearest(on)[idx], function |-> FunctionOf(Nearest(on)[idx])]
    <3> DEFINE a == Nearest(on)[idx]
               T == [addr |-> a, idx |-> idx - 1]
    <3>1. line = [idx |-> T.idx, addr |-> T.addr, function |-> symbols[t][T.idx + 1]]
      BY <2>1, <2>5, Zenon DEF line, resolve
    <3> HIDE DEF a
    <3>2. T.idx = idx - 1 /\ T.addr = a
      OBVIOUS
    <3> HIDE DEF T
    <3>3. T.idx + 1 = idx
      BY <2>4, <3>2
    <3>4. symbols[t][idx] = FunctionOf(a)
      BY <2>1, <2>4 DEF a
    <3>5. line = [idx |-> idx - 1, addr |-> a, function |-> FunctionOf(a)]
      BY <3>1, <3>2, <3>3, <3>4, Zenon
    <3> QED
      BY <3>5 DEF a
  <2>7. Append(Lines(on, n - idx), line) = Lines(on, n - idx + 1)
    <3> DEFINE l(i) == [idx |-> n - i, addr |-> Nearest(on)[n - i + 1], function |-> FunctionOf(Nearest(on)[n - i + 1])]
    <3>1. \A k : Lines(on, k) = [i \in 1 .. k |-> l(i)]
      BY Zenon DEF Lines, n
    <3>2. l(n - idx + 1) = line
      <4>1. n - (n - idx + 1) = idx - 1 /\ n - (n - idx + 1) + 1 = idx
        BY <2>3, <2>4
      <4> QED
        BY <2>6, <4>1, Zenon
    <3> HIDE DEF l, line
    <3> DEFINE m == n - idx
               S == {l(i) : i \in 1 .. m + 1}
    <3>3. m \in Nat
      BY <2>3, <2>4
    <3> HIDE DEF m
    <3>4. [i \in 1 .. m |-> l(i)] \in Seq(S) /\ Len([i \in 1 .. m |-> l(i)]) = m
      BY <3>3
    <3>5. Append([i \in 1 .. m |-> l(i)], l(m + 1)) = [i \in 1 .. m + 1 |-> l(i)]
      BY <3>3, <3>4
    <3> QED
      BY <3>1, <3>2, <3>5, Zenon DEF m
  <2>8. idx - 1 \in 0 .. n /\ n - (idx - 1) = n - idx + 1
    BY <2>3, <2>4
  <2> QED
    BY <2>1, <2>7, <2>8 DEF L, n
<1>6. Waits'
  <2>1. ASSUME NEW k \in Handled, signals[k].thread = t, InTurn(k) PROVE InTurn(k)'
    BY <1>1, <2>1 DEF InTurn
  <2> QED
    BY <1>1, <1>2, <2>1, WaitsOn
<1>7. TraceIsWhole'
  BY <1>1 DEF HandlerInv, TraceIsWhole
<1> QED
  BY <1>4, <1>5, <1>6, <1>7 DEF HandlerInv

(* The trace is told when its last line is printed.                        *)
LEMMA DestroyedKeeps ==
  ASSUME HandlerInv, NEW t \in Threads, Destroyed(t)
  PROVE  HandlerInv'
<1> DEFINE it == [thread |-> t, stack |-> stack[t], lines |-> printed[t]]
<1>1. /\ at[t] = "traces" /\ trace_idx[t] = 0 /\ at' = [at EXCEPT ![t] = "raise"]
      /\ st' = [st EXCEPT ![t] = Empty] /\ symbols' = [symbols EXCEPT ![t] = <<>>]
      /\ told' = told \cup {it}
      /\ UNCHANGED <<trace_idx, printed, process, signo, stack, signals>>
  BY DEF Destroyed, Step, Goto
<1>2. InHandler(t) /\ "raise" \in Places
  BY <1>1 DEF InHandler, Places
<1>3. Only(t) /\ at'[t] = "raise"
  BY <1>1, <1>2, Maps DEF Only
<1>4. Shape' /\ CrashTypes' /\ stack[t] \in Stacks /\ \A u \in Threads \ {t} : at'[u] = at[u] /\ Tracing(u)'
  BY <1>2, <1>3, OthersStay
<1>5. Tracing(t)'
  BY <1>3 DEF Tracing
<1>6. it.thread = t /\ it.stack = stack[t] /\ it.lines = printed[t]
  OBVIOUS
<1> HIDE DEF it
<1>7. Waits'
  <2>1. ASSUME NEW k \in Handled, signals[k].thread = t, InTurn(k) PROVE Told(k)'
    <3>1. it.thread = signals[k].thread /\ it.stack = signals[k].stack
      BY <1>6, <2>1, Zenon DEF InTurn
    <3>2. it \in told' /\ signals' = signals
      BY <1>1
    <3> QED
      BY <3>1, <3>2, Zenon DEF Told
  <2>2. told \subseteq told'
    BY <1>1
  <2> QED
    BY <1>1, <1>2, <1>4, <2>1, <2>2, WaitsOn
<1>8. TraceIsWhole'
  <2>1. ASSUME it.stack.pc # 0 PROVE Says(it.lines) = Whole(it.stack)
    <3>1. stack[t].pc # 0 /\ pc(stack[t]) # 0
      BY <1>6, <2>1, Zenon DEF pc
    <3>2. printed[t] = Lines(stack[t], Shown(stack[t]) - 0)
      BY <1>1, <3>1 DEF HandlerInv, Tracing
    <3>3. Shown(stack[t]) - 0 = Shown(stack[t])
      BY <1>4, ShownIs
    <3> QED
      BY <1>4, <1>6, <3>1, <3>2, <3>3, SaysTheStack, Zenon
  <2>2. \A trace \in told : trace.stack.pc # 0 => Says(trace.lines) = Whole(trace.stack)
    BY Zenon DEF HandlerInv, TraceIsWhole
  <2> QED
    BY <1>1, <2>1, <2>2, Zenon DEF TraceIsWhole
<1> QED
  BY <1>4, <1>5, <1>7, <1>8 DEF HandlerInv

(* raise() comes when the trace is told, or never: pid 1 goes on to _exit. *)
LEMMA RaiseKeeps ==
  ASSUME HandlerInv, NEW t \in Threads, Raise(t)
  PROVE  HandlerInv'
<1>1. at[t] = "raise" /\ InHandler(t)
  BY DEF Raise, Step, InHandler
<1>2. \A k \in Handled : signals[k].thread = t => ~InTurn(k)
  BY <1>1 DEF InTurn
<1>3. CASE \E on \in Stacks : sig_handler(t, signo[t], on) /\ UNCHANGED signals
  <2>1. PICK on \in Stacks : sig_handler(t, signo[t], on) /\ signals' = signals
    BY <1>3
  <2>2. PICK s \in Range(Signals) : s = signo[t]
    BY <1>1, Maps
  <2>3. /\ Shape' /\ (\A u \in Threads : Tracing(u)') /\ TraceIsWhole'
        /\ signo' \in [Threads -> Range(Signals) \cup {None}]
        /\ \A u \in Threads \ {t} : at'[u] = at[u]
    BY <2>1, <2>2, BeginsAnew, Zenon
  <2>4. CrashTypes'
    BY <2>1, <2>3 DEF HandlerInv, CrashTypes
  <2>5. told \subseteq told'
    BY <2>1 DEF sig_handler
  <2>6. Waits'
    BY <1>1, <1>2, <2>1, <2>3, <2>5, WaitsOn
  <2> QED
    BY <2>3, <2>4, <2>6 DEF HandlerInv
<1>4. CASE Ends("killed")
  <2>1. UNCHANGED handlerVars /\ UNCHANGED history
    BY <1>4 DEF Ends
  <2>2. Shape' /\ (\A u \in Threads : Tracing(u)') /\ TraceIsWhole'
    BY <2>1, TracesStay DEF history
  <2>3. CrashTypes'
    BY <2>1 DEF HandlerInv, CrashTypes, handlerVars, history
  <2>4. at' = at /\ signals' = signals /\ told' = told
    BY <2>1 DEF handlerVars, history
  <2>5. Waits'
    BY <1>1, <1>2, <2>4, WaitsOn
  <2> QED
    BY <2>2, <2>3, <2>5 DEF HandlerInv
<1>5. CASE Goto(t, "watf") /\ UNCHANGED <<st, symbols, trace_idx, printed>> /\ Quiet
  <2>1. /\ at' = [at EXCEPT ![t] = "watf"] /\ "watf" \in Places
        /\ UNCHANGED <<st, symbols, trace_idx, printed, signo, stack, signals, told>>
    BY <1>5 DEF Goto, Quiet, Places
  <2>2. Only(t) /\ at'[t] = "watf"
    BY <2>1, Maps DEF Only
  <2>3. Shape' /\ CrashTypes' /\ \A u \in Threads \ {t} : at'[u] = at[u] /\ Tracing(u)'
    BY <1>1, <2>2, OthersStay
  <2>4. Tracing(t)'
    BY <2>2 DEF Tracing
  <2>5. Waits'
    BY <1>1, <1>2, <2>1, <2>3, WaitsOn
  <2>6. TraceIsWhole'
    BY <2>1 DEF HandlerInv, TraceIsWhole
  <2> QED
    BY <2>3, <2>4, <2>5, <2>6 DEF HandlerInv
<1> QED
  BY <1>3, <1>4, <1>5, Zenon DEF Raise

(* Crash: every step keeps the invariant.                                  *)
LEMMA HandlerInvStep == HandlerInv /\ [Next]_vars => HandlerInv'
<1> SUFFICES ASSUME HandlerInv, [Next]_vars PROVE HandlerInv'
  OBVIOUS
<1>1. CASE UNCHANGED vars
  BY <1>1, OutsideKeeps DEF vars
<1>2. CASE Allocated
  BY <1>2, OutsideKeeps DEF Allocated
<1>3. CASE Install
  BY <1>3, InstallKeeps
<1>4. CASE Destructor
  BY <1>4, OutsideKeeps DEF Destructor
<1>5. CASE Exited
  BY <1>5, OutsideKeeps DEF Exited, Ends
<1>6. ASSUME NEW t \in Threads, Lock(t) \/ Unlock(t)
      PROVE  HandlerInv'
  BY <1>6, OutsideKeeps DEF Lock, Unlock
<1>7. ASSUME NEW t \in Threads, Signal(t)
      PROVE  HandlerInv'
  <2>1. PICK s \in Range(Signals) : Fault(t, s) \/ Interrupt(t, s)
    BY <1>7, Zenon DEF Signal
  <2>2. process = "up" /\ Comes(t, s) /\ (at[t] = "run" \/ s \notin Blocked(t))
    BY <2>1, Zenon DEF Fault, Interrupt
  <2> QED
    BY <2>2, ComesKeeps
<1>8. ASSUME NEW t \in Threads, _exit(t)
      PROVE  HandlerInv'
  <2>1. at[t] = "watf" /\ InHandler(t) /\ UNCHANGED handlerVars /\ UNCHANGED history
    BY <1>8 DEF _exit, Step, Ends, InHandler
  <2>2. Shape' /\ (\A u \in Threads : Tracing(u)') /\ TraceIsWhole'
    BY <2>1, TracesStay DEF history
  <2>3. CrashTypes'
    BY <2>1 DEF HandlerInv, CrashTypes, handlerVars, history
  <2>4. at' = at /\ signals' = signals /\ told' = told
    BY <2>1 DEF handlerVars, history
  <2>5. \A k \in Handled : signals[k].thread = t => ~InTurn(k)
    BY <2>1 DEF InTurn
  <2>6. Waits'
    BY <2>1, <2>4, <2>5, WaitsOn
  <2> QED
    BY <2>2, <2>3, <2>6 DEF HandlerInv
<1>9. ASSUME NEW t \in Threads, Handle(t)
      PROVE  HandlerInv'
  BY <1>8, <1>9, LoadKeeps, PrintStackKeeps, PrintTraceKeeps, DestroyedKeeps, RaiseKeeps, Zenon DEF Handle
<1> QED
  BY <1>1, <1>2, <1>3, <1>4, <1>5, <1>6, <1>7, <1>9, Zenon DEF Next

(* The invariant of Crash.                                                 *)
LEMMA HandlerInvHolds == Spec => []HandlerInv
<1>1. Init => HandlerInv
  BY HandlerInvInit
<1>2. HandlerInv /\ [Next]_vars => HandlerInv'
  BY HandlerInvStep
<1> QED
  BY <1>1, <1>2, PTL DEF Spec

(* Every trace that is told is the one of the stack the signal found, for  *)
(* any stacks, whatever else happens to the process.                       *)
THEOREM TracesAreWhole == Spec => []TraceIsWhole
<1>1. HandlerInv => TraceIsWhole
  BY DEF HandlerInv
<1> QED
  BY <1>1, HandlerInvHolds, PTL

(* The first signal's trace is told before a signal ends the process.      *)
THEOREM FirstIsTold == Spec => []FirstCrashIsTold
<1>1. HandlerInv => FirstCrashIsTold
  <2> SUFFICES ASSUME HandlerInv, process \in {"killed", "_exited"}, Handled # {}, OneThread
               PROVE  \E trace \in told : /\ trace.thread = signals[Min(Handled)].thread
                                          /\ trace.stack = signals[Min(Handled)].stack
    BY Zenon DEF FirstCrashIsTold, Handled, OneThread
  <2>1. PICK k \in Handled : (\A i \in Handled : k <= i) /\ (Told(k) \/ InTurn(k))
    BY DEF HandlerInv, Waits
  <2>2. Told(k)
    BY <2>1 DEF InTurn
  <2>3. Handled \in SUBSET Nat
    BY Came DEF HandlerInv, Handled
  <2>4. Min(Handled) = k
    BY <2>1, <2>3, LeastIsMin
  <2> QED
    BY <2>2, <2>4, Zenon DEF Told
<1> QED
  BY <1>1, HandlerInvHolds, PTL
=============================================================================
