--------------------------- MODULE MessagesProofs ---------------------------
(***************************************************************************)
(* What passes between the service and the handler, for any answers, texts,*)
(* widths and results: the request that get_next() makes of an answer, its *)
(* deadline, what a POST says of the handler's result, the headers that a  *)
(* lookup finds in the lines of an answer, the body of a failure, and the  *)
(* outcome in which the parts of an answer are carried.                    *)
(***************************************************************************)
EXTENDS HttpResponse, GetNext, PostResult, JsonEscape, WellFoundedInduction, SequenceTheorems, TLAPS

(* Division, and the count that wraps around.                              *)
LEMMA Divides ==
  ASSUME NEW n \in Int, NEW W \in Int, W > 0
  PROVE  /\ \E q, r \in Int : q = n \div W /\ r = n % W /\ n = W * q + r
         /\ n \div W \in Int /\ n % W \in 0 .. (W - 1)
         /\ n \in 0 .. (W - 1) => n % W = n
         /\ n >= 0 => n \div W \in Nat
<1>1. n \div W \in Int /\ n % W \in 0 .. (W - 1)
  OBVIOUS
<1>2. PICK q \in Int, r \in Int : q = n \div W /\ r = n % W
  BY <1>1
<1>3. n = W * q + r
  BY <1>2
<1>4. n \in 0 .. (W - 1) => n % W = n
  OBVIOUS
<1>5. n >= 0 => n \div W \in Nat
  OBVIOUS
<1> QED BY <1>1, <1>2, <1>3, <1>4, <1>5, Zenon

(* A count is what the number is, but for whole turns of the clock.        *)
LEMMA Wraps ==
  ASSUME MaxCount \in Nat, NEW n \in Int
  PROVE  /\ AsCount(n) \in (-MaxCount - 1) .. MaxCount
         /\ n \in (-MaxCount - 1) .. MaxCount => AsCount(n) = n
         /\ \E k \in Int : AsCount(n) = n - k * (2 * MaxCount + 2)
<1> DEFINE W == 2 * MaxCount + 2
           m == n + MaxCount + 1
           q == m \div W
           r == m % W
<1>1. W \in Int /\ W > 0 /\ m \in Int /\ ULONG_MAX + 1 = W
  BY DEF ULONG_MAX
<1>2. AsCount(n) = r - MaxCount - 1
  BY <1>1 DEF AsCount
<1>3. q \in Int /\ r \in 0 .. (W - 1) /\ m = W * q + r /\ (m \in 0 .. (W - 1) => r = m)
  <2> HIDE DEF W, m
  <2> QED BY <1>1, Divides
<1> HIDE DEF q, r
<1>4. AsCount(n) = n - q * (2 * MaxCount + 2)
  <2>1. n = q * (2 * MaxCount + 2) + r - MaxCount - 1
    BY <1>1, <1>3
  <2> QED BY <1>2, <1>3, <2>1
<1>5. AsCount(n) \in (-MaxCount - 1) .. MaxCount
  BY <1>2, <1>3
<1>6. n \in (-MaxCount - 1) .. MaxCount => AsCount(n) = n
  BY <1>2, <1>3
<1> QED BY <1>3, <1>4, <1>5, <1>6

(* The milliseconds of a positive count are no more than it.               *)
LEMMA RoundsDown ==
  ASSUME NEW x \in Int
  PROVE  /\ InMs(x) \in Int /\ InMs(x) * TicksPerMs \in Int
         /\ InMs(x) * TicksPerMs > 0 => x > 0 /\ InMs(x) * TicksPerMs <= x
<1> DEFINE T == TicksPerMs
<1>1. T \in Nat \ {0}
  BY DeadlineAssumption
<1> HIDE DEF T
<1>2. ASSUME NEW y \in Nat
      PROVE  y \div T \in Nat /\ (y \div T) * T \in Nat /\ (y \div T) * T <= y
  <2> DEFINE q == y \div T
             r == y % T
  <2>1. q \in Nat /\ r \in Nat /\ y = T * q + r
    BY <1>1, Divides
  <2> HIDE DEF q, r
  <2>2. q * T \in Nat /\ q * T <= y
    BY <1>1, <2>1
  <2> QED BY <2>1, <2>2 DEF q
<1>3. CASE x >= 0
  <2>1. InMs(x) = x \div T
    BY <1>3 DEF InMs, T
  <2>2. x \in Nat
    BY <1>3
  <2> QED BY <1>2, <2>1, <2>2 DEF T
<1>4. CASE x < 0
  <2>1. InMs(x) = -((-x) \div T) /\ -x \in Nat
    BY <1>4 DEF InMs, T
  <2>2. (-x) \div T \in Nat /\ ((-x) \div T) * T \in Nat
    BY <1>2, <2>1
  <2>3. (-((-x) \div T)) * T = -(((-x) \div T) * T)
    BY <1>1, <2>2
  <2> QED BY <2>1, <2>2, <2>3 DEF T
<1> QED BY <1>3, <1>4

(* What the handler's deadline is, for a text or without one.              *)
DeadlineOf(text) == IF text = Absent THEN Epoch ELSE DeadlineAfter(Epoch, strtoul(text))

Honest(text, deadline) ==
  /\ text >= 0 /\ text * TicksPerMs <= MaxCount => deadline = text * TicksPerMs
  /\ \A now \in 0..MaxCount :
       LET left == get_time_remaining(deadline, now) * TicksPerMs
       IN left > 0 => text > 0 /\ left <= text * TicksPerMs - now

(* The deadline of a text that is a number is its time, less whole turns   *)
(* of the clock: none if the clock can count it, and one or more if the    *)
(* count has become negative.                                              *)
LEMMA TurnsOfTheClock ==
  ASSUME MaxCount \in Nat, NEW text \in Nat, NEW W \in Int, W = 2 * MaxCount + 2
  PROVE  LET d == DeadlineOf(text) IN
         /\ d \in (-MaxCount - 1) .. MaxCount
         /\ text * TicksPerMs <= MaxCount => d = text * TicksPerMs
         /\ d < 0 => d + W <= text * TicksPerMs
         /\ d <= text * TicksPerMs
<1> DEFINE T == TicksPerMs
           ms == strtoul(text)
           a == AsCount(ms)
           b == AsCount(a * T)
           d == DeadlineOf(text)
<1>1. T \in Nat /\ T > 0 /\ W > 0
  BY DeadlineAssumption
<1>2. /\ ms \in Nat /\ ms <= text /\ (ms = text \/ (ms = W - 1 /\ text >= W))
  BY DEF strtoul, NaN, ULONG_MAX
<1>3. PICK k \in Int : a = ms - k * W
  <2>1. ms \in Int
    BY <1>2
  <2> HIDE DEF ms
  <2> QED BY <2>1, Wraps
<1>4. a \in Int /\ a * T \in Int
  BY <1>1, <1>2, <1>3
<1>5. PICK l \in Int : b = a * T - l * W
  BY <1>4, Wraps
<1>6. b \in (-MaxCount - 1) .. MaxCount
  BY <1>4, Wraps
<1>7. d = b
  <2>1. d = AsCount(0 + b) /\ 0 + b = b
    BY <1>6 DEF DeadlineOf, DeadlineAfter, InTicks, Epoch, Absent
  <2> QED BY <1>6, <2>1, Wraps
<1> HIDE DEF ms, a, b, d, T
<1> DEFINE time == text * T
<1>8. time \in Nat /\ (text >= W => time >= W)
  <2>1. text * T \in Nat /\ text * T >= text
    BY <1>1
  <2> QED BY <1>1, <2>1
<1>9. CASE ms = text
  <2> DEFINE turns == k * T + l
  <2>1. turns \in Int /\ d = time - turns * W
    BY <1>1, <1>3, <1>4, <1>5, <1>7, <1>9
  <2> HIDE DEF turns, time
  <2>2. turns >= 1 => turns * W >= W
    BY <1>1, <2>1
  <2>3. turns <= -1 => turns * W <= -W
    BY <1>1, <2>1
  <2>4. turns * W \in Int /\ (turns = 0 => turns * W = 0)
    BY <1>1, <2>1
  <2>5. /\ time <= MaxCount => d = time
        /\ d < 0 => d + W <= time
        /\ d <= time
    BY <1>6, <1>7, <1>8, <2>1, <2>2, <2>3, <2>4
  <2> QED BY <1>6, <1>7, <2>5 DEF time, T, d
<1>10. CASE text >= W
  <2> HIDE DEF time
  <2>1. /\ ~ time <= MaxCount
        /\ d < 0 => d + W <= time
        /\ d <= time
    BY <1>6, <1>7, <1>8, <1>10
  <2> QED BY <1>6, <1>7, <2>1 DEF time, T, d
<1> QED BY <1>2, <1>9, <1>10

(* No text, nor its absence, makes believe that there is more time left    *)
(* than the text says.                                                     *)
LEMMA DeadlinesAreHonest ==
  ASSUME NEW text \in Texts \cup {NaN, Absent}
  PROVE  Honest(text, DeadlineOf(text))
<1>1. MaxCount \in Int /\ TicksPerMs \in Nat /\ TicksPerMs > 0
  BY DeadlineAssumption DEF MaxCount
<1>2. CASE MaxCount < 0
  BY <1>1, <1>2, TextsAssumption DEF Honest, NaN, Absent
<1>3. CASE MaxCount >= 0 /\ text \in Texts
  <2> DEFINE d == DeadlineOf(text)
             W == 2 * MaxCount + 2
             time == text * TicksPerMs
  <2>1. /\ d \in (-MaxCount - 1) .. MaxCount
        /\ time <= MaxCount => d = time
        /\ d < 0 => d + W <= time
        /\ d <= time
    BY <1>1, <1>3, TurnsOfTheClock, TextsAssumption
  <2>2. time \in Nat /\ (time > 0 => text > 0) /\ text \in Nat
    BY <1>1, <1>3, TextsAssumption
  <2> HIDE DEF d, time
  <2>3. ASSUME NEW now \in 0..MaxCount, get_time_remaining(d, now) * TicksPerMs > 0
        PROVE  text > 0 /\ get_time_remaining(d, now) * TicksPerMs <= time - now
    <3> DEFINE count == AsCount(d - now)
    <3>1. PICK k \in Int : count = d - now - k * W
      <4>1. d - now \in Int
        BY <1>1, <2>1
      <4>2. MaxCount \in Nat
        BY <1>1, <1>3
      <4>3. \E k \in Int : AsCount(d - now) = d - now - k * (2 * MaxCount + 2)
        BY <4>1, <4>2, Wraps
      <4> QED BY <4>3
    <3>2. /\ count \in (-MaxCount - 1) .. MaxCount
          /\ d - now \in (-MaxCount - 1) .. MaxCount => count = d - now
      BY <1>1, <1>3, <2>1, Wraps
    <3> HIDE DEF count
    <3>3. /\ k <= -2 => k * W <= -(2 * W)
          /\ k = -1 => k * W = -W
          /\ k >= 0 => k * W >= 0
      BY <1>1, <1>3
    <3>4. count <= time - now
      <4>1. CASE k >= 0
        BY <1>1, <1>3, <2>1, <2>2, <3>1, <3>3, <4>1
      <4>2. CASE k = -1
        BY <1>1, <1>3, <2>1, <2>2, <3>1, <3>2, <3>3, <4>2
      <4>3. CASE k <= -2
        BY <1>1, <1>3, <2>1, <2>2, <3>1, <3>2, <3>3, <4>3
      <4> QED BY <4>1, <4>2, <4>3
    <3>5. count > 0 /\ get_time_remaining(d, now) * TicksPerMs <= count
          /\ get_time_remaining(d, now) * TicksPerMs \in Int
      BY <2>3, <3>2, RoundsDown DEF get_time_remaining, count
    <3> QED BY <1>1, <2>2, <3>2, <3>4, <3>5
  <2> QED BY <2>1, <2>3 DEF Honest, time, d
<1>4. CASE MaxCount >= 0 /\ text \in {NaN, Absent}
  <2>1. DeadlineOf(text) = 0
    <3>1. AsCount(0) = 0 /\ 0 * TicksPerMs = 0
      BY <1>1, <1>4, Wraps
    <3> QED BY <1>4, <3>1 DEF DeadlineOf, DeadlineAfter, InTicks, strtoul, Epoch, NaN, Absent
  <2>2. ASSUME NEW now \in 0..MaxCount PROVE ~ get_time_remaining(0, now) * TicksPerMs > 0
    <3>1. AsCount(0 - now) = -now
      BY <1>1, <1>4, Wraps
    <3> QED BY <1>1, <3>1, RoundsDown DEF get_time_remaining
  <2> QED BY <1>4, <2>1, <2>2 DEF Honest, NaN, Absent
<1> QED BY <1>1, <1>2, <1>3, <1>4

-----------------------------------------------------------------------------
(* The request of an answer: each field has what its header says, and the  *)
(* headers from the n-th on are not looked up yet.                         *)
Fields == Others \cup {DEADLINE, "payload", "content_type"}

FieldOf(f) ==
  CASE f = "payload"      -> "body"
    [] f = "content_type" -> "type"
    [] f = DEADLINE       -> DeadlineOf(answer.deadline)
    [] OTHER              -> IF Has(f) THEN f ELSE Empty

Later(n)  == {LookedUp[k] : k \in n .. 7}
Filled(n) == [f \in Fields |-> IF f \in Later(n) THEN NoRequest[f] ELSE FieldOf(f)]

(* An object that has the value of a header, or its absence.               *)
Finds(o, header) ==
  /\ store[o].success <=> Has(header)
  /\ store[o].success => store[o].value = ValueOf(header)

Usable  == answer.outcome = "ok" /\ Has(REQUEST_ID)
Failure == IF answer.outcome = "refused" THEN "response code" ELSE "REQUEST_NOT_MADE"

Held(made, flag, alive, value) ==
  [made |-> made, success |-> flag, alive |-> alive, value |-> value]

Shaped(b) ==
  b \in [made : BOOLEAN, success : BOOLEAN, alive : {b.alive}, value : {b.value}]
Shapes(s) == s = [o \in Objects |-> s[o]] /\ \A o \in Objects : Shaped(s[o])

(* The lifetimes of the three locals, by the statement that comes next.    *)
Locals ==
  /\ Shapes(store)
  /\ store["out"].made <=>
       at \in {"found", "find", "assign", "drop", "use", "return", "leave", "aborted"}
  /\ store["tmp"].made  <=> at \in {"assign", "drop"}
  /\ store["next"].made <=> at \in {"leave", "returned", "again"}

Looking == {"find", "assign", "drop", "use"}

RequestOK ==
  /\ answer \in Answers /\ index \in 1..7
  /\ at \in {"perform", "performed", "found"} => index = 1 /\ req = NoRequest
  /\ at = "found" => answer.outcome = "ok" /\ Finds("out", REQUEST_ID)
  /\ at \in Looking \cup {"return"} => Usable
  /\ at \in Looking => req = Filled(index)
  /\ at = "assign" => Finds("tmp", LookedUp[index])
  /\ at \in {"drop", "use"} => Finds("out", LookedUp[index])
  /\ at = "return" => req = Filled(8)
  /\ at \in {"leave", "returned"} =>
       IF store["next"].success THEN Usable /\ store["next"].value = Filled(8)
                                ELSE ~Usable /\ store["next"].value = Failure
  /\ at # "again" => handled.is = "nothing"
  /\ at = "again" => \/ handled = [is |-> "failure", code |-> Failure] /\ ~Usable
                     \/ handled = [is |-> "request", request |-> Filled(8)] /\ Usable

RequestInv == Locals /\ RequestOK

(* What the operations of an outcome leave of it.                          *)
LEMMA OneField ==
  ASSUME NEW b, Shaped(b)
  PROVE  /\ b.made \in BOOLEAN /\ b.success \in BOOLEAN
         /\ b = Held(b.made, b.success, b.alive, b.value)
         /\ \A x \in BOOLEAN : [b EXCEPT !.made = x]    = Held(x, b.success, b.alive, b.value)
         /\ \A x \in BOOLEAN : [b EXCEPT !.success = x] = Held(b.made, x, b.alive, b.value)
         /\ \A x : [b EXCEPT !.alive = x] = Held(b.made, b.success, x, b.value)
         /\ \A x : [b EXCEPT !.value = x] = Held(b.made, b.success, b.alive, x)
<1>1. b.made \in BOOLEAN /\ b.success \in BOOLEAN
  BY DEF Shaped
<1>2. b = Held(b.made, b.success, b.alive, b.value)
  BY DEF Shaped, Held
<1>3. \A x \in BOOLEAN : [b EXCEPT !.made = x]    = Held(x, b.success, b.alive, b.value)
  BY DEF Shaped, Held
<1>4. \A x \in BOOLEAN : [b EXCEPT !.success = x] = Held(b.made, x, b.alive, b.value)
  BY DEF Shaped, Held
<1>5. \A x : [b EXCEPT !.alive = x] = Held(b.made, b.success, x, b.value)
  BY DEF Shaped, Held
<1>6. \A x : [b EXCEPT !.value = x] = Held(b.made, b.success, b.alive, x)
  BY DEF Shaped, Held
<1> QED BY <1>1, <1>2, <1>3, <1>4, <1>5, <1>6

(* The fields of the bytes of an outcome.                                  *)
LEMMA IsShaped ==
  ASSUME NEW made \in BOOLEAN, NEW flag \in BOOLEAN, NEW alive, NEW v
  PROVE  /\ Shaped(Held(made, flag, alive, v))
         /\ Held(made, flag, alive, v).made = made
         /\ Held(made, flag, alive, v).success = flag
         /\ Held(made, flag, alive, v).alive = alive
         /\ Held(made, flag, alive, v).value = v
BY DEF Shaped, Held

(* Building a member changes nothing but the member.                       *)
LEMMA IsBuilt ==
  ASSUME NEW b, Shaped(b), NEW flag, NEW v
  PROVE  LET c == Built(b, flag, v)
         IN Shaped(c) /\ c.made = b.made /\ c.success = b.success /\ c.value = v
<1> DEFINE a == IF b.alive = Dead THEN MemberOf(flag) ELSE Corrupt
           c == Built(b, flag, v)
<1>1. c = [b EXCEPT !.alive = a, !.value = v]
  BY DEF Built
<1> HIDE DEF a, c
<1>2. c = Held(b.made, b.success, a, v)
  BY <1>1 DEF Shaped, Held
<1>3. Shaped(c) /\ c.made = b.made /\ c.success = b.success /\ c.value = v
  <2>1. Shaped(c)
    BY <1>2, OneField, IsShaped
  <2>2. c.made = b.made
    BY <1>2 DEF Held
  <2>3. c.success = b.success /\ c.value = v
    BY <1>2 DEF Held
  <2> QED BY <2>1, <2>2, <2>3
<1> QED BY <1>3 DEF c

(* A constructed object has what it was given, and no other changes.       *)
LEMMA Constructs ==
  ASSUME Shapes(store), NEW o \in Objects, NEW flag \in BOOLEAN, NEW v, Construct(o, flag, v)
  PROVE  /\ Shapes(store)' /\ \A p \in Objects : p # o => store'[p] = store[p]
         /\ store'[o].made /\ store'[o].success = flag /\ store'[o].value = v
<1> DEFINE b  == store[o]
           b1 == [b EXCEPT !.made = TRUE]
           b2 == Flagged(b1, flag)
           b3 == Built(b2, flag, v)
<1>1. store' = [store EXCEPT ![o] = b3]
  BY DEF Construct, Made
<1>2. Shaped(b)
  BY DEF Shapes
<1> HIDE DEF b
<1>3. b1 = Held(TRUE, b.success, b.alive, b.value) /\ b.success \in BOOLEAN
  BY <1>2, OneField
<1> HIDE DEF b1
<1>4. Shaped(b1) /\ b1.made
  <2>1. Shaped(b1)
    BY <1>3, IsShaped
  <2>2. b1.made
    BY <1>3, IsShaped
  <2> QED BY <2>1, <2>2
<1>5. b2 = Held(b1.made, flag, b1.alive, b1.value)
  BY <1>4, OneField DEF Flagged
<1> HIDE DEF b2
<1>6. Shaped(b2) /\ b2.made /\ b2.success = flag
  <2>1. Shaped(b2)
    BY <1>4, <1>5, OneField, IsShaped
  <2>2. b2.made
    BY <1>4, <1>5 DEF Held
  <2>3. b2.success = flag
    BY <1>5 DEF Held
  <2> QED BY <2>1, <2>2, <2>3
<1>7. Shaped(b3) /\ b3.made /\ b3.success = flag /\ b3.value = v
  BY <1>6, IsBuilt
<1> HIDE DEF b3
<1> QED BY <1>1, <1>7 DEF Shapes

(* The target has what the source had.                                     *)
LEMMA Assigns ==
  ASSUME Shapes(store), NEW o \in Objects, NEW other \in Objects, MoveAssign(o, other)
  PROVE  /\ Shapes(store)' /\ \A p \in Objects : p \notin {o, other} => store'[p] = store[p]
         /\ store'[o].made /\ store'[o].success = store[other].success
         /\ store'[o].value = store[other].value /\ store'[other].made
<1> DEFINE b  == store[o]
           b1 == destroy(b)
           b2 == Built(b1, store[other].success, store[other].value)
           b3 == Flagged(b2, store[other].success)
           c  == [store[other] EXCEPT !.value = Moved]
<1>1. store' = [store EXCEPT ![o] = b3, ![other] = c] /\ o # other /\ b.made /\ store[other].made
  BY DEF MoveAssign, Shapes, Assigned
<1>2. Shaped(b) /\ Shaped(store[other]) /\ store[other].success \in BOOLEAN
  BY DEF Shapes, Shaped
<1>3. Shaped(c) /\ c.made
  <2> DEFINE d == store[other]
  <2>1. Shaped(d) /\ d.made
    BY <1>1, <1>2
  <2> HIDE DEF d
  <2>2. c = Held(d.made, d.success, d.alive, Moved)
    BY <2>1, OneField DEF c, d
  <2> HIDE DEF c
  <2>3. Shaped(c)
    BY <2>1, <2>2, OneField, IsShaped
  <2>4. c.made
    BY <2>1, <2>2 DEF Held
  <2> QED BY <2>3, <2>4
<1> HIDE DEF b, c
<1>4. Shaped(b1) /\ b1.made
  <2> DEFINE a == IF b.alive = MemberOf(b.success) THEN Dead ELSE Corrupt
  <2>1. b1 = [b EXCEPT !.alive = a]
    BY DEF destroy
  <2> HIDE DEF a, b1
  <2>2. b1 = Held(b.made, b.success, a, b.value)
    BY <1>2, <2>1, OneField
  <2> QED BY <1>1, <1>2, <2>2, OneField, IsShaped
<1> HIDE DEF b1
<1>5. Shaped(b2) /\ b2.made /\ b2.value = store[other].value
  BY <1>4, IsBuilt
<1> HIDE DEF b2
<1>6. b3 = Held(b2.made, store[other].success, b2.alive, b2.value)
  BY <1>2, <1>5, OneField DEF Flagged
<1> HIDE DEF b3
<1>7. Shaped(b3) /\ b3.made /\ b3.success = store[other].success /\ b3.value = store[other].value
  <2>1. Shaped(b3)
    BY <1>2, <1>5, <1>6, OneField, IsShaped
  <2>2. b3.made
    BY <1>2, <1>5, <1>6, OneField, IsShaped
  <2>3. b3.success = store[other].success
    BY <1>6 DEF Held
  <2>4. b3.value = store[other].value
    BY <1>5, <1>6 DEF Held
  <2> QED BY <2>1, <2>2, <2>3, <2>4
<1> QED BY <1>1, <1>3, <1>7 DEF Shapes

(* A value is moved out of an object that has the flag for it.             *)
LEMMA Takes ==
  ASSUME Shapes(store), NEW o \in Objects, NEW flag \in BOOLEAN, Take(o, flag)
  PROVE  /\ Shapes(store)' /\ \A p \in Objects : p # o => store'[p] = store[p]
         /\ store'[o].made /\ store[o].success = flag
<1> DEFINE c == [store[o] EXCEPT !.value = Moved]
<1>1. store' = [store EXCEPT ![o] = c] /\ store[o].made /\ store[o].success = flag
  BY DEF Take, Shapes
<1>2. Shaped(c) /\ c.made
  BY <1>1 DEF Shapes, Shaped
<1> HIDE DEF c
<1> QED BY <1>1, <1>2 DEF Shapes

(* A destroyed object is no longer made.                                   *)
LEMMA Destroys ==
  ASSUME Shapes(store), NEW o \in Objects, Destroy(o)
  PROVE  /\ Shapes(store)' /\ \A p \in Objects : p # o => store'[p] = store[p]
         /\ ~store'[o].made
<1> DEFINE c == Gone(store[o])
<1>1. store' = [store EXCEPT ![o] = c]
  BY DEF Destroy, Shapes
<1>2. Shaped(c) /\ ~c.made
  BY DEF Shapes, Shaped, Gone
<1> HIDE DEF c
<1> QED BY <1>1, <1>2 DEF Shapes

(* The headers are looked up one by one, each once.                        *)
LEMMA Headers ==
  /\ Len(LookedUp) = 7 /\ Later(8) = {}
  /\ Others = {REQUEST_ID} \cup {LookedUp[k] : k \in 1..6}
  /\ LookedUp[7] = DEADLINE
  /\ \A n \in 1..7 : /\ Later(n) = {LookedUp[n]} \cup Later(n + 1)
                     /\ LookedUp[n] \notin Later(n + 1)
                     /\ LookedUp[n] \in Fields
                     /\ LookedUp[n] \notin {REQUEST_ID, "payload", "content_type"}
                     /\ LookedUp[n] = DEADLINE <=> n = 7
<1>1. Len(LookedUp) = 7 /\ LookedUp[7] = DEADLINE /\ DEADLINE = "deadline" /\ REQUEST_ID = "request_id"
  BY DEF LookedUp, DEADLINE, REQUEST_ID
<1>2. Others = {REQUEST_ID} \cup {LookedUp[k] : k \in 1..6}
  BY <1>1 DEF Others, ToSet, Front
<1>3. \A i, j \in 1..7 : i # j => LookedUp[i] # LookedUp[j]
  BY DEF LookedUp, DEADLINE
<1>4. \A n \in 1..7 : LookedUp[n] \notin {REQUEST_ID, "payload", "content_type"}
  BY DEF LookedUp, DEADLINE, REQUEST_ID
<1>5. ASSUME NEW n \in 1..7
      PROVE  /\ Later(n) = {LookedUp[n]} \cup Later(n + 1)
             /\ LookedUp[n] \notin Later(n + 1)
             /\ LookedUp[n] \in Fields
             /\ LookedUp[n] = DEADLINE <=> n = 7
  <2>1. n .. 7 = {n} \cup ((n + 1) .. 7)
    OBVIOUS
  <2>2. \A k \in (n + 1) .. 7 : k \in 1..7 /\ k # n
    OBVIOUS
  <2>3. Later(n) = {LookedUp[n]} \cup Later(n + 1)
    BY <2>1 DEF Later
  <2>4. LookedUp[n] \notin Later(n + 1)
    BY <1>3, <2>2 DEF Later
  <2>5. LookedUp[n] = DEADLINE <=> n = 7
    BY <1>1, <1>3
  <2>6. LookedUp[n] \in Fields
    BY <1>1, <1>2, <2>5 DEF Fields
  <2> QED BY <2>3, <2>4, <2>5, <2>6
<1>6. Later(8) = {}
  BY DEF Later
<1> QED BY <1>1, <1>2, <1>4, <1>5, <1>6

(* What is said of an answer stays while the answer does.                  *)
LEMMA SameAnswer ==
  ASSUME UNCHANGED answer
  PROVE  /\ \A n : Filled(n)' = Filled(n)
         /\ \A h : Has(h)' = Has(h) /\ ValueOf(h)' = ValueOf(h)
         /\ Usable' = Usable /\ Failure' = Failure
BY DEF Filled, FieldOf, Has, ValueOf, Usable, Failure

(* GetNext: the invariant holds initially.                                 *)
LEMMA RequestInvInit == RequestInit => RequestInv
<1> SUFFICES ASSUME RequestInit PROVE RequestInv
  OBVIOUS
<1>1. Unmade = Held(FALSE, FALSE, Dead, Moved)
  BY DEF Unmade, Held
<1>2. Shaped(Unmade)
  BY <1>1, IsShaped
<1>3. ~Unmade.made
  BY DEF Unmade
<1>4. store = [o \in Objects |-> Unmade]
  BY DEF RequestInit, OutcomeInit
<1>5. Shapes(store) /\ \A o \in Objects : ~store[o].made
  BY <1>2, <1>3, <1>4 DEF Shapes
<1>6. Locals
  BY <1>5, LocalsAssumption DEF Locals, RequestInit
<1>7. RequestOK
  BY DEF RequestInit, RequestOK, Answers, Looking
<1> QED BY <1>6, <1>7 DEF RequestInv

(* The transfer of an answer, and what get_next() makes of one that it     *)
(* cannot use.                                                             *)
LEMMA PerformKeeps ==
  ASSUME RequestInv, Perform \/ NotMade \/ Refused \/ NoRequestId
  PROVE  RequestInv'
<1> USE DEF RequestInv, Moves, Looking
<1>1. CASE Perform
  <2>1. Locals'
    BY <1>1 DEF Perform, Locals, Shapes
  <2>2. RequestOK'
    BY <1>1 DEF Perform, RequestOK
  <2> QED BY <2>1, <2>2
<1>2. ASSUME NotMade \/ Refused \/ NoRequestId PROVE RequestInv'
  <2>1. /\ ~Usable /\ UNCHANGED <<index, answer, req, handled>> /\ Construct("next", FALSE, Failure)
        /\ \/ at = "performed" /\ at' = "returned"
           \/ at = "found" /\ at' = "leave"
    <3>1. CASE NotMade
      BY <3>1 DEF NotMade, Fail, Usable, Failure
    <3>2. CASE Refused
      BY <3>2 DEF Refused, Fail, Usable, Failure
    <3>3. CASE NoRequestId
      <4>1. ~Has(REQUEST_ID) /\ answer.outcome = "ok"
        BY <3>3 DEF NoRequestId, RequestOK, Finds
      <4> QED BY <3>3, <4>1 DEF NoRequestId, Fail, Usable, Failure
    <3> QED BY <1>2, <3>1, <3>2, <3>3
  <2>2. /\ Shapes(store)' /\ \A p \in Objects : p # "next" => store'[p] = store[p]
        /\ store'["next"].made /\ store'["next"].success = FALSE /\ store'["next"].value = Failure
    BY <2>1, LocalsAssumption, Constructs DEF Locals
  <2>3. Locals'
    BY <2>1, <2>2, LocalsAssumption DEF Locals
  <2>4. RequestOK'
    BY <2>1, <2>2, SameAnswer DEF RequestOK
  <2> QED BY <2>3, <2>4
<1> QED BY <1>1, <1>2

(* A header is looked up, the first into out and the others into tmp.      *)
LEMMA FindKeeps == ASSUME RequestInv, FindRequestId \/ Find PROVE RequestInv'
<1> USE DEF RequestInv, Moves, Looking
<1>1. PICK o \in {"out", "tmp"}, header \in {REQUEST_ID, LookedUp[index]} :
        /\ resp_get_header(header, o)
        /\ \/ at = "performed" /\ at' = "found" /\ o = "out" /\ header = REQUEST_ID /\ answer.outcome = "ok"
           \/ at = "find" /\ at' = "assign" /\ o = "tmp" /\ header = LookedUp[index]
  BY DEF FindRequestId, Find
<1>2. /\ UNCHANGED <<index, answer, req, handled>> /\ o \in Objects /\ o # "next"
      /\ IF Has(header) THEN Construct(o, TRUE, ValueOf(header)) ELSE Construct(o, FALSE, FALSE)
  BY <1>1, LocalsAssumption DEF resp_get_header
<1>3. /\ Shapes(store)' /\ \A p \in Objects : p # o => store'[p] = store[p]
      /\ store'[o].made /\ (store'[o].success <=> Has(header))
      /\ store'[o].success => store'[o].value = ValueOf(header)
  <2>1. CASE Has(header)
    BY <1>2, <2>1, Constructs DEF Locals
  <2>2. CASE ~Has(header)
    BY <1>2, <2>2, Constructs DEF Locals
  <2> QED BY <2>1, <2>2
<1>4. Locals'
  BY <1>1, <1>2, <1>3, LocalsAssumption DEF Locals
<1>5. RequestOK'
  BY <1>1, <1>2, <1>3, SameAnswer DEF RequestOK, Finds
<1> QED BY <1>4, <1>5

(* The request id is taken, and no other header is looked up yet.          *)
LEMMA TakeIdKeeps == ASSUME RequestInv, TakeRequestId PROVE RequestInv'
<1> USE DEF RequestInv, Moves, Looking
<1>1. /\ at = "found" /\ at' = "find" /\ UNCHANGED <<index, answer, handled>> /\ index = 1
      /\ Take("out", TRUE) /\ req = NoRequest
  BY DEF TakeRequestId, RequestOK
<1>2. Shapes(store)' /\ (\A p \in Objects : p # "out" => store'[p] = store[p]) /\ store'["out"].made
      /\ store["out"].success
  BY <1>1, LocalsAssumption, Takes DEF Locals
<1>3. Usable /\ store["out"].value = REQUEST_ID
  BY <1>1, <1>2 DEF RequestOK, Finds, Usable, ValueOf, REQUEST_ID, DEADLINE
<1>4. req' = Filled(1)
  <2>1. req' = [NoRequest EXCEPT !.payload = "body", !.request_id = REQUEST_ID, !.content_type = "type"]
    BY <1>1, <1>3 DEF TakeRequestId
  <2>2. Later(1) = {LookedUp[k] : k \in 1..7} /\ Fields = Later(1) \cup {REQUEST_ID, "payload", "content_type"}
    <3>1. 1..7 = 1..6 \cup {7}
      OBVIOUS
    <3> QED BY <3>1, Headers DEF Later, Fields
  <2>3. REQUEST_ID \notin Later(1) /\ "payload" \notin Later(1) /\ "content_type" \notin Later(1)
    BY Headers DEF Later
  <2>4. \A f \in Fields : req'[f] = Filled(1)[f]
    BY <1>3, <2>1, <2>2, <2>3
    DEF Filled, FieldOf, NoRequest, Fields, Usable, REQUEST_ID, DEADLINE
  <2>5. req' = [f \in Fields |-> req'[f]]
    BY <2>1 DEF NoRequest, Fields
  <2> QED BY <2>4, <2>5 DEF Filled
<1>5. Locals'
  BY <1>1, <1>2, LocalsAssumption DEF Locals
<1>6. RequestOK'
  BY <1>1, <1>3, <1>4, SameAnswer DEF RequestOK
<1> QED BY <1>5, <1>6

(* out is assigned what was found, and the temporary ends.                 *)
LEMMA AssignKeeps == ASSUME RequestInv, Assign \/ Drop PROVE RequestInv'
<1> USE DEF RequestInv, Moves, Looking
<1>1. CASE Assign
  <2>1. at = "assign" /\ at' = "drop" /\ UNCHANGED <<index, answer, req, handled>> /\ MoveAssign("out", "tmp")
    BY <1>1 DEF Assign
  <2>2. /\ Shapes(store)' /\ (\A p \in Objects : p \notin {"out", "tmp"} => store'[p] = store[p])
        /\ store'["out"].made /\ store'["out"].success = store["tmp"].success
        /\ store'["out"].value = store["tmp"].value /\ store'["tmp"].made
    BY <2>1, LocalsAssumption, Assigns DEF Locals
  <2>3. Locals'
    BY <2>1, <2>2, LocalsAssumption DEF Locals
  <2>4. RequestOK'
    BY <2>1, <2>2, SameAnswer DEF RequestOK, Finds
  <2> QED BY <2>3, <2>4
<1>2. CASE Drop
  <2>1. at = "drop" /\ at' = "use" /\ UNCHANGED <<index, answer, req, handled>> /\ Destroy("tmp")
    BY <1>2 DEF Drop
  <2>2. Shapes(store)' /\ (\A p \in Objects : p # "tmp" => store'[p] = store[p]) /\ ~store'["tmp"].made
    BY <2>1, LocalsAssumption, Destroys DEF Locals
  <2>3. Locals'
    BY <2>1, <2>2, LocalsAssumption DEF Locals
  <2>4. RequestOK'
    BY <2>1, <2>2, LocalsAssumption, SameAnswer DEF RequestOK, Finds
  <2> QED BY <2>3, <2>4
<1> QED BY <1>1, <1>2

(* A header goes to its field.                                             *)
LEMMA UseKeeps == ASSUME RequestInv, UseNothing \/ UseField \/ UseDeadline PROVE RequestInv'
<1> USE DEF RequestInv, Moves, Looking
<1> DEFINE h == LookedUp[index]
<1>1. /\ at = "use" /\ UNCHANGED <<answer, handled>> /\ Usable /\ index \in 1..7
      /\ req = Filled(index) /\ Finds("out", h) /\ answer \in Answers
      /\ IF index < 7 THEN at' = "find" /\ index' = index + 1 ELSE at' = "return" /\ index' = 1
  BY Headers DEF UseNothing, UseField, UseDeadline, ToNext, RequestOK
<1>2. /\ Shapes(store)' /\ \A p \in Objects : p # "out" => store'[p] = store[p]
      /\ store'["out"].made
  <2>1. CASE UseField
    BY <2>1, LocalsAssumption, Takes DEF UseField, Locals
  <2>2. CASE UNCHANGED store
    BY <1>1, <2>2, LocalsAssumption DEF Locals, Shapes
  <2> QED BY <2>1, <2>2 DEF UseNothing, UseDeadline
<1>3. Locals'
  BY <1>1, <1>2, LocalsAssumption DEF Locals
<1>4. /\ Later(index) = {h} \cup Later(index + 1) /\ h \notin Later(index + 1) /\ h \in Fields
      /\ h \notin {REQUEST_ID, "payload", "content_type"}
      /\ h # DEADLINE => h \in Others
  BY <1>1, Headers DEF Fields
<1>5. req' = Filled(index + 1)
  <2>1. req' = [req EXCEPT ![h] = FieldOf(h)]
    <3>1. CASE UseNothing
      <4>1. ~Has(h) /\ req' = req
        BY <1>1, <3>1 DEF UseNothing, Finds
      <4>2. FieldOf(h) = NoRequest[h]
        BY <1>4, <4>1 DEF FieldOf, Has, DeadlineOf, NoRequest, Fields
      <4>3. req[h] = NoRequest[h]
        BY <1>1, <1>4 DEF Filled
      <4> QED BY <1>1, <1>4, <4>1, <4>2, <4>3 DEF Filled
    <3>2. CASE UseField
      <4>1. store["out"].success /\ h # DEADLINE /\ req' = [req EXCEPT ![h] = store["out"].value]
        BY <3>2 DEF UseField, Take
      <4>2. store["out"].value = h /\ Has(h)
        BY <1>1, <4>1 DEF Finds, ValueOf
      <4> QED BY <1>4, <4>1, <4>2 DEF FieldOf
    <3>3. CASE UseDeadline
      <4>1. h = DEADLINE /\ store["out"].success
            /\ req' = [req EXCEPT !.deadline = DeadlineAfter(@, strtoul(store["out"].value))]
        BY <3>3 DEF UseDeadline
      <4>2. store["out"].value = answer.deadline /\ answer.deadline # Absent
        BY <1>1, <4>1 DEF Finds, ValueOf, Has
      <4>3. req["deadline"] = Epoch
        BY <1>1, <1>4, <4>1 DEF Filled, NoRequest, DEADLINE, Fields
      <4>4. FieldOf(h) = DeadlineAfter(Epoch, strtoul(answer.deadline))
        BY <4>1, <4>2 DEF FieldOf, DeadlineOf, DEADLINE
      <4> QED BY <4>1, <4>2, <4>3, <4>4 DEF DEADLINE
    <3> QED BY <3>1, <3>2, <3>3
  <2> HIDE DEF h
  <2> QED BY <1>1, <1>4, <2>1 DEF Filled
<1>6. RequestOK'
  BY <1>1, <1>2, <1>5, SameAnswer DEF RequestOK
<1> QED BY <1>3, <1>6

(* The request or the failure goes to the loop.                            *)
LEMMA ReturnKeeps ==
  ASSUME RequestInv, Return \/ Leave \/ NextFailed \/ Handle \/ Again \/ Abort
  PROVE  RequestInv'
<1> USE DEF RequestInv, Moves, Looking
<1>1. CASE Return
  <2>1. /\ at = "return" /\ at' = "leave" /\ UNCHANGED <<index, answer, req, handled>>
        /\ Construct("next", TRUE, req)
    BY <1>1 DEF Return
  <2>2. /\ Shapes(store)' /\ \A p \in Objects : p # "next" => store'[p] = store[p]
        /\ store'["next"].made /\ store'["next"].success = TRUE /\ store'["next"].value = req
    BY <2>1, LocalsAssumption, Constructs DEF Locals
  <2>3. Locals'
    BY <2>1, <2>2, LocalsAssumption DEF Locals
  <2>4. RequestOK'
    BY <2>1, <2>2, SameAnswer DEF RequestOK
  <2> QED BY <2>3, <2>4
<1>2. CASE Leave
  <2>1. /\ at = "leave" /\ at' = "returned" /\ UNCHANGED <<index, answer, req, handled>>
        /\ Destroy("out")
    BY <1>2 DEF Leave
  <2>2. Shapes(store)' /\ (\A p \in Objects : p # "out" => store'[p] = store[p]) /\ ~store'["out"].made
    BY <2>1, LocalsAssumption, Destroys DEF Locals
  <2>3. Locals'
    BY <2>1, <2>2, LocalsAssumption DEF Locals
  <2>4. RequestOK'
    BY <2>1, <2>2, LocalsAssumption, SameAnswer DEF RequestOK
  <2> QED BY <2>3, <2>4
<1>3. CASE NextFailed
  <2>1. Locals'
    BY <1>3 DEF NextFailed, Locals, Shapes
  <2>2. RequestOK'
    BY <1>3, SameAnswer DEF NextFailed, RequestOK
  <2> QED BY <2>1, <2>2
<1>4. CASE Handle
  <2>1. /\ at = "returned" /\ at' = "again" /\ UNCHANGED <<index, answer, req>>
        /\ handled' = [is |-> "request", request |-> store["next"].value]
        /\ Take("next", TRUE)
    BY <1>4 DEF Handle
  <2>2. /\ Shapes(store)' /\ (\A p \in Objects : p # "next" => store'[p] = store[p])
        /\ store'["next"].made /\ store["next"].success
    BY <2>1, LocalsAssumption, Takes DEF Locals
  <2>3. Locals'
    BY <2>1, <2>2, LocalsAssumption DEF Locals
  <2>4. RequestOK'
    BY <2>1, <2>2, SameAnswer DEF RequestOK
  <2> QED BY <2>3, <2>4
<1>5. CASE Again
  <2>1. at = "again" /\ at' = "perform" /\ Destroy("next")
    BY <1>5 DEF Again
  <2>2. Shapes(store)' /\ (\A p \in Objects : p # "next" => store'[p] = store[p]) /\ ~store'["next"].made
    BY <2>1, LocalsAssumption, Destroys DEF Locals
  <2>3. Locals'
    BY <2>1, <2>2, LocalsAssumption DEF Locals
  <2>4. RequestOK'
    BY <1>5 DEF Again, RequestOK, Answers
  <2> QED BY <2>3, <2>4
<1>6. CASE Abort
  <2>1. Locals'
    BY <1>6 DEF Abort, Locals, Shapes
  <2>2. RequestOK'
    BY <1>6, SameAnswer DEF Abort, RequestOK
  <2> QED BY <2>1, <2>2
<1> QED BY <1>1, <1>2, <1>3, <1>4, <1>5, <1>6

(* Every statement of get_next() and of its caller keeps the invariant.    *)
LEMMA RequestStep == RequestInv /\ [RequestNext]_requestVars => RequestInv'
<1>1. ASSUME RequestInv, UNCHANGED requestVars PROVE RequestInv'
  <2> USE <1>1 DEF requestVars, RequestInv
  <2>1. Locals'
    BY DEF Locals, Shapes
  <2>2. RequestOK'
    BY SameAnswer DEF RequestOK, Finds
  <2> QED BY <2>1, <2>2
<1> QED
  BY <1>1, PerformKeeps, FindKeeps, TakeIdKeeps, AssignKeeps, UseKeeps, ReturnKeeps DEF RequestNext

(* The handler's request is the answer's.                                  *)
THEOREM HandlersGetTheAnswer == RequestSpec => []RequestIsTheAnswer
<1>1. RequestInv => RequestIsTheAnswer
  <2> SUFFICES ASSUME RequestInv PROVE RequestIsTheAnswer
    OBVIOUS
  <2>1. /\ "payload" \in Fields /\ "content_type" \in Fields /\ Later(8) = {}
        /\ \A f \in Others : f \in Fields /\ f \notin {DEADLINE, "payload", "content_type"}
    BY Headers DEF Fields, REQUEST_ID, DEADLINE
  <2>2. CASE at = "again" /\ handled.is = "request"
    <3>1. Usable /\ handled.request = Filled(8)
      BY <2>2 DEF RequestInv, RequestOK
    <3> QED BY <2>1, <2>2, <3>1 DEF RequestIsTheAnswer, Filled, FieldOf, Usable, REQUEST_ID, DEADLINE
  <2>3. CASE at = "again" /\ handled.is = "failure"
    <3>1. ~Usable /\ handled.code = Failure
      BY <2>3 DEF RequestInv, RequestOK
    <3> QED BY <2>3, <3>1 DEF RequestIsTheAnswer, Usable, Failure
  <2>4. CASE handled.is = "nothing"
    BY <2>4 DEF RequestIsTheAnswer
  <2> QED BY <2>2, <2>3, <2>4 DEF RequestInv, RequestOK
<1> QED BY <1>1, RequestInvInit, RequestStep, PTL DEF RequestSpec

(* The handler's deadline is the header's, whatever its text and the width.*)
THEOREM HandlersDeadline == RequestSpec => []DeadlineIsHonest
<1>1. ASSUME RequestInv, handled.is = "request" PROVE DeadlineIsHonest
  <2>1. Usable /\ handled.request = Filled(8) /\ answer \in Answers
    BY <1>1 DEF RequestInv, RequestOK
  <2>2. answer.deadline \in Texts \cup {NaN, Absent}
    BY <2>1 DEF Answers, Usable, NoAnswer
  <2>3. handled.request["deadline"] = DeadlineOf(answer.deadline)
    BY <2>1, Headers DEF Filled, FieldOf, Fields, DEADLINE
  <2> QED BY <2>2, <2>3, DeadlinesAreHonest DEF Honest, DeadlineIsHonest
<1>2. RequestInv => DeadlineIsHonest
  BY <1>1 DEF DeadlineIsHonest
<1> QED BY <1>2, RequestInvInit, RequestStep, PTL DEF RequestSpec

-----------------------------------------------------------------------------
(* What a handler may have returned, and a POST of it.                     *)
Responses == {runtime_response(length, type, cause) :
                length \in PayloadLengths, type \in Types \cup {None, Json}, cause \in Causes \cup {None}}

Results == [by : {"handler"}, response : Responses, is_success : BOOLEAN]
           \cup [by : {"init"}, response : Responses]

Sent(of, id) == [endpoint |-> Endpoint(of), headers |-> Merged(HeadersOf(of.response, id)),
                 of |-> of, id |-> id]

PostInv == /\ res = NoResponse \/ res \in Results
           /\ request = NothingSent \/ \E of \in Results, id \in Ids \cup {None} : request = Sent(of, id)

(* The entries of a list, and those of the one that do_post() makes.       *)
LEMMA Joined ==
  ASSUME NEW S, NEW s \in Seq(S), NEW t \in Seq(S)
  PROVE  s \o t \in Seq(S) /\ InList(s \o t) = InList(s) \cup InList(t)
<1> DEFINE u == s \o t
<1>1. u \in Seq(S) /\ Len(u) = Len(s) + Len(t)
  OBVIOUS
<1>2. \A k \in 1 .. Len(u) : u[k] = IF k <= Len(s) THEN s[k] ELSE t[k - Len(s)]
  OBVIOUS
<1>3. \A k \in 1 .. Len(s) : u[k] = s[k] /\ k \in 1 .. Len(u)
  BY <1>1, <1>2
<1>4. \A k \in 1 .. Len(t) : u[k + Len(s)] = t[k] /\ k + Len(s) \in 1 .. Len(u)
  BY <1>1, <1>2
<1>5. \A k \in 1 .. Len(u) : k \in 1 .. Len(s) \/ k - Len(s) \in 1 .. Len(t)
  BY <1>1
<1>6. DOMAIN u = 1 .. Len(u) /\ DOMAIN s = 1 .. Len(s) /\ DOMAIN t = 1 .. Len(t)
  BY <1>1
<1> HIDE DEF u
<1>7. InList(u) \subseteq InList(s) \cup InList(t)
  BY <1>2, <1>5, <1>6 DEF InList
<1>8. InList(s) \subseteq InList(u)
  BY <1>3, <1>6 DEF InList
<1>9. InList(t) \subseteq InList(u)
  BY <1>4, <1>6 DEF InList
<1> QED BY <1>1, <1>7, <1>8, <1>9 DEF u

(* The entries of the list that do_post() makes.                           *)
LEMMA Entries ==
  ASSUME NEW response, NEW id
  PROVE  InList(HeadersOf(response, id)) =
           {<<"content-type", TypeOf(response.type)>>, <<"xray-error-cause", response.cause>>,
            <<"expect", None>>, <<"transfer-encoding", None>>, <<"user-agent", "AWS_Lambda_Cpp">>,
            <<"content-length", response.length>>}
           \cup (IF id = None THEN {} ELSE {<<"invocation-id", id>>})
<1> DEFINE a == <<"content-type", TypeOf(response.type)>>
           b == <<"xray-error-cause", response.cause>>
           c == <<"expect", None>>
           d == <<"transfer-encoding", None>>
           e == <<"user-agent", "AWS_Lambda_Cpp">>
           f == <<"invocation-id", id>>
           g == <<"content-length", response.length>>
           S == {a, b, c, d, e, f, g}
           last == IF id = None THEN <<>> ELSE <<f>>
<1>1. HeadersOf(response, id) = <<a, b>> \o <<c, d>> \o <<e>> \o last \o <<g>>
  BY DEF HeadersOf, Disabled
<1> HIDE DEF a, b, c, d, e, f, g
<1> DEFINE p == <<a, b>>
           q == <<c, d>>
           r == <<e>>
           z == <<g>>
<1>2. p \in Seq(S) /\ q \in Seq(S) /\ r \in Seq(S) /\ z \in Seq(S)
  OBVIOUS
<1>3. last \in Seq(S)
  <2>1. CASE id = None
    BY <2>1
  <2>2. CASE id # None
    BY <2>2
  <2> QED BY <2>1, <2>2
<1>4. InList(p) = {a, b} /\ InList(q) = {c, d}
  BY DEF InList
<1>5. InList(r) = {e} /\ InList(z) = {g}
  BY DEF InList
<1>6. InList(last) = IF id = None THEN {} ELSE {f}
  <2>1. CASE id = None
    BY <2>1 DEF InList
  <2>2. CASE id # None
    BY <2>2 DEF InList
  <2> QED BY <2>1, <2>2
<1> HIDE DEF S, last, p, q, r, z
<1>7. p \o q \in Seq(S) /\ InList(p \o q) = InList(p) \cup InList(q)
  BY <1>2, Joined
<1> DEFINE s1 == p \o q
           s2 == s1 \o r
           s3 == s2 \o last
<1> HIDE DEF s1, s2, s3
<1>8. s2 \in Seq(S) /\ InList(s2) = InList(s1) \cup InList(r)
  <2>1. s1 \in Seq(S)
    BY <1>7 DEF s1
  <2> QED BY <1>2, <2>1, Joined DEF s2
<1>9. s3 \in Seq(S) /\ InList(s3) = InList(s2) \cup InList(last)
  BY <1>3, <1>8, Joined DEF s3
<1>10. InList(s3 \o z) = InList(s3) \cup InList(z)
  BY <1>2, <1>9, Joined
<1>11. HeadersOf(response, id) = s3 \o z
  BY <1>1 DEF p, q, r, z, s1, s2, s3
<1>12. InList(HeadersOf(response, id)) = {a, b, c, d, e, g} \cup InList(last)
  <2>1. InList(s1) = {a, b, c, d}
    BY <1>4, <1>7 DEF s1
  <2> QED BY <1>5, <1>8, <1>9, <1>10, <1>11, <2>1
<1> QED BY <1>6, <1>12 DEF a, b, c, d, e, f, g

(* curl's own headers are all replaced.                                    *)
LEMMA MergedIs ==
  ASSUME NEW response, NEW id, response.length # None
  PROVE  Merged(HeadersOf(response, id)) =
           {<<"content-type", TypeOf(response.type)>>, <<"user-agent", "AWS_Lambda_Cpp">>,
            <<"content-length", response.length>>}
           \cup (IF id = None THEN {} ELSE {<<"invocation-id", id>>})
           \cup (IF response.cause = None THEN {} ELSE {<<"xray-error-cause", response.cause>>})
<1> DEFINE L == InList(HeadersOf(response, id))
<1>1. TypeOf(response.type) # None /\ "AWS_Lambda_Cpp" # None
  BY DEF TypeOf, Html, None
<1>2. ASSUME NEW h \in OfCurl PROVE \E l \in L : l[1] = h[1]
  <2>1. /\ <<"content-type", TypeOf(response.type)>> \in L /\ <<"expect", None>> \in L
        /\ <<"transfer-encoding", None>> \in L
    BY Entries
  <2>2. h[1] \in {"content-type", "expect", "transfer-encoding"}
    BY DEF OfCurl
  <2> HIDE DEF L
  <2> QED BY <2>1, <2>2
<1>3. Merged(HeadersOf(response, id)) = {h \in L : h[2] # None}
  BY <1>2 DEF Merged
<1> QED BY <1>1, <1>3, Entries

(* PostResult: the invariant holds initially.                              *)
LEMMA PostInvInit == PostInit => PostInv
BY DEF PostInit, PostInv

(* PostResult: every step keeps the invariant.                             *)
LEMMA PostStep == PostInv /\ [PostNext]_postVars => PostInv'
<1> SUFFICES ASSUME PostInv, [PostNext]_postVars PROVE PostInv'
  OBVIOUS
<1>1. CASE Respond
  <2>1. PICK length \in PayloadLengths, type \in Types \cup {None, Json}, cause \in Causes \cup {None} :
          \/ \E ok \in BOOLEAN :
               res' = [by |-> "handler", response |-> runtime_response(length, type, cause), is_success |-> ok]
          \/ res' = [by |-> "init", response |-> runtime_response(length, type, cause)]
    BY <1>1 DEF Respond, invocation_response, success, failure
  <2>2. runtime_response(length, type, cause) \in Responses
    BY DEF Responses
  <2>3. res' \in Results
    BY <2>1, <2>2 DEF Results
  <2> QED BY <1>1, <2>3 DEF Respond, PostInv
<1>2. CASE Done
  BY <1>2 DEF Done, PostInv
<1>3. ASSUME NEW id \in Ids \cup {None}, do_post(id) PROVE PostInv'
  <2>1. res \in Results /\ res' = res /\ request' = Sent(res, id)
    BY <1>3 DEF do_post, PostInv, Sent
  <2> QED BY <2>1 DEF PostInv
<1>4. CASE UNCHANGED postVars
  BY <1>4 DEF postVars, PostInv
<1> QED BY <1>1, <1>2, <1>3, <1>4 DEF PostNext

(* What is in a POST, by name.                                             *)
LEMMA InPost ==
  ASSUME NEW of \in Results, NEW id \in Ids \cup {None}, request = Sent(of, id)
  PROVE  /\ request.of = of /\ request.id = id
         /\ ValuesOf("content-length") = {of.response.length}
         /\ ValuesOf("transfer-encoding") = {} /\ ValuesOf("expect") = {}
         /\ ValuesOf("content-type") = {TypeOf(of.response.type)}
         /\ ValuesOf("xray-error-cause") = {of.response.cause} \ {None}
         /\ ValuesOf("invocation-id") = {id} \ {None}
         /\ request.endpoint = Endpoint(of)
<1> DEFINE r == of.response
<1>1. r.length # None
  BY LengthsAssumption DEF Results, Responses, runtime_response
<1>2. /\ request.headers = Merged(HeadersOf(r, id)) /\ request.of = of /\ request.id = id
      /\ request.endpoint = Endpoint(of)
  BY DEF Sent
<1> HIDE DEF r
<1>3. request.headers =
        {<<"content-type", TypeOf(r.type)>>, <<"user-agent", "AWS_Lambda_Cpp">>,
         <<"content-length", r.length>>}
        \cup (IF id = None THEN {} ELSE {<<"invocation-id", id>>})
        \cup (IF r.cause = None THEN {} ELSE {<<"xray-error-cause", r.cause>>})
  BY <1>1, <1>2, MergedIs
<1>4. ASSUME NEW name, NEW v
      PROVE  v \in ValuesOf(name) <=> <<name, v>> \in request.headers
  <2>1. v \in ValuesOf(name) <=> \E h \in request.headers : h[1] = name /\ h[2] = v
    BY DEF ValuesOf
  <2>2. \A h \in request.headers : h = <<h[1], h[2]>>
    BY <1>3
  <2> QED BY <2>1, <2>2
<1>5. ValuesOf("content-length") = {r.length} /\ ValuesOf("content-type") = {TypeOf(r.type)}
  <2>1. \A v : <<"content-length", v>> \in request.headers <=> v = r.length
    BY <1>3
  <2>2. \A v : <<"content-type", v>> \in request.headers <=> v = TypeOf(r.type)
    BY <1>3
  <2> QED BY <1>4, <2>1, <2>2
<1>6. ValuesOf("transfer-encoding") = {} /\ ValuesOf("expect") = {}
  <2>1. \A v : <<"transfer-encoding", v>> \notin request.headers /\ <<"expect", v>> \notin request.headers
    BY <1>3
  <2> QED BY <1>4, <2>1
<1>7. ValuesOf("xray-error-cause") = {r.cause} \ {None}
  <2>1. \A v : <<"xray-error-cause", v>> \in request.headers <=> v = r.cause /\ r.cause # None
    BY <1>3
  <2>2. \A v : v \in ValuesOf("xray-error-cause") <=> v \in {r.cause} \ {None}
    BY <1>4, <2>1
  <2> QED BY <2>2, Zenon
<1>8. ValuesOf("invocation-id") = {id} \ {None}
  <2>1. \A v : <<"invocation-id", v>> \in request.headers <=> v = id /\ id # None
    BY <1>3
  <2>2. \A v : v \in ValuesOf("invocation-id") <=> v \in {id} \ {None}
    BY <1>4, <2>1
  <2> QED BY <2>2, Zenon
<1> QED BY <1>2, <1>5, <1>6, <1>7, <1>8 DEF r

(* A POST says its body's length once and frames it by nothing else.       *)
THEOREM PostsAreFramed == PostSpec => []FramedByLength
<1>1. PostInv => FramedByLength
  BY InPost DEF PostInv, FramedByLength
<1> QED BY <1>1, PostInvInit, PostStep, PTL DEF PostSpec

(* A POST says what the handler said.                                      *)
THEOREM PostsAreTheResult == PostSpec => []SaysWhatHandlerSaid
<1>1. ASSUME NEW of \in Results, NEW id \in Ids \cup {None}, request = Sent(of, id)
      PROVE  SaysWhatHandlerSaid
  <2>1. Endpoint(of) = "response" <=> of.by = "handler" /\ of.is_success
    <3>1. CASE of.by = "init"
      BY <3>1 DEF Endpoint
    <3>2. CASE of.by = "handler" /\ of.is_success
      BY <3>2 DEF Endpoint
    <3>3. CASE of.by = "handler" /\ ~of.is_success
      BY <3>3 DEF Endpoint
    <3>4. of.by \in {"init", "handler"}
      BY DEF Results
    <3> QED BY <3>1, <3>2, <3>3, <3>4
  <2> QED BY <1>1, <2>1, InPost DEF SaysWhatHandlerSaid, TypeOf
<1>2. PostInv => SaysWhatHandlerSaid
  BY <1>1 DEF PostInv, SaysWhatHandlerSaid
<1> QED BY <1>2, PostInvInit, PostStep, PTL DEF PostSpec

-----------------------------------------------------------------------------
(* A set of numbers that is not empty has a least one, which Min() is, and *)
(* a greatest one if it has a bound.                                       *)
LEMMA HasLeast ==
  ASSUME NEW S \in SUBSET Nat, S # {}
  PROVE  Min(S) \in S /\ \A x \in S : Min(S) <= x
<1> DEFINE R == {p \in Nat \X Nat : p[1] < p[2]}
<1>1. R = OpToRel(<, Nat)
  BY DEF OpToRel
<1>2. IsWellFoundedOn(R, Nat)
  BY <1>1, NatLessThanWellFounded
<1>3. PICK m \in S : \A x \in S : <<x, m>> \notin R
  BY <1>2, WFMin
<1>4. \A x \in S : x \in Nat /\ m \in Nat /\ ~(x < m)
  BY <1>3
<1>5. \A x \in S : m <= x
  BY <1>4
<1>6. \E y \in S : \A x \in S : y <= x
  BY <1>5
<1> QED BY <1>6, Zenon DEF Min

(* The same from above.                                                    *)
LEMMA HasGreatest ==
  ASSUME NEW n \in Nat, NEW S \in SUBSET (0 .. n), S # {}
  PROVE  Max(S) \in S /\ \A x \in S : x <= Max(S)
<1> DEFINE T == {n - x : x \in S}
<1>0. \A x \in S : x \in 0 .. n /\ x \in Int /\ n - x \in Nat
  OBVIOUS
<1>1. T \in SUBSET Nat /\ T # {}
  BY <1>0
<1>2. Min(T) \in T /\ \A y \in T : Min(T) <= y
  <2> HIDE DEF T
  <2> QED BY <1>1, HasLeast
<1>3. PICK m \in S : Min(T) = n - m
  BY <1>2
<1>4. \A x \in S : n - m <= n - x
  BY <1>2, <1>3
<1>5. \A x \in S : m >= x
  BY <1>0, <1>4
<1>6. \E y \in S : \A x \in S : y >= x
  BY <1>5
<1>7. Max(S) \in S /\ \A x \in S : Max(S) >= x
  BY <1>6, Zenon DEF Max
<1> QED BY <1>7

(* A length is a number.                                                   *)
LEMMA LenNat == \A S : \A s \in Seq(S) : Len(s) \in Nat
OBVIOUS

(* What trim() leaves is padded, and nothing else is.                      *)
LEMMA TrimIsPadded ==
  ASSUME NEW S, NEW s \in Seq(S)
  PROVE  /\ IsPadded(s, trim(s)) /\ trim(s) \in Seq(S)
         /\ \E i \in 0 .. Len(s), j \in 0 .. Len(s) : trim(s) = SubSeq(s, i + 1, j)
<1> USE LenNat
<1>1. Inked(s) \in SUBSET (0 .. Len(s)) /\ Inked(s) \in SUBSET Nat /\ Len(s) \in Nat
  BY DEF Inked
<1>2. CASE Inked(s) = {}
  <2>1. trim(s) = <<>> /\ SubSeq(s, 1, 0) = <<>>
    BY <1>2 DEF trim
  <2>2. AllBlank(SubSeq(s, 1, 0)) /\ AllBlank(SubSeq(s, 1, Len(s)))
    BY <1>2 DEF AllBlank, Inked, is_whitespace
  <2> QED BY <1>1, <2>1, <2>2 DEF IsPadded
<1>3. CASE Inked(s) # {}
  <2> DEFINE a == Min(Inked(s))
             b == Max(Inked(s))
             x == SubSeq(s, a, b)
  <2>1. a \in Inked(s) /\ b \in Inked(s) /\ \A k \in Inked(s) : a <= k /\ k <= b
    BY <1>1, <1>3, HasLeast, HasGreatest
  <2>2. trim(s) = x
    BY <1>3 DEF trim
  <2> HIDE DEF a, b
  <2>3. a \in 1 .. Len(s) /\ b \in 1 .. Len(s) /\ a <= b /\ s[a] # Blank /\ s[b] # Blank
    BY <2>1 DEF Inked, is_whitespace
  <2>4. x \in Seq(S) /\ Len(x) = b - a + 1 /\ \A k \in 1 .. Len(x) : x[k] = s[a + k - 1]
    BY <2>3
  <2>5. x[1] = s[a] /\ x[Len(x)] = s[b]
    BY <2>3, <2>4
  <2>6. \A k \in 1 .. Len(s) : k < a \/ k > b => s[k] = Blank
    BY <2>1, <2>3 DEF Inked, is_whitespace
  <2>7. AllBlank(SubSeq(s, 1, a - 1))
    <3>1. Len(SubSeq(s, 1, a - 1)) = a - 1 /\ \A k \in 1 .. (a - 1) : SubSeq(s, 1, a - 1)[k] = s[k]
      BY <2>3
    <3> QED BY <2>3, <2>6, <3>1 DEF AllBlank
  <2>8. AllBlank(SubSeq(s, b + 1, Len(s)))
    <3>1. /\ Len(SubSeq(s, b + 1, Len(s))) = Len(s) - b
          /\ \A k \in 1 .. (Len(s) - b) : SubSeq(s, b + 1, Len(s))[k] = s[b + k]
      BY <2>3
    <3> QED BY <2>3, <2>6, <3>1 DEF AllBlank
  <2>9. \E i, j \in 0 .. Len(s) : /\ i <= j /\ x = SubSeq(s, i + 1, j)
                                  /\ AllBlank(SubSeq(s, 1, i)) /\ AllBlank(SubSeq(s, j + 1, Len(s)))
    <3>1. a - 1 \in 0 .. Len(s) /\ b \in 0 .. Len(s) /\ a - 1 <= b /\ (a - 1) + 1 = a
      BY <2>3
    <3> QED BY <2>7, <2>8, <3>1
  <2>10. IsPadded(s, x)
    BY <2>3, <2>5, <2>9 DEF IsPadded
  <2> QED BY <2>2, <2>4, <2>9, <2>10
<1> QED BY <1>2, <1>3

(* Only one text has pads around it and none at its ends.                 *)
LEMMA PaddedIsTrimmed ==
  ASSUME NEW S, NEW s \in Seq(S), NEW x, IsPadded(s, x)
  PROVE  x = trim(s)
<1> USE LenNat
<1>1. PICK i \in 0 .. Len(s), j \in 0 .. Len(s) :
        i <= j /\ x = SubSeq(s, i + 1, j) /\ AllBlank(SubSeq(s, 1, i)) /\ AllBlank(SubSeq(s, j + 1, Len(s)))
  BY DEF IsPadded
<1>2. Len(x) = j - i /\ x \in Seq(S) /\ \A k \in 1 .. Len(x) : x[k] = s[i + k]
  BY <1>1
<1>3. \A k \in 1 .. Len(s) : k <= i \/ k > j => s[k] = Blank
  <2>1. Len(SubSeq(s, 1, i)) = i /\ \A k \in 1 .. i : SubSeq(s, 1, i)[k] = s[k]
    OBVIOUS
  <2>2. \A k \in 1 .. i : s[k] = Blank
    BY <1>1, <2>1 DEF AllBlank
  <2>3. /\ Len(SubSeq(s, j + 1, Len(s))) = Len(s) - j
        /\ \A k \in 1 .. (Len(s) - j) : SubSeq(s, j + 1, Len(s))[k] = s[j + k]
    OBVIOUS
  <2>4. \A k \in 1 .. (Len(s) - j) : s[j + k] = Blank
    BY <1>1, <2>3 DEF AllBlank
  <2>5. \A k \in 1 .. Len(s) : k > j => s[k] = Blank
    <3> SUFFICES ASSUME NEW k \in 1 .. Len(s), k > j PROVE s[k] = Blank
      OBVIOUS
    <3>1. k - j \in 1 .. (Len(s) - j) /\ j + (k - j) = k
      OBVIOUS
    <3> QED BY <2>4, <3>1
  <2> QED BY <2>2, <2>5
<1>4. CASE i = j
  <2>1. x = <<>>
    BY <1>2, <1>4
  <2>2. Inked(s) = {}
    BY <1>3, <1>4 DEF Inked, is_whitespace
  <2> QED BY <2>1, <2>2 DEF trim
<1>5. CASE i < j
  <2>1. x # <<>> /\ x[1] = s[i + 1] /\ x[Len(x)] = s[j]
    BY <1>2, <1>5
  <2>2. s[i + 1] # Blank /\ s[j] # Blank
    BY <2>1 DEF IsPadded
  <2>3. i + 1 \in Inked(s) /\ j \in Inked(s) /\ \A k \in Inked(s) : i + 1 <= k /\ k <= j
    BY <1>3, <1>5, <2>2 DEF Inked, is_whitespace
  <2>4. Inked(s) \in SUBSET (0 .. Len(s)) /\ Inked(s) \in SUBSET Nat /\ Len(s) \in Nat
    BY DEF Inked
  <2>5. Min(Inked(s)) \in Inked(s) /\ \A k \in Inked(s) : Min(Inked(s)) <= k
    BY <2>3, <2>4, HasLeast
  <2>6. Max(Inked(s)) \in Inked(s) /\ \A k \in Inked(s) : k <= Max(Inked(s))
    BY <2>3, <2>4, HasGreatest
  <2>7. Min(Inked(s)) = i + 1 /\ Max(Inked(s)) = j
    BY <2>3, <2>4, <2>5, <2>6
  <2> QED BY <1>1, <2>3, <2>7 DEF trim
<1> QED BY <1>1, <1>4, <1>5

(* Sequences that are the same from one place to another.                  *)
LEMMA SamePart ==
  ASSUME NEW S, NEW s \in Seq(S), NEW t \in Seq(S), NEW a \in Nat \ {0}, NEW b \in Nat,
         b <= Len(s), b <= Len(t), \A k \in a .. b : s[k] = t[k]
  PROVE  SubSeq(s, a, b) = SubSeq(t, a, b)
<1> USE LenNat
<1> DEFINE p == SubSeq(s, a, b)
           q == SubSeq(t, a, b)
<1>1. p \in Seq(S) /\ Len(p) = (IF a <= b THEN b - a + 1 ELSE 0)
      /\ \A k \in 1 .. Len(p) : p[k] = s[a + k - 1]
  OBVIOUS
<1>2. q \in Seq(S) /\ Len(q) = (IF a <= b THEN b - a + 1 ELSE 0)
      /\ \A k \in 1 .. Len(q) : q[k] = t[a + k - 1]
  OBVIOUS
<1> HIDE DEF p, q
<1>3. \A k \in 1 .. Len(p) : a + k - 1 \in a .. b
  BY <1>1
<1>4. Len(p) = Len(q) /\ \A k \in 1 .. Len(p) : p[k] = q[k]
  BY <1>1, <1>2, <1>3
<1>5. p = q
  BY <1>1, <1>2, <1>4
<1> QED BY <1>5 DEF p, q

(* A line and the CR LF.                                                   *)
LEMMA WithCRLF ==
  ASSUME NEW s \in Seq(Chars)
  PROVE  /\ s \o CRLF \in Seq(Chars) /\ Len(s \o CRLF) = Len(s) + 2
         /\ \A k \in 1 .. (Len(s) + 2) : (s \o CRLF)[k] = IF k <= Len(s) THEN s[k] ELSE Blank
<1> USE LenNat
<1>1. CRLF \in Seq(Chars) /\ Len(CRLF) = 2 /\ \A k \in 1 .. 2 : CRLF[k] = Blank
  BY DEF CRLF, Chars
<1>2. \A t \in Seq(Chars) :
        /\ s \o t \in Seq(Chars) /\ Len(s \o t) = Len(s) + Len(t)
        /\ \A k \in 1 .. (Len(s) + Len(t)) : (s \o t)[k] = IF k <= Len(s) THEN s[k] ELSE t[k - Len(s)]
  OBVIOUS
<1> QED BY <1>1, <1>2

(* trim() takes the CR LF away with the other white space.                 *)
LEMMA TrimDropsCRLF ==
  ASSUME NEW s \in Seq(Chars)
  PROVE  trim(s \o CRLF) = trim(s)
<1> USE LenNat
<1>1. CRLF \in Seq(Chars) /\ Len(CRLF) = 2 /\ \A k \in 1 .. 2 : CRLF[k] = Blank
  BY DEF CRLF, Chars
<1>2. s \o CRLF \in Seq(Chars) /\ Len(s \o CRLF) = Len(s) + 2
      /\ \A k \in 1 .. (Len(s) + 2) : (s \o CRLF)[k] = IF k <= Len(s) THEN s[k] ELSE Blank
  BY WithCRLF
<1>4. Inked(s \o CRLF) = Inked(s)
  BY <1>2 DEF Inked, is_whitespace
<1>5. CASE Inked(s) = {}
  BY <1>4, <1>5 DEF trim
<1>6. CASE Inked(s) # {}
  <2> DEFINE a == Min(Inked(s))
             b == Max(Inked(s))
  <2>1. Inked(s) \in SUBSET (0 .. Len(s)) /\ Inked(s) \in SUBSET Nat
    BY DEF Inked
  <2>2. a \in Inked(s) /\ b \in Inked(s)
    BY <1>6, <2>1, HasLeast, HasGreatest
  <2>3. trim(s) = SubSeq(s, a, b) /\ trim(s \o CRLF) = SubSeq(s \o CRLF, a, b)
    BY <1>4, <1>6 DEF trim
  <2> HIDE DEF a, b
  <2>4. a \in 1 .. Len(s) /\ b \in 1 .. Len(s)
    BY <2>2 DEF Inked
  <2>5. SubSeq(s \o CRLF, a, b) = SubSeq(s, a, b)
    BY <1>2, <2>4
  <2> QED BY <2>3, <2>5
<1> QED BY <1>5, <1>6

(* The name and the value of a line that has a colon.                      *)
NameIn(s)  == trim(SubSeq(s, 1, SplitAt(s) - 1))
ValueIn(s) == trim(SubSeq(s, SplitAt(s) + 1, Len(s)))

(* The first colon, and the parts around it.                               *)
LEMMA Split ==
  ASSUME NEW s \in Seq(Chars), Colons(s) # {}
  PROVE  /\ SplitAt(s) \in 1 .. Len(s) /\ s[SplitAt(s)] = Colon
         /\ \A k \in 1 .. (SplitAt(s) - 1) : s[k] # Colon
         /\ SubSeq(s, 1, SplitAt(s) - 1) \in Seq(Chars)
         /\ SubSeq(s, SplitAt(s) + 1, Len(s)) \in Seq(Chars)
<1> USE LenNat
<1>1. Colons(s) \in SUBSET Nat
  BY DEF Colons
<1>2. SplitAt(s) \in Colons(s) /\ \A k \in Colons(s) : SplitAt(s) <= k
  BY <1>1, HasLeast DEF SplitAt
<1>3. SplitAt(s) \in 1 .. Len(s) /\ s[SplitAt(s)] = Colon
  BY <1>2 DEF Colons
<1>4. \A k \in 1 .. (SplitAt(s) - 1) : s[k] # Colon
  BY <1>2, <1>3 DEF Colons
<1> QED BY <1>3, <1>4

(* write_header() adds the name and the value of the line, whatever CR LF   *)
(* curl leaves at its end.                                                  *)
LEMMA WriteHeader ==
  ASSUME NEW s \in Seq(Chars), write_header(s \o CRLF)
  PROVE  m_headers' = IF Colons(s) = {} THEN m_headers
                      ELSE Append(m_headers, <<Lowered(NameIn(s)), ValueIn(s)>>)
<1> USE LenNat
<1> DEFINE l == s \o CRLF
           c == SplitAt(s)
<1>2. l \in Seq(Chars) /\ Len(l) = Len(s) + 2
  BY WithCRLF
<1>3. \A k \in 1 .. (Len(s) + 2) : l[k] = IF k <= Len(s) THEN s[k] ELSE Blank
  BY WithCRLF
<1>4. Blank # Colon
  BY Zenon DEF Blank, Colon
<1> HIDE DEF l
<1>5. Colons(l) = Colons(s)
  BY <1>2, <1>3, <1>4 DEF Colons
<1>6. SplitAt(l) = c
  BY <1>5 DEF SplitAt
<1>7. CASE Colons(s) = {}
  BY <1>5, <1>7 DEF write_header, l
<1>8. CASE Colons(s) # {}
  <2>1. m_headers' = Append(m_headers, <<Lowered(trim(SubSeq(l, 1, c - 1))), trim(SubSeq(l, c + 1, Len(l)))>>)
    BY <1>5, <1>6, <1>8 DEF write_header, add_header, l
  <2> HIDE DEF c
  <2>2. c \in 1 .. Len(s) /\ SubSeq(s, c + 1, Len(s)) \in Seq(Chars)
    BY <1>8, Split DEF c
  <2>3. SubSeq(l, 1, c - 1) = SubSeq(s, 1, c - 1)
    <3>1. c - 1 \in Nat /\ c - 1 <= Len(s) /\ c - 1 <= Len(l) /\ \A k \in 1 .. (c - 1) : l[k] = s[k]
      BY <1>2, <1>3, <2>2
    <3> QED BY <1>2, <3>1, SamePart
  <2>4. SubSeq(l, c + 1, Len(l)) = SubSeq(s, c + 1, Len(s)) \o CRLF
    <3> DEFINE p == SubSeq(l, c + 1, Len(l))
               q == SubSeq(s, c + 1, Len(s)) \o CRLF
    <3>1. p \in Seq(Chars) /\ Len(p) = Len(s) + 2 - c /\ \A k \in 1 .. Len(p) : p[k] = l[c + k]
      BY <1>2, <2>2
    <3>2. q \in Seq(Chars) /\ Len(q) = Len(s) + 2 - c
      BY <2>2, WithCRLF
    <3>3. \A k \in 1 .. Len(q) : q[k] = IF k <= Len(s) - c THEN s[c + k] ELSE Blank
      BY <2>2, WithCRLF
    <3> HIDE DEF p, q
    <3>4. \A k \in 1 .. Len(p) : p[k] = q[k]
      BY <1>3, <2>2, <3>1, <3>2, <3>3
    <3>5. p = q
      BY <3>1, <3>2, <3>4
    <3> QED BY <3>5 DEF p, q
  <2>5. trim(SubSeq(l, c + 1, Len(l))) = ValueIn(s)
    BY <2>2, <2>4, TrimDropsCRLF DEF ValueIn, c
  <2> QED BY <1>8, <2>1, <2>3, <2>5 DEF NameIn, c
<1> QED BY <1>7, <1>8

(* The names that are looked up are in lower case.                         *)
LEMMA InLowerCase ==
  ASSUME NEW name \in Names
  PROVE  name \in Seq({"n", "v"})
<1>1. <<>> \in Seq({"n", "v"}) /\ <<"n">> \in Seq({"n", "v"}) /\ <<"v">> \in Seq({"n", "v"})
      /\ <<"n", "n">> \in Seq({"n", "v"})
  OBVIOUS
<1> QED BY <1>1 DEF Names

(* Names that differ in case only are the same in lower case.              *)
LEMMA SameIsLowered ==
  ASSUME NEW name \in Names, NEW n \in Seq(Chars)
  PROVE  SameName(n, name) <=> Lowered(n) = name
<1> USE LenNat
<1>1. Lowered(n) \in Seq(Chars) /\ Len(Lowered(n)) = Len(n)
      /\ \A k \in 1 .. Len(n) : Lowered(n)[k] = IF n[k] = "N" THEN "n" ELSE n[k]
  BY DEF Lowered, Chars
<1>2. name \in Seq({"n", "v"}) /\ name \in Seq(Chars) /\ \A k \in 1 .. Len(name) : name[k] \in {"n", "v"}
  BY InLowerCase DEF Chars
<1>3. ASSUME NEW a, NEW b \in {"n", "v"}
      PROVE  a = b \/ {a, b} = {"n", "N"} <=> (IF a = "N" THEN "n" ELSE a) = b
  <2>1. CASE a = "N"
    BY <1>3, <2>1
  <2>2. CASE a # "N"
    BY <1>3, <2>2
  <2> QED BY <2>1, <2>2
<1>4. Lowered(n) = name <=> Len(n) = Len(name) /\ \A k \in 1 .. Len(n) : Lowered(n)[k] = name[k]
  BY <1>1, <1>2
<1>5. ASSUME Len(n) = Len(name)
      PROVE  \A k \in 1 .. Len(n) : (n[k] = name[k] \/ {n[k], name[k]} = {"n", "N"}) <=> Lowered(n)[k] = name[k]
  BY <1>1, <1>2, <1>3, <1>5
<1> QED BY <1>4, <1>5 DEF SameName

(* A part of a part.                                                       *)
LEMMA PartOfPart ==
  ASSUME NEW S, NEW s \in Seq(S), NEW a \in 1 .. (Len(s) + 1), NEW b \in 0 .. Len(s), a <= b + 1,
         NEW i \in 0 .. (b - a + 1), NEW j \in 0 .. (b - a + 1)
  PROVE  SubSeq(SubSeq(s, a, b), i + 1, j) = SubSeq(s, a + i, a + j - 1)
<1> USE LenNat
<1> DEFINE p == SubSeq(s, a, b)
           q == SubSeq(p, i + 1, j)
           r == SubSeq(s, a + i, a + j - 1)
<1>1. p \in Seq(S) /\ Len(p) = b - a + 1 /\ \A k \in 1 .. Len(p) : p[k] = s[a + k - 1]
  OBVIOUS
<1> HIDE DEF p
<1>2. q \in Seq(S) /\ Len(q) = IF i < j THEN j - i ELSE 0
  BY <1>1
<1>3. \A k \in 1 .. Len(q) : q[k] = p[i + k]
  BY <1>1
<1>4. r \in Seq(S) /\ Len(r) = IF i < j THEN j - i ELSE 0
  OBVIOUS
<1>5. \A k \in 1 .. Len(r) : r[k] = s[a + i + k - 1]
  OBVIOUS
<1> HIDE DEF q, r
<1>6. \A k \in 1 .. Len(q) : i + k \in 1 .. Len(p) /\ a + (i + k) - 1 = a + i + k - 1
  <2> SUFFICES ASSUME NEW k \in 1 .. Len(q) PROVE i + k \in 1 .. Len(p) /\ a + (i + k) - 1 = a + i + k - 1
    OBVIOUS
  <2>1. Len(s) \in Nat /\ a \in Int /\ b \in Int /\ i \in Nat /\ j \in Nat /\ j <= Len(p)
    BY <1>1
  <2>2. k \in Nat \ {0} /\ k <= j - i
    BY <1>2, <2>1
  <2> QED BY <1>1, <2>1, <2>2
<1>7. \A k \in 1 .. Len(q) : q[k] = r[k]
  <2> SUFFICES ASSUME NEW k \in 1 .. Len(q) PROVE q[k] = r[k]
    OBVIOUS
  <2>1. k \in 1 .. Len(r)
    BY <1>2, <1>4
  <2>2. q[k] = p[i + k] /\ p[i + k] = s[a + (i + k) - 1] /\ r[k] = s[a + i + k - 1]
    BY <1>1, <1>3, <1>5, <1>6, <2>1
  <2> QED BY <1>6, <2>2
<1>8. q = r
  BY <1>2, <1>4, <1>7
<1> QED BY <1>8 DEF p, q, r

(* What write_header() makes of a line is what the line says, and the only *)
(* thing it says.                                                          *)
Tells(s, name) == Colons(s) # {} /\ Lowered(NameIn(s)) = name

(* Tells() is what Says() says, with the value it says.                    *)
LEMMA TellsIsSays ==
  ASSUME NEW s \in Seq(Chars), NEW name \in Names
  PROVE  /\ \A value : Says(s, name, value) => Tells(s, name)
         /\ Tells(s, name) => /\ Says(s, name, ValueIn(s))
                              /\ \E i, j \in 0 .. Len(s) : Says(s, name, SubSeq(s, i + 1, j))
<1> USE LenNat
<1>1. ASSUME NEW value, Says(s, name, value) PROVE Tells(s, name)
  <2>1. PICK c \in 1 .. Len(s) :
          /\ s[c] = Colon /\ \A k \in 1 .. (c - 1) : s[k] # Colon
          /\ \E i \in 1 .. c, j \in 0 .. (c - 1) : /\ SameName(SubSeq(s, i, j), name)
                                                 /\ IsPadded(SubSeq(s, 1, c - 1), SubSeq(s, i, j))
    BY <1>1, Zenon DEF Says
  <2>2. Colons(s) # {}
    BY <2>1 DEF Colons
  <2>3. SplitAt(s) = c
    BY <2>1, <2>2, Split
  <2>4. SubSeq(s, 1, c - 1) \in Seq(Chars)
    OBVIOUS
  <2>5. PICK n : IsPadded(SubSeq(s, 1, c - 1), n) /\ SameName(n, name)
    BY <2>1
  <2>6. n = NameIn(s) /\ n \in Seq(Chars)
    BY <2>3, <2>4, <2>5, PaddedIsTrimmed, TrimIsPadded DEF NameIn
  <2> QED BY <2>2, <2>5, <2>6, SameIsLowered DEF Tells
<1>2. ASSUME Tells(s, name)
      PROVE  /\ Says(s, name, ValueIn(s))
             /\ \E i, j \in 0 .. Len(s) : Says(s, name, SubSeq(s, i + 1, j))
  <2> DEFINE c == SplitAt(s)
             p == SubSeq(s, 1, c - 1)
             v == SubSeq(s, c + 1, Len(s))
  <2>1. /\ c \in 1 .. Len(s) /\ s[c] = Colon /\ \A k \in 1 .. (c - 1) : s[k] # Colon
        /\ p \in Seq(Chars) /\ v \in Seq(Chars)
    BY <1>2, Split DEF Tells
  <2> HIDE DEF c
  <2>2. Len(p) = c - 1 /\ Len(v) = Len(s) - c
    BY <2>1
  <2>3. NameIn(s) = trim(p) /\ ValueIn(s) = trim(v)
    BY DEF NameIn, ValueIn, c
  <2>4. IsPadded(p, NameIn(s)) /\ NameIn(s) \in Seq(Chars) /\ IsPadded(v, ValueIn(s))
    BY <2>1, <2>3, TrimIsPadded
  <2>5. SameName(NameIn(s), name)
    BY <1>2, <2>4, SameIsLowered DEF Tells
  <2>6. \E i \in 1 .. c, j \in 0 .. (c - 1) : NameIn(s) = SubSeq(s, i, j)
    <3>1. PICK i \in 0 .. (c - 1), j \in 0 .. (c - 1) : NameIn(s) = SubSeq(p, i + 1, j)
      BY <2>1, <2>2, <2>3, TrimIsPadded
    <3>2. SubSeq(p, i + 1, j) = SubSeq(s, 1 + i, 1 + j - 1)
      <4>1. 1 \in 1 .. (Len(s) + 1) /\ c - 1 \in 0 .. Len(s) /\ 1 <= (c - 1) + 1
            /\ (c - 1) - 1 + 1 = c - 1
        BY <2>1
      <4> QED BY <4>1, PartOfPart
    <3>3. 1 + i \in 1 .. c /\ 1 + j - 1 \in 0 .. (c - 1)
      BY <2>1
    <3> QED BY <3>1, <3>2, <3>3, Zenon
  <2>7. \E i \in 0 .. Len(s), j \in 0 .. Len(s) : ValueIn(s) = SubSeq(s, i + 1, j)
    <3>1. PICK i \in 0 .. (Len(s) - c), j \in 0 .. (Len(s) - c) : ValueIn(s) = SubSeq(v, i + 1, j)
      BY <2>1, <2>2, <2>3, TrimIsPadded
    <3>2. SubSeq(v, i + 1, j) = SubSeq(s, (c + 1) + i, (c + 1) + j - 1)
      <4> DEFINE a == c + 1
      <4>1. a \in 1 .. (Len(s) + 1) /\ Len(s) \in 0 .. Len(s) /\ a <= Len(s) + 1
            /\ i \in 0 .. (Len(s) - a + 1) /\ j \in 0 .. (Len(s) - a + 1)
        BY <2>1
      <4>2. v = SubSeq(s, a, Len(s))
        OBVIOUS
      <4> HIDE DEF a, v
      <4>3. SubSeq(v, i + 1, j) = SubSeq(s, a + i, a + j - 1)
        BY <4>1, <4>2, PartOfPart
      <4> QED BY <4>3 DEF a
    <3>3. c + i \in 0 .. Len(s) /\ c + j \in 0 .. Len(s) /\ (c + 1) + i = (c + i) + 1 /\ (c + 1) + j - 1 = c + j
      BY <2>1
    <3> QED BY <3>1, <3>2, <3>3
  <2>8. Says(s, name, ValueIn(s))
    <3> HIDE DEF p, v
    <3>1. \E i \in 1 .. c, j \in 0 .. (c - 1) : SameName(SubSeq(s, i, j), name) /\ IsPadded(p, SubSeq(s, i, j))
      BY <2>4, <2>5, <2>6, Zenon
    <3> QED BY <2>1, <2>4, <3>1, Zenon DEF Says, p, v
  <2> QED BY <2>7, <2>8
<1> QED BY <1>1, <1>2

(* The lines so far that tell a name.                                      *)
Telling(name) == {k \in 1 .. Len(received) : Tells(received[k], name)}

(* The first header of a name is the one of the first line that tells it.  *)
Found(name) ==
  /\ Telling(name) = {} <=> Matches(name) = {}
  /\ Telling(name) # {} => m_headers[Min(Matches(name))][2] = ValueIn(received[Min(Telling(name))])

HeadersInv ==
  /\ line \in Seq(Chars) /\ received \in Seq(Seq(Chars)) /\ m_headers \in Seq(Seq(Chars) \X Seq(Chars))
  /\ \A name \in Names : Found(name)

(* HttpResponse: the invariant holds initially.                            *)
LEMMA HeadersInvInit == HeadersInit => HeadersInv
BY DEF HeadersInit, HeadersInv, Found, Telling, Matches

(* One more at the end is not the first, unless it is the only one.        *)
LEMMA FirstOfMore ==
  ASSUME NEW n \in Nat, NEW S \in SUBSET (1 .. n)
  PROVE  Min(S \cup {n + 1}) = IF S = {} THEN n + 1 ELSE Min(S)
<1> DEFINE T == S \cup {n + 1}
<1>1. T \in SUBSET Nat /\ T # {} /\ S \in SUBSET Nat
  OBVIOUS
<1>2. Min(T) \in T /\ \A x \in T : Min(T) <= x
  <2> HIDE DEF T
  <2> QED BY <1>1, HasLeast
<1>3. CASE S = {}
  BY <1>2, <1>3
<1>4. CASE S # {}
  <2>1. Min(S) \in S /\ \A x \in S : Min(S) <= x
    BY <1>1, <1>4, HasLeast
  <2>2. \A a, b : /\ a \in T /\ \A x \in T : a <= x
                  /\ b \in S /\ \A x \in S : b <= x
                  => a = b
    <3> SUFFICES ASSUME NEW a \in T, \A x \in T : a <= x, NEW b \in S, \A x \in S : b <= x
                 PROVE  a = b
      BY Zenon
    <3>1. b \in 1 .. n /\ b \in T /\ a <= b /\ a \in Nat
      OBVIOUS
    <3>2. a \in S
      BY <3>1
    <3>3. b <= a
      BY <3>2
    <3> QED BY <3>1, <3>3
  <2> HIDE DEF T
  <2>3. Min(T) = Min(S)
    BY <1>2, <2>1, <2>2, Zenon
  <2> QED BY <1>4, <2>3 DEF T
<1> QED BY <1>3, <1>4

(* HttpResponse: every step keeps the invariant.                           *)
LEMMA HeadersStep == HeadersInv /\ [HeadersNext]_headersVars => HeadersInv'
<1> USE LenNat
<1> SUFFICES ASSUME HeadersInv, [HeadersNext]_headersVars PROVE HeadersInv'
  OBVIOUS
<1>1. CASE UNCHANGED headersVars
  BY <1>1 DEF HeadersInv, headersVars, Found, Telling, Matches
<1>2. ASSUME NEW ch \in Chars, Receive(ch) PROVE HeadersInv'
  <2>1. line' \in Seq(Chars) /\ received' = received /\ m_headers' = m_headers
    BY <1>2 DEF HeadersInv, Receive
  <2>2. \A name \in Names : Found(name)'
    BY <2>1 DEF HeadersInv, Found, Telling, Matches
  <2> QED BY <2>1, <2>2 DEF HeadersInv
<1>3. CASE EndOfLine
  <2> DEFINE n == Len(received)
             m == Len(m_headers)
             h == <<Lowered(NameIn(line)), ValueIn(line)>>
  <2>1. line \in Seq(Chars) /\ received \in Seq(Seq(Chars)) /\ m_headers \in Seq(Seq(Chars) \X Seq(Chars))
    BY DEF HeadersInv
  <2>2. /\ line' = <<>> /\ received' = Append(received, line)
        /\ m_headers' = IF Colons(line) = {} THEN m_headers ELSE Append(m_headers, h)
    BY <1>3, <2>1, WriteHeader DEF EndOfLine
  <2>3. received' \in Seq(Seq(Chars)) /\ Len(received') = n + 1 /\ received'[n + 1] = line
        /\ \A k \in 1 .. n : received'[k] = received[k]
    BY <2>1, <2>2
  <2>4. Colons(line) # {} => h \in Seq(Chars) \X Seq(Chars)
    <3> SUFFICES ASSUME Colons(line) # {} PROVE h \in Seq(Chars) \X Seq(Chars)
      OBVIOUS
    <3>1. NameIn(line) \in Seq(Chars) /\ ValueIn(line) \in Seq(Chars)
      BY <2>1, Split, TrimIsPadded DEF NameIn, ValueIn
    <3>2. Lowered(NameIn(line)) \in Seq(Chars)
      BY <3>1 DEF Lowered, Chars
    <3> QED BY <3>1, <3>2
  <2> HIDE DEF h
  <2>5. m_headers' \in Seq(Seq(Chars) \X Seq(Chars))
    BY <2>1, <2>2, <2>4
  <2>6. ASSUME NEW name \in Names PROVE Found(name)'
    <3>1. Found(name) /\ Telling(name) \in SUBSET (1 .. n) /\ Matches(name) \in SUBSET (1 .. m)
          /\ n \in Nat /\ m \in Nat
      BY <2>1, <2>6 DEF HeadersInv, Telling, Matches
    <3>2. Telling(name)' = IF Tells(line, name) THEN Telling(name) \cup {n + 1} ELSE Telling(name)
      BY <2>3, <3>1 DEF Telling
    <3>3. CASE Tells(line, name)
      <4>1. m_headers' = Append(m_headers, h) /\ h[1] = name /\ h[2] = ValueIn(line)
        BY <2>2, <3>3 DEF Tells, h
      <4>2. Len(m_headers') = m + 1 /\ m_headers'[m + 1] = h /\ \A k \in 1 .. m : m_headers'[k] = m_headers[k]
        BY <2>1, <4>1
      <4>3. Matches(name)' = Matches(name) \cup {m + 1}
        BY <3>1, <4>1, <4>2 DEF Matches
      <4>4. CASE Telling(name) = {}
        <5>1. Min(Telling(name)') = n + 1 /\ Min(Matches(name)') = m + 1
          BY <3>1, <3>2, <3>3, <4>3, <4>4, FirstOfMore DEF Found
        <5> QED BY <2>3, <3>2, <3>3, <4>1, <4>2, <4>3, <5>1 DEF Found
      <4>5. CASE Telling(name) # {}
        <5>1. Min(Telling(name)') = Min(Telling(name)) /\ Min(Matches(name)') = Min(Matches(name))
          BY <3>1, <3>2, <3>3, <4>3, <4>5, FirstOfMore DEF Found
        <5>2. Min(Telling(name)) \in 1 .. n /\ Min(Matches(name)) \in 1 .. m
          BY <3>1, <4>5, HasLeast DEF Found
        <5> QED BY <2>3, <3>1, <3>2, <3>3, <4>2, <4>3, <4>5, <5>1, <5>2 DEF Found
      <4> QED BY <4>4, <4>5
    <3>4. CASE ~Tells(line, name)
      <4>1. Matches(name)' = Matches(name) /\ \A k \in Matches(name) : m_headers'[k] = m_headers[k]
        <5>1. CASE Colons(line) = {}
          BY <2>2, <5>1 DEF Matches
        <5>2. CASE Colons(line) # {}
          <6>1. m_headers' = Append(m_headers, h) /\ h[1] # name
            BY <2>2, <3>4, <5>2 DEF Tells, h
          <6>2. Len(m_headers') = m + 1 /\ m_headers'[m + 1] = h /\ \A k \in 1 .. m : m_headers'[k] = m_headers[k]
            BY <2>1, <6>1
          <6> QED BY <3>1, <6>1, <6>2 DEF Matches
        <5> QED BY <5>1, <5>2
      <4>2. CASE Telling(name) = {}
        BY <3>1, <3>2, <3>4, <4>1, <4>2 DEF Found
      <4>3. CASE Telling(name) # {}
        <5>1. Min(Telling(name)) \in 1 .. n /\ Min(Matches(name)) \in Matches(name)
          BY <3>1, <4>3, HasLeast DEF Found
        <5> QED BY <2>3, <3>1, <3>2, <3>4, <4>1, <4>3, <5>1 DEF Found
      <4> QED BY <4>2, <4>3
    <3> QED BY <3>3, <3>4
  <2>7. line' \in Seq(Chars)
    BY <2>2
  <2> QED BY <2>3, <2>5, <2>6, <2>7 DEF HeadersInv
<1> QED BY <1>1, <1>2, <1>3 DEF HeadersNext

(* A lookup finds the value of the first line that says the name, in any   *)
(* case and with any pads, for lines and answers of any length.            *)
THEOREM LookupsAreFirstSaid == HeadersSpec => []LookupIsFirstSaid
<1>1. HeadersInv => LookupIsFirstSaid
  <2> SUFFICES ASSUME HeadersInv, NEW name \in Names
               PROVE  LET Saying == {k \in 1 .. Len(received) :
                            \E i, j \in 0 .. Len(received[k]) : Says(received[k], name, SubSeq(received[k], i + 1, j))}
                      IN IF Saying = {} THEN get_header(name) = NotFound /\ ~has_header(name)
                         ELSE has_header(name) /\ Says(received[Min(Saying)], name, get_header(name))
    BY DEF LookupIsFirstSaid
  <2> DEFINE Saying == {k \in 1 .. Len(received) :
               \E i, j \in 0 .. Len(received[k]) : Says(received[k], name, SubSeq(received[k], i + 1, j))}
  <2>1. received \in Seq(Seq(Chars)) /\ Found(name) /\ Len(received) \in Nat
    BY LenNat DEF HeadersInv
  <2>2. \A k \in 1 .. Len(received) : received[k] \in Seq(Chars)
    BY <2>1
  <2>3. Saying = Telling(name)
    BY <2>2, TellsIsSays DEF Telling
  <2>4. has_header(name) <=> Matches(name) # {}
    BY DEF has_header, Matches
  <2>5. CASE Telling(name) = {}
    BY <2>1, <2>3, <2>4, <2>5 DEF Found, get_header
  <2>6. CASE Telling(name) # {}
    <3> DEFINE k == Min(Telling(name))
    <3>1. Telling(name) \in SUBSET Nat
      BY DEF Telling
    <3>2. k \in Telling(name)
      BY <2>6, <3>1, HasLeast
    <3> HIDE DEF k
    <3>3. k \in 1 .. Len(received) /\ Tells(received[k], name)
      BY <3>2 DEF Telling
    <3>4. get_header(name) = ValueIn(received[k])
      BY <2>1, <2>6 DEF Found, get_header, FirstMatch, k
    <3>5. Says(received[k], name, get_header(name))
      BY <2>2, <3>3, <3>4, TellsIsSays
    <3> HIDE DEF Saying
    <3>6. Saying # {} /\ Min(Saying) = k /\ has_header(name)
      BY <2>1, <2>3, <2>4, <2>6 DEF Found, k
    <3> QED BY <3>5, <3>6 DEF Saying
  <2> HIDE DEF Saying
  <2> QED BY <2>5, <2>6 DEF Saying
<1> QED BY <1>1, HeadersInvInit, HeadersStep, PTL DEF HeadersSpec
-----------------------------------------------------------------------------
(* Sequences that are the same byte by byte.                               *)
LEMMA SameSeq ==
  ASSUME NEW S, NEW s \in Seq(S), NEW t \in Seq(S), Len(s) = Len(t), \A k \in 1 .. Len(s) : s[k] = t[k]
  PROVE  s = t
OBVIOUS

(* A part of a sequence.                                                   *)
LEMMA SubSeqIs ==
  ASSUME NEW S, NEW s \in Seq(S), NEW i \in Nat, NEW j \in Nat, i + j <= Len(s),
         NEW a, a = i + 1, NEW b, b = i + j
  PROVE  /\ SubSeq(s, a, b) \in Seq(S) /\ Len(SubSeq(s, a, b)) = j
         /\ \A k \in 1 .. j : SubSeq(s, a, b)[k] = s[i + k]
OBVIOUS

(* The bytes with an escape of their own.                                  *)
LEMMA ShortIs ==
  /\ DOMAIN Short = {8, 12, 10, 13, 9, quote, backslash}
  /\ \A b \in DOMAIN Short : Meaning(Short[b]) = b
<1>2. DOMAIN Short = {8, 12, 10, 13, 9, quote, backslash}
  BY DEF Short
<1>3. /\ Short[8] = "b" /\ Short[12] = "f" /\ Short[10] = "n" /\ Short[13] = "r" /\ Short[9] = "t"
      /\ Short[34] = "quote" /\ Short[92] = "backslash"
  BY DEF Short, quote, backslash
<1>4. /\ Meaning("b") = 8 /\ Meaning("f") = 12 /\ Meaning("n") = 10 /\ Meaning("r") = 13
      /\ Meaning("t") = 9 /\ Meaning("quote") = 34 /\ Meaning("backslash") = 92
  BY DEF Meaning
<1>5. ASSUME NEW b \in DOMAIN Short PROVE Meaning(Short[b]) = b
  <2>1. b \in {8, 12, 10, 13, 9, 34, 92}
    BY <1>2 DEF quote, backslash
  <2> QED BY <1>3, <1>4, <2>1
<1> QED BY <1>2, <1>5

(* What an escape stands for: a byte is one that could be in a string, and *)
(* is itself again, unless it has bit 7 and char is signed.                *)
DecodedByte(e) == IF e.as = "short" THEN Meaning(e.value) ELSE e.value

(* The escape of one byte.                                               *)
LEMMA EscapeIs ==
  ASSUME signed \in BOOLEAN, NEW b \in 0 .. 255
  PROVE  /\ ~IsQuote(Escape(b)) /\ Legal(Escape(b))
         /\ ~signed \/ b < 128 => DecodedByte(Escape(b)) = b
<1> DEFINE raw == AsChar(b) > last_non_printable_character /\ b \notin {quote, backslash}
<1>1. AsChar(b) \in Int /\ (AsChar(b) > 31 => b > 31) /\ (~signed \/ b < 128 => AsChar(b) = b)
  BY DEF AsChar
<1>2. CASE raw
  <2>1. Escape(b) = [as |-> "raw", value |-> b]
    BY <1>2 DEF Escape
  <2>2. b > 31 /\ b # 34 /\ b # 92
    BY <1>1, <1>2 DEF last_non_printable_character, quote, backslash
  <2>3. Escape(b).as = "raw" /\ Escape(b).value = b
    BY <2>1
  <2>4. ~IsQuote(Escape(b))
    BY <2>2, <2>3 DEF IsQuote, quote
  <2>5. Legal(Escape(b))
    BY <2>2, <2>3 DEF Legal, last_non_printable_character, quote, backslash
  <2>6. DecodedByte(Escape(b)) = b
    BY <2>3 DEF DecodedByte
  <2> QED BY <2>4, <2>5, <2>6
<1>3. CASE ~raw /\ b \in DOMAIN Short
  <2>1. Escape(b) = [as |-> "short", value |-> Short[b]]
    BY <1>3 DEF Escape
  <2>2. Escape(b).as = "short" /\ Escape(b).value = Short[b]
    BY <2>1
  <2> QED BY <1>3, <2>2, ShortIs DEF IsQuote, Legal, DecodedByte
<1>4. CASE ~raw /\ b \notin DOMAIN Short
  <2>1. Escape(b) = [as |-> "unicode", value |-> FirstFour(AsChar(b))]
    BY <1>4 DEF Escape
  <2>2. Escape(b).as = "unicode" /\ Escape(b).value = FirstFour(AsChar(b))
    BY <2>1
  <2>3. ~signed \/ b < 128 => FirstFour(AsChar(b)) = b
    BY <1>1 DEF FirstFour
  <2> QED BY <2>2, <2>3 DEF IsQuote, Legal, DecodedByte
<1> QED BY <1>2, <1>3, <1>4

(* A body of three frames and two quoted strings, and that its parts are   *)
(* where they are put.                                                     *)
IsBody(p, q, f1, M, f2, T, f3) == p = <<f1, q>> \o M \o <<q, f2, q>> \o T \o <<q, f3>>

IsPlaced(S, p, q, f1, M, f2, T, f3) ==
  /\ p \in Seq(S) /\ Len(p) = Len(M) + Len(T) + 7
  /\ p[1] = f1 /\ p[2] = q /\ \A k \in 1 .. Len(M) : p[2 + k] = M[k]
  /\ p[Len(M) + 3] = q /\ p[Len(M) + 4] = f2 /\ p[Len(M) + 5] = q
  /\ \A k \in 1 .. Len(T) : p[Len(M) + 5 + k] = T[k]
  /\ p[Len(M) + Len(T) + 6] = q /\ p[Len(M) + Len(T) + 7] = f3

(* Where the strings of a failure are in its body.                       *)
LEMMA InTheFrame ==
  ASSUME NEW S, NEW M \in Seq(S), NEW T \in Seq(S), NEW f1 \in S, NEW f2 \in S, NEW f3 \in S, NEW q \in S,
         NEW p, IsBody(p, q, f1, M, f2, T, f3)
  PROVE  IsPlaced(S, p, q, f1, M, f2, T, f3)
<1> DEFINE A == <<f1, q>>
           B == <<q, f2, q>>
           C == <<q, f3>>
<1>1. \A s, t \in Seq(S) : /\ s \o t \in Seq(S) /\ Len(s \o t) = Len(s) + Len(t)
                           /\ \A k \in 1 .. Len(s) : (s \o t)[k] = s[k]
                           /\ \A k \in 1 .. Len(t) : (s \o t)[Len(s) + k] = t[k]
  OBVIOUS
<1>2. A \in Seq(S) /\ Len(A) = 2 /\ A[1] = f1 /\ A[2] = q
  OBVIOUS
<1>3. B \in Seq(S) /\ Len(B) = 3 /\ B[1] = q /\ B[2] = f2 /\ B[3] = q
  OBVIOUS
<1>4. C \in Seq(S) /\ Len(C) = 2 /\ C[1] = q /\ C[2] = f3
  OBVIOUS
<1>5. Len(M) \in Nat /\ Len(T) \in Nat
  OBVIOUS
<1> DEFINE P1 == A \o M
           P2 == P1 \o B
           P3 == P2 \o T
           P4 == P3 \o C
<1>16. p = P4
  BY DEF IsBody
<1> HIDE DEF A, B, C
<1>6. /\ P1 \in Seq(S) /\ Len(P1) = Len(M) + 2
      /\ P1[1] = f1 /\ P1[2] = q /\ \A k \in 1 .. Len(M) : P1[2 + k] = M[k]
  <2>1. A \in Seq(S) /\ M \in Seq(S)
    BY <1>2, <1>5
  <2>2. /\ P1 \in Seq(S) /\ Len(P1) = Len(A) + Len(M)
        /\ \A k \in 1 .. Len(A) : P1[k] = A[k]
        /\ \A k \in 1 .. Len(M) : P1[Len(A) + k] = M[k]
    BY <1>1, <2>1
  <2> HIDE DEF P1
  <2>3. P1 \in Seq(S) /\ Len(P1) = Len(M) + 2
    BY <1>2, <1>5, <2>2
  <2>4. P1[1] = f1 /\ P1[2] = q
    <3>1. 1 \in 1 .. Len(A) /\ 2 \in 1 .. Len(A)
      BY <1>2
    <3> QED BY <1>2, <2>2, <3>1
  <2>5. \A k \in 1 .. Len(M) : P1[2 + k] = M[k]
    BY <1>2, <2>2
  <2> QED BY <2>3, <2>4, <2>5
<1> HIDE DEF P1
<1>7. /\ P2 \in Seq(S) /\ Len(P2) = Len(M) + 5
      /\ \A k \in 1 .. (Len(M) + 2) : P2[k] = P1[k]
      /\ P2[Len(M) + 3] = q /\ P2[Len(M) + 4] = f2 /\ P2[Len(M) + 5] = q
  <2>1. P1 \in Seq(S) /\ B \in Seq(S)
    BY <1>3, <1>5, <1>6
  <2>2. /\ P2 \in Seq(S) /\ Len(P2) = Len(P1) + Len(B)
        /\ \A k \in 1 .. Len(P1) : P2[k] = P1[k]
        /\ \A k \in 1 .. Len(B) : P2[Len(P1) + k] = B[k]
    BY <1>1, <2>1
  <2> HIDE DEF P2
  <2> QED BY <1>3, <1>5, <1>6, <2>2
<1> HIDE DEF P2
<1>8. /\ P3 \in Seq(S) /\ Len(P3) = Len(M) + Len(T) + 5
      /\ \A k \in 1 .. (Len(M) + 5) : P3[k] = P2[k]
      /\ \A k \in 1 .. Len(T) : P3[Len(M) + 5 + k] = T[k]
  <2>1. P2 \in Seq(S) /\ T \in Seq(S)
    BY <1>5, <1>7
  <2>2. /\ P3 \in Seq(S) /\ Len(P3) = Len(P2) + Len(T)
        /\ \A k \in 1 .. Len(P2) : P3[k] = P2[k]
        /\ \A k \in 1 .. Len(T) : P3[Len(P2) + k] = T[k]
    BY <1>1, <2>1
  <2> HIDE DEF P3
  <2> QED BY <1>5, <1>7, <2>2
<1> HIDE DEF P3
<1>9. /\ P4 \in Seq(S) /\ Len(P4) = Len(M) + Len(T) + 7
      /\ \A k \in 1 .. (Len(M) + Len(T) + 5) : P4[k] = P3[k]
      /\ P4[Len(M) + Len(T) + 6] = q /\ P4[Len(M) + Len(T) + 7] = f3
  <2>1. P3 \in Seq(S) /\ C \in Seq(S)
    BY <1>4, <1>5, <1>8
  <2>2. /\ P4 \in Seq(S) /\ Len(P4) = Len(P3) + Len(C)
        /\ \A k \in 1 .. Len(P3) : P4[k] = P3[k]
        /\ \A k \in 1 .. Len(C) : P4[Len(P3) + k] = C[k]
    BY <1>1, <2>1
  <2> HIDE DEF P4
  <2> QED BY <1>4, <1>5, <1>8, <2>2
<1> HIDE DEF P4
<1>10. \A k \in 1 .. (Len(M) + 5) : P4[k] = P2[k]
  <2> SUFFICES ASSUME NEW k \in 1 .. (Len(M) + 5) PROVE P4[k] = P2[k]
    OBVIOUS
  <2>1. k \in 1 .. (Len(M) + Len(T) + 5)
    BY <1>5
  <2> QED BY <1>8, <1>9, <2>1
<1>11. \A k \in 1 .. (Len(M) + 2) : P4[k] = P1[k]
  <2> SUFFICES ASSUME NEW k \in 1 .. (Len(M) + 2) PROVE P4[k] = P1[k]
    OBVIOUS
  <2>1. k \in 1 .. (Len(M) + 5)
    BY <1>5
  <2> QED BY <1>7, <1>10, <2>1
<1>13. P4[Len(M) + 3] = q /\ P4[Len(M) + 4] = f2 /\ P4[Len(M) + 5] = q
  BY <1>5, <1>7, <1>10
<1>14. P4[1] = f1 /\ P4[2] = q
  <2>1. 1 \in 1 .. (Len(M) + 2) /\ 2 \in 1 .. (Len(M) + 2)
    BY <1>5
  <2> QED BY <1>6, <1>11, <2>1
<1>15. ASSUME NEW k \in 1 .. Len(M) PROVE P4[2 + k] = M[k]
  <2>1. 2 + k \in 1 .. (Len(M) + 2)
    BY <1>5
  <2> QED BY <1>6, <1>11, <2>1
<1>12. \A k \in 1 .. Len(T) : P4[Len(M) + 5 + k] = T[k]
  BY <1>5, <1>8, <1>9
<1> QED BY <1>9, <1>12, <1>13, <1>14, <1>15, <1>16 DEF IsPlaced

(* The invariant: what is written is what is read, each byte escaped.      *)
Escaped(s) == [k \in 1 .. Len(s) |-> Escape(s[k])]

JsonInv ==
  /\ signed \in BOOLEAN
  /\ in = [message |-> in.message, type |-> in.type] /\ in.message \in Seq(Bytes) /\ in.type \in Seq(Bytes)
  /\ out = [message |-> Escaped(in.message), type |-> Escaped(in.type)]

(* Nothing is written at first.                                          *)
LEMMA JsonInvInit == JsonInit => JsonInv
BY BytesAssumption DEF JsonInit, JsonInv, Escaped

(* Every byte that is read is written escaped.                           *)
LEMMA JsonStep == JsonInv /\ [JsonNext]_jsonVars => JsonInv'
<1> SUFFICES ASSUME JsonInv, [JsonNext]_jsonVars PROVE JsonInv'
  OBVIOUS
<1>1. CASE UNCHANGED jsonVars
  BY <1>1 DEF JsonInv, jsonVars, Escaped, Escape, AsChar
<1>2. ASSUME signed' = signed PROVE \A b : Escape(b)' = Escape(b)
  BY <1>2 DEF Escape, AsChar
<1>3. ASSUME NEW s \in Seq(Bytes), NEW b \in Bytes
      PROVE  Append(s, b) \in Seq(Bytes) /\ Append(Escaped(s), Escape(b)) = Escaped(Append(s, b))
  <2> USE LenNat
  <2>1. Append(s, b) \in Seq(Bytes) /\ Len(Append(s, b)) = Len(s) + 1
        /\ \A k \in 1 .. (Len(s) + 1) : Append(s, b)[k] = IF k = Len(s) + 1 THEN b ELSE s[k]
    OBVIOUS
  <2> DEFINE S == {Escape(c) : c \in Bytes}
             e == Escaped(s)
             f == Escaped(Append(s, b))
  <2>2. e \in Seq(S) /\ Len(e) = Len(s) /\ \A k \in 1 .. Len(s) : e[k] = Escape(s[k])
    BY DEF Escaped
  <2>3. f \in Seq(S) /\ Len(f) = Len(s) + 1 /\ \A k \in 1 .. (Len(s) + 1) : f[k] = Escape(Append(s, b)[k])
    BY <2>1 DEF Escaped
  <2>4. Escape(b) \in S
    OBVIOUS
  <2> HIDE DEF S, e, f
  <2>5. Append(e, Escape(b)) \in Seq(S) /\ Len(Append(e, Escape(b))) = Len(s) + 1
        /\ \A k \in 1 .. (Len(s) + 1) : Append(e, Escape(b))[k] = IF k = Len(s) + 1 THEN Escape(b) ELSE e[k]
    BY <2>2, <2>4
  <2>6. \A k \in 1 .. (Len(s) + 1) : Append(e, Escape(b))[k] = f[k]
    BY <2>1, <2>2, <2>3, <2>5
  <2>7. Append(e, Escape(b)) = f
    BY <2>3, <2>5, <2>6
  <2> QED BY <2>1, <2>7 DEF e, f
<1>4. ASSUME NEW b \in Bytes, json_escape("message", b) PROVE JsonInv'
  <2>1. /\ signed' = signed
        /\ in' = [message |-> Append(in.message, b), type |-> in.type]
        /\ out' = [message |-> Append(out.message, Escape(b)), type |-> out.type]
    BY <1>4 DEF json_escape, JsonInv
  <2>2. /\ in'.message = Append(in.message, b) /\ in'.type = in.type
        /\ out.message = Escaped(in.message) /\ out.type = Escaped(in.type)
    BY <2>1 DEF JsonInv
  <2>3. \A s : Escaped(s)' = Escaped(s)
    BY <1>2, <2>1 DEF Escaped
  <2> QED BY <1>3, <2>1, <2>2, <2>3 DEF JsonInv
<1>5. ASSUME NEW b \in Bytes, json_escape("type", b) PROVE JsonInv'
  <2>1. /\ signed' = signed
        /\ in' = [message |-> in.message, type |-> Append(in.type, b)]
        /\ out' = [message |-> out.message, type |-> Append(out.type, Escape(b))]
    BY <1>5 DEF json_escape, JsonInv
  <2>2. /\ in'.type = Append(in.type, b) /\ in'.message = in.message
        /\ out.message = Escaped(in.message) /\ out.type = Escaped(in.type)
    BY <2>1 DEF JsonInv
  <2>3. \A s : Escaped(s)' = Escaped(s)
    BY <1>2, <2>1 DEF Escaped
  <2> QED BY <1>3, <2>1, <2>2, <2>3 DEF JsonInv
<1> QED BY <1>1, <1>4, <1>5 DEF JsonNext

(* A string ends at the next quote.                                        *)
LEMMA ClosesAt ==
  ASSUME NEW i \in Nat, NEW k \in Nat, Len(m_payload) \in Nat, i < k, k <= Len(m_payload),
         IsQuote(m_payload[k]), \A l \in Nat : i < l /\ l < k => ~IsQuote(m_payload[l])
  PROVE  ClosingOf(i) = k
<1> DEFINE Q == QuotesFrom(i + 1)
<1>1. k \in Q /\ \A l \in Q : k <= l /\ l \in Nat
  BY DEF QuotesFrom
<1>2. \A m \in Q : (\A l \in Q : m <= l) => m = k
  BY <1>1
<1> HIDE DEF Q
<1>3. \E m \in Q : \A l \in Q : m <= l
  BY <1>1
<1>4. ClosingOf(i) = CHOOSE m \in Q : \A l \in Q : m <= l
  BY Zenon DEF ClosingOf, Q
<1> QED BY <1>2, <1>3, <1>4, Zenon

(* The body is read back whatever bytes the message and the type are made  *)
(* of and however long they are: none of them ends its string, or is taken *)
(* for anything but itself (json_escape(), failure()).                     *)
THEOREM BodiesAreReadBack == JsonSpec => []RoundTrip
<1>1. JsonInv => RoundTrip
  <2> SUFFICES ASSUME JsonInv PROVE RoundTrip
    OBVIOUS
  <2> USE LenNat
  <2> DEFINE M == Escaped(in.message)
             T == Escaped(in.type)
             m == Len(M)
             n == Len(T)
             f1 == Frame("errorMessage")
             f2 == Frame("errorType")
             f3 == Frame("stackTrace")
             S  == {Escape(b) : b \in Bytes} \cup {f1, f2, f3, Quote}
             p  == m_payload
  <2>1. signed \in BOOLEAN /\ in.message \in Seq(Bytes) /\ in.type \in Seq(Bytes)
    BY DEF JsonInv
  <2>2. out.message = M /\ out.type = T
    BY DEF JsonInv
  <2>3. /\ M \in Seq(S) /\ m = Len(in.message) /\ \A k \in 1 .. m : M[k] = Escape(in.message[k])
        /\ T \in Seq(S) /\ n = Len(in.type) /\ \A k \in 1 .. n : T[k] = Escape(in.type[k])
    BY <2>1 DEF Escaped
  <2>4. IsBody(p, Quote, f1, M, f2, T, f3)
    BY <2>2 DEF m_payload, IsBody
  <2>5. f1 \in S /\ f2 \in S /\ f3 \in S /\ Quote \in S
    OBVIOUS
  <2>6. IsFrame(f2, "errorType") /\ IsFrame(f3, "stackTrace") /\ IsQuote(Quote) /\ ~IsQuote(f2)
    BY DEF IsFrame, IsQuote, Frame, Quote
  <2>7. /\ \A k \in 1 .. m : in.message[k] \in 0 .. 255
        /\ \A k \in 1 .. n : in.type[k] \in 0 .. 255
    <3>1. ASSUME NEW s \in Seq(Bytes), NEW k \in 1 .. Len(s) PROVE s[k] \in 0 .. 255
      <4>1. s[k] \in Bytes
        OBVIOUS
      <4> QED BY <4>1, BytesAssumption, Zenon
    <3> HIDE DEF m, n
    <3> QED BY <2>1, <2>3, <3>1
  <2> HIDE DEF M, T, f1, f2, f3, S, p
  <2>8. /\ p \in Seq(S) /\ Len(p) = m + n + 7 /\ \A k \in 1 .. m : p[2 + k] = M[k]
        /\ p[m + 3] = Quote /\ p[m + 4] = f2 /\ p[m + 5] = Quote
        /\ \A k \in 1 .. n : p[m + 5 + k] = T[k]
        /\ p[m + n + 6] = Quote /\ p[m + n + 7] = f3
    <3> HIDE DEF m, n
    <3>1. M \in Seq(S) /\ T \in Seq(S)
      BY <2>3
    <3>2. IsPlaced(S, p, Quote, f1, M, f2, T, f3)
      BY <3>1, <2>4, <2>5, InTheFrame, Zenon
    <3> QED BY <3>2 DEF IsPlaced, m, n
  <2>9. m \in Nat /\ n \in Nat
    BY <2>3
  <2> HIDE DEF m, n
  <2>10. \A k \in 1 .. m : ~IsQuote(M[k]) /\ Legal(M[k])
    BY <2>1, <2>3, <2>7, EscapeIs
  <2>11. \A k \in 1 .. n : ~IsQuote(T[k]) /\ Legal(T[k])
    BY <2>1, <2>3, <2>7, EscapeIs
  <2>12. ClosingOf(2) = m + 3
    <3>1. \A l \in Nat : 2 < l /\ l < m + 3 => ~IsQuote(p[l])
      <4> SUFFICES ASSUME NEW l \in Nat, 2 < l, l < m + 3 PROVE ~IsQuote(p[l])
        OBVIOUS
      <4>1. l - 2 \in 1 .. m /\ 2 + (l - 2) = l
        BY <2>9
      <4>2. p[2 + (l - 2)] = M[l - 2]
        BY <2>8, <4>1
      <4> QED BY <2>10, <4>1, <4>2
    <3>2. IsQuote(p[m + 3]) /\ Len(p) \in Nat /\ m + 3 \in Nat /\ 2 \in Nat /\ 2 < m + 3 /\ m + 3 <= Len(p)
      BY <2>6, <2>8, <2>9
    <3> QED BY <3>1, <3>2, ClosesAt, Zenon DEF p
  <2>13. ClosingOf(m + 5) = m + n + 6
    <3>1. \A l \in Nat : m + 5 < l /\ l < m + n + 6 => ~IsQuote(p[l])
      <4> SUFFICES ASSUME NEW l \in Nat, m + 5 < l, l < m + n + 6 PROVE ~IsQuote(p[l])
        OBVIOUS
      <4>1. l - (m + 5) \in 1 .. n /\ m + 5 + (l - (m + 5)) = l
        BY <2>9
      <4>2. p[m + 5 + (l - (m + 5))] = T[l - (m + 5)]
        BY <2>8, <4>1
      <4> QED BY <2>11, <4>1, <4>2
    <3>2. /\ IsQuote(p[m + n + 6]) /\ Len(p) \in Nat /\ m + 5 \in Nat /\ m + n + 6 \in Nat
          /\ m + 5 < m + n + 6 /\ m + n + 6 <= Len(p)
      BY <2>6, <2>8, <2>9
    <3> QED BY <3>1, <3>2, ClosesAt, Zenon DEF p
  <2>14. StringAt(2) = M
    <3>1. StringAt(2) = SubSeq(p, 3, m + 2)
      BY <2>9, <2>12 DEF StringAt, p
    <3>2. /\ SubSeq(p, 3, m + 2) \in Seq(S) /\ Len(SubSeq(p, 3, m + 2)) = m
          /\ \A k \in 1 .. m : SubSeq(p, 3, m + 2)[k] = p[2 + k]
      <4>1. p \in Seq(S) /\ 2 \in Nat /\ m \in Nat /\ 2 + m <= Len(p) /\ 3 = 2 + 1 /\ m + 2 = 2 + m
        BY <2>8, <2>9
      <4> QED BY <4>1, SubSeqIs, SMTT(20)
    <3>3. Len(M) = m
      BY DEF m
    <3>4. \A k \in 1 .. m : StringAt(2)[k] = M[k]
      BY <2>8, <3>1, <3>2
    <3>5. StringAt(2) \in Seq(S) /\ Len(StringAt(2)) = m
      BY <3>1, <3>2
    <3> QED BY <2>3, <3>3, <3>4, <3>5, SameSeq, Zenon
  <2>15. StringAt(m + 5) = T
    <3>1. StringAt(m + 5) = SubSeq(p, m + 6, m + n + 5)
      BY <2>9, <2>13 DEF StringAt, p
    <3>2. /\ SubSeq(p, m + 6, m + n + 5) \in Seq(S) /\ Len(SubSeq(p, m + 6, m + n + 5)) = n
          /\ \A k \in 1 .. n : SubSeq(p, m + 6, m + n + 5)[k] = p[m + 5 + k]
      <4>1. /\ p \in Seq(S) /\ m + 5 \in Nat /\ n \in Nat /\ m + 5 + n <= Len(p)
            /\ m + 6 = m + 5 + 1 /\ m + n + 5 = m + 5 + n
        BY <2>8, <2>9
      <4> QED BY <4>1, SubSeqIs, SMTT(20)
    <3>3. Len(T) = n
      BY DEF n
    <3>4. \A k \in 1 .. n : StringAt(m + 5)[k] = T[k]
      BY <2>8, <3>1, <3>2
    <3>5. StringAt(m + 5) \in Seq(S) /\ Len(StringAt(m + 5)) = n
      BY <3>1, <3>2
    <3> QED BY <2>3, <3>3, <3>4, <3>5, SameSeq, Zenon
  <2>16. Readable(in.message) => Decoded(M) = in.message
    <3> SUFFICES ASSUME Readable(in.message) PROVE Decoded(M) = in.message
      OBVIOUS
    <3>1. Decoded(M) = [k \in 1 .. m |-> DecodedByte(M[k])]
      BY DEF Decoded, DecodedByte, m
    <3>2. \A k \in 1 .. m : DecodedByte(M[k]) = in.message[k]
      BY <2>1, <2>3, <2>7, EscapeIs DEF Readable
    <3>3. in.message = [k \in 1 .. m |-> in.message[k]]
      <4>1. \A s \in Seq(Bytes) : s = [k \in 1 .. Len(s) |-> s[k]]
        OBVIOUS
      <4> QED BY <2>1, <2>3, <4>1
    <3> QED BY <3>1, <3>2, <3>3
  <2>17. Readable(in.type) => Decoded(T) = in.type
    <3> SUFFICES ASSUME Readable(in.type) PROVE Decoded(T) = in.type
      OBVIOUS
    <3>1. Decoded(T) = [k \in 1 .. n |-> DecodedByte(T[k])]
      BY DEF Decoded, DecodedByte, n
    <3>2. \A k \in 1 .. n : DecodedByte(T[k]) = in.type[k]
      BY <2>1, <2>3, <2>7, EscapeIs DEF Readable
    <3>3. in.type = [k \in 1 .. n |-> in.type[k]]
      <4>1. \A s \in Seq(Bytes) : s = [k \in 1 .. Len(s) |-> s[k]]
        OBVIOUS
      <4> QED BY <2>1, <2>3, <4>1
    <3> QED BY <3>1, <3>2, <3>3
  <2>18. /\ ClosingOf(2) + 1 = m + 4 /\ ClosingOf(2) + 2 = m + 5
         /\ ClosingOf(ClosingOf(2) + 2) + 1 = m + n + 7
    BY <2>9, <2>12, <2>13
  <2>19. /\ IsFrame(m_payload[ClosingOf(2) + 1], "errorType") /\ IsQuote(m_payload[ClosingOf(2) + 2])
         /\ IsFrame(m_payload[ClosingOf(ClosingOf(2) + 2) + 1], "stackTrace")
         /\ StringAt(ClosingOf(2) + 2) = T
    BY <2>6, <2>8, <2>15, <2>18 DEF p
  <2>20. /\ \A k \in 1 .. Len(M) : Legal(M[k])
         /\ \A k \in 1 .. Len(T) : Legal(T[k])
    BY <2>10, <2>11 DEF m, n
  <2> QED BY <2>14, <2>16, <2>17, <2>19, <2>20 DEF RoundTrip
<1> QED BY <1>1, JsonInvInit, JsonStep, PTL DEF JsonSpec

-----------------------------------------------------------------------------
(* outcome: one member of it is alive, the one its flag names, and it      *)
(* implements TaggedValues.                                                *)
Stored == [made : BOOLEAN, success : BOOLEAN, alive : {"m_s", "m_f", Dead, Corrupt},
           value : Values \cup {Moved}]

(* OneMemberAlive is inductive with the type of an object's bytes and the  *)
(* value of one that is not made, which TaggedValues calls Nothing.        *)
OutcomeInv ==
  /\ store \in [Objects -> Stored]
  /\ OneMemberAlive
  /\ \A o \in Objects : ~store[o].made => store[o].value = Moved

ObjectOf(made, ok, alive, value) ==
  [made |-> made, success |-> ok, alive |-> alive, value |-> value]

(* The pieces of the operations, on the bytes of one object.               *)
LEMMA FlaggedIs ==
  ASSUME NEW o \in Stored, NEW ok \in BOOLEAN
  PROVE  Flagged(o, ok) = ObjectOf(o.made, ok, o.alive, o.value)
BY DEF Flagged, Stored, ObjectOf

(* An object that is made or gone is the same otherwise.                 *)
LEMMA RemadeIs ==
  ASSUME NEW o \in Stored, NEW made \in BOOLEAN
  PROVE  [o EXCEPT !.made = made] = ObjectOf(made, o.success, o.alive, o.value)
BY DEF Stored, ObjectOf

(* A member built in a union that has none.                              *)
LEMMA BuiltIs ==
  ASSUME NEW o \in Stored, o.alive = Dead, NEW ok \in BOOLEAN, NEW v
  PROVE  Built(o, ok, v) = ObjectOf(o.made, o.success, MemberOf(ok), v)
<1> DEFINE m == MemberOf(ok)
<1>1. Built(o, ok, v) = [o EXCEPT !.alive = m, !.value = v]
  BY DEF Built
<1> QED BY <1>1 DEF Stored, ObjectOf

(* A union whose member is destroyed.                                    *)
LEMMA DestroyedIs ==
  ASSUME NEW o \in Stored, o.alive = MemberOf(o.success)
  PROVE  destroy(o) = ObjectOf(o.made, o.success, Dead, o.value)
<1>1. destroy(o) = [o EXCEPT !.alive = Dead]
  BY DEF destroy
<1> QED BY <1>1 DEF Stored, ObjectOf

(* The bytes of an object are in Stored.                                 *)
LEMMA BytesType ==
  ASSUME NEW made \in BOOLEAN, NEW ok \in BOOLEAN, NEW alive \in {"m_s", "m_f", Dead, Corrupt},
         NEW v \in Values \cup {Moved}
  PROVE  ObjectOf(made, ok, alive, v) \in Stored
BY DEF ObjectOf, Stored

(* A flag names one of the members.                                      *)
LEMMA MemberType ==
  ASSUME NEW ok \in BOOLEAN
  PROVE  MemberOf(ok) \in {"m_s", "m_f"}
BY DEF MemberOf

(* What each operation leaves in the object it is about.                   *)
LEMMA MadeIsWhole ==
  ASSUME NEW o \in Stored, o.alive = Dead, NEW ok \in BOOLEAN, NEW v \in Values \cup {Moved}
  PROVE  Made(o, ok, v) = ObjectOf(TRUE, ok, MemberOf(ok), v)
<1> DEFINE o1 == [o EXCEPT !.made = TRUE]
<1>1. o.success \in BOOLEAN /\ o.value \in Values \cup {Moved}
  BY DEF Stored
<1>2. o1 = ObjectOf(TRUE, o.success, o.alive, o.value)
  BY RemadeIs
<1>3. o1 \in Stored
  <2>1. o.alive \in {"m_s", "m_f", Dead, Corrupt} /\ TRUE \in BOOLEAN
    OBVIOUS
  <2>2. ObjectOf(TRUE, o.success, o.alive, o.value) \in Stored
    BY <1>1, <2>1, BytesType
  <2> QED BY <1>2, <2>2
<1>4. Flagged(o1, ok) = ObjectOf(TRUE, ok, Dead, o.value)
  <2> HIDE DEF o1
  <2>1. Flagged(o1, ok) = ObjectOf(o1.made, ok, o1.alive, o1.value)
    BY <1>3, FlaggedIs
  <2> QED BY <2>1, <1>2 DEF ObjectOf
<1>5. Flagged(o1, ok) \in Stored
  BY <1>1, <1>4, BytesType
<1>6. Built(Flagged(o1, ok), ok, v) = ObjectOf(TRUE, ok, MemberOf(ok), v)
  <2> DEFINE o2 == Flagged(o1, ok)
  <2>1. o2.made = TRUE /\ o2.success = ok /\ o2.alive = Dead
    BY <1>4 DEF ObjectOf
  <2> HIDE DEF o2
  <2>2. o2 \in Stored
    BY <1>5 DEF o2
  <2>3. Built(o2, ok, v) = ObjectOf(TRUE, ok, MemberOf(ok), v)
    BY <2>1, <2>2, BuiltIs
  <2> QED BY <2>3 DEF o2
<1> QED BY <1>6 DEF Made, o1

(* Likewise of an assignment.                                            *)
LEMMA AssignedIsWhole ==
  ASSUME NEW o \in Stored, o.alive = MemberOf(o.success), NEW other \in Stored
  PROVE  Assigned(o, other) = ObjectOf(o.made, other.success, MemberOf(other.success), other.value)
<1>1. other.success \in BOOLEAN /\ other.value \in Values \cup {Moved}
      /\ o.made \in BOOLEAN /\ o.success \in BOOLEAN /\ o.value \in Values \cup {Moved}
  BY DEF Stored
<1>2. destroy(o) = ObjectOf(o.made, o.success, Dead, o.value) /\ destroy(o) \in Stored
  BY <1>1, DestroyedIs, BytesType
<1>3. Built(destroy(o), other.success, other.value) =
        ObjectOf(o.made, o.success, MemberOf(other.success), other.value)
  BY <1>1, <1>2, BuiltIs DEF ObjectOf
<1>4. Built(destroy(o), other.success, other.value) \in Stored
  BY <1>1, <1>3, MemberType, BytesType
<1> QED BY <1>1, <1>3, <1>4, FlaggedIs DEF Assigned, ObjectOf

(* The moved-from object, and the one that is gone.                        *)
LEMMA OthersAreWhole ==
  ASSUME NEW o \in Stored, o.alive = MemberOf(o.success)
  PROVE  /\ [o EXCEPT !.value = Moved] = ObjectOf(o.made, o.success, o.alive, Moved)
         /\ Gone(o) = Unmade
<1>1. destroy(o).alive = Dead
  BY DestroyedIs DEF ObjectOf
<1>2. [o EXCEPT !.value = Moved] = ObjectOf(o.made, o.success, o.alive, Moved)
  BY DEF Stored, ObjectOf
<1>3. Gone(o) = Unmade
  BY <1>1 DEF Gone, Unmade
<1> QED BY <1>1, <1>2, <1>3

Whole(b) == /\ b \in Stored
            /\ b.alive = IF b.made THEN MemberOf(b.success) ELSE Dead
            /\ ~b.made => b.value = Moved

(* What TaggedValues sees of an object's bytes, and of all of them.        *)
Seen(b) == [kind |-> b.alive, value |-> b.value]
Abs     == [o \in Objects |-> [kind |-> store[o].alive, value |-> store[o].value]]

(* An object with the member of its flag is whole.                       *)
LEMMA BytesWhole ==
  ASSUME NEW ok \in BOOLEAN, NEW v \in Values \cup {Moved}
  PROVE  /\ Whole(ObjectOf(TRUE, ok, MemberOf(ok), v))
         /\ Seen(ObjectOf(TRUE, ok, MemberOf(ok), v)) = [kind |-> MemberOf(ok), value |-> v]
<1>1. ObjectOf(TRUE, ok, MemberOf(ok), v) \in Stored
  BY MemberType, BytesType
<1> QED BY <1>1 DEF Whole, ObjectOf, Seen

(* So is a place with no object.                                         *)
LEMMA UnmadeWhole == Whole(Unmade) /\ Seen(Unmade) = Tagged!Nothing
BY DEF Whole, Unmade, Stored, Seen, Tagged!Nothing, Dead, Moved

(* The invariant, object by object.                                      *)
LEMMA AllWhole == OutcomeInv <=> store \in [Objects -> Stored] /\ \A o \in Objects : Whole(store[o])
BY DEF OutcomeInv, OneMemberAlive, Whole

(* An object that is made holds, and one that is not made does not.        *)
LEMMA MadeHolds ==
  ASSUME OutcomeInv, NEW o \in Objects
  PROVE  /\ store[o] = ObjectOf(store[o].made, store[o].success, store[o].alive, store[o].value)
         /\ store[o].success \in BOOLEAN /\ store[o].value \in Values \cup {Moved}
         /\ store[o] \in Stored
         /\ store[o].made => store[o].alive = MemberOf(store[o].success) /\ Tagged!Holds(o)
         /\ ~store[o].made => store[o].alive = Dead /\ ~Tagged!Holds(o)
<1>1. store[o] \in Stored /\ Whole(store[o])
  BY AllWhole
<1>2. Abs[o].kind = store[o].alive
  BY DEF Abs
<1>3. Tagged!Holds(o) <=> store[o].alive \in {"m_s", "m_f"}
  BY <1>2 DEF Tagged!Holds, Tagged!Kinds, Abs
<1> QED BY <1>1, <1>3, MemberType DEF Whole, Stored, ObjectOf, Dead

(* There are no objects at first.                                        *)
LEMMA InitInv == OutcomeInit => OutcomeInv /\ Tagged!Init
<1> SUFFICES ASSUME OutcomeInit PROVE OutcomeInv /\ Tagged!Init
  OBVIOUS
<1>1. \A o \in Objects : store[o] = Unmade
  BY DEF OutcomeInit
<1>2. OutcomeInv
  BY <1>1, UnmadeWhole, AllWhole DEF OutcomeInit, Whole
<1>3. Tagged!Init
  BY <1>1, UnmadeWhole DEF Tagged!Init, Seen
<1> QED BY <1>2, <1>3

(* The changes of one and of two objects.                                  *)
LEMMA OneChanged ==
  ASSUME OutcomeInv, NEW o \in Objects, NEW b, Whole(b), store' = [store EXCEPT ![o] = b]
  PROVE  OutcomeInv' /\ Abs' = [Abs EXCEPT ![o] = Seen(b)]
<1>1. store' \in [Objects -> Stored] /\ \A p \in Objects : Whole(store'[p])
  BY AllWhole DEF Whole
<1>2. OutcomeInv'
  BY <1>1 DEF OutcomeInv, OneMemberAlive, Whole
<1>3. Abs' = [Abs EXCEPT ![o] = Seen(b)]
  BY AllWhole DEF Abs, Seen
<1> QED BY <1>2, <1>3

(* As OneChanged, of two objects.                                        *)
LEMMA TwoChanged ==
  ASSUME OutcomeInv, NEW o \in Objects, NEW other \in Objects, o # other, store[other].made,
         NEW b, Whole(b),
         store' = [store EXCEPT ![o] = b, ![other].value = Moved]
  PROVE  OutcomeInv' /\ Abs' = [Abs EXCEPT ![o] = Seen(b), ![other] = Tagged!MovedFrom(other)]
<1> DEFINE c == ObjectOf(store[other].made, store[other].success, store[other].alive, Moved)
<1>1. store[other] \in Stored /\ store[other].alive = MemberOf(store[other].success)
  BY MadeHolds
<1>2. [store[other] EXCEPT !.value = Moved] = c
  BY <1>1, OthersAreWhole
<1>3. store' = [store EXCEPT ![o] = b, ![other] = c]
  BY <1>2, AllWhole
<1>4. Whole(c)
  BY <1>1, BytesType DEF Whole, Stored, ObjectOf
<1>5. Seen(c) = Tagged!MovedFrom(other)
  BY DEF Seen, ObjectOf, Tagged!MovedFrom, Tagged!Holding, Moved
<1> HIDE DEF c
<1>6. store' \in [Objects -> Stored] /\ \A p \in Objects : Whole(store'[p])
  BY <1>3, <1>4, AllWhole DEF Whole
<1>7. OutcomeInv'
  BY <1>6 DEF OutcomeInv, OneMemberAlive, Whole
<1>8. Abs' = [Abs EXCEPT ![o] = Seen(b), ![other] = Seen(c)]
  BY <1>3, AllWhole DEF Abs, Seen
<1> QED BY <1>5, <1>7, <1>8

(* Every operation keeps the invariant and is one of a tagged value.       *)
LEMMA StepInv == OutcomeInv /\ OutcomeNext => OutcomeInv' /\ Tagged!Next
<1> SUFFICES ASSUME OutcomeInv, NEW o \in Objects, NEW other \in Objects,
                    \/ \E ok \in BOOLEAN, v \in Values : Construct(o, ok, v)
                    \/ CopyConstruct(o, other) \/ MoveConstruct(o, other) \/ MoveAssign(o, other)
                    \/ \E ok \in BOOLEAN : Take(o, ok)
                    \/ Destroy(o)
             PROVE  OutcomeInv' /\ Tagged!Next
  BY DEF OutcomeNext
<1> DEFINE ofOther == ObjectOf(TRUE, store[other].success, MemberOf(store[other].success),
                            store[other].value)
<1>1. Whole(ofOther) /\ Seen(ofOther) = [kind |-> MemberOf(store[other].success), value |-> store[other].value]
  BY MadeHolds, BytesWhole
<1>2. store[other].made => Seen(ofOther) = Abs[other]
  BY <1>1, MadeHolds DEF Abs
<1> HIDE DEF ofOther
<1>3. ASSUME NEW ok \in BOOLEAN, NEW v \in Values, Construct(o, ok, v)
      PROVE  OutcomeInv' /\ Tagged!Next
  <2> DEFINE b == ObjectOf(TRUE, ok, MemberOf(ok), v)
  <2>1. ~store[o].made /\ store[o] \in Stored /\ store[o].alive = Dead
    BY <1>3, MadeHolds DEF Construct
  <2>2. Made(store[o], ok, v) = b
    BY <2>1, MadeIsWhole
  <2>3. store' = [store EXCEPT ![o] = b]
    BY <1>3, <2>2 DEF Construct
  <2>4. Whole(b) /\ Seen(b) = [kind |-> MemberOf(ok), value |-> v]
    BY BytesWhole
  <2> HIDE DEF b
  <2>5. OutcomeInv' /\ Abs' = [Abs EXCEPT ![o] = [kind |-> MemberOf(ok), value |-> v]]
    BY <2>3, <2>4, OneChanged
  <2>6. Tagged!Put(o)
    BY <1>3, <2>5, MemberType, MadeHolds
    DEF Tagged!Put, Tagged!Holding, Tagged!Kinds, Abs, Construct
  <2> QED BY <2>5, <2>6 DEF Tagged!Next
<1>4. ASSUME CopyConstruct(o, other) PROVE OutcomeInv' /\ Tagged!Next
  <2>1. store' = [store EXCEPT ![o] = ofOther]
    BY <1>4, MadeHolds, MadeIsWhole, ZenonT(40) DEF CopyConstruct, ofOther
  <2>2. OutcomeInv' /\ Abs' = [Abs EXCEPT ![o] = Seen(ofOther)]
    BY <1>1, <2>1, OneChanged
  <2>3. Seen(ofOther) = Abs[other]
    BY <1>2, <1>4 DEF CopyConstruct
  <2>4. Tagged!Copy(o, other)
    BY <1>4, <2>2, <2>3, MadeHolds DEF Tagged!Copy, Abs, CopyConstruct
  <2> QED BY <2>2, <2>4 DEF Tagged!Next
<1>5. ASSUME MoveConstruct(o, other) PROVE OutcomeInv' /\ Tagged!Next
  <2>1. o # other /\ store[other].made
    BY <1>5 DEF MoveConstruct
  <2>2. store[o] \in Stored /\ store[o].alive = Dead
    BY <1>5, MadeHolds DEF MoveConstruct
  <2>3. Made(store[o], store[other].success, store[other].value) = ofOther
    BY <2>2, MadeHolds, MadeIsWhole DEF ofOther
  <2>4. store' = [store EXCEPT ![o] = ofOther, ![other].value = Moved]
    BY <1>5, <2>3 DEF MoveConstruct
  <2>5. OutcomeInv' /\ Abs' = [Abs EXCEPT ![o] = Seen(ofOther), ![other] = Tagged!MovedFrom(other)]
    BY <1>1, <2>1, <2>4, TwoChanged
  <2>6. OutcomeInv' /\ Abs' = [Abs EXCEPT ![o] = Abs[other], ![other] = Tagged!MovedFrom(other)]
    BY <1>2, <2>1, <2>5
  <2>7. Tagged!Move(o, other)
    BY <2>1, <2>6, MadeHolds DEF Tagged!Move, Abs
  <2> QED BY <2>6, <2>7 DEF Tagged!Next
<1>6. ASSUME MoveAssign(o, other) PROVE OutcomeInv' /\ Tagged!Next
  <2>1. o # other /\ store[other].made /\ store[o].made
    BY <1>6 DEF MoveAssign
  <2>2. Assigned(store[o], store[other]) = ofOther
    BY <2>1, MadeHolds, AssignedIsWhole DEF ofOther
  <2>3. store' = [store EXCEPT ![o] = ofOther, ![other].value = Moved]
    BY <1>6, <2>2 DEF MoveAssign
  <2>4. OutcomeInv' /\ Abs' = [Abs EXCEPT ![o] = Seen(ofOther), ![other] = Tagged!MovedFrom(other)]
    BY <1>1, <2>1, <2>3, TwoChanged
  <2>5. OutcomeInv' /\ Abs' = [Abs EXCEPT ![o] = Abs[other], ![other] = Tagged!MovedFrom(other)]
    BY <1>2, <2>1, <2>4
  <2>6. Tagged!Move(o, other)
    BY <2>1, <2>5, MadeHolds DEF Tagged!Move, Abs
  <2> QED BY <2>5, <2>6 DEF Tagged!Next
<1>7. ASSUME NEW ok \in BOOLEAN, Take(o, ok) PROVE OutcomeInv' /\ Tagged!Next
  <2> DEFINE b == ObjectOf(TRUE, store[o].success, MemberOf(store[o].success), Moved)
  <2>1. store[o].made
    BY <1>7 DEF Take
  <2>2. [store[o] EXCEPT !.value = Moved] = b
    BY <2>1, MadeHolds, OthersAreWhole, ZenonT(40)
  <2>3. store' = [store EXCEPT ![o] = b]
    BY <1>7, <2>2 DEF Take
  <2>4. Whole(b) /\ Seen(b) = Tagged!MovedFrom(o)
    BY <2>1, MadeHolds, BytesWhole, ZenonT(40) DEF Tagged!MovedFrom, Tagged!Holding, Moved
  <2> HIDE DEF b
  <2>5. OutcomeInv' /\ Abs' = [Abs EXCEPT ![o] = Tagged!MovedFrom(o)]
    BY <2>3, <2>4, OneChanged
  <2>6. Tagged!Take(o)
    BY <2>1, <2>5, MadeHolds DEF Tagged!Take, Abs
  <2> QED BY <2>5, <2>6 DEF Tagged!Next
<1>8. ASSUME Destroy(o) PROVE OutcomeInv' /\ Tagged!Next
  <2>1. store[o].made /\ store' = [store EXCEPT ![o] = Unmade]
    BY <1>8, MadeHolds, OthersAreWhole DEF Destroy
  <2>2. OutcomeInv' /\ Abs' = [Abs EXCEPT ![o] = Tagged!Nothing]
    BY <2>1, UnmadeWhole, OneChanged
  <2>3. Tagged!Drop(o)
    BY <2>1, <2>2, MadeHolds DEF Tagged!Drop, Abs
  <2> QED BY <2>2, <2>3 DEF Tagged!Next
<1> QED BY <1>3, <1>4, <1>5, <1>6, <1>7, <1>8

(* The union's members live and end as the flag says, whatever the objects *)
(* and the sequence of operations.                                         *)
THEOREM MembersAlive == OutcomeSpec => []OneMemberAlive
<1>1. OutcomeInit => OutcomeInv
  BY InitInv
<1>2. OutcomeInv /\ [OutcomeNext]_store => OutcomeInv'
  BY StepInv DEF OutcomeInv, OneMemberAlive
<1>3. OutcomeInv => OneMemberAlive
  BY DEF OutcomeInv
<1> QED BY <1>1, <1>2, <1>3, PTL DEF OutcomeSpec

(* outcome behaves as a tagged value in every sequence of operations.      *)
THEOREM OutcomeIsTagged == OutcomeSpec => ImplementsTaggedValues
<1>1. OutcomeInit => OutcomeInv /\ Tagged!Init
  BY InitInv
<1>2. OutcomeInv /\ [OutcomeNext]_store => OutcomeInv' /\ [Tagged!Next]_Abs
  <2>1. CASE OutcomeNext
    BY <2>1, StepInv
  <2>2. CASE UNCHANGED store
    BY <2>2 DEF OutcomeInv, OneMemberAlive, Abs
  <2> QED BY <2>1, <2>2
<1> QED BY <1>1, <1>2, PTL DEF OutcomeSpec, ImplementsTaggedValues, Tagged!Spec, Abs
=============================================================================
