---------------------------- MODULE TaggedValues ----------------------------
(***************************************************************************)
(* What outcome<TResult, TFailure> promises its callers: a place holds     *)
(* nothing, or one value with its kind, "m_s" for a result and "m_f" for a *)
(* failure.  To move a value is to leave a moved-from one of its kind.     *)
(***************************************************************************)
CONSTANTS Objects, Values

VARIABLE held

Nothing == [kind |-> "none", value |-> "moved-from"]
Kinds   == {"m_s", "m_f"}

Holding(kind, v) == [kind |-> kind, value |-> v]
Holds(o)         == held[o].kind \in Kinds
MovedFrom(o)     == Holding(held[o].kind, "moved-from")

Init == held = [o \in Objects |-> Nothing]

Put(o) == \E kind \in Kinds, v \in Values :
  ~Holds(o) /\ held' = [held EXCEPT ![o] = Holding(kind, v)]

Copy(o, other) == ~Holds(o) /\ Holds(other) /\ held' = [held EXCEPT ![o] = held[other]]

Move(o, other) ==
  o # other /\ Holds(other) /\ held' = [held EXCEPT ![o] = held[other], ![other] = MovedFrom(other)]

Take(o) == Holds(o) /\ held' = [held EXCEPT ![o] = MovedFrom(o)]

Drop(o) == Holds(o) /\ held' = [held EXCEPT ![o] = Nothing]

Next == \E o, other \in Objects :
          Put(o) \/ Copy(o, other) \/ Move(o, other) \/ Take(o) \/ Drop(o)

Spec == Init /\ [][Next]_held
=============================================================================
