------------------------------ MODULE Outcome ------------------------------
(***************************************************************************)
(* outcome<TResult, TFailure>: a result or a failure in one piece of       *)
(* storage, a union, and a flag that says which of the two is alive there. *)
(* Every constructor, the assignment and the destructor have to agree on   *)
(* the flag, which is read before or after the storage changes hands.      *)
(***************************************************************************)
EXTENDS Naturals

CONSTANTS
  Objects,    \* the places outcomes are made in: locals, temporaries
  Values      \* results and failures

VARIABLE
  store       \* the bytes of each object: its flag, and which member is
              \* alive in the union, with which value

Dead    == "none"     \* no member is alive in the union
Corrupt == "corrupt"  \* a member was built over another, or one that was
                      \* not alive was destroyed: undefined from there on
Moved   == "moved-from"

(* made: between the end of a constructor and that of the destructor.      *)
Unmade == [made |-> FALSE, success |-> FALSE, alive |-> Dead, value |-> Moved]

MemberOf(success) == IF success THEN "m_s" ELSE "m_f"

Flagged(o, success) == [o EXCEPT !.success = success]

(* new (&m_s) TResult(v) or new (&m_f) TFailure(v).                        *)
Built(o, success, v) ==
  [o EXCEPT !.alive = IF o.alive = Dead THEN MemberOf(success) ELSE Corrupt, !.value = v]

(* The destructor of the member that the object's own flag names.          *)
destroy(o) == [o EXCEPT !.alive = IF o.alive = MemberOf(o.success) THEN Dead ELSE Corrupt]

Made(o, success, v) == Built(Flagged([o EXCEPT !.made = TRUE], success), success, v)

OutcomeInit == store = [o \in Objects |-> Unmade]

(* outcome(TResult), outcome(TFailure)                                     *)
Construct(o, success, v) ==
  /\ ~store[o].made
  /\ store' = [store EXCEPT ![o] = Made(@, success, v)]

(* outcome(outcome const&): the other keeps its value.                     *)
CopyConstruct(o, other) ==
  /\ ~store[o].made /\ store[other].made
  /\ store' = [store EXCEPT ![o] = Made(@, store[other].success, store[other].value)]

(* outcome(outcome&&): the other is left with a moved-from member, which   *)
(* is alive, and with its flag.                                            *)
MoveConstruct(o, other) ==
  /\ ~store[o].made /\ store[other].made
  /\ store' = [store EXCEPT ![o] = Made(@, store[other].success, store[other].value),
                            ![other].value = Moved]

(* The order of operator=: the old member goes by the old flag, the new    *)
(* one is built by the other's flag, and the flag follows.                 *)
FlagFirst(o, other) ==   \* mutant
  Built(destroy(Flagged(o, other.success)), other.success, other.value)
Assigned(o, other) ==
  Flagged(Built(destroy(o), other.success, other.value), other.success)

(* operator=(outcome&&), never of an object to itself, which it asserts.   *)
MoveAssign(o, other) ==
  /\ o # other /\ store[o].made /\ store[other].made
  /\ store' = [store EXCEPT ![o] = Assigned(@, store[other]), ![other].value = Moved]

(* std::move(o).get_result() or get_failure(), moved into an object        *)
(* outside; both assert the flag.                                          *)
Take(o, success) ==
  /\ store[o].made /\ store[o].success = success
  /\ store' = [store EXCEPT ![o].value = Moved]

(* The end of an object's lifetime; its bytes are then anything's.         *)
Gone(o) == [made |-> FALSE, success |-> FALSE, alive |-> destroy(o).alive, value |-> Moved]

Destroy(o) ==
  /\ store[o].made
  /\ store' = [store EXCEPT ![o] = Gone(@)]

OutcomeNext == \E o, other \in Objects :
  \/ \E success \in BOOLEAN, v \in Values : Construct(o, success, v)
  \/ CopyConstruct(o, other) \/ MoveConstruct(o, other) \/ MoveAssign(o, other)
  \/ \E success \in BOOLEAN : Take(o, success)
  \/ Destroy(o)

OutcomeSpec == OutcomeInit /\ [][OutcomeNext]_store

-----------------------------------------------------------------------------
(* An object that is made has alive the one member its flag names, and one *)
(* that is not made has none: nothing is built over a member that is alive,*)
(* and nothing is left behind.                                             *)
OneMemberAlive ==
  \A o \in Objects :
    store[o].alive = IF store[o].made THEN MemberOf(store[o].success) ELSE Dead

(* outcome is a tagged value, whatever the sequence of operations: the     *)
(* member that is alive is what the callers put or moved there             *)
(* (outcome.h:58: the assignment destroys before it builds).               *)
Tagged == INSTANCE TaggedValues
            WITH held <- [o \in Objects |-> [kind |-> store[o].alive, value |-> store[o].value]]

ImplementsTaggedValues == Tagged!Spec
=============================================================================
