----------------------------- MODULE DebugInfo -----------------------------
(***************************************************************************)
(* The trace resolver over libdw in backward.h: from an address to its     *)
(* module, its compilation unit, its source location, the function it is   *)
(* in and the calls that were inlined there.  A program is one module with *)
(* one tree of debugging entries (DIEs), whose root has the units as its   *)
(* children.  Numbers order the entries: a child follows its parent, and   *)
(* siblings are in their order.                                            *)
(***************************************************************************)
EXTENDS Naturals, Sequences, Folds, SequencesExt

CONSTANTS
  Programs,   \* [parent, tag, declaration, pcs], functions of the entries,
              \* aranges, whether there is an index of the units, and symtab
  Addresses

Root   == 1
NoUnit == 0
NoName == 0

(* The entries from which a search comes to d: the one it is in, and those *)
(* around as far as there is no declaration between.                       *)
FoundFrom(p, d) ==
  {e \in DOMAIN p.parent :
     \A S \in SUBSET DOMAIN p.parent :
       /\ p.parent[d] \in S
       /\ \A c \in S \ {Root} : p.declaration[c] \/ p.parent[c] \in S
       => e \in S}

(* No declaration has code in it, and an index of the units knows the      *)
(* functions in them.                                                      *)
WellFormed(p) ==
  LET dies == DOMAIN p.parent
      functions == {d \in dies : p.tag[d] = "subprogram"}
  IN  /\ dies \subseteq Nat /\ Root \in dies \ functions
      /\ \A d \in dies \ {Root} : /\ p.parent[d] \in dies /\ p.parent[d] < d
                                  /\ p.parent[d] = Root => d \notin functions
      /\ \A d \in functions : p.pcs[d] # {} => \A e \in FoundFrom(p, d) : ~p.declaration[e]
      /\ p.aranges => \A d \in dies : p.parent[d] = Root =>
           p.pcs[d] \subseteq UNION {p.pcs[f] : f \in {f \in functions : d \in FoundFrom(p, f)}}

ASSUME ProgramsAssumption == \A p \in Programs : WellFormed(p)

VARIABLES
  program,
  _dwfl_handle,              \* "none", or what dwfl_begin() and the report of
  _dwfl_handle_initialized,  \* the process left: "empty" or "reported"
  traces                     \* history: the traces resolved, by address

debugVars == <<program, _dwfl_handle, _dwfl_handle_initialized, traces>>

Unresolved(addr) == [addr |-> addr, resolved |-> FALSE, object_function |-> NoName,
                     cudie |-> NoUnit, function |-> NoName, inliners |-> <<>>]

DebugInit ==
  /\ program \in Programs
  /\ _dwfl_handle = "none" /\ _dwfl_handle_initialized = FALSE
  /\ traces = {}

Dies == DOMAIN program.parent
Units         == {d \in Dies : program.parent[d] = Root}
Children(die) == SelectSeq([d \in Dies |-> d], LAMBDA d : program.parent[d] = die)
FirstOf(dies) == IF dies = {} THEN NoUnit ELSE Min(dies)

(* A range of addresses, or several: an entry may have none.               *)
die_has_pc(die, pc) == pc \in program.pcs[die]

IsFunction(die) == program.tag[die] \in {"subprogram", "inlined"}

(* find_fundie_by_pc(): whether a function below the entry has the pc;     *)
(* declarations are not looked into.                                       *)
HasFundie(parent_die, pc) ==
  \E d \in Dies : IsFunction(d) /\ die_has_pc(d, pc) /\ parent_die \in FoundFrom(program, d)

(* The first unit with such a function, where the index knows of none.     *)
(* The mutant takes the first unit.                                        *)
AnyUnit(pc)   == FirstOf(Units)
FirstUnit(pc) == FirstOf({cu \in Units : HasFundie(cu, pc)})

dwfl_module_addrdie(pc) == FirstOf({cu \in Units : program.aranges /\ die_has_pc(cu, pc)})

(* deep_first_search_by_pc(): the entries the callback gets, in its order. *)
(* What one sibling leaves in branch_has_pc is there at the next, and is   *)
(* not set again if that is a declaration.  The mutant calls back for the  *)
(* innermost entry alone.                                                  *)
OnlyInnermost(die, branch_has_pc, pc) == ~branch_has_pc /\ die_has_pc(die, pc)
OrBelow(die, branch_has_pc, pc) == branch_has_pc \/ die_has_pc(die, pc)

deep_first_search_by_pc(cudie, pc) ==
  LET search[parent_die \in Dies] ==
        FoldLeft(LAMBDA so_far, die :
                   LET branch == IF program.declaration[die]
                                   THEN [has |-> so_far.has, calls |-> <<>>]
                                   ELSE search[die]
                       has    == OrBelow(die, branch.has, pc)
                   IN  [has   |-> has,
                        calls |-> so_far.calls \o branch.calls \o (IF has THEN <<die>> ELSE <<>>)],
                 [has |-> FALSE, calls |-> <<>>], Children(parent_die))
  IN  search[cudie].calls

(* The function the symbol table names, where it has not been stripped.    *)
Around(tag, pc)     == {d \in Dies : program.tag[d] = tag /\ die_has_pc(d, pc)}
object_function(pc) == IF program.symtab THEN CHOOSE d \in Around("subprogram", pc) \cup {NoName} :
                                                Around("subprogram", pc) # {} => d # NoName
                                         ELSE NoName

(* inliners_search_cb, over the entries it is called for.                  *)
Calls(dies, tag) == SelectSeq(dies, LAMBDA die : program.tag[die] = tag)

Resolved(addr) ==
  LET cudie == IF dwfl_module_addrdie(addr) # NoUnit THEN dwfl_module_addrdie(addr) ELSE FirstUnit(addr)
      dies  == IF cudie = NoUnit THEN <<>> ELSE deep_first_search_by_pc(cudie, addr)
      subprograms == Calls(dies, "subprogram")
  IN  [addr |-> addr, resolved |-> TRUE, object_function |-> object_function(addr), cudie |-> cudie,
       function |-> CASE cudie = NoUnit     -> NoName
                      [] subprograms = <<>> -> object_function(addr)
                      [] OTHER              -> Last(subprograms),
       inliners |-> Calls(dies, "inlined")]

(* The first trace opens the debug information of the process.  A handle   *)
(* that could not be opened is not tried again, and one that could not be  *)
(* filled has no module for any address.                                   *)
resolve(addr) ==
  /\ _dwfl_handle_initialized' = TRUE
  /\ IF _dwfl_handle_initialized THEN UNCHANGED _dwfl_handle
                                 ELSE _dwfl_handle' \in {"none", "empty", "reported"}
  /\ traces' = traces \cup {IF _dwfl_handle' = "reported" /\ die_has_pc(Root, addr)
                              THEN Resolved(addr) ELSE Unresolved(addr)}
  /\ UNCHANGED program

DebugNext == \E addr \in Addresses : resolve(addr)
DebugSpec == DebugInit /\ [][DebugNext]_debugVars

-----------------------------------------------------------------------------
InOrder(dies) == Reverse(SelectSeq([d \in Dies |-> d], LAMBDA d : d \in dies))

(* The inliners of a trace are the calls that are inlined where its        *)
(* address is, each one once, the innermost first, whatever functions and  *)
(* declarations stand before and after (deep_first_search_by_pc).          *)
InlinersAreAround ==
  \A trace \in traces : trace.cudie # NoUnit =>
    trace.inliners = InOrder(Around("inlined", trace.addr))

(* Where some function has the address, its unit is found, and is the one  *)
(* that function is in, with an index of the units or without (resolve,    *)
(* find_fundie_by_pc).                                                     *)
UnitHasTheFunction ==
  \A trace \in traces : trace.resolved /\ Around("subprogram", trace.addr) # {} =>
    trace.cudie # NoUnit /\ HasFundie(trace.cudie, trace.addr)

(* The source location's function is the one that has the address, as      *)
(* ResolvedTrace says: object_function, or one inlined there.              *)
FunctionHasTheAddress ==
  \A trace \in traces : trace.function # NoName => die_has_pc(trace.function, trace.addr)
=============================================================================
