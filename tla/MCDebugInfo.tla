---------------------------- MODULE MCDebugInfo ----------------------------
(***************************************************************************)
(* The programs a compiler can write with MaxDies entries: functions are   *)
(* in units or namespaces and have addresses unless they are declarations, *)
(* inlined calls are within functions, and neither two functions nor two   *)
(* calls side by side share an address.  A unit has the addresses of its   *)
(* functions where there is an index.                                      *)
(***************************************************************************)
EXTENDS DebugInfo

CONSTANT MaxDies

Pcs  == Addresses \ {0}
Tags == {"unit", "namespace", "subprogram", "inlined"}

(* A trace of address 0 is outside the module.                             *)
OneUnit == [parent |-> <<0, 1>>, tag |-> <<"module", "unit">>, pcs |-> <<Pcs, {}>>,
            declaration |-> <<FALSE, FALSE>>]

MayAdd(p, parent, tag, pcs) ==
  CASE tag = "unit"       -> parent = 1 /\ pcs = {}
    [] tag = "namespace"  -> p.tag[parent] = "unit" /\ pcs = {}
    [] tag = "subprogram" -> /\ p.tag[parent] \in {"unit", "namespace"}
                             /\ \A d \in DOMAIN p.tag : p.tag[d] = "subprogram" => p.pcs[d] \cap pcs = {}
    [] tag = "inlined"    -> /\ p.tag[parent] \in {"subprogram", "inlined"}
                             /\ pcs # {} /\ pcs \subseteq p.pcs[parent]
                             /\ \A d \in DOMAIN p.tag : p.parent[d] = parent => p.pcs[d] \cap pcs = {}

Add(p, parent, tag, pcs) ==
  [parent |-> Append(p.parent, parent), tag |-> Append(p.tag, tag), pcs |-> Append(p.pcs, pcs),
   declaration |-> Append(p.declaration, tag = "subprogram" /\ pcs = {})]

Grown[n \in 2 .. MaxDies] ==
  IF n = 2 THEN {OneUnit}
  ELSE UNION {{Add(p, q[1], q[2], q[3]) : q \in {q \in (1 .. (n - 1)) \X Tags \X SUBSET Pcs :
                                                   MayAdd(p, q[1], q[2], q[3])}} : p \in Grown[n - 1]}

OfUnit(p, unit) ==
  UNION {p.pcs[d] : d \in {d \in DOMAIN p.tag : p.parent[d] = unit \/ (d # 1 /\ p.parent[p.parent[d]] = unit)}}

WithIndex(p, aranges, symtab) ==
  [parent |-> p.parent, tag |-> p.tag, declaration |-> p.declaration,
   pcs |-> [d \in DOMAIN p.tag |-> IF aranges /\ p.tag[d] = "unit" THEN OfUnit(p, d) ELSE p.pcs[d]],
   aranges |-> aranges, symtab |-> symtab]

MCPrograms == {WithIndex(p, aranges, symtab) : p \in Grown[MaxDies], aranges, symtab \in BOOLEAN}
=============================================================================
