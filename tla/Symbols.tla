------------------------------ MODULE Symbols ------------------------------
(***************************************************************************)
(* How the resolver over libbfd in backward.h finds the function of an     *)
(* address in an object file (ObjectFiles says which file): it tries the   *)
(* sections one by one, with the address as it is in memory and, in case   *)
(* the object was relocated, less its base; and in a section that has it   *)
(* the symbol table first, then the dynamic one.                           *)
(***************************************************************************)
EXTENDS Integers, Sequences, SequencesExt

CONSTANT
  Images   \* mapped objects: [relocated, base, code, sections, symtab, dynamic,
           \* exported]; code is a set of file addresses, a section is [alloc,
           \* vma, size], and a table says of a file address which functions
           \* it is in, the innermost inlined one first

NoFunction == "none"

IsIn(section, addr) == section.vma <= addr /\ addr < section.vma + section.size

(* Code is in a section that is loaded.  A relocated object is put further *)
(* up than it is long; of one that is not relocated, no table has what an  *)
(* address of its code less its base is, in another section.  A function   *)
(* has a name.                                                             *)
Mappable(i) ==
  LET loaded == {s \in ToSet(i.sections) : s.alloc}
      listed == DOMAIN i.symtab \cup DOMAIN i.dynamic
  IN  /\ i.code \subseteq Nat /\ i.base \in Nat /\ i.relocated \in BOOLEAN
      /\ i.sections \in Seq([alloc : BOOLEAN, vma : Nat, size : Nat])
      /\ \A at \in i.code : \E s \in loaded : IsIn(s, at)
      /\ i.relocated => \A s \in loaded : s.vma + s.size <= i.base
      /\ ~i.relocated => \A at \in i.code, s \in loaded :
                           IsIn(s, at - i.base) /\ ~IsIn(s, at) => at - i.base \notin listed
      /\ \A t \in {i.symtab, i.dynamic} : \A at \in DOMAIN t :
           t[at] \in Seq(ToSet(t[at])) /\ t[at] # <<>> /\ NoFunction \notin ToSet(t[at])

ASSUME ImagesAssumption == \A i \in Images : Mappable(i)

VARIABLES
  image,
  symbol    \* history: the last trace

symbolVars == <<image, symbol>>

NoSymbol    == [found |-> FALSE, functions |-> <<>>]
NotResolved == [at |-> -1, object_function |-> NoFunction, function |-> NoFunction, inliners |-> <<>>]

SymbolsInit == image \in Images /\ symbol = NotResolved

(* Where the file's address is in memory.                                  *)
InMemory(at) == IF image.relocated THEN image.base + at ELSE at

(* What a table has of a place in a section.                               *)
bfd_find_nearest_line(table, section, offset) ==
  LET at == section.vma + offset
  IN  IF at \in DOMAIN table THEN [found |-> TRUE, functions |-> table[at]] ELSE NoSymbol

(* The address, less the base if it is not in the section as it is.        *)
AsMapped(section, addr)  == addr   \* mutant
Relocated(section, addr) == IF IsIn(section, addr) THEN addr ELSE addr - image.base

find_in_section(section, addr) ==
  LET at    == Relocated(section, addr)
      Of(t) == bfd_find_nearest_line(t, section, at - section.vma)
  IN  IF section.alloc /\ IsIn(section, at)
      THEN IF Of(image.symtab).found THEN Of(image.symtab) ELSE Of(image.dynamic)
      ELSE NoSymbol

(* bfd_map_over_sections(): once one has found it the others return.       *)
find_symbol_details(addr) ==
  LET finding == {i \in DOMAIN image.sections : find_in_section(image.sections[i], addr).found}
  IN  IF finding = {} THEN NoSymbol ELSE find_in_section(image.sections[Min(finding)], addr)

(* libbfd gives the calls around the one it found, until there is none.    *)
backtrace_inliners(found) == Tail(found.functions)

(* dladdr() has a name for the function only if the object exports one.    *)
resolve_symbol(at) ==
  LET details   == find_symbol_details(InMemory(at))
      dli_sname == IF at \in DOMAIN image.exported THEN image.exported[at] ELSE NoFunction
      function  == IF details.found THEN Head(details.functions) ELSE NoFunction
  IN  /\ symbol' = [at              |-> at,
                    object_function |-> IF dli_sname = NoFunction THEN function ELSE dli_sname,
                    function        |-> function,
                    inliners        |-> IF details.found THEN backtrace_inliners(details) ELSE <<>>]
      /\ UNCHANGED image

SymbolsNext == \E at \in image.code : resolve_symbol(at)
SymbolsSpec == SymbolsInit /\ [][SymbolsNext]_symbolVars

-----------------------------------------------------------------------------
Known(at) ==
  CASE at \in DOMAIN image.symtab -> image.symtab[at]
    [] at \in DOMAIN image.dynamic \ DOMAIN image.symtab -> image.dynamic[at]
    [] OTHER -> <<>>

(* The trace of an address has the functions that either table knows for   *)
(* it, from the inlined one out, and none of another address: although the *)
(* sections are searched in order, each with two readings of the address,  *)
(* no section before the right one takes it for its own                    *)
(* (find_in_section(), backtrace_inliners()).                              *)
SymbolIsTheAddress ==
  symbol # NotResolved =>
    Known(symbol.at) = IF symbol.function = NoFunction THEN <<>>
                       ELSE <<symbol.function>> \o symbol.inliners
=============================================================================
