--------------------------- MODULE BackwardProofs ---------------------------
(***************************************************************************)
(* For any files, objects, debug information and calls: a trace shows      *)
(* the symbols of the process, and not of a file that took its             *)
(* executable's place (ObjectFiles), those of the address it is at         *)
(* (Symbols, DebugInfo), with the source around its line (Snippet), in the *)
(* order of the calls (Printer).                                           *)
(***************************************************************************)
EXTENDS ObjectFiles, Symbols, DebugInfo, Snippet, Printer, Integers, SequenceTheorems, WellFoundedInduction, TLAPS

(* Min() and Max() of a set of numbers.                                    *)
LEMMA HasLeast ==
  ASSUME NEW S \in SUBSET Nat, S # {}
  PROVE  Min(S) \in S /\ \A x \in S : Min(S) <= x
<1> DEFINE R == {p \in Nat \X Nat : p[1] < p[2]}
<1>1. R = OpToRel(<, Nat)
  BY DEF OpToRel
<1>2. IsWellFoundedOn(R, Nat)
  BY <1>1, NatLessThanWellFounded
<1>3. PICK m \in S : \A x \in S : <<x, m>> \notin R
  BY <1>2, WFMin
<1>4. \A x \in S : x \in Nat /\ m \in Nat /\ ~(x < m)
  BY <1>3
<1>5. \A x \in S : m <= x
  BY <1>4
<1>6. \E y \in S : \A x \in S : y <= x
  BY <1>5
<1> QED BY <1>6, Zenon DEF Min

(* As HasLeast, of the numbers up to n.                                    *)
LEMMA HasGreatest ==
  ASSUME NEW n \in Nat, NEW S \in SUBSET (0 .. n), S # {}
  PROVE  Max(S) \in S /\ \A x \in S : x <= Max(S)
<1> DEFINE T == {n - x : x \in S}
<1>0. \A x \in S : x \in 0 .. n /\ x \in Int /\ n - x \in Nat
  OBVIOUS
<1>1. T \in SUBSET Nat /\ T # {}
  BY <1>0
<1>2. Min(T) \in T /\ \A y \in T : Min(T) <= y
  <2> HIDE DEF T
  <2> QED BY <1>1, HasLeast
<1>3. PICK m \in S : Min(T) = n - m
  BY <1>2
<1>4. \A x \in S : n - m <= n - x
  BY <1>2, <1>3
<1>5. \A x \in S : m >= x
  BY <1>0, <1>4
<1>6. \E y \in S : \A x \in S : y >= x
  BY <1>5
<1>7. Max(S) \in S /\ \A x \in S : Max(S) >= x
  BY <1>6, Zenon DEF Max
<1> QED BY <1>7

-----------------------------------------------------------------------------
(* ObjectFiles: the symbols are those of the process.                      *)
exe == Mapped[Executable]

TypeOK ==
  /\ fs \in [DOMAIN Mapped -> Inodes \cup {NoInode}]
  /\ withSymbols \subseteq Inodes
  /\ exec_path_ \in {Executable, DeletedPath}
  /\ _fobj_bfd_map \in [FileNames -> Inodes \cup {NoInode, NotTried}]
  /\ step \in {"idle", "same file", "other file"}
  /\ object \in DOMAIN Mapped
  /\ changed \in BOOLEAN
  /\ resolved \in [object : DOMAIN Mapped, inode : Inodes \cup {NoInode}, changed : BOOLEAN]

(* The three names the executable is loaded under: what the cache has for  *)
(* its path was the mapped file when it was loaded, and what it has for    *)
(* /proc/self/exe always is.                                               *)
CacheIsTheProcess ==
  /\ _fobj_bfd_map[ProcSelfExe] \in {NotTried, IF exe \in withSymbols THEN exe ELSE NoInode}
  /\ _fobj_bfd_map[DeletedPath] \in {NotTried, NoInode}
  /\ ~changed => _fobj_bfd_map[Executable] \in {NotTried, NoInode, exe}

(* Between the check and the use, the path still leads to what was checked.*)
CheckHolds == step = "same file" /\ object = Executable /\ ~changed => InodeAt(exec_path_) = exe

IInv == TypeOK /\ CacheIsTheProcess /\ CheckHolds /\ SymbolsAreTheProcess /\ LastResortWorks

(* The names an object is loaded under are all different.                  *)
LEMMA Naming ==
  /\ Executable \in FileNames /\ ProcSelfExe \in FileNames /\ DeletedPath \in FileNames
  /\ DOMAIN Mapped \subseteq FileNames
  /\ Executable # ProcSelfExe /\ Executable # DeletedPath /\ ProcSelfExe # DeletedPath
  /\ \A o \in DOMAIN Mapped : o # ProcSelfExe /\ o # DeletedPath
  /\ exe \in Inodes /\ NoInode \notin Inodes /\ NotTried \notin Inodes /\ NoInode # NotTried
BY ObjectsAssumption DEF FileNames, exe, NoInode, NotTried, ProcSelfExe, DeletedPath

(* Only the executable's names depend on the file system.                  *)
LEMMA NamesOfObjects ==
  ASSUME TypeOK, NEW o \in DOMAIN Mapped
  PROVE  /\ object_filename(o) \in FileNames /\ dli_fname(o) \in FileNames
         /\ o = Executable => dli_fname(o) = ProcSelfExe /\ object_filename(o) \in {Executable, DeletedPath}
         /\ o # Executable => dli_fname(o) \notin {Executable, ProcSelfExe, DeletedPath}
                              /\ object_filename(o) \notin {Executable, ProcSelfExe, DeletedPath}
BY Naming DEF TypeOK, object_filename, dli_fname

(* What load_object_with_bfd() returns is in the cache or at the path.     *)
LEMMA LoadedIsAnInode ==
  ASSUME TypeOK, NEW name \in FileNames
  PROVE  load_object_with_bfd(name) \in Inodes \cup {NoInode}
<1>1. InodeAt(name) \in Inodes \cup {NoInode}
  BY ObjectsAssumption, Naming DEF TypeOK, InodeAt, FileNames, exe
<1> QED
  BY <1>1, Naming DEF TypeOK, load_object_with_bfd

(* What load_object_with_bfd() returns for the executable's names.         *)
LEMMA LoadedIsTheProcess ==
  ASSUME TypeOK, CacheIsTheProcess
  PROVE  /\ load_object_with_bfd(ProcSelfExe) = IF exe \in withSymbols THEN exe ELSE NoInode
         /\ load_object_with_bfd(DeletedPath) = NoInode
         /\ ~changed /\ InodeAt(Executable) = exe => load_object_with_bfd(Executable) \in {NoInode, exe}
<1>1. InodeAt(ProcSelfExe) = exe /\ InodeAt(DeletedPath) = NoInode
  BY Naming DEF InodeAt, exe
<1>2. withSymbols \subseteq Inodes
  BY DEF TypeOK
<1> QED
  BY <1>1, <1>2, Naming DEF CacheIsTheProcess, load_object_with_bfd

(* ObjectFiles: the invariant holds initially.                             *)
THEOREM InitIsSafe == ObjectsInit => IInv
<1> SUFFICES ASSUME ObjectsInit PROVE IInv
  OBVIOUS
<1>1. TypeOK
  BY ObjectsAssumption, Naming DEF ObjectsInit, TypeOK, ReadLink
<1>2. CacheIsTheProcess
  BY Naming DEF ObjectsInit, CacheIsTheProcess
<1> QED
  BY <1>1, <1>2, Naming DEF ObjectsInit, IInv, CheckHolds, SymbolsAreTheProcess,
     LastResortWorks, exe

(* A change at the executable's path between check and use is remembered.  *)
LEMMA ChangeFileIsSafe ==
  ASSUME IInv, NEW path \in DOMAIN Mapped, ChangeFile(path)
  PROVE  IInv'
<1>1. PICK inode \in Inodes \cup {NoInode} : fs' = [fs EXCEPT ![path] = inode]
  BY DEF ChangeFile
<1>2. TypeOK'
  BY <1>1 DEF IInv, TypeOK, ChangeFile
<1>3. CacheIsTheProcess'
  BY DEF IInv, TypeOK, CacheIsTheProcess, ChangeFile
<1>4. CheckHolds'
  <2> SUFFICES ASSUME (step = "same file" /\ object = Executable /\ ~changed)'
               PROVE  InodeAt(exec_path_)' = exe
    BY DEF CheckHolds, exe
  <2>1. path # Executable /\ InodeAt(exec_path_) = exe
    BY DEF IInv, TypeOK, CheckHolds, ChangeFile
  <2>2. fs'[Executable] = fs[Executable] /\ exec_path_' = exec_path_
    BY <1>1, <2>1, Naming DEF IInv, TypeOK, ChangeFile
  <2>3. exec_path_ \in {Executable, DeletedPath}
    BY DEF IInv, TypeOK
  <2> QED
    BY <2>1, <2>2, <2>3, Naming DEF InodeAt
<1> QED
  BY <1>2, <1>3, <1>4 DEF IInv, SymbolsAreTheProcess, LastResortWorks, ChangeFile

(* A new resolver has an empty cache.                                      *)
LEMMA NewResolverIsSafe == IInv /\ NewResolver => IInv'
<1> SUFFICES ASSUME IInv, NewResolver PROVE IInv'
  OBVIOUS
<1>1. TypeOK'
  BY DEF IInv, TypeOK, NewResolver, ReadLink
<1>2. CacheIsTheProcess'
  BY Naming DEF IInv, CacheIsTheProcess, NewResolver
<1> QED
  BY <1>1, <1>2 DEF IInv, CheckHolds, SymbolsAreTheProcess, LastResortWorks, NewResolver

(* That both are the same file is so when it was compared.                 *)
LEMMA ResolveIsSafe ==
  ASSUME IInv, NEW o \in DOMAIN Mapped, Resolve(o)
  PROVE  IInv'
<1>1. TypeOK'
  BY DEF IInv, TypeOK, Resolve
<1>2. CacheIsTheProcess'
  BY DEF IInv, CacheIsTheProcess, Resolve
<1>3. CheckHolds'
  <2> SUFFICES ASSUME step' = "same file", object' = Executable
               PROVE  InodeAt(exec_path_)' = exe
    BY DEF CheckHolds, exe
  <2>1. SameFile(Executable)
    BY DEF Resolve
  <2> QED
    BY <2>1, Naming DEF SameFile, InodeAt, object_filename, dli_fname, exe, Resolve
<1> QED
  BY <1>1, <1>2, <1>3 DEF IInv, SymbolsAreTheProcess, LastResortWorks, Resolve

(* The path was checked, so it is the mapped file, or a change is noted.   *)
LEMMA LoadPathIsSafe == IInv /\ LoadPath => IInv'
<1> SUFFICES ASSUME IInv, LoadPath PROVE IInv'
  OBVIOUS
<1> DEFINE name == object_filename(object)
           fobj == load_object_with_bfd(name)
<1>1. name \in FileNames /\ fobj \in Inodes \cup {NoInode} /\ object \in DOMAIN Mapped
  BY NamesOfObjects, LoadedIsAnInode DEF IInv, TypeOK
<1>2. _fobj_bfd_map' = [_fobj_bfd_map EXCEPT ![name] = fobj]
  BY DEF LoadPath
<1>3. TypeOK'
  <2>1. CASE HasHandle(fobj)
    <3>1. resolved' = [object |-> object, inode |-> fobj, changed |-> changed] /\ step' = "idle"
      BY <2>1 DEF LoadPath, ReadFrom
    <3>2. resolved' \in [object : DOMAIN Mapped, inode : Inodes \cup {NoInode}, changed : BOOLEAN]
      BY <1>1, <3>1 DEF IInv, TypeOK
    <3> HIDE DEF fobj, name
    <3> QED
      BY <1>1, <1>2, <3>1, <3>2 DEF IInv, TypeOK, LoadPath
  <2>2. CASE ~HasHandle(fobj)
    BY <1>1, <1>2, <2>2 DEF IInv, TypeOK, LoadPath
  <2> QED
    BY <2>1, <2>2
<1>4. object = Executable => name \in {Executable, DeletedPath} /\ name = exec_path_
  <2> SUFFICES ASSUME object = Executable
               PROVE  name \in {Executable, DeletedPath} /\ name = exec_path_
    OBVIOUS
  <2> QED
    BY <1>1, NamesOfObjects DEF IInv, object_filename
<1>5. object = Executable /\ ~changed => fobj \in {NoInode, exe}
  <2> SUFFICES ASSUME object = Executable, ~changed PROVE fobj \in {NoInode, exe}
    OBVIOUS
  <2>1. InodeAt(name) = exe
    BY <1>4 DEF IInv, CheckHolds, LoadPath
  <2> QED
    BY <1>4, <2>1, LoadedIsTheProcess DEF IInv
<1>6. name = DeletedPath => fobj = NoInode
  BY LoadedIsTheProcess DEF IInv
<1>7. object # Executable => name \notin {Executable, ProcSelfExe, DeletedPath}
  BY <1>1, NamesOfObjects DEF IInv
<1>8. CacheIsTheProcess'
  <2>1. name # ProcSelfExe
    BY <1>4, <1>7, Naming
  <2>2. /\ _fobj_bfd_map'[ProcSelfExe] = _fobj_bfd_map[ProcSelfExe]
        /\ _fobj_bfd_map'[DeletedPath] \in {_fobj_bfd_map[DeletedPath], NoInode}
        /\ ~changed => _fobj_bfd_map'[Executable] \in {_fobj_bfd_map[Executable], NoInode, exe}
    BY <1>1, <1>2, <1>4, <1>5, <1>6, <1>7, <2>1, Naming DEF IInv, TypeOK
  <2> QED
    BY <2>2 DEF IInv, CacheIsTheProcess, LoadPath, exe
<1>9. CASE HasHandle(fobj)
  <2>1. resolved' = [object |-> object, inode |-> fobj, changed |-> changed] /\ step' = "idle"
    BY <1>9 DEF LoadPath, ReadFrom
  <2>2. SymbolsAreTheProcess' /\ LastResortWorks' /\ CheckHolds'
    BY <1>5, <1>9, <2>1 DEF SymbolsAreTheProcess, LastResortWorks, CheckHolds, HasHandle, exe
  <2> QED
    BY <1>3, <1>8, <2>2 DEF IInv
<1>10. CASE ~HasHandle(fobj)
  BY <1>3, <1>8, <1>10 DEF IInv, CheckHolds, SymbolsAreTheProcess, LastResortWorks, LoadPath
<1> QED
  BY <1>9, <1>10

(* /proc/self/exe is the mapped file, and has its symbols.                 *)
LEMMA LoadMappedIsSafe == IInv /\ LoadMapped => IInv'
<1> SUFFICES ASSUME IInv, LoadMapped PROVE IInv'
  OBVIOUS
<1> DEFINE name == dli_fname(object)
           fobj == load_object_with_bfd(name)
<1>1. name \in FileNames /\ fobj \in Inodes \cup {NoInode} /\ object \in DOMAIN Mapped
  BY NamesOfObjects, LoadedIsAnInode DEF IInv, TypeOK
<1>2. _fobj_bfd_map' = [_fobj_bfd_map EXCEPT ![name] = fobj]
  BY DEF LoadMapped
<1>3. TypeOK'
  BY <1>1, <1>2 DEF IInv, TypeOK, LoadMapped, ReadFrom
<1>4. object = Executable => name = ProcSelfExe /\ fobj = IF exe \in withSymbols THEN exe ELSE NoInode
  BY <1>1, NamesOfObjects, LoadedIsTheProcess DEF IInv
<1>5. object # Executable => name \notin {Executable, ProcSelfExe, DeletedPath}
  BY <1>1, NamesOfObjects DEF IInv
<1>6. CacheIsTheProcess'
  <2>1. /\ _fobj_bfd_map'[ProcSelfExe] \in {_fobj_bfd_map[ProcSelfExe],
                                            IF exe \in withSymbols THEN exe ELSE NoInode}
        /\ _fobj_bfd_map'[DeletedPath] = _fobj_bfd_map[DeletedPath]
        /\ _fobj_bfd_map'[Executable] = _fobj_bfd_map[Executable]
    BY <1>1, <1>2, <1>4, <1>5, Naming DEF IInv, TypeOK
  <2> QED
    BY <2>1 DEF IInv, CacheIsTheProcess, LoadMapped, exe
<1> QED
  BY <1>3, <1>4, <1>6, Naming DEF IInv, CheckHolds, SymbolsAreTheProcess, LastResortWorks,
     LoadMapped, ReadFrom, exe

(* ObjectFiles: every step keeps the invariant.                            *)
THEOREM StepIsSafe == IInv /\ [ObjectsNext]_objectVars => IInv'
<1> SUFFICES ASSUME IInv, [ObjectsNext]_objectVars PROVE IInv'
  OBVIOUS
<1>1. CASE UNCHANGED objectVars
  BY <1>1, ZenonT(40) DEF IInv, TypeOK, CacheIsTheProcess, CheckHolds, SymbolsAreTheProcess, LastResortWorks,
     InodeAt, objectVars
<1>2. CASE ObjectsNext
  BY <1>2, ChangeFileIsSafe, ResolveIsSafe, NewResolverIsSafe, LoadPathIsSafe, LoadMappedIsSafe
  DEF ObjectsNext
<1> QED
  BY <1>1, <1>2

(* Whatever the files and their changes, the executable's symbols are the  *)
(* ones of the mapped file, unless it changed between check and use        *)
(* (TraceResolverLinuxImpl::resolve).                                      *)
THEOREM SymbolsAreSafe == ObjectsSpec => []SymbolsAreTheProcess
<1>1. IInv => SymbolsAreTheProcess
  BY DEF IInv
<1> QED
  BY <1>1, InitIsSafe, StepIsSafe, PTL DEF ObjectsSpec

(* Whatever the files and their changes, an executable with symbols is     *)
(* resolved (TraceResolverLinuxImpl::resolve, resolve_exec_path).          *)
THEOREM LastResortIsSafe == ObjectsSpec => []LastResortWorks
<1>1. IInv => LastResortWorks
  BY DEF IInv
<1> QED
  BY <1>1, InitIsSafe, StepIsSafe, PTL DEF ObjectsSpec

-----------------------------------------------------------------------------
(* Symbols: an address is found in one section of its object, or in none.  *)

(* What is true of an image that can be mapped, and stays so.              *)
ImageInv ==
  /\ image \in Images
  /\ \/ symbol = NotResolved
     \/ /\ symbol.at \in image.code
        /\ Known(symbol.at) = IF symbol.function = NoFunction THEN <<>>
                              ELSE <<symbol.function>> \o symbol.inliners

Loaded == {s \in ToSet(image.sections) : s.alloc}

(* A section that finds the address has what the tables know of it, and    *)
(* of no other address.                                                    *)
LEMMA FindsTheAddress ==
  ASSUME image \in Images, NEW at \in image.code, NEW s \in ToSet(image.sections)
  PROVE  LET found == find_in_section(s, InMemory(at))
         IN  /\ found.found => found.functions = Known(at) /\ at \in DOMAIN image.symtab \cup DOMAIN image.dynamic
             /\ ~found.found => found = NoSymbol
<1> DEFINE addr == InMemory(at)
           to   == Relocated(s, addr)
           Listed == DOMAIN image.symtab \cup DOMAIN image.dynamic
<1>1. s \in [alloc : BOOLEAN, vma : Nat, size : Nat] /\ at \in Nat /\ image.base \in Nat
  <2>1. image.sections \in Seq([alloc : BOOLEAN, vma : Nat, size : Nat]) /\ image.code \subseteq Nat /\ image.base \in Nat
    BY ImagesAssumption DEF Mappable
  <2>2. PICK i \in DOMAIN image.sections : s = image.sections[i]
    BY DEF ToSet
  <2>3. \A T : \A q \in Seq(T) : \A k \in DOMAIN q : q[k] \in T
    OBVIOUS
  <2>4. s \in [alloc : BOOLEAN, vma : Nat, size : Nat]
    BY <2>1, <2>2, <2>3, Zenon
  <2> QED BY <2>1, <2>4
<1>2. to \in Int /\ s.vma + (to - s.vma) = to
  BY <1>1 DEF InMemory, Relocated
<1>3. ASSUME s.alloc, IsIn(s, to), to \in Listed PROVE to = at
  <2>1. s \in Loaded
    BY <1>3 DEF Loaded
  <2>2. CASE image.relocated
    <3>1. s.vma + s.size <= image.base
      BY <2>1, <2>2, ImagesAssumption DEF Loaded, Mappable
    <3> QED BY <1>1, <1>3, <2>2, <3>1 DEF InMemory, Relocated, IsIn
  <2>3. CASE ~image.relocated
    <3>1. addr = at
      BY <2>3 DEF InMemory
    <3>2. IsIn(s, at - image.base) /\ ~IsIn(s, at) => at - image.base \notin Listed
      BY <2>1, <2>3, ImagesAssumption DEF Loaded, Mappable
    <3> QED BY <1>3, <3>1, <3>2 DEF Relocated
  <2> QED BY <2>2, <2>3
<1> HIDE DEF to, addr
<1>4. CASE ~(s.alloc /\ IsIn(s, to))
  BY <1>4 DEF find_in_section, NoSymbol, to, addr
<1>5. CASE s.alloc /\ IsIn(s, to)
  <2>1. find_in_section(s, addr) = IF to \in DOMAIN image.symtab THEN [found |-> TRUE, functions |-> image.symtab[to]]
                                   ELSE IF to \in DOMAIN image.dynamic THEN [found |-> TRUE, functions |-> image.dynamic[to]]
                                   ELSE NoSymbol
    BY <1>2, <1>5 DEF find_in_section, bfd_find_nearest_line, NoSymbol, to
  <2> QED BY <1>3, <1>5, <2>1 DEF Known, NoSymbol, addr
<1> QED BY <1>4, <1>5 DEF addr

(* Where a table knows the address, a section finds it.                    *)
LEMMA SomeSectionFinds ==
  ASSUME image \in Images, NEW at \in image.code, at \in DOMAIN image.symtab \cup DOMAIN image.dynamic
  PROVE  \E i \in DOMAIN image.sections : find_in_section(image.sections[i], InMemory(at)).found
<1>1. PICK s \in Loaded : IsIn(s, at)
  BY ImagesAssumption DEF Mappable, Loaded
<1>2. PICK i \in DOMAIN image.sections : s = image.sections[i]
  BY <1>1 DEF Loaded, ToSet
<1>3. image.sections \in Seq([alloc : BOOLEAN, vma : Nat, size : Nat]) /\ at \in Nat /\ image.base \in Nat
  BY ImagesAssumption DEF Mappable
<1>4. \A T : \A q \in Seq(T) : \A k \in DOMAIN q : q[k] \in T
  OBVIOUS
<1>5. s \in [alloc : BOOLEAN, vma : Nat, size : Nat]
  BY <1>2, <1>3, <1>4, Zenon
<1>6. image.relocated => s.vma + s.size <= image.base
  BY <1>1, ImagesAssumption DEF Mappable, Loaded
<1>7. Relocated(s, InMemory(at)) = at
  BY <1>1, <1>3, <1>5, <1>6 DEF Relocated, InMemory, IsIn
<1>8. s.alloc /\ s.vma + (at - s.vma) = at
  BY <1>1, <1>3, <1>5 DEF Loaded
<1>9. find_in_section(s, InMemory(at)).found
  BY <1>1, <1>7, <1>8 DEF find_in_section, bfd_find_nearest_line
<1> QED BY <1>2, <1>9

(* So the search ends with what the tables know.                           *)
LEMMA DetailsAre ==
  ASSUME image \in Images, NEW at \in image.code
  PROVE  LET details == find_symbol_details(InMemory(at))
         IN  IF at \in DOMAIN image.symtab \cup DOMAIN image.dynamic
             THEN details.found /\ details.functions = Known(at)
             ELSE ~details.found
<1> DEFINE addr    == InMemory(at)
           At(i)   == find_in_section(image.sections[i], addr)
           finding == {i \in DOMAIN image.sections : At(i).found}
<1>1. finding \in SUBSET Nat
  <2>1. image.sections \in Seq([alloc : BOOLEAN, vma : Nat, size : Nat])
    BY ImagesAssumption DEF Mappable
  <2> QED BY <2>1
<1>2. \A i \in finding : At(i).found /\ At(i).functions = Known(at)
                        /\ at \in DOMAIN image.symtab \cup DOMAIN image.dynamic
  BY FindsTheAddress DEF ToSet
<1>3. at \in DOMAIN image.symtab \cup DOMAIN image.dynamic => finding # {}
  BY SomeSectionFinds
<1>4. find_symbol_details(addr) = IF finding = {} THEN NoSymbol ELSE At(Min(finding))
  BY DEF find_symbol_details
<1> HIDE DEF finding, addr
<1>5. CASE finding = {}
  BY <1>3, <1>4, <1>5 DEF NoSymbol, addr
<1>6. CASE finding # {}
  <2>1. Min(finding) \in finding
    BY <1>1, <1>6, HasLeast
  <2> QED BY <1>2, <1>4, <1>6, <2>1 DEF addr
<1> QED BY <1>5, <1>6

(* A function that is known has a name, and the calls around it follow it. *)
LEMMA KnownIs ==
  ASSUME image \in Images, NEW at \in DOMAIN image.symtab \cup DOMAIN image.dynamic
  PROVE  Head(Known(at)) # NoFunction /\ Known(at) = <<Head(Known(at))>> \o Tail(Known(at))
<1> DEFINE f == Known(at)
<1>1. \E t \in {image.symtab, image.dynamic} : at \in DOMAIN t /\ f = t[at]
  BY DEF Known
<1>2. f \in Seq(ToSet(f)) /\ f # <<>> /\ NoFunction \notin ToSet(f)
  BY <1>1, ImagesAssumption DEF Mappable
<1> HIDE DEF f
<1>3. Head(f) \in ToSet(f) /\ f = <<Head(f)>> \o Tail(f)
  <2>1. \A S : \A s \in Seq(S) : s # <<>> => 1 \in DOMAIN s /\ Head(s) = s[1] /\ s = <<Head(s)>> \o Tail(s)
    OBVIOUS
  <2> QED BY <1>2, <2>1 DEF ToSet
<1> QED BY <1>2, <1>3 DEF f

(* Whichever objects are mapped, if they are mapped as loaders do, a trace *)
(* has the functions that a table knows for its address, whatever section  *)
(* comes first (find_symbol_details(), backtrace_inliners()).              *)
THEOREM SymbolsAreTheAddress == SymbolsSpec => []SymbolIsTheAddress
<1>1. SymbolsInit => ImageInv
  BY DEF SymbolsInit, ImageInv
<1>2. ImageInv /\ [SymbolsNext]_symbolVars => ImageInv'
  <2> SUFFICES ASSUME ImageInv, [SymbolsNext]_symbolVars PROVE ImageInv'
    OBVIOUS
  <2>1. CASE UNCHANGED symbolVars
    BY <2>1 DEF ImageInv, symbolVars, Known
  <2>2. ASSUME NEW at \in image.code, resolve_symbol(at) PROVE ImageInv'
    <3> DEFINE details == find_symbol_details(InMemory(at))
    <3>1. image' = image /\ image \in Images
      BY <2>2 DEF ImageInv, resolve_symbol
    <3>2. /\ symbol'.at = at
          /\ symbol'.function = IF details.found THEN Head(details.functions) ELSE NoFunction
          /\ symbol'.inliners = IF details.found THEN Tail(details.functions) ELSE <<>>
      BY <2>2 DEF resolve_symbol, backtrace_inliners
    <3>3. Known(at)' = Known(at)
      BY <3>1 DEF Known
    <3>4. IF at \in DOMAIN image.symtab \cup DOMAIN image.dynamic
          THEN details.found /\ details.functions = Known(at)
          ELSE ~details.found /\ Known(at) = <<>>
      BY <3>1, DetailsAre DEF Known
    <3> HIDE DEF details
    <3>5. Known(at) = IF symbol'.function = NoFunction THEN <<>> ELSE <<symbol'.function>> \o symbol'.inliners
      BY <3>1, <3>2, <3>4, KnownIs
    <3> QED BY <3>1, <3>2, <3>3, <3>5 DEF ImageInv
  <2> QED BY <2>1, <2>2 DEF SymbolsNext
<1>3. ImageInv => SymbolIsTheAddress
  BY DEF ImageInv, SymbolIsTheAddress
<1> QED BY <1>1, <1>2, <1>3, PTL DEF SymbolsSpec

-----------------------------------------------------------------------------
(* DebugInfo: an address with a function has a unit.                       *)

(* The entries are a tree, numbered from the root on.                      *)
LEMMA IsTree ==
  ASSUME NEW p, WellFormed(p)
  PROVE  /\ DOMAIN p.parent \subseteq Nat \ {NoUnit} /\ Root \in DOMAIN p.parent
         /\ \A e \in DOMAIN p.parent \ {Root} :
              /\ p.parent[e] \in DOMAIN p.parent /\ p.parent[e] < e
              /\ p.parent[e] = Root => p.tag[e] # "subprogram"
         /\ p.tag[Root] # "subprogram"
<1> DEFINE dies == DOMAIN p.parent
           functions == {d \in dies : p.tag[d] = "subprogram"}
<1>1. /\ dies \subseteq Nat /\ Root \in dies \ functions
      /\ \A d \in dies \ {Root} : /\ p.parent[d] \in dies /\ p.parent[d] < d
                                  /\ p.parent[d] = Root => d \notin functions
  BY Zenon DEF WellFormed
<1> HIDE DEF dies, functions
<1>2. ASSUME NEW d \in dies
      PROVE  d # NoUnit
  <2>1. CASE d = Root
    BY <2>1 DEF Root, NoUnit
  <2>2. CASE d # Root
    <3>1. p.parent[d] \in Nat /\ p.parent[d] < d /\ d \in Nat
      BY <1>1, <2>2
    <3> QED BY <3>1 DEF NoUnit
  <2> QED BY <2>1, <2>2
<1>3. \A d \in dies : d \in Nat \ {NoUnit}
  BY <1>1, <1>2
<1>4. Root \in dies /\ p.tag[Root] # "subprogram"
  BY <1>1 DEF functions
<1>5. \A d \in dies \ {Root} : p.parent[d] \in dies /\ p.parent[d] < d
  BY <1>1
<1>6. \A d \in dies \ {Root} : p.parent[d] = Root => p.tag[d] # "subprogram"
  BY <1>1 DEF functions
<1> QED BY <1>3, <1>4, <1>5, <1>6 DEF dies

(* A function with code is found from a unit.                              *)
LEMMA IsInAUnit ==
  ASSUME NEW p, WellFormed(p), NEW d \in DOMAIN p.parent, p.tag[d] = "subprogram", p.pcs[d] # {}
  PROVE  \E u \in DOMAIN p.parent : p.parent[u] = Root /\ u \in FoundFrom(p, d)
<1> DEFINE dies == DOMAIN p.parent
           F == FoundFrom(p, d)
           A == F \ {Root}
<1>1. /\ dies \in SUBSET Nat /\ Root \in dies
      /\ \A e \in dies \ {Root} : p.parent[e] \in dies /\ p.parent[e] < e
      /\ d # Root /\ p.parent[d] # Root
      /\ \A e \in F : ~p.declaration[e]
  <2>1. d \in {e \in DOMAIN p.parent : p.tag[e] = "subprogram"}
    OBVIOUS
  <2>2. /\ DOMAIN p.parent \subseteq Nat /\ Root \in DOMAIN p.parent
        /\ \A e \in DOMAIN p.parent \ {Root} : p.parent[e] \in DOMAIN p.parent /\ p.parent[e] < e
        /\ \A e \in DOMAIN p.parent \ {Root} : p.parent[e] = Root => p.tag[e] # "subprogram"
        /\ p.tag[Root] # "subprogram"
    BY IsTree
  <2>3. \A e \in F : ~p.declaration[e]
    BY <2>1, Zenon DEF WellFormed
  <2> QED BY <2>2, <2>3
<1>2. p.parent[d] \in dies
  BY <1>1
<1>3. p.parent[d] \in F
  BY <1>2 DEF FoundFrom
<1>4. \A c \in F \ {Root} : p.declaration[c] \/ p.parent[c] \in F
  <2> SUFFICES ASSUME NEW c \in F \ {Root}, ~p.declaration[c]
               PROVE  p.parent[c] \in F
    OBVIOUS
  <2>1. c \in dies /\ p.parent[c] \in dies
    BY <1>1 DEF FoundFrom
  <2>2. ASSUME NEW S \in SUBSET dies, p.parent[d] \in S, \A e \in S \ {Root} : p.declaration[e] \/ p.parent[e] \in S
        PROVE  p.parent[c] \in S
    <3>1. c \in S
      BY <2>2 DEF FoundFrom
    <3> QED BY <2>2, <3>1
  <2> QED BY <2>1, <2>2 DEF FoundFrom
<1>5. F \subseteq dies
  BY DEF FoundFrom
<1> HIDE DEF F
<1>6. A # {} /\ A \in SUBSET Nat
  BY <1>1, <1>3, <1>5
<1>7. Min(A) \in A /\ \A x \in A : Min(A) <= x
  <2> HIDE DEF A
  <2> QED BY <1>6, HasLeast
<1> DEFINE u == Min(A)
<1>8. u \in F /\ u # Root /\ u \in dies /\ u \in Nat
  BY <1>1, <1>5, <1>7
<1> HIDE DEF u
<1>9. p.parent[u] \in F /\ p.parent[u] < u /\ p.parent[u] \in Nat
  BY <1>1, <1>4, <1>8
<1>10. p.parent[u] \notin A
  BY <1>7, <1>8, <1>9 DEF u
<1>11. p.parent[u] = Root
  BY <1>9, <1>10
<1> QED BY <1>8, <1>11 DEF F

(* The unit that resolve() takes.                                          *)
UnitOf(addr) == IF dwfl_module_addrdie(addr) # NoUnit THEN dwfl_module_addrdie(addr) ELSE FirstUnit(addr)

(* What the theorem needs of the traces: the unit of one that is resolved. *)
DebugInv ==
  /\ program \in Programs
  /\ \A t \in traces : t.resolved => t.cudie = UnitOf(t.addr)

(* The first of some entries is one of them.                               *)
LEMMA FirstIsOne ==
  ASSUME NEW S \in SUBSET (Nat \ {NoUnit})
  PROVE  S # {} => FirstOf(S) \in S /\ FirstOf(S) # NoUnit
<1> SUFFICES ASSUME S # {} PROVE FirstOf(S) \in S
  OBVIOUS
<1>1. S \in SUBSET Nat
  OBVIOUS
<1>2. Min(S) \in S
  BY <1>1, HasLeast
<1> QED BY <1>2 DEF FirstOf

(* The index and the search both end at a unit with a function that has    *)
(* the address.                                                            *)
LEMMA UnitIs ==
  ASSUME ProgramsAssumption, program \in Programs, NEW addr, Around("subprogram", addr) # {}
  PROVE  UnitOf(addr) # NoUnit /\ HasFundie(UnitOf(addr), addr)
<1> DEFINE cudie == UnitOf(addr)
           p == program
           indexed == {cu \in Units : p.aranges /\ die_has_pc(cu, addr)}
           with == {cu \in Units : HasFundie(cu, addr)}
<1>1. WellFormed(p)
  BY DEF ProgramsAssumption
<1>2. Dies \subseteq Nat \ {NoUnit}
  BY <1>1, IsTree DEF Dies
<1>3. Units \in SUBSET (Nat \ {NoUnit})
  BY <1>2 DEF Units
<1>4. cudie = IF FirstOf(indexed) # NoUnit THEN FirstOf(indexed) ELSE FirstOf(with)
  BY DEF UnitOf, dwfl_module_addrdie, FirstUnit
<1> HIDE DEF cudie
<1>5. CASE indexed # {}
  <2>1. FirstOf(indexed) \in indexed /\ FirstOf(indexed) # NoUnit
    <3>1. indexed \in SUBSET (Nat \ {NoUnit})
      BY <1>3
    <3> HIDE DEF indexed
    <3> QED BY <1>5, <3>1, FirstIsOne
  <2>2. cudie \in Dies /\ p.parent[cudie] = Root /\ p.aranges /\ addr \in p.pcs[cudie] /\ cudie # NoUnit
    BY <1>4, <2>1 DEF Units, die_has_pc
  <2>3. PICK f \in Dies : p.tag[f] = "subprogram" /\ cudie \in FoundFrom(p, f) /\ addr \in p.pcs[f]
    BY <1>1, <2>2 DEF WellFormed, Dies
  <2> QED BY <2>2, <2>3 DEF HasFundie, IsFunction, die_has_pc, cudie
<1>6. CASE indexed = {}
  <2>1. FirstOf(indexed) = NoUnit
    BY <1>6 DEF FirstOf
  <2>2. PICK d \in Dies : p.tag[d] = "subprogram" /\ addr \in p.pcs[d]
    BY DEF Around, die_has_pc
  <2>3. PICK u \in Dies : p.parent[u] = Root /\ u \in FoundFrom(p, d)
    BY <1>1, <2>2, IsInAUnit DEF Dies
  <2>4. u \in with
    BY <2>2, <2>3 DEF HasFundie, IsFunction, die_has_pc, Units
  <2>5. with \in SUBSET (Nat \ {NoUnit})
    BY <1>3
  <2>6. FirstOf(with) \in with /\ FirstOf(with) # NoUnit
    <3> HIDE DEF with
    <3> QED BY <2>4, <2>5, FirstIsOne
  <2>7. cudie \in with /\ cudie # NoUnit
    BY <1>4, <2>1, <2>6
  <2> QED BY <2>7 DEF cudie
<1> QED BY <1>5, <1>6

(* For any well-formed debug information, whichever functions are in name  *)
(* spaces, a function that has the address leads to a unit in which it is  *)
(* found, with an index of the units or without (resolve(),                *)
(* find_fundie_by_pc()).                                                   *)
THEOREM TheUnitIsFound == DebugSpec => []UnitHasTheFunction
<1>1. DebugInit => DebugInv
  BY DEF DebugInit, DebugInv
<1>2. DebugInv /\ [DebugNext]_debugVars => DebugInv'
  <2> SUFFICES ASSUME DebugInv, [DebugNext]_debugVars
               PROVE  DebugInv'
    OBVIOUS
  <2>1. program' = program
    BY DEF DebugNext, resolve, debugVars
  <2>2. \A addr : UnitOf(addr)' = UnitOf(addr)
    <3> TAKE addr
    <3>1. Dies' = Dies /\ Units' = Units
      BY <2>1 DEF Dies, Units
    <3>2. dwfl_module_addrdie(addr)' = dwfl_module_addrdie(addr)
      BY <2>1, <3>1 DEF dwfl_module_addrdie, die_has_pc
    <3>3. \A cu : HasFundie(cu, addr)' = HasFundie(cu, addr)
      BY <2>1, <3>1 DEF HasFundie, IsFunction, die_has_pc
    <3>4. FirstUnit(addr)' = FirstUnit(addr)
      BY <3>1, <3>3 DEF FirstUnit
    <3> QED BY <3>2, <3>4 DEF UnitOf
  <2>3. \A addr : Resolved(addr).addr = addr /\ Resolved(addr).cudie = UnitOf(addr)
    BY DEF Resolved, UnitOf
  <2>4. \A t \in traces' : t \in traces \/ t.resolved = FALSE \/ \E addr : t = Resolved(addr)
    BY DEF DebugNext, resolve, debugVars, Unresolved
  <2>5. \A t \in traces' : t.resolved => t.cudie = UnitOf(t.addr)
    BY <2>2, <2>3, <2>4 DEF DebugInv
  <2> QED BY <2>1, <2>2, <2>5 DEF DebugInv
<1>3. DebugInv => UnitHasTheFunction
  BY UnitIs, ProgramsAssumption DEF DebugInv, UnitHasTheFunction
<1> QED BY <1>1, <1>2, <1>3, PTL DEF DebugSpec

-----------------------------------------------------------------------------
(* Snippet: what is shown does not depend on what was read before.         *)

(* A sum of unsigned numbers, that wraps round at most once.               *)
LEMMA UnsignedIs ==
  ASSUME NEW n \in Nat
  PROVE  /\ Unsigned(n) \in Nat /\ Unsigned(n) <= n
         /\ n <= UINT_MAX => Unsigned(n) = n
         /\ UINT_MAX < n /\ n <= 2 * UINT_MAX + 1 => Unsigned(n) = n - (UINT_MAX + 1)
<1> DEFINE W == UINT_MAX + 1
<1>1. W \in Nat /\ W > 0 /\ UINT_MAX \in Nat
  BY SnippetAssumption
<1>2. \A m \in Nat, V \in Nat \ {0} : \E q, r \in Int : /\ r = m % V /\ m = V * q + r /\ r \in 0 .. (V - 1) /\ q >= 0
  <2> SUFFICES ASSUME NEW m \in Nat, NEW V \in Nat \ {0}
               PROVE  \E q, r \in Int : /\ r = m % V /\ m = V * q + r /\ r \in 0 .. (V - 1) /\ q >= 0
    OBVIOUS
  <2> DEFINE q == m \div V
             r == m % V
  <2>1. r \in 0 .. (V - 1) /\ r \in Int /\ m = V * q + r /\ q \in Int /\ q >= 0
    OBVIOUS
  <2>2. r = m % V
    OBVIOUS
  <2> HIDE DEF q, r
  <2> QED BY <2>1, <2>2, Zenon
<1> HIDE DEF W
<1>3. PICK q, r \in Int : r = n % W /\ n = W * q + r /\ r \in 0 .. (W - 1) /\ q >= 0
  <2>1. n \in Nat /\ W \in Nat \ {0}
    BY <1>1
  <2> QED BY <1>2, <2>1, Zenon
<1>4. Unsigned(n) = r
  BY <1>3 DEF Unsigned, W
<1>5. q = 0 \/ q = 1 \/ q >= 2
  BY <1>3
<1>6. CASE q = 0
  BY <1>1, <1>3, <1>4, <1>6 DEF W
<1>7. CASE q = 1
  BY <1>1, <1>3, <1>4, <1>7 DEF W
<1>8. CASE q >= 2
  <2>1. W * q >= W * 2
    <3>1. \A a \in Nat, b \in Int : b >= 0 => a * b >= 0
      OBVIOUS
    <3>2. W * (q - 2) >= 0 /\ W * (q - 2) = W * q - W * 2
      BY <1>1, <1>3, <1>8, <3>1
    <3> QED BY <1>1, <1>3, <3>2
  <2>2. W * q \in Int
    BY <1>1, <1>3
  <2> DEFINE p == W * q
  <2>3. p >= W * 2 /\ p \in Int /\ n = p + r
    BY <1>3, <2>1, <2>2
  <2> HIDE DEF p
  <2> QED BY <1>1, <1>3, <1>4, <2>3 DEF W
<1> QED BY <1>5, <1>6, <1>7, <1>8

(* Where reading starts and ends, and the lines that are read.             *)
FirstRead(s)     == IF s = 0 THEN 1 ELSE s
CountRead(s, c)  == IF Unsigned(s + c) > FirstRead(s) THEN Unsigned(s + c) - FirstRead(s) ELSE 0
LastRead(s, c)    == FirstRead(s) - 1 + CountRead(s, c)
ReadOf(file, s, c) == FirstRead(s) .. IF LastRead(s, c) <= Len(Lines(file)) THEN LastRead(s, c) ELSE Len(Lines(file))

(* What a stream was left at makes no difference to what is read of it.    *)
LEMMA LinesAre ==
  ASSUME SnippetAssumption, NEW file, NEW s \in Nat, NEW c \in Nat, Lines(file) \in Seq(BOOLEAN)
  PROVE  LET got == get_lines(file, s, c)
         IN  /\ got.file.name = file.name
             /\ got.numbers = IF file.name \in DOMAIN disk /\ FirstRead(s) - 1 <= Len(Lines(file))
                              THEN Kept(Lines(file), ReadOf(file, s, c), LastRead(s, c) > Len(Lines(file)))
                              ELSE {}
<1> DEFINE N  == Len(Lines(file))
           first == FirstRead(s)
           k  == CountRead(s, c)
           at == Getline(Rewound(file), first - 1)
           to == Getline(at, k)
           got == get_lines(file, s, c)
<1>1. N \in Nat
  OBVIOUS
<1>2. first \in Nat /\ first >= 1 /\ k \in Nat
  <2>1. Unsigned(s + c) \in Nat
    BY UnsignedIs
  <2> QED BY <2>1 DEF FirstRead, CountRead
<1>3. got = [file    |-> IF at.good THEN to ELSE at,
             numbers |-> IF at.good THEN Kept(Lines(file), (at.read + 1) .. to.read, ~to.good) ELSE {}]
  BY DEF get_lines, FirstRead, CountRead
<1>4. Rewound(file) = [name |-> file.name, read |-> 0, good |-> file.name \in DOMAIN disk]
  BY DEF Rewound
<1> HIDE DEF N, first, k, got
<1>5. ASSUME NEW n \in Nat, NEW r \in Nat, NEW g \in BOOLEAN
      PROVE  Getline([name |-> file.name, read |-> r, good |-> g], n) =
               IF g /\ r + n <= N THEN [name |-> file.name, read |-> r + n, good |-> TRUE]
                                 ELSE [name |-> file.name, read |-> N, good |-> FALSE]
  <2> DEFINE f == [name |-> file.name, read |-> r, good |-> g]
  <2>1. Lines(f) = Lines(file) /\ f.good = g /\ f.read = r
    BY DEF Lines
  <2> HIDE DEF f
  <2>3. Getline(f, n) = IF f.good /\ f.read + n <= Len(Lines(f))
                        THEN [name |-> f.name, read |-> f.read + n, good |-> TRUE]
                        ELSE [name |-> f.name, read |-> Len(Lines(f)), good |-> FALSE]
    BY DEF Getline
  <2>4. f.name = file.name
    BY DEF f
  <2> QED BY <2>1, <2>3, <2>4 DEF N, f
<1>9. \A n \in Nat, r \in Nat, g \in BOOLEAN :
        Getline([name |-> file.name, read |-> r, good |-> g], n) =
          IF g /\ r + n <= N THEN [name |-> file.name, read |-> r + n, good |-> TRUE]
                            ELSE [name |-> file.name, read |-> N, good |-> FALSE]
  BY <1>5
<1>6. at = IF file.name \in DOMAIN disk /\ first - 1 <= N
           THEN [name |-> file.name, read |-> first - 1, good |-> TRUE]
           ELSE [name |-> file.name, read |-> N, good |-> FALSE]
  <2>1. first - 1 \in Nat /\ 0 \in Nat /\ 0 + (first - 1) = first - 1
        /\ (file.name \in DOMAIN disk) \in BOOLEAN
    BY <1>2
  <2>2. at = IF file.name \in DOMAIN disk /\ 0 + (first - 1) <= N
             THEN [name |-> file.name, read |-> 0 + (first - 1), good |-> TRUE]
             ELSE [name |-> file.name, read |-> N, good |-> FALSE]
    <3> DEFINE g == file.name \in DOMAIN disk
               n == first - 1
    <3>1. at = Getline([name |-> file.name, read |-> 0, good |-> g], n)
      BY <1>4
    <3>2. n \in Nat /\ 0 \in Nat /\ g \in BOOLEAN
      BY <2>1
    <3> HIDE DEF g, n, at
    <3>3. at = IF g /\ 0 + n <= N THEN [name |-> file.name, read |-> 0 + n, good |-> TRUE]
                                  ELSE [name |-> file.name, read |-> N, good |-> FALSE]
      BY <1>9, <3>1, <3>2, Zenon
    <3> QED BY <3>3 DEF g, n
  <2> QED BY <2>1, <2>2
<1> HIDE DEF at
<1>7. CASE file.name \in DOMAIN disk /\ first - 1 <= N
  <2>1. at = [name |-> file.name, read |-> first - 1, good |-> TRUE]
    BY <1>6, <1>7
  <2>2. to = IF first - 1 + k <= N THEN [name |-> file.name, read |-> first - 1 + k, good |-> TRUE]
                                   ELSE [name |-> file.name, read |-> N, good |-> FALSE]
    <3> DEFINE r == first - 1
    <3>1. to = Getline([name |-> file.name, read |-> r, good |-> TRUE], k)
      BY <2>1
    <3>2. r \in Nat /\ k \in Nat /\ TRUE \in BOOLEAN
      BY <1>2
    <3> HIDE DEF to, r
    <3>3. to = IF TRUE /\ r + k <= N THEN [name |-> file.name, read |-> r + k, good |-> TRUE]
                                     ELSE [name |-> file.name, read |-> N, good |-> FALSE]
      BY <1>9, <3>1, <3>2, Zenon
    <3> QED BY <3>3 DEF r
  <2> HIDE DEF to
  <2>3. got = [file |-> to, numbers |-> Kept(Lines(file), (first - 1 + 1) .. to.read, ~to.good)]
    BY <1>3, <2>1
  <2>4. first - 1 + 1 = first
    BY <1>2
  <2>5. LastRead(s, c) = first - 1 + k
    BY DEF LastRead, first, k
  <2>6. got.numbers = Kept(Lines(file), first .. to.read, ~to.good) /\ got.file = to
    BY <2>3, <2>4
  <2>7. first - 1 + k \in Int
    BY <1>2
  <2>8. first .. to.read = ReadOf(file, s, c) /\ (~to.good <=> LastRead(s, c) > N)
    BY <1>1, <2>2, <2>5, <2>7 DEF ReadOf, N, first
  <2>9. to.name = file.name
    BY <2>2
  <2>10. ~to.good = (LastRead(s, c) > N)
    BY <2>8
  <2>11. got.numbers = Kept(Lines(file), ReadOf(file, s, c), LastRead(s, c) > N)
    BY <2>6, <2>8, <2>10
  <2> QED BY <1>7, <2>6, <2>9, <2>11 DEF got, N, first
<1>8. CASE ~(file.name \in DOMAIN disk /\ first - 1 <= N)
  <2>1. at = [name |-> file.name, read |-> N, good |-> FALSE]
    BY <1>6, <1>8
  <2> HIDE DEF to
  <2>2. got.file = at /\ got.numbers = {}
    BY <1>3, <2>1
  <2> QED BY <1>8, <2>1, <2>2 DEF got, N, first
<1> QED BY <1>7, <1>8

(* The file system, and the file that the prefixes lead to.                *)
LEMMA FilesAre ==
  ASSUME SnippetAssumption, disk \in Disks, NEW file
  PROVE  Lines(file) \in Seq(BOOLEAN)
<1>1. \A name \in DOMAIN disk : disk[name] \in Seq(BOOLEAN)
  BY DEF SnippetAssumption
<1>2. <<>> \in Seq(BOOLEAN)
  OBVIOUS
<1> QED BY <1>1, <1>2 DEF Lines

(* A file that is shown is the one the stream was opened on; one that is   *)
(* not found has no lines.                                                 *)
LEMMA FileIs ==
  ASSUME SnippetAssumption, NEW path
  PROVE  /\ FileOf(path) = Lines(Opened(path))
         /\ FileOf(path) # <<>> => Opened(path).name \in DOMAIN disk
<1> DEFINE prefixed == [i \in DOMAIN SourcePrefixes |-> <<SourcePrefixes[i], path>>]
           names    == Candidates(path)
           last     == Len(SourcePrefixes) + 1
<1>1. SourcePrefixes \in Seq(ToSet(SourcePrefixes))
  BY DEF SnippetAssumption
<1>2. Len(SourcePrefixes) \in Nat /\ DOMAIN SourcePrefixes = 1 .. Len(SourcePrefixes)
  BY <1>1
<1>3. DOMAIN names = 1 .. last /\ names[last] = <<path>>
  <2> DEFINE T == ToSet(prefixed) \cup {<<path>>}
  <2>1. prefixed = [i \in 1 .. Len(SourcePrefixes) |-> prefixed[i]]
    BY <1>2
  <2>2. \A i \in 1 .. Len(SourcePrefixes) : prefixed[i] \in T
    BY <1>2 DEF ToSet
  <2>3. <<path>> \in T /\ names = Append(prefixed, <<path>>)
    BY DEF Candidates
  <2> HIDE DEF prefixed, T, names
  <2>4. prefixed \in Seq(T) /\ Len(prefixed) = Len(SourcePrefixes)
    BY <1>2, <2>1, <2>2
  <2> QED BY <1>2, <2>3, <2>4
<1>4. Found(path) = {i \in 1 .. last : names[i] \in DOMAIN disk}
  BY <1>3 DEF Found
<1>5. last \in 1 .. last
  BY <1>2
<1> HIDE DEF names, last
<1>6. CASE Found(path) = {}
  <2>1. <<path>> \notin DOMAIN disk
    BY <1>3, <1>4, <1>5, <1>6
  <2>2. Opened(path).name = <<path>>
    BY <1>6 DEF Opened
  <2> QED BY <1>6, <2>1, <2>2 DEF FileOf, Lines
<1>7. CASE Found(path) # {}
  <2>1. Found(path) \in SUBSET Nat
    BY <1>2, <1>4 DEF last
  <2>2. Min(Found(path)) \in Found(path)
    BY <1>7, <2>1, HasLeast
  <2>3. Candidates(path)[Min(Found(path))] \in DOMAIN disk
    BY <2>2 DEF Found
  <2>4. Opened(path).name = Candidates(path)[Min(Found(path))]
    BY <1>7 DEF Opened
  <2> QED BY <1>7, <2>3, <2>4 DEF FileOf, Lines
<1> QED BY <1>6, <1>7

(* Where a snippet starts, for every line: a number, and half the context  *)
(* before the line if that is not before the file; if it is, so far up     *)
(* that the end wraps round to before the start.                           *)
LEMMA StartIs ==
  ASSUME SnippetAssumption, NEW line \in 1 .. MaxLine, NEW c \in Contexts
  PROVE  /\ StartOf(line, c) \in Nat /\ c \in Nat /\ c >= 1
         /\ c \div 2 \in Nat /\ c \div 2 < c
         /\ line >= c \div 2 => /\ StartOf(line, c) = line - c \div 2
                                /\ Unsigned(StartOf(line, c) + c) = StartOf(line, c) + c
         /\ line < c \div 2 => Unsigned(StartOf(line, c) + c) <= StartOf(line, c)
<1> DEFINE h == c \div 2
           n == line + (UINT_MAX + 1) - h
<1>1. c \in Nat /\ c >= 1 /\ MaxLine + c <= UINT_MAX /\ MaxLine \in Nat /\ UINT_MAX \in Nat
  BY DEF SnippetAssumption
<1>2. h \in Nat /\ h < c
  <2> HIDE SnippetAssumption
  <2> QED BY <1>1
<1> HIDE DEF h
<1>3. n \in Nat /\ n <= 2 * UINT_MAX + 1
  BY <1>1, <1>2
<1>4. line >= h => UINT_MAX < n
  BY <1>1, <1>2
<1>5. StartOf(line, c) = Unsigned(n)
  BY DEF StartOf, h
<1> HIDE DEF n
<1>6. Unsigned(n) \in Nat
  BY <1>3, UnsignedIs
<1>7. ASSUME line >= h
      PROVE  Unsigned(n) = line - h /\ Unsigned(Unsigned(n) + c) = Unsigned(n) + c
  <2>1. Unsigned(n) = n - (UINT_MAX + 1)
    BY <1>3, <1>4, <1>7, UnsignedIs
  <2>2. Unsigned(n) = line - h
    BY <1>1, <1>2, <2>1 DEF n
  <2>3. Unsigned(n) + c \in Nat /\ Unsigned(n) + c <= UINT_MAX
    BY <1>1, <1>2, <1>6, <2>2
  <2>4. Unsigned(Unsigned(n) + c) = Unsigned(n) + c
    BY <2>3, UnsignedIs
  <2> QED BY <2>2, <2>4
<1>8. ASSUME line < h
      PROVE  Unsigned(Unsigned(n) + c) <= Unsigned(n)
  <2>1. n <= UINT_MAX
    BY <1>1, <1>2, <1>8 DEF n
  <2>2. Unsigned(n) = n
    BY <1>3, <2>1, UnsignedIs
  <2> DEFINE m == n + c
  <2>3. m \in Nat /\ m > UINT_MAX /\ m <= 2 * UINT_MAX + 1 /\ m - (UINT_MAX + 1) <= n
    BY <1>1, <1>2, <1>3, <2>1 DEF n
  <2> HIDE DEF m
  <2>4. Unsigned(m) = m - (UINT_MAX + 1)
    BY <2>3, UnsignedIs
  <2> QED BY <2>2, <2>3, <2>4 DEF m
<1> QED BY <1>1, <1>2, <1>5, <1>6, <1>7, <1>8 DEF h

(* The lines that are shown, whatever was read of the file before.         *)
ReadNumbers(path, line, context) == get_lines(Opened(path), StartOf(line, context), context).numbers

ShownFor(path, line, context) ==
  shown = [path |-> path, line |-> line, context |-> context,
           lines |-> [n \in ReadNumbers(path, line, context) |-> n = line]]

(* A stream is on the file its path leads to, wherever in it; and what is  *)
(* shown last is what a stream that was just opened would give.            *)
SnippetInv ==
  /\ disk \in Disks
  /\ src_files = [p \in Paths |-> src_files[p]]
  /\ \A p \in Paths : src_files[p] = NotOpened \/ src_files[p].name = Opened(p).name
  /\ shown = NotShown \/ \E path \in Paths, line \in 1 .. MaxLine, context \in Contexts : ShownFor(path, line, context)

(* As long as the files are the same, so is what is read of them.          *)
LEMMA SameNumbers ==
  ASSUME disk' = disk, NEW path, NEW line, NEW context
  PROVE  ReadNumbers(path, line, context)' = ReadNumbers(path, line, context)
<1>1. Opened(path)' = Opened(path)
  BY DEF Opened, Found
<1>2. \A f : Lines(f)' = Lines(f) /\ Rewound(f)' = Rewound(f)
  BY DEF Lines, Rewound
<1>3. \A f, n : Getline(f, n)' = Getline(f, n)
  BY <1>2 DEF Getline
<1>4. \A f, s, c : get_lines(f, s, c)' = get_lines(f, s, c)
  BY <1>2, <1>3 DEF get_lines
<1> QED BY <1>1, <1>4 DEF ReadNumbers

(* Nothing is open or shown at first.                                      *)
LEMMA SnippetInvInit ==
  ASSUME SnippetInit
  PROVE  SnippetInv
BY DEF SnippetInit, SnippetInv

(* One more snippet, of any file.                                          *)
LEMMA SnippetInvNext ==
  ASSUME SnippetAssumption, SnippetInv, [SnippetNext]_snippetVars
  PROVE  SnippetInv'
<1>1. CASE UNCHANGED snippetVars
  <2>1. disk' = disk /\ src_files' = src_files /\ shown' = shown
    BY <1>1 DEF snippetVars
  <2>2. \A p \in Paths : Opened(p)' = Opened(p)
    BY <2>1 DEF Opened, Found
  <2>3. \A p, l, c : ShownFor(p, l, c)' = ShownFor(p, l, c)
    <3> TAKE p, l, c
    <3>1. ReadNumbers(p, l, c)' = ReadNumbers(p, l, c)
      BY <2>1, SameNumbers
    <3> QED BY <2>1, <3>1 DEF ShownFor
  <2> QED BY <2>1, <2>2, <2>3 DEF SnippetInv
<1>2. ASSUME NEW path \in Paths, NEW line \in 1 .. MaxLine, NEW context \in Contexts,
             get_snippet(path, line, context)
      PROVE  SnippetInv'
  <2> DEFINE f   == get_src_file(path)
             s   == StartOf(line, context)
             got == get_lines(f, s, context)
  <2>1. /\ src_files' = [src_files EXCEPT ![path] = got.file] /\ disk' = disk
        /\ shown' = [path |-> path, line |-> line, context |-> context,
                     lines |-> [n \in got.numbers |-> n = line]]
    BY <1>2 DEF get_snippet
  <2>2. f.name = Opened(path).name
    BY DEF get_src_file, SnippetInv
  <2>3. Lines(f) = Lines(Opened(path)) /\ Lines(f) \in Seq(BOOLEAN) /\ Lines(Opened(path)) \in Seq(BOOLEAN)
    BY <2>2, FilesAre DEF Lines, SnippetInv
  <2>4. s \in Nat /\ context \in Nat
    BY StartIs
  <2> HIDE DEF f, s
  <2>5. got.file.name = f.name /\ got.numbers = get_lines(Opened(path), s, context).numbers
    <3>1. /\ got.file.name = f.name
          /\ got.numbers = IF f.name \in DOMAIN disk /\ FirstRead(s) - 1 <= Len(Lines(f))
                           THEN Kept(Lines(f), ReadOf(f, s, context), LastRead(s, context) > Len(Lines(f)))
                           ELSE {}
      BY <2>3, <2>4, LinesAre
    <3> DEFINE o == Opened(path)
    <3>2. get_lines(o, s, context).numbers =
            IF o.name \in DOMAIN disk /\ FirstRead(s) - 1 <= Len(Lines(o))
            THEN Kept(Lines(o), ReadOf(o, s, context), LastRead(s, context) > Len(Lines(o))) ELSE {}
      <4>1. Lines(o) \in Seq(BOOLEAN)
        BY <2>3
      <4> HIDE DEF o
      <4> QED BY <2>4, <4>1, LinesAre
    <3>3. ReadOf(o, s, context) = ReadOf(f, s, context)
      BY <2>3 DEF ReadOf
    <3>4. o.name = f.name /\ Lines(o) = Lines(f)
      BY <2>2, <2>3
    <3> HIDE DEF o, got
    <3> QED BY <3>1, <3>2, <3>3, <3>4 DEF o
  <2> HIDE DEF got
  <2>6. src_files' = [p \in Paths |-> src_files'[p]]
    BY <2>1 DEF SnippetInv
  <2>7. \A p \in Paths : Opened(p)' = Opened(p)
    BY <2>1 DEF Opened, Found
  <2>8. \A p \in Paths : src_files'[p] = NotOpened \/ src_files'[p].name = Opened(p).name
    BY <2>1, <2>2, <2>5 DEF SnippetInv
  <2>9. ReadNumbers(path, line, context)' = ReadNumbers(path, line, context)
    BY <2>1, SameNumbers
  <2>10. ShownFor(path, line, context)'
    BY <2>1, <2>5, <2>9 DEF ShownFor, ReadNumbers, s
  <2>11. disk' \in Disks
    BY <2>1 DEF SnippetInv
  <2> QED BY <2>6, <2>7, <2>8, <2>10, <2>11 DEF SnippetInv
<1> QED BY <1>1, <1>2 DEF SnippetNext

(* What the invariant says of the lines that are shown.                    *)
LEMMA NumbersAre ==
  ASSUME SnippetAssumption, disk \in Disks,
         NEW path \in Paths, NEW line \in 1 .. MaxLine, NEW c \in Contexts
  PROVE  LET s == StartOf(line, c)
             lines == FileOf(path)
         IN  /\ lines \in Seq(BOOLEAN)
             /\ \/ /\ ReadNumbers(path, line, c) = {}
                   /\ lines # <<>> => FirstRead(s) - 1 > Len(lines)
                \/ \E to \in Nat :
                     /\ to = IF LastRead(s, c) <= Len(lines) THEN LastRead(s, c) ELSE Len(lines)
                     /\ ReadNumbers(path, line, c) = Kept(lines, FirstRead(s) .. to, LastRead(s, c) > Len(lines))
<1> DEFINE s == StartOf(line, c)
           o == Opened(path)
           lines == FileOf(path)
           to == IF LastRead(s, c) <= Len(lines) THEN LastRead(s, c) ELSE Len(lines)
<1>1. s \in Nat /\ c \in Nat
  BY StartIs
<1>2. lines = Lines(o) /\ lines \in Seq(BOOLEAN) /\ (lines # <<>> => o.name \in DOMAIN disk)
  BY FileIs, FilesAre
<1>3. ReadNumbers(path, line, c) = get_lines(o, s, c).numbers
  BY DEF ReadNumbers
<1> HIDE DEF s, o, lines
<1>4. get_lines(o, s, c).numbers =
        IF o.name \in DOMAIN disk /\ FirstRead(s) - 1 <= Len(Lines(o))
        THEN Kept(Lines(o), ReadOf(o, s, c), LastRead(s, c) > Len(Lines(o))) ELSE {}
  BY <1>1, <1>2, LinesAre
<1>5. ReadOf(o, s, c) = FirstRead(s) .. to
  BY <1>2 DEF ReadOf
<1>6. to \in Nat /\ FirstRead(s) \in Nat /\ Len(lines) \in Nat
  <2>1. Unsigned(s + c) \in Nat
    BY <1>1, UnsignedIs
  <2> QED BY <1>1, <1>2, <2>1 DEF FirstRead, LastRead, CountRead
<1>7. CASE o.name \in DOMAIN disk /\ FirstRead(s) - 1 <= Len(Lines(o))
  <2>1. ReadNumbers(path, line, c) = Kept(lines, FirstRead(s) .. to, LastRead(s, c) > Len(lines))
    BY <1>2, <1>3, <1>4, <1>5, <1>7
  <2> QED BY <1>2, <1>6, <2>1 DEF s, lines
<1>8. CASE ~(o.name \in DOMAIN disk /\ FirstRead(s) - 1 <= Len(Lines(o)))
  <2>1. ReadNumbers(path, line, c) = {}
    BY <1>3, <1>4, <1>8
  <2>2. lines # <<>> => FirstRead(s) - 1 > Len(lines)
    BY <1>2, <1>6, <1>8
  <2> QED BY <1>2, <2>1, <2>2 DEF s, lines
<1> QED BY <1>7, <1>8

(* From half the context on, the line itself is among those that are read, *)
(* and is kept.                                                            *)
LEMMA ShownHasItsLine ==
  ASSUME SnippetAssumption, disk \in Disks,
         NEW path \in Paths, NEW line \in 1 .. MaxLine, NEW c \in Contexts,
         line >= c \div 2, HasLine(path, line)
  PROVE  line \in ReadNumbers(path, line, c)
<1> DEFINE s == StartOf(line, c)
           h == c \div 2
           lines == FileOf(path)
<1>1. s = line - h /\ Unsigned(s + c) = s + c /\ c \in Nat /\ h \in Nat /\ h < c /\ s \in Nat /\ line >= h
  BY StartIs
<1>2. line \in DOMAIN lines /\ lines[line]
  BY DEF HasLine
<1>3. /\ lines \in Seq(BOOLEAN)
      /\ \/ /\ ReadNumbers(path, line, c) = {}
            /\ lines # <<>> => FirstRead(s) - 1 > Len(lines)
         \/ \E to \in Nat :
              /\ to = IF LastRead(s, c) <= Len(lines) THEN LastRead(s, c) ELSE Len(lines)
              /\ ReadNumbers(path, line, c) = Kept(lines, FirstRead(s) .. to, LastRead(s, c) > Len(lines))
  BY NumbersAre
<1> HIDE DEF s, lines, h
<1>4. line \in Nat /\ line >= 1 /\ line <= Len(lines) /\ lines # <<>> /\ Len(lines) \in Nat
  BY <1>2, <1>3
<1>5. FirstRead(s) <= line /\ line <= LastRead(s, c) /\ FirstRead(s) \in Nat /\ LastRead(s, c) \in Nat
  BY <1>1, <1>4 DEF FirstRead, LastRead, CountRead
<1>6. PICK to \in Nat : /\ to = IF LastRead(s, c) <= Len(lines) THEN LastRead(s, c) ELSE Len(lines)
                        /\ ReadNumbers(path, line, c) = Kept(lines, FirstRead(s) .. to, LastRead(s, c) > Len(lines))
  BY <1>3, <1>4, <1>5
<1>7. line \in FirstRead(s) .. to /\ line <= line
  BY <1>4, <1>5, <1>6
<1>8. line \in {n \in FirstRead(s) .. to : lines[n]}
  BY <1>2, <1>7
<1>9. line \in Kept(lines, FirstRead(s) .. to, LastRead(s, c) > Len(lines))
  BY <1>7, <1>8 DEF Kept
<1> QED BY <1>6, <1>9

(* K is one run of numbers in from .. to, that starts at a full line.      *)
OneRun(K, lines, from, to) ==
  \E first, last \in K : K = first .. last /\ lines[first] /\ from <= first /\ last <= to

(* The lines that are kept of one run are one run.                         *)
LEMMA KeptIsOneRun ==
  ASSUME NEW lines, NEW from \in Nat, NEW to \in Nat, NEW ended \in BOOLEAN,
         Kept(lines, from .. to, ended) # {}
  PROVE  OneRun(Kept(lines, from .. to, ended), lines, from, to)
<1> DEFINE K == Kept(lines, from .. to, ended)
           full == {n \in from .. to : lines[n]}
           first == Min(full)
           last == IF ended THEN to ELSE Max(full)
<1>1. K = {n \in from .. to : (\E m \in full : m <= n) /\ (ended \/ \E m \in full : n <= m)}
  BY DEF Kept
<1> HIDE DEF K
<1>2. full # {} /\ full \in SUBSET Nat /\ full \in SUBSET (0 .. to) /\ full \in SUBSET (from .. to)
  BY <1>1 DEF K
<1>3. \A n \in full : lines[n]
  OBVIOUS
<1> HIDE DEF full
<1>4. first \in full /\ \A x \in full : first <= x
  BY <1>2, HasLeast
<1>5. Max(full) \in full /\ \A x \in full : x <= Max(full)
  BY <1>2, HasGreatest
<1> HIDE DEF first
<1>6. last \in from .. to /\ first \in from .. to /\ first <= last
  <2>1. \A x \in full : x \in from .. to
    BY <1>2
  <2>2. first \in from .. to /\ Max(full) \in from .. to /\ first <= Max(full)
    BY <1>4, <1>5, <2>1
  <2> HIDE DEF last
  <2>3. CASE ended
    BY <2>2, <2>3 DEF last
  <2>4. CASE ~ended
    BY <2>2, <2>4 DEF last
  <2> QED BY <2>3, <2>4
<1>7. \A n \in Int : n \in from .. to /\ n >= first <=> n \in from .. to /\ \E m \in full : m <= n
  BY <1>2, <1>4
<1>8. \A n \in Int : n \in from .. to /\ n <= last <=> n \in from .. to /\ (ended \/ \E m \in full : n <= m)
  <2>1. \A x \in full : x \in from .. to
    BY <1>2
  <2>2. Max(full) \in from .. to
    BY <1>5, <2>1
  <2> HIDE DEF last
  <2>3. CASE ended
    BY <2>3 DEF last
  <2>4. CASE ~ended
    <3>1. \A n \in Int : n <= Max(full) <=> \E m \in full : n <= m
      BY <1>5, <2>1, <2>2
    <3>2. last = Max(full)
      BY <2>4 DEF last
    <3> QED BY <2>4, <3>1, <3>2
  <2> QED BY <2>3, <2>4
<1> HIDE DEF last
<1>9. \A n \in from .. to : n \in K <=> first <= n /\ n <= last
  BY <1>1, <1>7, <1>8
<1>10. K = first .. last
  <2>1. K \subseteq from .. to
    BY <1>1
  <2>2. \A n \in first .. last : n \in from .. to
    BY <1>6
  <2>3. \A n : n \in first .. last <=> n \in from .. to /\ first <= n /\ n <= last
    BY <1>6
  <2>4. \A n : n \in K <=> n \in first .. last
    BY <1>9, <2>1, <2>3, Zenon
  <2> QED BY <2>4, Zenon
<1>11. first \in K /\ last \in K
  BY <1>6, <1>10
<1>12. from <= first /\ last <= to
  BY <1>6
<1> QED BY <1>3, <1>4, <1>10, <1>11, <1>12 DEF OneRun, K

(* So a snippet is one run of lines, all of them around its line.          *)
LEMMA ShownIsOneRun ==
  ASSUME SnippetAssumption, disk \in Disks,
         NEW path \in Paths, NEW line \in 1 .. MaxLine, NEW c \in Contexts,
         NEW K, K = ReadNumbers(path, line, c), K # {}
  PROVE  \E first, last \in K : /\ K = first .. last /\ HasLine(path, first)
                               /\ line <= first + c \div 2 /\ last + c \div 2 < line + c
<1> DEFINE s == StartOf(line, c)
           h == c \div 2
           lines == FileOf(path)
           ended == LastRead(s, c) > Len(lines)
<1>1. /\ s \in Nat /\ c \in Nat /\ c >= 1 /\ h \in Nat /\ line \in Int
      /\ line >= h => s = line - h /\ Unsigned(s + c) = s + c
      /\ line < h => Unsigned(s + c) <= s
  BY StartIs
<1>2. /\ lines \in Seq(BOOLEAN)
      /\ \E to \in Nat :
           /\ to = IF LastRead(s, c) <= Len(lines) THEN LastRead(s, c) ELSE Len(lines)
           /\ K = Kept(lines, FirstRead(s) .. to, ended)
  BY NumbersAre
<1> HIDE DEF s, lines, h
<1>3. PICK to \in Nat : /\ to = IF LastRead(s, c) <= Len(lines) THEN LastRead(s, c) ELSE Len(lines)
                        /\ K = Kept(lines, FirstRead(s) .. to, ended)
  BY <1>2
<1>4. FirstRead(s) \in Nat /\ FirstRead(s) >= 1 /\ FirstRead(s) >= s /\ LastRead(s, c) \in Int
  <2>1. Unsigned(s + c) \in Nat
    BY <1>1, UnsignedIs
  <2> QED BY <1>1, <2>1 DEF FirstRead, LastRead, CountRead
<1>5. ended \in BOOLEAN
  OBVIOUS
<1> HIDE DEF ended
<1>6. PICK first \in K, last \in K : K = first .. last /\ lines[first] /\ FirstRead(s) <= first /\ last <= to
  <2>1. OneRun(K, lines, FirstRead(s), to)
    BY <1>3, <1>4, <1>5, KeptIsOneRun
  <2> QED BY <2>1, Zenon DEF OneRun
<1>7. first \in FirstRead(s) .. to /\ last \in FirstRead(s) .. to
  BY <1>3 DEF Kept
<1>8. line <= first + h /\ last + h < line + c
  <2>1. FirstRead(s) <= LastRead(s, c) /\ FirstRead(s) <= first /\ last <= LastRead(s, c)
        /\ first \in Int /\ last \in Int
    BY <1>2, <1>3, <1>4, <1>6, <1>7
  <2>2. line >= h
    <3> SUFFICES ASSUME line < h PROVE FALSE
      BY <1>1
    <3>1. Unsigned(s + c) \in Nat /\ Unsigned(s + c) <= s
      BY <1>1, UnsignedIs
    <3>2. CountRead(s, c) = 0
      BY <1>1, <1>4, <3>1 DEF CountRead
    <3> QED BY <1>4, <2>1, <3>2 DEF LastRead
  <2>3. s = line - h /\ Unsigned(s + c) = s + c
    BY <1>1, <2>2
  <2>4. LastRead(s, c) = s + c - 1
    BY <1>1, <2>3 DEF FirstRead, LastRead, CountRead
  <2> QED BY <1>1, <1>4, <2>1, <2>3, <2>4
<1>9. first \in DOMAIN lines
  BY <1>2, <1>3, <1>4, <1>7
<1>10. HasLine(path, first)
  BY <1>6, <1>9 DEF HasLine, lines
<1> QED BY <1>6, <1>8, <1>10 DEF h

(* The invariant of every behaviour.                                       *)
LEMMA SnippetInvHolds ==
  SnippetSpec => []SnippetInv
<1>1. SnippetInit => SnippetInv
  BY SnippetInvInit
<1>2. SnippetInv /\ [SnippetNext]_snippetVars => SnippetInv'
  BY SnippetInvNext, SnippetAssumption
<1> QED BY <1>1, <1>2, PTL DEF SnippetSpec

(* For any files, prefixes, lines and contexts: a snippet has the line it  *)
(* is asked for, marked, however often its file was read before            *)
(* (get_snippet(), get_lines(), print_snippet()).                          *)
THEOREM SnippetsShowTheirLine == SnippetSpec => []ShowsItsLine
<1>1. SnippetInv => ShowsItsLine
  <2> SUFFICES ASSUME SnippetInv, shown # NotShown, shown.line >= shown.context \div 2,
                      HasLine(shown.path, shown.line)
               PROVE  shown.line \in DOMAIN shown.lines /\ shown.lines[shown.line]
    BY DEF ShowsItsLine
  <2>1. PICK path \in Paths, line \in 1 .. MaxLine, context \in Contexts : ShownFor(path, line, context)
    BY DEF SnippetInv
  <2>2. /\ shown.path = path /\ shown.line = line /\ shown.context = context
        /\ shown.lines = [n \in ReadNumbers(path, line, context) |-> n = line]
    BY <2>1 DEF ShownFor
  <2>3. line \in ReadNumbers(path, line, context)
    BY <2>2, ShownHasItsLine, SnippetAssumption DEF SnippetInv
  <2> QED BY <2>2, <2>3
<1> QED BY <1>1, SnippetInvHolds, PTL

(* Likewise a snippet is one run of lines of its file that starts at one   *)
(* that is not blank, around the line it is asked for and no longer than   *)
(* the context, wherever the start wraps round (get_snippet(), get_lines())*)
THEOREM SnippetsAreOneRun == SnippetSpec => []SnippetIsOneRun
<1>1. SnippetInv => SnippetIsOneRun
  <2> SUFFICES ASSUME SnippetInv, DOMAIN shown.lines # {}
               PROVE  \E first, last \in DOMAIN shown.lines :
                        /\ DOMAIN shown.lines = first .. last /\ HasLine(shown.path, first)
                        /\ shown.line <= first + shown.context \div 2
                        /\ last + shown.context \div 2 < shown.line + shown.context
    BY DEF SnippetIsOneRun
  <2>1. shown # NotShown
    <3>1. NotShown.lines = <<>> /\ DOMAIN <<>> = {}
      BY DEF NotShown
    <3> QED BY <3>1, Zenon
  <2>2. PICK path \in Paths, line \in 1 .. MaxLine, context \in Contexts : ShownFor(path, line, context)
    BY <2>1 DEF SnippetInv
  <2>3. /\ shown.path = path /\ shown.line = line /\ shown.context = context
        /\ DOMAIN shown.lines = ReadNumbers(path, line, context)
    BY <2>2 DEF ShownFor
  <2> QED BY <2>3, ShownIsOneRun, SnippetAssumption DEF SnippetInv
<1> QED BY <1>1, SnippetInvHolds, PTL

-----------------------------------------------------------------------------
(* Printer: what is printed so far, and the color it is printed in.        *)

(* Sequences given by their length and elements.                           *)
LEMMA AppendIs ==
  ASSUME NEW n \in Nat, NEW f, f = [k \in 1 .. n |-> f[k]], NEW x
  PROVE  Append(f, x) = [k \in 1 .. n + 1 |-> IF k = n + 1 THEN x ELSE f[k]]
<1> DEFINE T == {f[k] : k \in 1 .. n} \cup {x}
<1>1. \A k \in 1 .. n : f[k] \in T
  OBVIOUS
<1>2. x \in T
  OBVIOUS
<1> HIDE DEF T
<1>3. f \in Seq(T) /\ Len(f) = n
  BY <1>1
<1>4. Append(f, x) \in Seq(T) /\ Len(Append(f, x)) = n + 1 /\ DOMAIN Append(f, x) = 1 .. n + 1
  BY <1>2, <1>3
<1>5. \A k \in 1 .. n + 1 : Append(f, x)[k] = IF k = n + 1 THEN x ELSE f[k]
  BY <1>2, <1>3
<1> QED BY <1>4, <1>5

(* What is printed of a trace once all but n of its inliners are.          *)
Objects(t) == IF t.source.line = 0 \/ printer_object THEN 1 ELSE 0

Upto(t, n) ==
  [k \in 1 .. Objects(t) + Len(t.inliners) - n |->
     IF k <= Objects(t) THEN t.object_function
                        ELSE t.inliners[Len(t.inliners) + 1 - (k - Objects(t))].function]

Block(t) == IF t.source.line = 0 THEN Upto(t, 0) ELSE Append(Upto(t, 0), t.source.function)

Within  == stage \in {"inliners", "source"}
Printed == Len(st) - trace_idx
FrameAt(k) == st[Len(st) + 1 - k]
Partial == IF stage = "source" THEN Block(trace) ELSE Upto(trace, inliner_idx)

(* What is printed at any moment: the traces that are done, whole, and as  *)
(* much of the one at hand as its inliners tell.                           *)
PrintsTheCalls ==
  /\ st \in Backtraces /\ trace_idx \in 0 .. Len(st)
  /\ stage \in {"start", "traces", "inliners", "source", "done"}
  /\ stage = "done" => trace_idx = 0
  /\ Within => trace_idx > 0 /\ inliner_idx \in 0 .. Len(trace.inliners)
  /\ stage = "source" => HasSource
  /\ os = IF Within THEN [k \in 1 .. Printed + 1 |-> IF k = Printed + 1 THEN Partial ELSE Block(FrameAt(k))]
                    ELSE [k \in 1 .. Printed |-> Block(FrameAt(k))]

(* The traces of a stack and their inliners are sequences.                 *)
LEMMA FramesAre ==
  ASSUME BacktracesAssumption, NEW b \in Backtraces
  PROVE  /\ Len(b) \in Nat /\ DOMAIN b = 1 .. Len(b)
         /\ \A k \in 1 .. Len(b) : /\ Len(b[k].inliners) \in Nat
                                   /\ DOMAIN b[k].inliners = 1 .. Len(b[k].inliners)
                                   /\ b[k].source.line = 0 => b[k].inliners = <<>>
<1>1. b \in Seq(ToSet(b))
  BY DEF BacktracesAssumption
<1>2. Len(b) \in Nat /\ DOMAIN b = 1 .. Len(b)
  BY <1>1
<1>3. ASSUME NEW k \in 1 .. Len(b)
      PROVE  /\ Len(b[k].inliners) \in Nat
             /\ DOMAIN b[k].inliners = 1 .. Len(b[k].inliners)
             /\ b[k].source.line = 0 => b[k].inliners = <<>>
  <2>1. b[k] \in ToSet(b)
    BY <1>2 DEF ToSet
  <2>2. b[k].inliners \in Seq(ToSet(b[k].inliners)) /\ (b[k].source.line = 0 => b[k].inliners = <<>>)
    BY <2>1 DEF BacktracesAssumption
  <2> QED BY <2>2
<1> QED BY <1>2, <1>3

(* One more inliner, and the trace before the first.                       *)
LEMMA UptoNext ==
  ASSUME NEW t, NEW n \in Nat, Len(t.inliners) \in Nat, n > 0, n <= Len(t.inliners)
  PROVE  Append(Upto(t, n), t.inliners[n].function) = Upto(t, n - 1)
<1> DEFINE d == Objects(t)
           L == Len(t.inliners)
           u == Upto(t, n)
           g == t.inliners[n].function
           m == d + L - n
<1>1. d \in Nat /\ m \in Nat /\ L \in Nat
  <2>1. Objects(t) = 0 \/ Objects(t) = 1
    BY DEF Objects
  <2>2. d \in Nat /\ L \in Nat /\ n \in Nat /\ n <= L
    BY <2>1
  <2> HIDE DEF d, L
  <2> QED BY <2>2
<1>2. u = [k \in 1 .. m |-> u[k]] /\ \A k \in 1 .. m : u[k] = IF k <= d THEN t.object_function ELSE t.inliners[L + 1 - (k - d)].function
  BY DEF Upto
<1>3. Upto(t, n - 1) = [k \in 1 .. m + 1 |-> IF k <= d THEN t.object_function ELSE t.inliners[L + 1 - (k - d)].function]
  <2>1. d + L - (n - 1) = m + 1
    BY <1>1
  <2> HIDE DEF d, L, m
  <2> QED BY <2>1 DEF Upto, d, L
<1> HIDE DEF u, g
<1>4. Append(u, g) = [k \in 1 .. m + 1 |-> IF k = m + 1 THEN g ELSE u[k]]
  <2>1. m \in Nat /\ u = [k \in 1 .. m |-> u[k]]
    BY <1>1, <1>2
  <2> HIDE DEF m
  <2> QED BY <2>1, AppendIs
<1>5. ~(m + 1 <= d) /\ L + 1 - (m + 1 - d) = n
  BY <1>1
<1>6. \A k \in 1 .. m + 1 : (IF k = m + 1 THEN g ELSE u[k]) = IF k <= d THEN t.object_function ELSE t.inliners[L + 1 - (k - d)].function
  <2> TAKE k \in 1 .. m + 1
  <2>1. CASE k = m + 1
    <3> HIDE DEF d, L, m
    <3> QED BY <1>1, <1>5, <2>1 DEF g
  <2>2. CASE k # m + 1
    <3>1. k \in 1 .. m
      BY <1>1, <2>2
    <3> HIDE DEF d, L, m
    <3> QED BY <1>2, <2>2, <3>1
  <2> QED BY <2>1, <2>2
<1> HIDE DEF d, L, m
<1> QED BY <1>3, <1>4, <1>6 DEF u, g

(* Before the first inliner there is the object, or nothing.               *)
LEMMA UptoFirst ==
  ASSUME NEW t, Len(t.inliners) \in Nat
  PROVE  Upto(t, Len(t.inliners)) = IF t.source.line = 0 \/ printer_object THEN <<t.object_function>> ELSE <<>>
<1>1. Objects(t) + Len(t.inliners) - Len(t.inliners) = Objects(t) /\ Objects(t) \in {0, 1}
  BY DEF Objects
<1>2. Upto(t, Len(t.inliners)) =
        [k \in 1 .. Objects(t) |-> IF k <= Objects(t) THEN t.object_function
                        ELSE t.inliners[Len(t.inliners) + 1 - (k - Objects(t))].function]
  BY <1>1 DEF Upto
<1>3. CASE Objects(t) = 1
  BY <1>2, <1>3 DEF Objects
<1>4. CASE Objects(t) = 0
  BY <1>2, <1>4 DEF Objects
<1> QED BY <1>1, <1>3, <1>4

(* What is printed of a trace are its calls.                               *)
LEMMA BlockIs ==
  ASSUME NEW t, Len(t.inliners) \in Nat, DOMAIN t.inliners = 1 .. Len(t.inliners),
         t.source.line = 0 => t.inliners = <<>>, ~printer_object
  PROVE  Block(t) = CallsOf(t)
<1> DEFINE L == Len(t.inliners)
           names == [i \in DOMAIN t.inliners |-> t.inliners[i].function]
           T == {t.inliners[i].function : i \in 1 .. L}
<1>1. names \in Seq(T) /\ Len(names) = L
  OBVIOUS
<1>2. Reverse(names) = [k \in 1 .. L |-> t.inliners[L - k + 1].function]
  BY <1>1 DEF Reverse
<1>3. CASE t.source.line # 0
  <2>1. Upto(t, 0) = [k \in 1 .. L |-> t.inliners[L + 1 - k].function]
    <3>1. Objects(t) = 0
      BY <1>3 DEF Objects
    <3>2. Objects(t) + L - 0 = L /\ \A k \in 1 .. L : ~(k <= Objects(t)) /\ L + 1 - (k - Objects(t)) = L + 1 - k
      BY <3>1
    <3> HIDE DEF L
    <3> QED BY <3>2 DEF Upto, L
  <2>2. \A k \in 1 .. L : L - k + 1 = L + 1 - k
    OBVIOUS
  <2>3. Upto(t, 0) = Reverse(names)
    BY <1>2, <2>1, <2>2
  <2> HIDE DEF names
  <2> QED BY <1>3, <2>3 DEF Block, CallsOf, names
<1>4. CASE t.source.line = 0
  <2>1. Upto(t, 0) = <<t.object_function>>
    <3>1. L = 0
      BY <1>4
    <3> QED BY <1>4, <3>1, UptoFirst
  <2>2. Reverse(names) = <<>>
    BY <1>2, <1>4
  <2>3. Append(<<>>, t.object_function) = <<t.object_function>>
    OBVIOUS
  <2> HIDE DEF names
  <2> QED BY <1>4, <2>1, <2>2, <2>3 DEF Block, CallsOf, names
<1> QED BY <1>3, <1>4

(* Something is put at the end of the last of what is printed.             *)
(* The last of n + 1 sequences grows by g.                                 *)
Grows(o, n, g) ==
  [o EXCEPT ![Len(o)] = Append(@, g)] = [k \in 1 .. n + 1 |-> IF k = n + 1 THEN Append(o[k], g) ELSE o[k]]

(* Something is put at the end of the last of what is printed.             *)
LEMMA LastGrows ==
  ASSUME NEW n \in Nat, NEW g, NEW o, o = [k \in 1 .. n + 1 |-> o[k]]
  PROVE  Grows(o, n, g)
<1>1. DOMAIN o = 1 .. n + 1 /\ Len(o) = n + 1
  OBVIOUS
<1> QED BY <1>1 DEF Grows

(* Nothing is printed before the first trace.                              *)
LEMMA PrintsInit ==
  ASSUME BacktracesAssumption, PrintInit
  PROVE  PrintsTheCalls
<1>1. Len(st) \in Nat /\ trace_idx = Len(st) /\ stage = "start" /\ os = <<>>
  BY FramesAre DEF PrintInit
<1>2. Printed = 0
  BY <1>1 DEF Printed
<1>3. os = [k \in 1 .. Printed |-> Block(FrameAt(k))]
  BY <1>1, <1>2
<1> QED BY <1>1, <1>3 DEF PrintsTheCalls, Within, PrintInit

(* A step of the printer: only a trace that begins, an inliner, a source   *)
(* and the end of a trace change what the invariant says.                  *)
LEMMA PrintsNext ==
  ASSUME BacktracesAssumption, PrintsTheCalls, [PrintNext]_printVars
  PROVE  PrintsTheCalls'
<1> DEFINE n == Printed
<1>1. /\ Len(st) \in Nat /\ DOMAIN st = 1 .. Len(st) /\ trace_idx \in 0 .. Len(st)
      /\ \A k \in 1 .. Len(st) : /\ Len(st[k].inliners) \in Nat
                                 /\ st[k].source.line = 0 => st[k].inliners = <<>>
  BY FramesAre DEF PrintsTheCalls
<1>2. n \in Nat /\ trace_idx = Len(st) - n
  BY <1>1 DEF Printed
<1>3. CASE /\ stage' = stage \/ (stage' \in {"traces", "done"} /\ ~Within /\ (stage' = "done" => trace_idx = 0))
           /\ UNCHANGED <<st, printer_object, trace_idx, inliner_idx, os>>
  <2>1. Within' = Within
    BY <1>3 DEF Within
  <2>2. Printed' = Printed /\ trace' = trace /\ HasSource' = HasSource /\ (stage' = "source" => stage = "source")
    BY <1>3 DEF Printed, trace, HasSource, Within
  <2>3. \A k : Block(FrameAt(k))' = Block(FrameAt(k))
    BY <1>3 DEF FrameAt, Block, Upto, Objects
  <2>4. Within => Partial' = Partial
    BY <1>3, <2>2 DEF Partial, Block, Upto, Objects, Within
  <2>5. os' = os /\ st' = st /\ trace_idx' = trace_idx /\ inliner_idx' = inliner_idx
    BY <1>3
  <2>6. stage' \in {"start", "traces", "inliners", "source", "done"} /\ (stage' = "done" => trace_idx' = 0)
    BY <1>3 DEF PrintsTheCalls
  <2>7. os' = IF Within' THEN [k \in 1 .. Printed' + 1 |-> IF k = Printed' + 1 THEN Partial' ELSE Block(FrameAt(k))']
                         ELSE [k \in 1 .. Printed' |-> Block(FrameAt(k))']
    <3>1. CASE Within
      <4>1. os = [k \in 1 .. Printed + 1 |-> IF k = Printed + 1 THEN Partial ELSE Block(FrameAt(k))]
        BY <3>1 DEF PrintsTheCalls
      <4>2. os' = [k \in 1 .. Printed' + 1 |-> IF k = Printed' + 1 THEN Partial' ELSE Block(FrameAt(k))']
        BY <2>2, <2>3, <2>4, <2>5, <3>1, <4>1
      <4> QED BY <2>1, <3>1, <4>2
    <3>2. CASE ~Within
      <4>1. os = [k \in 1 .. Printed |-> Block(FrameAt(k))]
        BY <3>2 DEF PrintsTheCalls
      <4>2. os' = [k \in 1 .. Printed' |-> Block(FrameAt(k))']
        BY <2>2, <2>3, <2>5, <4>1
      <4> QED BY <2>1, <3>2, <4>2
    <3> QED BY <3>1, <3>2
  <2> QED BY <2>1, <2>2, <2>5, <2>6, <2>7 DEF PrintsTheCalls
<1>4. ASSUME PrintTrace
      PROVE  PrintsTheCalls'
  <2>1. /\ stage = "traces" /\ trace_idx > 0 /\ stage' = "inliners"
        /\ os' = Append(os, Upto(trace, Len(trace.inliners)))
        /\ inliner_idx' = Len(trace.inliners)
        /\ st' = st /\ printer_object' = printer_object /\ trace_idx' = trace_idx
    <3>1. Len(trace.inliners) \in Nat
      BY <1>1, <1>4 DEF PrintTrace, trace
    <3>2. Upto(trace, Len(trace.inliners)) = IF trace.source.line = 0 \/ printer_object THEN <<trace.object_function>> ELSE <<>>
      BY <3>1, UptoFirst
    <3> QED BY <1>4, <3>2 DEF PrintTrace, HasSource, callVars
  <2>2. Within' /\ ~Within /\ n' = n /\ trace' = trace
    BY <2>1 DEF Within, Printed, trace
  <2>3. \A k : Block(FrameAt(k))' = Block(FrameAt(k))
    BY <2>1 DEF FrameAt, Block, Upto, Objects
  <2>4. Partial' = Upto(trace, Len(trace.inliners))
    BY <2>1, <2>2 DEF Partial, Upto, Objects
  <2>5. os = [k \in 1 .. n |-> Block(FrameAt(k))]
    BY <2>2 DEF PrintsTheCalls
  <2>6. os' = [k \in 1 .. n + 1 |-> IF k = n + 1 THEN Partial' ELSE Block(FrameAt(k))]
    <3>1. os = [k \in 1 .. n |-> os[k]] /\ \A k \in 1 .. n : os[k] = Block(FrameAt(k))
      BY <2>5
    <3>2. os' = Append(os, Partial')
      BY <2>1, <2>4
    <3> HIDE DEF n
    <3>3. Append(os, Partial') = [k \in 1 .. n + 1 |-> IF k = n + 1 THEN Partial' ELSE os[k]]
      BY <1>2, <3>1, AppendIs
    <3>4. \A k \in 1 .. n + 1 : k # n + 1 => k \in 1 .. n
      BY <1>2
    <3> QED BY <3>1, <3>2, <3>3, <3>4
  <2>7. os' = [k \in 1 .. n' + 1 |-> IF k = n' + 1 THEN Partial' ELSE Block(FrameAt(k))']
    BY <2>2, <2>3, <2>6
  <2>8. inliner_idx' \in 0 .. Len(trace.inliners)
    BY <1>1, <2>1 DEF trace
  <2> QED BY <2>1, <2>2, <2>7, <2>8 DEF PrintsTheCalls, HasSource
<1>5. ASSUME stage = "inliners", print_source_loc(OutermostFirst(trace.inliners), "purple"), inliner_idx > 0,
             inliner_idx' = inliner_idx - 1, stage' = stage
      PROVE  PrintsTheCalls'
  <2> DEFINE i == inliner_idx
             g == trace.inliners[i].function
  <2>1. /\ os' = [os EXCEPT ![Len(os)] = Append(@, g)]
        /\ st' = st /\ printer_object' = printer_object /\ trace_idx' = trace_idx
        /\ trace_idx > 0 /\ i \in 0 .. Len(trace.inliners) /\ i > 0 /\ Len(trace.inliners) \in Nat
    <3>1. trace_idx > 0 /\ i \in 0 .. Len(trace.inliners) /\ i > 0
      BY <1>5 DEF PrintsTheCalls, Within
    <3>2. Len(trace.inliners) \in Nat
      BY <1>1, <3>1 DEF trace
    <3>3. os' = [os EXCEPT ![Len(os)] = Append(@, g)]
      BY <1>5 DEF print_source_loc, OutermostFirst
    <3>4. st' = st /\ printer_object' = printer_object /\ trace_idx' = trace_idx
      BY <1>5 DEF print_source_loc, callVars
    <3> QED BY <3>1, <3>2, <3>3, <3>4
  <2>2. Within' /\ Within /\ n' = n /\ trace' = trace
    BY <1>5, <2>1 DEF Within, Printed, trace
  <2>3. \A k : Block(FrameAt(k))' = Block(FrameAt(k))
    BY <2>1 DEF FrameAt, Block, Upto, Objects
  <2>4. Partial = Upto(trace, i) /\ Partial' = Upto(trace, i - 1)
    BY <1>5, <2>1, <2>2 DEF Partial, Upto, Objects
  <2>5. os = [k \in 1 .. n + 1 |-> IF k = n + 1 THEN Partial ELSE Block(FrameAt(k))]
    BY <2>2 DEF PrintsTheCalls
  <2>6. Append(Partial, g) = Partial'
    BY <2>1, <2>4, UptoNext
  <2>7. os' = [k \in 1 .. n' + 1 |-> IF k = n' + 1 THEN Partial' ELSE Block(FrameAt(k))']
    <3>1. os = [k \in 1 .. n + 1 |-> os[k]]
          /\ \A k \in 1 .. n + 1 : os[k] = IF k = n + 1 THEN Partial ELSE Block(FrameAt(k))
      BY <2>5
    <3> HIDE DEF n, g
    <3>2. os' = [k \in 1 .. n + 1 |-> IF k = n + 1 THEN Append(os[k], g) ELSE os[k]]
      <4>1. n \in Nat /\ os = [k \in 1 .. n + 1 |-> os[k]]
        BY <1>2, <3>1
      <4>2. Grows(os, n, g)
        BY <4>1, LastGrows, Zenon
      <4>3. os' = [os EXCEPT ![Len(os)] = Append(@, g)]
        BY <2>1
      <4> QED BY <4>2, <4>3 DEF Grows
    <3>3. os' = [k \in 1 .. n + 1 |-> IF k = n + 1 THEN Partial' ELSE Block(FrameAt(k))]
      BY <2>6, <3>1, <3>2
    <3> QED BY <2>2, <2>3, <3>3
  <2>8. inliner_idx' \in 0 .. Len(trace.inliners)
    BY <1>5, <2>1
  <2> QED BY <1>5, <2>1, <2>2, <2>7, <2>8 DEF PrintsTheCalls, HasSource
<1>6. ASSUME PrintSource
      PROVE  PrintsTheCalls'
  <2> DEFINE g == trace.source.function
  <2>1. /\ os' = [os EXCEPT ![Len(os)] = Append(@, g)]
        /\ st' = st /\ printer_object' = printer_object /\ trace_idx' = trace_idx
        /\ inliner_idx' = inliner_idx /\ inliner_idx = 0 /\ HasSource
        /\ stage = "inliners" /\ stage' = "source"
    BY <1>6 DEF print_source_loc, PrintSource, callVars
  <2>2. Within' /\ Within /\ n' = n /\ trace' = trace
    BY <2>1 DEF Within, Printed, trace
  <2>3. \A k : Block(FrameAt(k))' = Block(FrameAt(k))
    BY <2>1 DEF FrameAt, Block, Upto, Objects
  <2>4. Partial = Upto(trace, 0) /\ Partial' = Block(trace)
    BY <2>1, <2>2 DEF Partial, Block, Upto, Objects
  <2>5. os = [k \in 1 .. n + 1 |-> IF k = n + 1 THEN Partial ELSE Block(FrameAt(k))]
    BY <2>2 DEF PrintsTheCalls
  <2>6. Append(Partial, g) = Partial'
    BY <2>1, <2>4 DEF Block, HasSource
  <2>7. os' = [k \in 1 .. n' + 1 |-> IF k = n' + 1 THEN Partial' ELSE Block(FrameAt(k))']
    <3>1. os = [k \in 1 .. n + 1 |-> os[k]]
          /\ \A k \in 1 .. n + 1 : os[k] = IF k = n + 1 THEN Partial ELSE Block(FrameAt(k))
      BY <2>5
    <3> HIDE DEF n, g
    <3>2. os' = [k \in 1 .. n + 1 |-> IF k = n + 1 THEN Append(os[k], g) ELSE os[k]]
      <4>1. n \in Nat /\ os = [k \in 1 .. n + 1 |-> os[k]]
        BY <1>2, <3>1
      <4>2. Grows(os, n, g)
        BY <4>1, LastGrows, Zenon
      <4>3. os' = [os EXCEPT ![Len(os)] = Append(@, g)]
        BY <2>1
      <4> QED BY <4>2, <4>3 DEF Grows
    <3>3. os' = [k \in 1 .. n + 1 |-> IF k = n + 1 THEN Partial' ELSE Block(FrameAt(k))]
      BY <2>6, <3>1, <3>2
    <3> QED BY <2>2, <2>3, <3>3
  <2>8. trace_idx > 0 /\ inliner_idx' \in 0 .. Len(trace.inliners)
    BY <2>1, <2>2 DEF PrintsTheCalls
  <2> QED BY <2>1, <2>2, <2>7, <2>8 DEF PrintsTheCalls, HasSource
<1>7. ASSUME EndTrace
      PROVE  PrintsTheCalls'
  <2>1. /\ os' = os /\ st' = st /\ printer_object' = printer_object /\ trace_idx' = trace_idx - 1
        /\ stage' = "traces" /\ Within /\ trace_idx > 0
        /\ stage = "source" \/ (stage = "inliners" /\ inliner_idx = 0 /\ ~HasSource)
    BY <1>7 DEF EndTrace, callVars, Within, PrintsTheCalls
  <2>2. ~Within' /\ n' = n + 1
    BY <1>1, <2>1 DEF Within, Printed
  <2>3. \A k : Block(FrameAt(k))' = Block(FrameAt(k))
    BY <2>1 DEF FrameAt, Block, Upto, Objects
  <2>4. Partial = Block(trace)
    BY <2>1 DEF Partial, Block, HasSource
  <2>5. trace = FrameAt(n + 1)
    BY <1>1, <1>2, <2>1 DEF trace, FrameAt
  <2>6. os = [k \in 1 .. n + 1 |-> IF k = n + 1 THEN Partial ELSE Block(FrameAt(k))]
    BY <2>1 DEF PrintsTheCalls
  <2>7. os' = [k \in 1 .. n + 1 |-> Block(FrameAt(k))]
    BY <2>1, <2>4, <2>5, <2>6
  <2>8. os' = [k \in 1 .. n' |-> Block(FrameAt(k))']
    BY <2>2, <2>3, <2>7
  <2>9. trace_idx' \in 0 .. Len(st)
    BY <1>1, <2>1
  <2> QED BY <2>1, <2>2, <2>8, <2>9 DEF PrintsTheCalls
<1>8. CASE Activate
  BY <1>3, <1>8 DEF Activate, Within
<1>9. CASE PrintSnippetLine
  BY <1>3, <1>9 DEF PrintSnippetLine, callVars
<1>10. CASE EndColors
  BY <1>3, <1>10 DEF EndColors, callVars, Within
<1>11. CASE UNCHANGED printVars
  BY <1>3, <1>11 DEF printVars, callVars, whereVars
<1>12. CASE PrintInliner
  BY <1>5, <1>12 DEF PrintInliner
<1> QED BY <1>4, <1>6, <1>7, <1>8, <1>9, <1>10, <1>11, <1>12 DEF PrintNext

(* For any stack, however many frames and inlined calls it has, what is    *)
(* printed reads as the calls do, the most recent one last                 *)
(* (print_stacktrace(), print_trace()).                                    *)
THEOREM PrintsInTheOrderOfTheCalls == PrintSpec => []ReadsAsTheCalls
<1>1. PrintInit => PrintsTheCalls
  BY PrintsInit, BacktracesAssumption
<1>2. PrintsTheCalls /\ [PrintNext]_printVars => PrintsTheCalls'
  BY PrintsNext, BacktracesAssumption
<1>3. PrintsTheCalls => ReadsAsTheCalls
  <2> SUFFICES ASSUME PrintsTheCalls
               PROVE  ReadsAsTheCalls
    OBVIOUS
  <2>1. /\ Len(st) \in Nat /\ DOMAIN st = 1 .. Len(st) /\ trace_idx \in 0 .. Len(st)
        /\ \A k \in 1 .. Len(st) : /\ Len(st[k].inliners) \in Nat
                                   /\ DOMAIN st[k].inliners = 1 .. Len(st[k].inliners)
                                   /\ st[k].source.line = 0 => st[k].inliners = <<>>
    BY FramesAre, BacktracesAssumption DEF PrintsTheCalls
  <2>2. \A k \in 1 .. Printed : os[k] = Block(FrameAt(k))
    <3>1. Printed \in Nat
      BY <2>1 DEF Printed
    <3> QED BY <3>1 DEF PrintsTheCalls
  <2>3. ASSUME ~printer_object, NEW k \in 1 .. Printed
        PROVE  os[k] = CallsOf(FrameAt(k))
    <3>1. Len(st) + 1 - k \in 1 .. Len(st)
      BY <2>1 DEF Printed
    <3>2. Block(FrameAt(k)) = CallsOf(FrameAt(k))
      <4> DEFINE t == FrameAt(k)
      <4>1. /\ Len(t.inliners) \in Nat /\ DOMAIN t.inliners = 1 .. Len(t.inliners)
            /\ t.source.line = 0 => t.inliners = <<>>
        BY <2>1, <3>1 DEF FrameAt
      <4> HIDE DEF t
      <4>2. Block(t) = CallsOf(t)
        BY <2>3, <4>1, BlockIs
      <4> QED BY <4>2 DEF t
    <3> QED BY <2>2, <3>2
  <2>4. stage = "done" => Len(os) = Len(st) /\ trace_idx = 0
    <3> SUFFICES ASSUME stage = "done" PROVE Len(os) = Len(st) /\ trace_idx = 0
      OBVIOUS
    <3>1. trace_idx = 0 /\ os = [k \in 1 .. Printed |-> Block(FrameAt(k))]
      BY DEF PrintsTheCalls, Within
    <3>2. Printed = Len(st)
      BY <2>1, <3>1 DEF Printed
    <3> QED BY <2>1, <3>1, <3>2
  <2> QED BY <2>3, <2>4 DEF ReadsAsTheCalls, Printed, FrameAt
<1> QED BY <1>1, <1>2, <1>3, PTL DEF PrintSpec

(* Between two lines the color is off, and one that was ever on was asked  *)
(* for.                                                                    *)
ColorsAreBack ==
  /\ stained \subseteq {"marked"} /\ _reset = FALSE /\ color \in {"none", "reset"}
  /\ _enabled => color_mode = "always" \/ (color_mode = "automatic" /\ isatty)
  /\ color # "none" => _enabled
  /\ stage = "start" => ~_enabled

(* Only a line of a snippet is colored, and it sets the color back.        *)
LEMMA ColorsNext ==
  ASSUME ColorsAreBack, [PrintNext]_printVars
  PROVE  ColorsAreBack'
<1>1. \A what : Put(what, color) = stained
  BY DEF Put, ColorsAreBack
<1>2. ASSUME stained' \in {stained, Put("object", color), Put("source", color)},
             _reset' = _reset, color' = color, stage' # "start" \/ stage' = stage,
             _enabled' = _enabled, color_mode' = color_mode, isatty' = isatty
      PROVE  ColorsAreBack'
  BY <1>1, <1>2 DEF ColorsAreBack
<1>3. CASE Activate
  BY <1>3 DEF Activate, Activated, ColorsAreBack, colorVars
<1>4. CASE PrintTrace
  BY <1>2, <1>4 DEF PrintTrace, callVars
<1>5. CASE PrintInliner
  BY <1>2, <1>5 DEF PrintInliner, print_source_loc, callVars
<1>6. CASE PrintSource
  BY <1>2, <1>6 DEF PrintSource, print_source_loc, callVars
<1>7. CASE EndTrace
  BY <1>2, <1>7 DEF EndTrace, callVars, colorVars
<1>8. CASE EndColors
  BY <1>2, <1>8 DEF EndColors, callVars, ColorsAreBack
<1>9. CASE UNCHANGED printVars
  BY <1>2, <1>9 DEF printVars, callVars, whereVars, colorVars
<1>10. CASE PrintSnippetLine
  <2>1. /\ _enabled' = _enabled /\ color_mode' = color_mode /\ isatty' = isatty /\ stage' = stage
    BY <1>10 DEF PrintSnippetLine, callVars
  <2>2. /\ stained' \subseteq stained \cup {"marked"} /\ _reset' = FALSE /\ color' \in {"none", "reset"}
        /\ color' = color \/ _enabled
    BY <1>10 DEF PrintSnippetLine, SetBack, set_color, Put, ColorsAreBack
  <2> QED BY <2>1, <2>2 DEF ColorsAreBack
<1> QED BY <1>3, <1>4, <1>5, <1>6, <1>7, <1>8, <1>9, <1>10 DEF PrintNext

(* In every mode and for any snippets the color ends with the line it is   *)
(* for, and a sink that is no terminal gets none unasked (print_snippet(), *)
(* Colorize).                                                              *)
THEOREM ColorsAlwaysEnd == PrintSpec => []ColorsEnd
<1>1. PrintInit => ColorsAreBack
  BY DEF PrintInit, ColorsAreBack
<1>2. ColorsAreBack /\ [PrintNext]_printVars => ColorsAreBack'
  BY ColorsNext
<1>3. ColorsAreBack => ColorsEnd
  BY DEF ColorsAreBack, ColorsEnd
<1> QED BY <1>1, <1>2, <1>3, PTL DEF PrintSpec
=============================================================================
