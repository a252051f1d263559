---------------------------- MODULE ObjectFiles ----------------------------
(***************************************************************************)
(* The trace resolver over libbfd in backward.h reads symbols from the     *)
(* files of the objects a process has mapped, the executable and           *)
(* libraries.  While the process runs, what is at their paths may be       *)
(* replaced or deleted; /proc/self/exe is always the mapped executable.    *)
(* A file is an inode, and the mapped ones are those of Mapped.            *)
(***************************************************************************)
EXTENDS Integers

CONSTANTS
  Mapped,      \* the objects' inodes, by path
  Executable,  \* the path of the executable, which is argv[0]
  Inodes,      \* the mapped inodes, and those that replace them
  MaxChanges   \* bounds the changes of the file system

ProcSelfExe == "/proc/self/exe"
DeletedPath == "(deleted)"      \* readlink's answer has this at its end
NoInode     == 0
NotTried    == -1

ASSUME ObjectsAssumption ==
  /\ Inodes \subseteq Nat \ {NoInode} /\ MaxChanges \in Nat
  /\ Mapped \in [DOMAIN Mapped -> Inodes] /\ Executable \in DOMAIN Mapped
  /\ {ProcSelfExe, DeletedPath} \cap DOMAIN Mapped = {}

VARIABLES
  fs,             \* the inode at each path, or NoInode
  withSymbols,    \* the inodes that have symbols
  changes,        \* of the file system
  exec_path_,     \* the resolver's, read when it was constructed
  _fobj_bfd_map,  \* by file name: the inode of the handle, NoInode for an
                  \* object that could not be loaded, or NotTried
  step,           \* of resolve(): "idle", "same file", "other file", "last resort"
  object,         \* the object of the trace it resolves
  changed,        \* history: an object's path was changed while this resolver
                  \* was between the check of it and its use
  resolved        \* history: what the last trace read, [object, inode, changed]

objectVars == <<fs, withSymbols, changes, exec_path_, _fobj_bfd_map, step, object, changed, resolved>>

FileNames == DOMAIN Mapped \cup {ProcSelfExe, DeletedPath}

ReadLink(at) == IF at[Executable] = Mapped[Executable] THEN Executable ELSE DeletedPath

ObjectsInit ==
  /\ fs = Mapped /\ withSymbols \in SUBSET Inodes /\ changes = 0
  /\ exec_path_ = ReadLink(fs)
  /\ _fobj_bfd_map = [n \in FileNames |-> NotTried]
  /\ step = "idle" /\ object = Executable /\ changed = FALSE
  /\ resolved = [object |-> Executable, inode |-> Mapped[Executable], changed |-> FALSE]

(* From outside the process, at any time.                                  *)
ChangeFile(path) == \E inode \in Inodes \cup {NoInode} :
  /\ changes < MaxChanges /\ changes' = changes + 1
  /\ inode # fs[path] /\ fs' = [fs EXCEPT ![path] = inode]
  /\ changed' = (changed \/ (step # "idle" /\ path = object))
  /\ UNCHANGED <<withSymbols, exec_path_, _fobj_bfd_map, step, object, resolved>>

(* Another printer has a resolver of its own, with nothing loaded.         *)
NewResolver ==
  /\ step = "idle"
  /\ exec_path_' = ReadLink(fs)
  /\ _fobj_bfd_map' = [n \in FileNames |-> NotTried]
  /\ changed' = FALSE
  /\ UNCHANGED <<fs, withSymbols, changes, step, object, resolved>>

InodeAt(name) == CASE name = ProcSelfExe -> Mapped[Executable]
                   [] name = DeletedPath -> NoInode
                   [] OTHER              -> fs[name]

(* resolve_exec_path(): the name to show, and dli_fname after it.          *)
object_filename(o) == IF o = Executable THEN exec_path_ ELSE o
dli_fname(o)       == IF o = Executable THEN ProcSelfExe ELSE o

(* stat() of both.  The mutant asks only whether the file is there.        *)
IsThere(o)  == InodeAt(object_filename(o)) # NoInode
SameFile(o) == /\ InodeAt(object_filename(o)) # NoInode
               /\ InodeAt(object_filename(o)) = InodeAt(dli_fname(o))

Resolve(o) ==
  /\ step = "idle"
  /\ object' = o
  /\ step' = IF SameFile(o) THEN "same file" ELSE "other file"
  /\ UNCHANGED <<fs, withSymbols, changes, exec_path_, _fobj_bfd_map, changed, resolved>>

(* load_object_with_bfd(): once for each name, also if it fails.           *)
load_object_with_bfd(name) ==
  IF _fobj_bfd_map[name] # NotTried THEN _fobj_bfd_map[name]
  ELSE IF InodeAt(name) \in withSymbols THEN InodeAt(name) ELSE NoInode

(* The mutant takes what it got for the file even if that has no handle.   *)
AnyObject(inode) == TRUE
HasHandle(inode) == inode # NoInode

ReadFrom(inode) ==
  /\ resolved' = [object |-> object, inode |-> inode, changed |-> changed]
  /\ step' = "idle"

LoadPath ==
  LET fobj == load_object_with_bfd(object_filename(object)) IN
  /\ step = "same file"
  /\ _fobj_bfd_map' = [_fobj_bfd_map EXCEPT ![object_filename(object)] = fobj]
  /\ IF HasHandle(fobj) THEN ReadFrom(fobj) ELSE step' = "other file" /\ UNCHANGED resolved
  /\ UNCHANGED <<fs, withSymbols, changes, exec_path_, object, changed>>

LoadMapped ==
  LET fobj == load_object_with_bfd(dli_fname(object)) IN
  /\ step = "other file"
  /\ _fobj_bfd_map' = [_fobj_bfd_map EXCEPT ![dli_fname(object)] = fobj]
  /\ ReadFrom(fobj)
  /\ UNCHANGED <<fs, withSymbols, changes, exec_path_, object, changed>>

ObjectsNext == \/ \E path \in DOMAIN Mapped : ChangeFile(path) \/ Resolve(path)
               \/ NewResolver \/ LoadPath \/ LoadMapped

ObjectsSpec == ObjectsInit /\ [][ObjectsNext]_objectVars

-----------------------------------------------------------------------------
(* The symbols of the executable are read from the file that is mapped,    *)
(* whatever was put at its path since the process started or between two   *)
(* traces, unless that happened to this resolver between the check and the *)
(* use of the path (resolve, resolve_exec_path, load_object_with_bfd).     *)
SymbolsAreTheProcess ==
  resolved.object = Executable /\ ~resolved.changed =>
    resolved.inode \in {NoInode, Mapped[Executable]}

(* An executable with symbols is resolved, even if its file is deleted, or *)
(* replaced by one without, in the middle of it.                           *)
LastResortWorks ==
  resolved.object = Executable /\ Mapped[Executable] \in withSymbols => resolved.inode # NoInode
=============================================================================
