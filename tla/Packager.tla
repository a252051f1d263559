------------------------------ MODULE Packager ------------------------------
(***************************************************************************)
(* packaging/packager, the script that puts a function, the libraries it   *)
(* is linked to and a bootstrap into a zip.  Runs of it follow one another *)
(* in one directory, for one or for several functions, and all use ./tmp   *)
(* there.  Under set -e a run ends at the first command that fails, and    *)
(* leaves what it wrote; the next run finds it.                            *)
(***************************************************************************)
EXTENDS Naturals, FiniteSets

CONSTANTS
  Binaries,   \* the functions' file names
  Hosts,      \* what ldd, the package managers and the file system say:
              \* [linked, listed, files] of paths <<directory, file name>>
  Loaders,    \* the file names that match ld-*
  MaxRuns     \* bounds the runs

VARIABLES
  host,       \* the machine the script runs on
  run,        \* the number of the current run, or of the last one
  pc,         \* the command it comes to
  todo,       \* the libraries the current loop has not come to
  PKG_BIN_FILENAME, INCLUDE_LIBC, PKG_LD,   \* of the script
  tmp,        \* the files below ./tmp but zips: <<path, content>>
  tmpzip,     \* the zips in ./tmp, and their entries
  zips,       \* the zips in the directory itself
  fresh       \* history: no run just before the current one failed

script == <<PKG_BIN_FILENAME, INCLUDE_LIBC, PKG_LD>>
vars   == <<host, run, pc, todo, script, tmp, tmpzip, zips, fresh>>

basename(path) == path[2]
IsLoader(path) == basename(path) \in Loaders
NoZip  == {}
Absent == ""

(* What matches ld-* has a name, and a program is linked to one loader.    *)
ASSUME LoadersAssumption ==
  /\ Absent \notin Loaders
  /\ \A h \in Hosts : \A i, j \in h.linked :
       IsLoader(i) /\ IsLoader(j) => basename(i) = basename(j)

(* What a file holds: the run that wrote it, what it is a copy of, and for *)
(* the bootstrap script what it starts.                                    *)
Content(of)      == [run |-> run, is |-> "copy", of |-> of, starts |-> <<>>]
Broken           == [Content(Absent) EXCEPT !.is = "broken"]
bootstrap_script == [Content(Absent) EXCEPT !.is = "script",
                                            !.starts = <<PKG_LD, PKG_BIN_FILENAME>>]

(* A file replaces the one that was at its place.                          *)
Over(files, path, content) == {f \in files : f[1] # path} \cup {<<path, content>>}
Write(path, content)       == tmp' = Over(tmp, path, content)
InLib(i)                   == <<"lib", basename(i)>>
cp(i)                      == Write(InLib(i), Content(i))

Init ==
  /\ host \in Hosts
  /\ run = 0 /\ pc = "ended" /\ todo = {} /\ fresh = TRUE
  /\ PKG_BIN_FILENAME = Absent /\ INCLUDE_LIBC = FALSE /\ PKG_LD = Absent
  /\ tmp = {} /\ tmpzip = [b \in Binaries |-> NoZip] /\ zips = [b \in Binaries |-> NoZip]

(* The arguments, and mkdir -p.  Without a binary or the zip utility the   *)
(* script would end here and leave everything as it is.                    *)
Start(b, include) ==
  /\ pc \in {"ended", "created"} /\ run < MaxRuns
  /\ run' = run + 1
  /\ PKG_BIN_FILENAME' = b /\ INCLUDE_LIBC' = include /\ PKG_LD' = Absent
  /\ todo' = host.linked
  /\ fresh' = (run = 0 \/ pc = "created")
  /\ pc' = "linked"
  /\ UNCHANGED <<host, tmp, tmpzip, zips>>

Keep == UNCHANGED <<host, run, PKG_BIN_FILENAME, INCLUDE_LIBC, tmpzip, zips, fresh>>

hasElement(i) == i \in host.listed

(* One turn of the first loop: a library that is not there is passed over, *)
(* one of the C library too, unless it is the loader; the loader is found  *)
(* even if the packages list it at another path.                           *)
SkipLinked(i) ==
  /\ pc = "linked" /\ i \in todo
  /\ i \notin host.files \/ (hasElement(i) /\ ~IsLoader(i))
  /\ todo' = todo \ {i}
  /\ UNCHANGED <<pc, PKG_LD, tmp>> /\ Keep

CopyLinked(i) ==
  /\ pc = "linked" /\ i \in todo
  /\ i \in host.files /\ (hasElement(i) => IsLoader(i))
  /\ cp(i)
  /\ PKG_LD' = IF IsLoader(i) /\ (hasElement(i) \/ PKG_LD = Absent) THEN basename(i) ELSE PKG_LD
  /\ todo' = todo \ {i}
  /\ UNCHANGED pc /\ Keep

EndLinked ==
  /\ pc = "linked" /\ todo = {}
  /\ IF INCLUDE_LIBC THEN pc' = "libc" /\ todo' = host.listed
                     ELSE pc' = "binary" /\ UNCHANGED todo
  /\ UNCHANGED <<PKG_LD, tmp>> /\ Keep

(* One turn of the second loop: all of the C library, and a loader only    *)
(* while there is none.                                                    *)
NeedsLoader == PKG_LD = Absent

CopyLibc(i) ==
  /\ pc = "libc" /\ i \in todo
  /\ IF IsLoader(i)
     THEN IF NeedsLoader THEN PKG_LD' = basename(i) /\ cp(i) ELSE UNCHANGED <<PKG_LD, tmp>>
     ELSE cp(i) /\ UNCHANGED PKG_LD
  /\ todo' = todo \ {i}
  /\ UNCHANGED pc /\ Keep

(* Without a loader the run ends, and leaves ./tmp as any failure does.    *)
EndLibc ==
  /\ pc = "libc" /\ todo = {}
  /\ pc' = IF PKG_LD = Absent THEN "ended" ELSE "binary"
  /\ UNCHANGED <<todo, PKG_LD, tmp>> /\ Keep

CopyBinary ==
  /\ pc = "binary"
  /\ IF INCLUDE_LIBC
     THEN Write(<<"bin", PKG_BIN_FILENAME>>, Content(PKG_BIN_FILENAME)) /\ pc' = "bootstrap"
     ELSE Write(<<"bootstrap">>, Content(PKG_BIN_FILENAME)) /\ pc' = "zip"
  /\ UNCHANGED <<todo, PKG_LD>> /\ Keep

WriteBootstrap ==
  /\ pc = "bootstrap"
  /\ Write(<<"bootstrap">>, bootstrap_script)
  /\ pc' = "zip"
  /\ UNCHANGED <<todo, PKG_LD>> /\ Keep

(* zip takes all of ./tmp, the zips of other functions included, into a    *)
(* new zip or over the entries of one that is there.                       *)
OtherZips == {<<<<"zip", b>>, Content(b)>> : b \in {b \in Binaries \ {PKG_BIN_FILENAME} : tmpzip[b] # NoZip}}
OldFirst  == tmpzip[PKG_BIN_FILENAME] \cup   \* mutant
             {e \in tmp \cup OtherZips : \A o \in tmpzip[PKG_BIN_FILENAME] : o[1] # e[1]}
Zipped    == LET new == tmp \cup OtherZips
             IN new \cup {e \in tmpzip[PKG_BIN_FILENAME] : \A n \in new : n[1] # e[1]}

KeepRun == UNCHANGED <<host, run, todo, script, fresh>>

Zip ==
  /\ pc = "zip"
  /\ tmpzip' = [tmpzip EXCEPT ![PKG_BIN_FILENAME] = Zipped]
  /\ pc' = "mv"
  /\ UNCHANGED <<tmp, zips>> /\ KeepRun

Mv ==
  /\ pc = "mv"
  /\ zips'   = [zips EXCEPT ![PKG_BIN_FILENAME] = tmpzip[PKG_BIN_FILENAME]]
  /\ tmpzip' = [tmpzip EXCEPT ![PKG_BIN_FILENAME] = NoZip]
  /\ pc' = "rm"
  /\ UNCHANGED tmp /\ KeepRun

(* rm -r, and the message that says that the zip was created.              *)
KeepsLib(files) == {f \in files : f[1][1] = "lib"}   \* mutant
Removed(files)  == {}

Rm ==
  /\ pc = "rm"
  /\ tmp' = Removed(tmp) /\ tmpzip' = [b \in Binaries |-> NoZip]
  /\ pc' = "created"
  /\ UNCHANGED zips /\ KeepRun

(* A command fails, or the run is interrupted: a copy may be cut short.    *)
Fail ==
  /\ pc \notin {"ended", "created"}
  /\ pc' = "ended"
  /\ UNCHANGED <<todo, PKG_LD>> /\ Keep
  /\ \/ UNCHANGED tmp
     \/ /\ pc \in {"linked", "libc"}
        /\ \E i \in todo \cap host.files : Write(InLib(i), Broken)
     \/ /\ pc \in {"binary", "bootstrap"}
        /\ Write(IF pc = "binary" /\ INCLUDE_LIBC THEN <<"bin", PKG_BIN_FILENAME>> ELSE <<"bootstrap">>,
                 Broken)

Next ==
  \/ \E b \in Binaries, include \in BOOLEAN : Start(b, include)
  \/ \E i \in todo : SkipLinked(i) \/ CopyLinked(i) \/ CopyLibc(i)
  \/ EndLinked \/ EndLibc \/ CopyBinary \/ WriteBootstrap \/ Zip \/ Mv \/ Rm \/ Fail

Spec == Init /\ [][Next]_vars

-----------------------------------------------------------------------------
Created == zips[PKG_BIN_FILENAME]

(* The files of this run at a place in the zip that was created.           *)
OfThisRun(path) == {f \in Created : f[1] = path /\ f[2].run = run /\ f[2].is # "broken"}

(* Whatever earlier runs left in ./tmp, a zip that is said to be created   *)
(* has this run's bootstrap, which starts this binary, and has it run, with*)
(* a loader and with libraries that this run copied: all those it is linked*)
(* to and that are there, or without -d all but the C library's.           *)
PackageIsComplete ==
  pc = "created" =>
    /\ \A i \in host.linked \cap host.files :
         INCLUDE_LIBC \/ ~hasElement(i) => OfThisRun(InLib(i)) # {}
    /\ IF INCLUDE_LIBC
       THEN /\ OfThisRun(<<"bin", PKG_BIN_FILENAME>>) # {}
            /\ \E f \in OfThisRun(<<"bootstrap">>) :
                 /\ f[2].is = "script" /\ f[2].starts[2] = PKG_BIN_FILENAME
                 /\ \E ld \in OfThisRun(<<"lib", f[2].starts[1]>>) : IsLoader(ld[1])
       ELSE \E f \in OfThisRun(<<"bootstrap">>) : f[2].of = PKG_BIN_FILENAME

(* Where the run before it did not fail, the zip has nothing but what this *)
(* run put there, no second loader, and with -d no other copy of the binary*)
(* than its bootstrap.                                                     *)
PackageIsOwn ==
  pc = "created" /\ fresh =>
    /\ \A f \in Created : f[2].run = run /\ f[2].is # "broken"
    /\ Cardinality({f \in Created : f[1][1] = "lib" /\ f[1][2] \in Loaders}) <= 1
    /\ \A f \in Created : f[1][1] = "bin" => INCLUDE_LIBC

(* "This will not package the C library files" (packager:20), said of -d:  *)
(* none but the loader is in the zip.                                      *)
DefaultLibcHasNone ==
  pc = "created" /\ fresh /\ ~INCLUDE_LIBC =>
    \A f \in Created, i \in host.listed : ~IsLoader(i) => f[1] # InLib(i)
=============================================================================
