--------------------------- MODULE PackagerProofs ---------------------------
(***************************************************************************)
(* What a package has, for any machine, functions and number of runs that  *)
(* fail wherever they like.                                                *)
(***************************************************************************)
EXTENDS Packager, FiniteSetTheorems, TLAPS

(* A file of this run is at a place.                                       *)
HasNew(files, path) == \E f \in files : f[1] = path /\ f[2].run = run /\ f[2].is # "broken"

Bootstrap(files) ==
  \E f \in files :
    /\ f[1] = <<"bootstrap">> /\ f[2].run = run /\ f[2].is # "broken"
    /\ IF INCLUDE_LIBC
       THEN f[2].is = "script" /\ f[2].starts = <<PKG_LD, PKG_BIN_FILENAME>>
       ELSE f[2].of = PKG_BIN_FILENAME

(* The libraries that the loops have come to, and the loader.              *)
Libraries(files) ==
  /\ \A i \in host.linked \cap host.files :
       (pc = "linked" => i \notin todo) /\ (hasElement(i) => IsLoader(i))
         => HasNew(files, InLib(i))
  /\ pc # "linked" /\ INCLUDE_LIBC =>
       \A i \in host.listed :
         (pc = "libc" => i \notin todo) /\ ~IsLoader(i) => HasNew(files, InLib(i))
  /\ PKG_LD # Absent => PKG_LD \in Loaders /\ HasNew(files, <<"lib", PKG_LD>>)
  /\ pc \notin {"linked", "libc"} /\ INCLUDE_LIBC => PKG_LD # Absent

Whole(files) ==
  /\ Libraries(files)
  /\ INCLUDE_LIBC => HasNew(files, <<"bin", PKG_BIN_FILENAME>>)
  /\ Bootstrap(files)

(* Where what the run writes is, and where it is put.                      *)
Collected ==
  /\ pc \in {"linked", "libc", "binary"} => Libraries(tmp)
  /\ pc = "bootstrap" =>
       Libraries(tmp) /\ INCLUDE_LIBC /\ HasNew(tmp, <<"bin", PKG_BIN_FILENAME>>)
  /\ pc = "zip" => Whole(tmp)
  /\ pc = "mv"  => Whole(tmpzip[PKG_BIN_FILENAME])
  /\ pc \in {"rm", "created"} => Whole(zips[PKG_BIN_FILENAME])

(* Files of this run only, one at each place, and one loader.              *)
OwnFiles(files) ==
  /\ \A f \in files : /\ f[2].run = run /\ f[2].is # "broken"
                      /\ f[1][1] = "bin" => INCLUDE_LIBC
                      /\ f[1][1] = "lib" /\ f[1][2] \in Loaders
                           => f[1] = <<"lib", PKG_LD>> /\ PKG_LD # Absent
  /\ \A f, g \in files : f[1] = g[1] => f = g

(* Nothing is left over where the last run did not fail.                   *)
NothingLeft == tmp = {} /\ \A b \in Binaries : tmpzip[b] = NoZip

Clean ==
  /\ run = 0 \/ pc = "created" => NothingLeft
  /\ fresh =>
       /\ pc \in {"linked", "libc", "binary", "bootstrap", "zip"} =>
            OwnFiles(tmp) /\ \A b \in Binaries : tmpzip[b] = NoZip
       /\ pc = "mv" => OwnFiles(tmpzip[PKG_BIN_FILENAME])
       /\ pc \in {"rm", "created"} => OwnFiles(zips[PKG_BIN_FILENAME])
  /\ pc = "linked" /\ PKG_LD # Absent =>
       \E i \in host.linked : IsLoader(i) /\ PKG_LD = basename(i)

Running == {"linked", "libc", "binary", "bootstrap", "zip", "mv", "rm"}

TypeOK ==
  /\ host \in Hosts /\ run \in Nat /\ pc \in Running \cup {"ended", "created"}
  /\ INCLUDE_LIBC \in BOOLEAN
  /\ pc # "ended" => run > 0 /\ PKG_BIN_FILENAME \in Binaries
  /\ pc = "linked" => todo \subseteq host.linked
  /\ pc = "libc"   => todo \subseteq host.listed
  /\ tmpzip = [b \in Binaries |-> tmpzip[b]] /\ zips = [b \in Binaries |-> zips[b]]

IInv == TypeOK /\ Collected /\ Clean

-----------------------------------------------------------------------------
(* What this run writes is there, and does not take away what it wrote.    *)
LEMMA NewFile ==
  ASSUME NEW path, NEW c, c.run = run, c.is # "broken", Write(path, c), run' = run,
         NEW p, HasNew(tmp, p) \/ p = path
  PROVE  HasNew(tmp, p)'
<1> DEFINE new == <<path, c>>
<1>1. new \in tmp' /\ new[1] = path /\ new[2] = c
  BY DEF Write, Over
<1>2. \A f \in tmp : f[1] # path => f \in tmp'
  BY DEF Write, Over
<1> HIDE DEF new
<1>3. CASE p = path
  BY <1>1, <1>3 DEF HasNew
<1>4. CASE p # path
  BY <1>2, <1>4 DEF HasNew
<1> QED BY <1>3, <1>4

(* A file of this run, that is no second loader, leaves the others alone.  *)
LEMMA OwnFile ==
  ASSUME NEW path, NEW c, c.run = run, c.is # "broken", Write(path, c),
         UNCHANGED <<run, INCLUDE_LIBC>>, OwnFiles(tmp),
         path[1] = "bin" => INCLUDE_LIBC,
         path[1] = "lib" /\ path[2] \in Loaders => path = <<"lib", PKG_LD'>> /\ PKG_LD' # Absent,
         PKG_LD' = PKG_LD \/ PKG_LD = Absent
  PROVE  OwnFiles(tmp)'
BY DEF OwnFiles, Write, Over

(* What a copy holds.                                                      *)
LEMMA Contents ==
  /\ \A of : /\ Content(of).run = run /\ Content(of).is = "copy" /\ Content(of).of = of
  /\ bootstrap_script.run = run /\ bootstrap_script.is = "script"
  /\ bootstrap_script.starts = <<PKG_LD, PKG_BIN_FILENAME>>
BY DEF Content, bootstrap_script

(* At the start there is nothing.                                          *)
LEMMA InitInv == Init => IInv
<1> SUFFICES ASSUME Init PROVE IInv
  OBVIOUS
<1>1. TypeOK
  BY DEF Init, TypeOK
<1>2. Collected /\ Clean
  BY DEF Init, Collected, Clean, NothingLeft
<1> QED BY <1>1, <1>2 DEF IInv

-----------------------------------------------------------------------------
(* A run starts.                                                           *)
LEMMA StartKeeps ==
  ASSUME IInv, NEW b \in Binaries, NEW include \in BOOLEAN, Start(b, include)
  PROVE  IInv'
<1> USE DEF IInv
<1>1. TypeOK'
  BY DEF Start, TypeOK, Running
<1>2. Collected'
  BY DEF Start, TypeOK, Collected, Libraries
<1>3. Clean'
  <2>1. pc' = "linked" /\ PKG_LD' = Absent /\ run' # 0 /\ UNCHANGED <<tmp, tmpzip>>
    BY DEF Start, TypeOK
  <2>2. fresh' => NothingLeft
    BY DEF Start, Clean
  <2>3. fresh' => OwnFiles(tmp)' /\ \A b2 \in Binaries : tmpzip'[b2] = NoZip
    BY <2>1, <2>2 DEF NothingLeft, OwnFiles
  <2> QED BY <2>1, <2>3 DEF Clean
<1> QED BY <1>1, <1>2, <1>3

(* The first loop.                                                         *)
LEMMA LinkedKeeps ==
  ASSUME IInv, NEW i \in todo, SkipLinked(i) \/ CopyLinked(i)
  PROVE  IInv'
<1> USE DEF IInv, Keep
<1>1. TypeOK' /\ pc = "linked" /\ pc' = "linked"
  BY DEF SkipLinked, CopyLinked, TypeOK, Running
<1>2. CASE SkipLinked(i)
  <2>1. Collected'
    BY <1>1, <1>2 DEF SkipLinked, Collected, Libraries, HasNew, hasElement
  <2>2. Clean'
    BY <1>1, <1>2 DEF SkipLinked, Clean, NothingLeft, OwnFiles
  <2> QED BY <1>1, <2>1, <2>2
<1>3. CASE CopyLinked(i)
  <2>1. \A p : HasNew(tmp, p) \/ p = InLib(i) => HasNew(tmp, p)'
    BY <1>3, Contents, NewFile DEF CopyLinked, cp
  <2>2. PKG_LD' = PKG_LD \/ (PKG_LD' = basename(i) /\ IsLoader(i))
    BY <1>3 DEF CopyLinked
  <2>3. Collected'
    <3>1. Libraries(tmp)'
      BY <1>1, <1>3, <2>1, <2>2 DEF CopyLinked, Collected, Libraries, hasElement, InLib, IsLoader
    <3> QED BY <1>1, <3>1 DEF Collected
  <2>4. UNCHANGED <<run, INCLUDE_LIBC, fresh, tmpzip, host>>
    BY <1>3 DEF CopyLinked
  <2>5. i \in host.linked /\ host \in Hosts
    BY <1>1, <1>3 DEF TypeOK
  <2>6. PKG_LD # Absent => \E j \in host.linked : IsLoader(j) /\ PKG_LD = basename(j)
    BY <1>1 DEF Clean
  <2>7. /\ IsLoader(i) => PKG_LD' = basename(i) /\ PKG_LD' # Absent
        /\ PKG_LD' = PKG_LD \/ PKG_LD = Absent
    BY <1>3, <2>5, <2>6, LoadersAssumption DEF CopyLinked, IsLoader
  <2>8. PKG_LD' # Absent => \E j \in host.linked : IsLoader(j) /\ PKG_LD' = basename(j)
    BY <2>2, <2>5, <2>6, <2>7
  <2>9. ASSUME fresh PROVE OwnFiles(tmp)'
    <3>1. OwnFiles(tmp)
      BY <1>1, <2>9 DEF Clean
    <3>2. /\ Write(InLib(i), Content(i)) /\ InLib(i)[1] = "lib"
          /\ InLib(i)[2] \in Loaders => InLib(i) = <<"lib", PKG_LD'>> /\ PKG_LD' # Absent
      BY <1>3, <2>7 DEF CopyLinked, cp, InLib, IsLoader
    <3> QED BY <2>4, <2>7, <3>1, <3>2, Contents, OwnFile
  <2>10. Clean'
    BY <1>1, <2>4, <2>8, <2>9 DEF Clean, TypeOK, NothingLeft
  <2> QED BY <1>1, <2>3, <2>10
<1> QED BY <1>2, <1>3

(* The end of the first loop.                                              *)
LEMMA EndLinkedKeeps == ASSUME IInv, EndLinked PROVE IInv'
<1> USE DEF IInv, Keep
<1>1. TypeOK'
  BY DEF EndLinked, TypeOK, Running
<1>2. Collected'
  BY DEF EndLinked, TypeOK, Collected, Libraries, HasNew, hasElement
<1>3. Clean'
  BY DEF EndLinked, TypeOK, Clean, NothingLeft, OwnFiles
<1> QED BY <1>1, <1>2, <1>3

(* The second loop, and its end.                                           *)
LEMMA LibcKeeps == ASSUME IInv, NEW i \in todo, CopyLibc(i) PROVE IInv'
<1> USE DEF IInv, Keep
<1>1. TypeOK' /\ pc = "libc" /\ pc' = "libc" /\ i \in host.listed
      /\ UNCHANGED <<run, INCLUDE_LIBC, fresh, tmpzip, host>>
  BY DEF CopyLibc, TypeOK, Running
<1>2. CASE IsLoader(i) /\ PKG_LD # Absent
  <2>1. UNCHANGED <<PKG_LD, tmp>> /\ todo' = todo \ {i}
    BY <1>2 DEF CopyLibc, NeedsLoader
  <2>2. Libraries(tmp)'
    BY <1>1, <1>2, <2>1 DEF Collected, Libraries, HasNew, hasElement
  <2>3. Clean'
    BY <1>1, <2>1 DEF Clean, TypeOK, NothingLeft, OwnFiles
  <2> QED BY <1>1, <2>2, <2>3 DEF Collected
<1>3. CASE ~IsLoader(i) \/ PKG_LD = Absent
  <2>1. /\ Write(InLib(i), Content(i)) /\ todo' = todo \ {i}
        /\ PKG_LD' = IF IsLoader(i) THEN basename(i) ELSE PKG_LD
    BY <1>3 DEF CopyLibc, NeedsLoader, cp
  <2>2. \A p : HasNew(tmp, p) \/ p = InLib(i) => HasNew(tmp, p)'
    BY <1>1, <2>1, Contents, NewFile
  <2>3. Libraries(tmp)'
    BY <1>1, <1>3, <2>1, <2>2 DEF Collected, Libraries, hasElement, InLib, IsLoader
  <2>4. ASSUME fresh PROVE OwnFiles(tmp)'
    <3>1. OwnFiles(tmp)
      BY <1>1, <2>4 DEF Clean
    <3>2. /\ InLib(i)[1] = "lib"
          /\ InLib(i)[2] \in Loaders => InLib(i) = <<"lib", PKG_LD'>> /\ PKG_LD' # Absent
      BY <1>3, <2>1, LoadersAssumption DEF InLib, IsLoader
    <3>3. PKG_LD' = PKG_LD \/ PKG_LD = Absent
      BY <1>3, <2>1
    <3> QED BY <1>1, <2>1, <3>1, <3>2, <3>3, Contents, OwnFile
  <2>5. Clean'
    BY <1>1, <2>4 DEF Clean, TypeOK, NothingLeft
  <2> QED BY <1>1, <2>3, <2>5 DEF Collected
<1> QED BY <1>2, <1>3

(* The end of the second loop, which fails without a loader.               *)
LEMMA EndLibcKeeps == ASSUME IInv, EndLibc PROVE IInv'
<1> USE DEF IInv, Keep
<1>1. TypeOK'
  BY DEF EndLibc, TypeOK, Running
<1>2. Collected'
  BY DEF EndLibc, TypeOK, Collected, Libraries, HasNew, hasElement
<1>3. Clean'
  BY DEF EndLibc, TypeOK, Clean, NothingLeft, OwnFiles
<1> QED BY <1>1, <1>2, <1>3

(* The binary and the script that starts it.                               *)
LEMMA BinaryKeeps == ASSUME IInv, CopyBinary \/ WriteBootstrap PROVE IInv'
<1> USE DEF IInv, Keep
<1>1. /\ TypeOK' /\ UNCHANGED <<run, INCLUDE_LIBC, PKG_LD, PKG_BIN_FILENAME, fresh, tmpzip, host>>
      /\ pc \in {"binary", "bootstrap"} /\ pc' \in {"bootstrap", "zip"}
  BY DEF CopyBinary, WriteBootstrap, TypeOK, Running
<1>2. PICK path, c : /\ Write(path, c) /\ c.run = run /\ c.is # "broken"
                     /\ path[1] = "bin" => INCLUDE_LIBC
                     /\ path[1] # "lib"
                     /\ pc' = "bootstrap" => INCLUDE_LIBC /\ path = <<"bin", PKG_BIN_FILENAME>>
                     /\ pc' = "zip" => /\ path = <<"bootstrap">> /\ (pc = "bootstrap" \/ ~INCLUDE_LIBC)
                                       /\ IF INCLUDE_LIBC THEN c = bootstrap_script
                                                          ELSE c.of = PKG_BIN_FILENAME
  <2>1. CASE WriteBootstrap
    BY <1>1, <2>1, Contents DEF WriteBootstrap, Collected
  <2>2. CASE CopyBinary /\ INCLUDE_LIBC
    BY <1>1, <2>2, Contents DEF CopyBinary
  <2>3. CASE CopyBinary /\ ~INCLUDE_LIBC
    BY <1>1, <2>3, Contents DEF CopyBinary
  <2> QED BY <2>1, <2>2, <2>3
<1>3. \A p : HasNew(tmp, p) \/ p = path => HasNew(tmp, p)'
  BY <1>1, <1>2, NewFile
<1>4. Libraries(tmp)'
  BY <1>1, <1>3 DEF Collected, Libraries, hasElement
<1>5. ASSUME pc' = "zip" PROVE Whole(tmp)'
  <2>1. <<path, c>> \in tmp'
    BY <1>2 DEF Write, Over
  <2>2. Bootstrap(tmp)'
    BY <1>1, <1>2, <1>5, <2>1, Contents DEF Bootstrap
  <2>3. INCLUDE_LIBC => HasNew(tmp, <<"bin", PKG_BIN_FILENAME>>)
    BY <1>1, <1>2, <1>5 DEF Collected
  <2> QED BY <1>1, <1>3, <1>4, <2>2, <2>3 DEF Whole
<1>6. Collected'
  BY <1>1, <1>2, <1>3, <1>4, <1>5 DEF Collected
<1>7. fresh => OwnFiles(tmp)'
  BY <1>1, <1>2, OwnFile DEF Clean
<1>8. Clean'
  BY <1>1, <1>7 DEF Clean, TypeOK, NothingLeft
<1> QED BY <1>1, <1>6, <1>8

(* zip takes all of what was collected, and nothing else where nothing was *)
(* left.                                                                   *)
LEMMA ZipKeeps == ASSUME IInv, Zip PROVE IInv'
<1> USE DEF IInv, KeepRun, script
<1>1. /\ pc = "zip" /\ pc' = "mv" /\ PKG_BIN_FILENAME \in Binaries
      /\ tmpzip'[PKG_BIN_FILENAME] = Zipped /\ tmp \subseteq Zipped
      /\ UNCHANGED <<host, run, fresh, PKG_BIN_FILENAME, INCLUDE_LIBC, PKG_LD>>
  BY DEF Zip, TypeOK, Zipped
<1>2. TypeOK'
  BY DEF Zip, TypeOK, Running
<1>3. Collected'
  BY <1>1 DEF Collected, Whole, Libraries, HasNew, Bootstrap, hasElement
<1>4. fresh => Zipped = tmp
  BY <1>1 DEF Clean, Zipped, OtherZips, NoZip
<1>5. Clean'
  BY <1>1, <1>4 DEF Clean, OwnFiles, NothingLeft, TypeOK
<1> QED BY <1>2, <1>3, <1>5

(* The zip in the directory is the one that was made.                      *)
LEMMA MvKeeps == ASSUME IInv, Mv PROVE IInv'
<1> USE DEF IInv, KeepRun, script
<1>1. /\ pc = "mv" /\ pc' = "rm" /\ PKG_BIN_FILENAME \in Binaries
      /\ zips'[PKG_BIN_FILENAME] = tmpzip[PKG_BIN_FILENAME]
      /\ UNCHANGED <<host, run, fresh, PKG_BIN_FILENAME, INCLUDE_LIBC, PKG_LD>>
  BY DEF Mv, TypeOK
<1>2. TypeOK'
  BY DEF Mv, TypeOK, Running
<1>3. Collected'
  BY <1>1 DEF Collected, Whole, Libraries, HasNew, Bootstrap, hasElement
<1>4. Clean'
  BY <1>1 DEF Clean, OwnFiles, NothingLeft, TypeOK
<1> QED BY <1>2, <1>3, <1>4

(* Nothing is left.                                                        *)
LEMMA RmKeeps == ASSUME IInv, Rm PROVE IInv'
<1> USE DEF IInv, KeepRun, script
<1>1. /\ pc = "rm" /\ pc' = "created" /\ NothingLeft'
      /\ UNCHANGED <<host, run, fresh, zips, PKG_BIN_FILENAME, INCLUDE_LIBC, PKG_LD>>
  BY DEF Rm, Removed, NothingLeft
<1>2. TypeOK'
  BY DEF Rm, TypeOK, Running
<1>3. Collected'
  BY <1>1 DEF Collected, Whole, Libraries, HasNew, Bootstrap, hasElement
<1>4. Clean'
  BY <1>1 DEF Clean, OwnFiles
<1> QED BY <1>2, <1>3, <1>4

(* A run that fails may leave anything.                                    *)
LEMMA FailKeeps == ASSUME IInv, Fail PROVE IInv'
BY DEF Fail, Keep, IInv, TypeOK, Collected, Clean, Running

(* Every step keeps the invariant.                                         *)
LEMMA StepKeeps == IInv /\ [Next]_vars => IInv'
<1>1. ASSUME IInv, UNCHANGED vars PROVE IInv'
  <2> USE <1>1 DEF vars, script, IInv
  <2>1. TypeOK'
    BY DEF TypeOK
  <2>2. Collected'
    BY DEF Collected, Whole, Libraries, HasNew, Bootstrap, hasElement
  <2>3. Clean'
    BY DEF Clean, OwnFiles, NothingLeft
  <2> QED BY <2>1, <2>2, <2>3
<1> QED
  BY <1>1, StartKeeps, LinkedKeeps, EndLinkedKeeps, LibcKeeps, EndLibcKeeps, BinaryKeeps, ZipKeeps,
     MvKeeps, RmKeeps, FailKeeps DEF Next

-----------------------------------------------------------------------------
(* Collected, Clean and the types hold in every state.                     *)
THEOREM Safety == Spec => []IInv
BY InitInv, StepKeeps, PTL DEF Spec

(* A package that is said to be created is complete.                       *)
THEOREM CreatedIsComplete == Spec => []PackageIsComplete
<1>1. ASSUME IInv, pc = "created" PROVE PackageIsComplete
  <2>1. Whole(Created) /\ PKG_BIN_FILENAME \in Binaries
    BY <1>1 DEF IInv, TypeOK, Collected, Created
  <2>2. \A p : HasNew(Created, p) => \E f \in OfThisRun(p) : f[1] = p
    BY DEF HasNew, OfThisRun
  <2>3. \A i \in host.linked \cap host.files :
          INCLUDE_LIBC \/ ~hasElement(i) => HasNew(Created, InLib(i))
    BY <1>1, <2>1 DEF Whole, Libraries, hasElement, InLib, IsLoader
  <2>4. PICK f \in OfThisRun(<<"bootstrap">>) :
          IF INCLUDE_LIBC THEN f[2].is = "script" /\ f[2].starts = <<PKG_LD, PKG_BIN_FILENAME>>
                          ELSE f[2].of = PKG_BIN_FILENAME
    BY <2>1 DEF Whole, Bootstrap, OfThisRun
  <2>5. INCLUDE_LIBC => \E ld \in OfThisRun(<<"lib", PKG_LD>>) : IsLoader(ld[1])
    BY <1>1, <2>1, <2>2 DEF Whole, Libraries, IsLoader, basename
  <2>6. INCLUDE_LIBC => OfThisRun(<<"bin", PKG_BIN_FILENAME>>) # {}
    BY <2>1, <2>2 DEF Whole
  <2> QED BY <2>2, <2>3, <2>4, <2>5, <2>6 DEF PackageIsComplete
<1>2. IInv => PackageIsComplete
  BY <1>1 DEF PackageIsComplete
<1> QED BY <1>2, Safety, PTL

(* After a run that did not fail a package has nothing but its own.        *)
THEOREM CreatedIsOwn == Spec => []PackageIsOwn
<1>1. ASSUME IInv, pc = "created", fresh PROVE PackageIsOwn
  <2>1. OwnFiles(Created)
    BY <1>1 DEF IInv, Clean, Created
  <2> DEFINE loaders == {f \in Created : f[1][1] = "lib" /\ f[1][2] \in Loaders}
  <2>2. \A f, g \in loaders : f = g
    BY <2>1 DEF OwnFiles
  <2>3. Cardinality(loaders) <= 1
    <3> HIDE DEF loaders
    <3>1. CASE loaders = {}
      BY <3>1, FS_EmptySet
    <3>2. CASE loaders # {}
      <4>1. PICK f : f \in loaders
        BY <3>2
      <4>2. loaders = {f}
        BY <2>2, <4>1
      <4>3. Cardinality(loaders) = 1
        BY <4>2, FS_Singleton, Zenon
      <4> QED BY <4>3
    <3> QED BY <3>1, <3>2
  <2> QED BY <2>1, <2>3 DEF PackageIsOwn, OwnFiles
<1>2. IInv => PackageIsOwn
  BY <1>1 DEF PackageIsOwn
<1> QED BY <1>2, Safety, PTL
=============================================================================
