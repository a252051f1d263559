------------------------------ MODULE Snippet ------------------------------
(***************************************************************************)
(* SnippetFactory and SourceFile of backward.h: the source lines a printer *)
(* shows around a line.  A file is opened once and read again from the     *)
(* start for every snippet, so what one read leaves in the stream is there *)
(* at the next.  A file is the sequence of its lines, TRUE for a line with *)
(* something on it.                                                        *)
(***************************************************************************)
EXTENDS Naturals, Sequences, SequencesExt

CONSTANTS
  Paths,      \* what the debug information says of source files
  SourcePrefixes, \* BACKWARD_CXX_SOURCE_PREFIXES, split
  Disks,      \* contents of the file system, by <<prefix, path>> and <<path>>
  Contexts,   \* the context sizes: 5 for an inliner, 7 for a trace
  MaxLine,    \* bounds the lines asked for
  UINT_MAX

(* A program's lines are numbered far below the largest unsigned.          *)
ASSUME SnippetAssumption ==
  /\ SourcePrefixes \in Seq(ToSet(SourcePrefixes))
  /\ \A d \in Disks : \A name \in DOMAIN d : d[name] \in Seq(BOOLEAN)
  /\ MaxLine \in Nat /\ UINT_MAX \in Nat
  /\ \A c \in Contexts : c \in Nat \ {0} /\ MaxLine + c <= UINT_MAX

VARIABLES
  disk,       \* the file system
  src_files, \* the streams of the factory, by path: [name, read, good]
  shown       \* history: the last snippet and what it was asked for

snippetVars == <<disk, src_files, shown>>

Unsigned(n) == n % (UINT_MAX + 1)
NotOpened   == [name |-> <<>>, read |-> 0, good |-> FALSE]
NotShown    == [path |-> "", line |-> 0, context |-> 0, lines |-> <<>>]

SnippetInit ==
  /\ disk \in Disks
  /\ src_files = [p \in Paths |-> NotOpened]
  /\ shown = NotShown

(* SourceFile(path): the first prefix that has the file, or the path as it *)
(* is, which may not open.                                                 *)
Candidates(path) == Append([i \in DOMAIN SourcePrefixes |-> <<SourcePrefixes[i], path>>], <<path>>)
Found(path)      == {i \in DOMAIN Candidates(path) : Candidates(path)[i] \in DOMAIN disk}
Opened(path) ==
  [name |-> IF Found(path) = {} THEN <<path>> ELSE Candidates(path)[Min(Found(path))],
   read |-> 0, good |-> Found(path) # {}]

get_src_file(path) == IF src_files[path] = NotOpened THEN Opened(path) ELSE src_files[path]

Lines(file) == IF file.name \in DOMAIN disk THEN disk[file.name] ELSE <<>>

(* clear() and seekg(0).  A stream that is not good stays where it is: the *)
(* mutant leaves clear() out.                                              *)
OnlySeek(file) == IF file.good THEN [file EXCEPT !.read = 0] ELSE file
Rewound(file)  == [name |-> file.name, read |-> 0, good |-> file.name \in DOMAIN disk]

(* n calls of getline(): one that finds no line fails, and ends them.      *)
Getline(file, n) ==
  IF file.good /\ file.read + n <= Len(Lines(file))
    THEN [name |-> file.name, read |-> file.read + n, good |-> TRUE]
    ELSE [name |-> file.name, read |-> Len(Lines(file)), good |-> FALSE]

(* The lines read after the discarded ones: the blank ones are left out at *)
(* the start, and at the end unless the file ends there.  The mutant has   *)
(* no such start.                                                          *)
TrimmedAtEnd(lines, numbers, ended) ==
  {n \in numbers : ended \/ \E m \in numbers : lines[m] /\ n <= m}
Kept(lines, numbers, ended) ==
  LET full == {n \in numbers : lines[n]}
  IN  {n \in numbers : /\ \E m \in full : m <= n
                       /\ ended \/ \E m \in full : n <= m}

get_lines(file, line_start, line_count) ==
  LET first == IF line_start = 0 THEN 1 ELSE line_start
      last  == Unsigned(line_start + line_count)       \* not included
      at    == Getline(Rewound(file), first - 1)
      to    == Getline(at, IF last > first THEN last - first ELSE 0)
  IN  [file    |-> IF at.good THEN to ELSE at,
       numbers |-> IF at.good THEN Kept(Lines(file), (at.read + 1) .. to.read, ~to.good) ELSE {}]

(* get_snippet(), and print_snippet()'s mark at the line: the lines shown, *)
(* by their number, and whether they are marked.                           *)
StartOf(line, context) == Unsigned(line + (UINT_MAX + 1) - context \div 2)

get_snippet(path, line, context) ==
  LET got == get_lines(get_src_file(path), StartOf(line, context), context)
  IN  /\ src_files' = [src_files EXCEPT ![path] = got.file]
      /\ shown' = [path |-> path, line |-> line, context |-> context,
                   lines |-> [n \in got.numbers |-> n = line]]
      /\ UNCHANGED disk

SnippetNext == \E path \in Paths, line \in 1 .. MaxLine, context \in Contexts :
                 get_snippet(path, line, context)

SnippetSpec == SnippetInit /\ [][SnippetNext]_snippetVars

-----------------------------------------------------------------------------
(* However often its file was read before, and to whichever end, a snippet *)
(* shows the line it is asked for, marked, if the file that the prefixes   *)
(* lead to has it and it is not blank.  The lines before context / 2 are   *)
(* the exception: there the unsigned start wraps round (get_snippet,       *)
(* get_lines, print_snippet).                                              *)
FileOf(path) == IF Found(path) = {} THEN <<>> ELSE disk[Candidates(path)[Min(Found(path))]]

HasLine(path, line) == line \in DOMAIN FileOf(path) /\ FileOf(path)[line]

ShowsItsLine ==
  /\ shown # NotShown /\ shown.line >= shown.context \div 2
  /\ HasLine(shown.path, shown.line)
  => shown.line \in DOMAIN shown.lines /\ shown.lines[shown.line]

(* A snippet is one run of lines of the file, starts at one that is not    *)
(* blank, and is within context lines around the one it is asked for: also *)
(* where the start and the end of the run wrap round, as for the first     *)
(* lines of a file, it has no other lines (get_snippet, get_lines).        *)
SnippetIsOneRun ==
  DOMAIN shown.lines # {} =>
    \E first, last \in DOMAIN shown.lines :
      /\ DOMAIN shown.lines = first .. last /\ HasLine(shown.path, first)
      /\ shown.line <= first + shown.context \div 2
      /\ last + shown.context \div 2 < shown.line + shown.context
=============================================================================
