------------------------------ MODULE MCParts ------------------------------
(***************************************************************************)
(* The parts of the runtime that share no state and take no step with each *)
(* other, checked side by side: a behaviour is one of one part.  outcome   *)
(* is one of them, with any sequence of operations, and get_next()         *)
(* another, as one of its users; the last five are of backward.h.          *)
(***************************************************************************)
EXTENDS HttpResponse, JsonEscape, PostResult, Logging, GetNext, Snippet, MCDebugInfo, ObjectFiles, Symbols, Printer

CONSTANT Parts

VARIABLE part

requestOnly  == <<at, index, ndebug, answer, req, handled>>   \* without the store
backwardVars == <<snippetVars, debugVars, objectVars, symbolVars, printVars>>
partVars     == <<part, headersVars, jsonVars, postVars, logVars, requestVars, backwardVars>>

(* The builds and the surroundings differ only where a part depends on     *)
(* them.                                                                   *)
OneDisk    == CHOOSE d \in Disks : TRUE
OneProgram == CHOOSE p \in Programs : TRUE
OneImage   == CHOOSE i \in Images : TRUE
OneStack   == CHOOSE b \in Backtraces : TRUE

PartsInit ==
  /\ part \in Parts
  /\ HeadersInit /\ JsonInit /\ PostInit /\ LogInit /\ RequestInit
  /\ SnippetInit /\ ObjectsInit /\ SymbolsInit /\ PrintInit
  /\ part = "json" \/ ~signed
  /\ part = "request" \/ ndebug
  /\ part = "snippet" \/ disk = OneDisk
  /\ part = "objects" \/ withSymbols = Inodes
  /\ part = "symbols" \/ image = OneImage
  /\ part = "printer" \/ (st = OneStack /\ ~printer_object /\ color_mode = "never" /\ ~isatty)
  /\ \/ part = "debug" /\ DebugInit
     \/ /\ part # "debug" /\ program = OneProgram /\ traces = {}
        /\ _dwfl_handle = "none" /\ _dwfl_handle_initialized = FALSE

PartsNext ==
  /\ UNCHANGED part
  /\ \/ part = "headers" /\ HeadersNext /\ UNCHANGED <<jsonVars, postVars, logVars, requestVars, backwardVars>>
     \/ part = "json" /\ JsonNext /\ UNCHANGED <<headersVars, postVars, logVars, requestVars, backwardVars>>
     \/ part = "post" /\ PostNext /\ UNCHANGED <<headersVars, jsonVars, logVars, requestVars, backwardVars>>
     \/ part = "log"  /\ LogNext  /\ UNCHANGED <<headersVars, jsonVars, postVars, requestVars, backwardVars>>
     \/ /\ part = "outcome" /\ OutcomeNext
        /\ UNCHANGED <<headersVars, jsonVars, postVars, logVars, requestOnly, backwardVars>>
     \/ /\ part = "request" /\ RequestNext
        /\ UNCHANGED <<headersVars, jsonVars, postVars, logVars, backwardVars>>
     \/ /\ UNCHANGED <<headersVars, jsonVars, postVars, logVars, requestVars>>
        /\ \/ part = "snippet" /\ SnippetNext /\ UNCHANGED <<debugVars, objectVars, symbolVars, printVars>>
           \/ part = "debug"   /\ DebugNext   /\ UNCHANGED <<snippetVars, objectVars, symbolVars, printVars>>
           \/ part = "objects" /\ ObjectsNext /\ UNCHANGED <<snippetVars, debugVars, symbolVars, printVars>>
           \/ part = "symbols" /\ SymbolsNext /\ UNCHANGED <<snippetVars, debugVars, objectVars, printVars>>
           \/ part = "printer" /\ PrintNext   /\ UNCHANGED <<snippetVars, debugVars, objectVars, symbolVars>>

PartsSpec == PartsInit /\ [][PartsNext]_partVars

(* Two source files, of which one has blank lines around, one is found     *)
(* below a prefix on one disk and as it is on another.                     *)
MCPrefixes == <<"p", "q">>
Blanks == <<FALSE, TRUE, TRUE, FALSE, TRUE, FALSE, FALSE>>
Other  == <<TRUE, TRUE, FALSE>>
MCDisks == {[n \in {<<"q", "a">>, <<"a">>} |-> IF n = <<"a">> THEN Other ELSE Blanks],
            [n \in {<<"a">>, <<"b">>} |-> Blanks]}

(* A library at some base and an executable that is where its file says,   *)
(* whose code is longer than its base, so that an address of it less the   *)
(* base is in an earlier section, of which no table knows a function.      *)
Section(a, from, bytes) == [alloc |-> a, vma |-> from, size |-> bytes]
Library ==
  [relocated |-> TRUE, base |-> 100, code |-> 1..7,
   sections  |-> <<Section(TRUE, 1, 2), Section(TRUE, 3, 5), Section(FALSE, 0, 40)>>,
   symtab    |-> [a \in {3, 4} |-> IF a = 3 THEN <<"g", "f">> ELSE <<"f">>],
   dynamic   |-> [a \in {4, 5} |-> <<"e">>],
   exported  |-> [a \in {3, 4, 5} |-> IF a = 5 THEN "e" ELSE "f"]]
Static ==
  [relocated |-> FALSE, base |-> 8, code |-> 9..24,
   sections  |-> <<Section(TRUE, 9, 2), Section(TRUE, 11, 14), Section(FALSE, 0, 40)>>,
   symtab    |-> [a \in 12..20 |-> IF a < 15 THEN <<"k", "h", "g">> ELSE <<"g">>],
   dynamic   |-> <<>>,
   exported  |-> <<>>]
MCImages == {Library, Static}

(* Up to two frames, with and without a source and inlined calls, and    *)
(* snippets with and without the line itself.                              *)
MCFrames ==
  {[object_function |-> "o", source |-> [function |-> f, line |-> n], inliners |-> i] :
     f \in {"f", "g"}, n \in {3, 7}, i \in {<<>>, <<[function |-> "h", line |-> 5], [function |-> "k", line |-> 3]>>}}
  \cup {[object_function |-> "o", source |-> [function |-> "none", line |-> 0], inliners |-> <<>>]}
MCBacktraces == UNION {[1..n -> MCFrames] : n \in 0..2}
MCSnippetOf(n) == IF n = 7 THEN <<>> ELSE <<2, 3, 4>>

MCMapped == [p \in {"exe", "lib"} |-> IF p = "exe" THEN 1 ELSE 2]

-----------------------------------------------------------------------------
(* outcome is a tagged value (Outcome!ImplementsTaggedValues), seen in the *)
(* behaviours of its own part, where the values are those of Values.       *)
OutcomePart == INSTANCE TaggedValues
  WITH held <- [o \in Objects |-> IF part = "outcome"
                                  THEN [kind |-> store[o].alive, value |-> store[o].value]
                                  ELSE [kind |-> Dead, value |-> Moved]]

OutcomeIsTagged == OutcomePart!Spec
=============================================================================
