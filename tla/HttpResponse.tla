---------------------------- MODULE HttpResponse ----------------------------
(***************************************************************************)
(* How the headers of an answer are collected and looked up: write_header()*)
(* gets one line at a time from curl, splits it at the first colon, trims  *)
(* both parts and gives them to response::add_header(), which lower-cases  *)
(* the name; get_header() returns the first match.  A line is a sequence   *)
(* over a few characters: a letter in both cases, a colon, white space and *)
(* another letter.                                                         *)
(***************************************************************************)
EXTENDS Integers, SequencesExt

CONSTANTS
  MaxChars,   \* bounds the characters of an answer, without those of CR LF
  MaxHeaders  \* bounds the lines of an answer

ASSUME HttpResponseAssumption == MaxChars \in Nat /\ MaxHeaders \in Nat

Colon == ":"
Blank == " "
Chars == {"n", "N", "v", Colon, Blank}

VARIABLES
  line,       \* history: the line curl is receiving
  received,   \* history: the lines passed to write_header()
  m_headers   \* of the response

headersVars == <<line, received, m_headers>>

is_whitespace(ch) == ch = Blank

CRLF == <<Blank, Blank>>

(* The positions of s that are not white space, and what is between them.  *)
Inked(s) == {k \in 1..Len(s) : ~is_whitespace(s[k])}
trim(s)  == IF Inked(s) = {} THEN <<>> ELSE SubSeq(s, Min(Inked(s)), Max(Inked(s)))

Lowered(name) == [k \in 1..Len(name) |-> IF name[k] = "N" THEN "n" ELSE name[k]]

Colons(s) == {k \in 1..Len(s) : s[k] = Colon}

(* Where a line is split.                                                  *)
SplitAt(s) == Min(Colons(s))

add_header(name, value) == m_headers' = Append(m_headers, <<Lowered(name), value>>)

(* A line without a colon, the status line for one, is left out.           *)
write_header(s) ==
  IF Colons(s) = {}
  THEN UNCHANGED m_headers
  ELSE LET c == SplitAt(s)
       IN add_header(trim(SubSeq(s, 1, c - 1)), trim(SubSeq(s, c + 1, Len(s))))

Matches(name) == {k \in 1..Len(m_headers) : m_headers[k][1] = name}

NotFound == <<"not found">>

LastMatch(ks)  == Max(ks)   \* mutant
FirstMatch(ks) == Min(ks)

get_header(name) ==
  IF Matches(name) = {} THEN NotFound ELSE m_headers[FirstMatch(Matches(name))][2]

has_header(name) == \E k \in 1..Len(m_headers) : m_headers[k][1] = name

HeadersInit == line = <<>> /\ received = <<>> /\ m_headers = <<>>

(* curl reads from the connection, and calls back at the end of a line,    *)
(* with the CR LF, which is white space.                                   *)
Receive(ch) ==
  /\ Len(received) < MaxHeaders
  /\ Len(FlattenSeq(received)) + Len(line) < MaxChars
  /\ line' = Append(line, ch)
  /\ UNCHANGED <<received, m_headers>>

EndOfLine ==
  /\ Len(received) < MaxHeaders
  /\ write_header(line \o CRLF)
  /\ received' = Append(received, line)
  /\ line' = <<>>

HeadersNext == EndOfLine \/ \E ch \in Chars : Receive(ch)

HeadersSpec == HeadersInit /\ [][HeadersNext]_headersVars

-----------------------------------------------------------------------------
(* Text s is x with blanks around it.                                      *)
AllBlank(s)      == \A k \in 1..Len(s) : s[k] = Blank
IsPadded(s, x) ==
  /\ x # <<>> => x[1] # Blank /\ x[Len(x)] # Blank
  /\ \E i, j \in 0..Len(s) : /\ i <= j /\ x = SubSeq(s, i + 1, j)
                             /\ AllBlank(SubSeq(s, 1, i)) /\ AllBlank(SubSeq(s, j + 1, Len(s)))

SameName(a, b) == Len(a) = Len(b) /\ \A k \in 1..Len(a) :
                    a[k] = b[k] \/ {a[k], b[k]} = {"n", "N"}

(* Line s says that the header of this name has this value: "name: value"  *)
(* with pads around both, no colon in the name, any case.                  *)
Says(s, name, value) ==
  \E c \in 1..Len(s) :
    /\ s[c] = Colon /\ \A k \in 1..(c - 1) : s[k] # Colon
    /\ \E i \in 1..c, j \in 0..(c - 1) : /\ SameName(SubSeq(s, i, j), name)
                                         /\ IsPadded(SubSeq(s, 1, c - 1), SubSeq(s, i, j))
    /\ IsPadded(SubSeq(s, c + 1, Len(s)), value)

Names == {<<>>, <<"n">>, <<"n", "n">>, <<"v">>}

(* get_header() gives the value of the first line that names the header in *)
(* whatever case and spacing, with its inner blanks and colons, and        *)
(* nothing if there is no such line; has_header() tells the two apart.     *)
LookupIsFirstSaid ==
  \A name \in Names :
    LET Saying == {k \in 1..Len(received) :
                     \E i, j \in 0..Len(received[k]) : Says(received[k], name, SubSeq(received[k], i + 1, j))}
    IN IF Saying = {} THEN get_header(name) = NotFound /\ ~has_header(name)
       ELSE has_header(name) /\ Says(received[Min(Saying)], name, get_header(name))
=============================================================================
