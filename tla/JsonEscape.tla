----------------------------- MODULE JsonEscape -----------------------------
(***************************************************************************)
(* invocation_response::failure(), which makes the JSON body of a failure  *)
(* of the handler's error message and error type, and json_escape(), which *)
(* it calls for both.  A byte is its code; whether char is signed is up to *)
(* the build: it is on x86-64, it is not on arm64.                         *)
(***************************************************************************)
EXTENDS Integers, Sequences

CONSTANTS
  Bytes,      \* the bytes messages are made of
  Signed,     \* whether char is signed: a set of BOOLEANs, one per build
  MaxLength   \* bounds the length of a message and its type together

ASSUME BytesAssumption == Bytes \subseteq 0..255 /\ Signed \subseteq BOOLEAN /\ MaxLength \in Nat

VARIABLES
  signed,     \* the build
  in,         \* the bytes read of the message and of the type
  out         \* what each became

jsonVars == <<signed, in, out>>

last_non_printable_character == 31
quote     == 34
backslash == 92

(* The value of ch, a char that holds byte b.                              *)
AsChar(b) == IF signed /\ b >= 128 THEN b - 256 ELSE b

(* snprintf "u%04x" of an int into six bytes: the letter, then the first   *)
(* four digits.  A char that is not negative has no others; of a negative  *)
(* one, eight digits long, these are the upper half of the 32 bits.        *)
FirstFour(ch) == IF ch < 0 THEN 65536 + (ch \div 65536) ELSE ch

(* The bytes that are escaped by a character of their own.                 *)
Short == [b \in {8, 9, 10, 12, 13, quote, backslash} |->
            CASE b = 8  -> "b" [] b = 12 -> "f" [] b = 10 -> "n" [] b = 13 -> "r" [] b = 9 -> "t"
              [] b = quote -> "quote" [] b = backslash -> "backslash"]

(* What is appended for one byte: the byte itself, a backslash and a       *)
(* character, or \u and four digits.                                       *)
NotEscaped(b) ==   \* mutant: >= 31 instead of > 31
  IF AsChar(b) >= last_non_printable_character /\ b \notin {quote, backslash}
  THEN [as |-> "raw", value |-> b]
  ELSE IF b \in DOMAIN Short
       THEN [as |-> "short", value |-> Short[b]]
       ELSE [as |-> "unicode", value |-> FirstFour(AsChar(b))]

Escape(b) ==
  IF AsChar(b) > last_non_printable_character /\ b \notin {quote, backslash}
  THEN [as |-> "raw", value |-> b]
  ELSE IF b \in DOMAIN Short
       THEN [as |-> "short", value |-> Short[b]]
       ELSE [as |-> "unicode", value |-> FirstFour(AsChar(b))]

(* m_payload: the two strings in a fixed frame, whose quotes open and close*)
(* them.                                                                   *)
Frame(part) == [as |-> "frame", value |-> part]
Quote       == [as |-> "raw", value |-> quote]
m_payload ==
  <<Frame("errorMessage"), Quote>> \o out.message \o
  <<Quote, Frame("errorType"), Quote>> \o out.type \o <<Quote, Frame("stackTrace")>>

JsonInit == /\ signed \in Signed
            /\ in  = [message |-> <<>>, type |-> <<>>]
            /\ out = [message |-> <<>>, type |-> <<>>]

(* One turn of json_escape()'s loop, for the message or for the type.      *)
json_escape(field, b) ==
  /\ Len(in.message) + Len(in.type) < MaxLength
  /\ in'  = [in  EXCEPT ![field] = Append(@, b)]
  /\ out' = [out EXCEPT ![field] = Append(@, Escape(b))]
  /\ UNCHANGED signed

JsonNext == \E b \in Bytes : json_escape("message", b) \/ json_escape("type", b)

JsonSpec == JsonInit /\ [][JsonNext]_jsonVars

-----------------------------------------------------------------------------
(* What a JSON parser makes of the body: a string goes from a raw quote to *)
(* the next, its raw bytes must be legal in one, and an escape stands for  *)
(* its character.                                                          *)
IsQuote(e)        == e.as = "raw" /\ e.value = quote
IsFrame(e, part)  == e.as = "frame" /\ e.value = part
QuotesFrom(i)     == {k \in i..Len(m_payload) : IsQuote(m_payload[k])}
ClosingOf(i)      == CHOOSE k \in QuotesFrom(i + 1) : \A l \in QuotesFrom(i + 1) : k <= l
StringAt(i)       == SubSeq(m_payload, i + 1, ClosingOf(i) - 1)

Legal(e) == e.as = "raw" => e.value \notin 0..last_non_printable_character \cup {quote, backslash}

Meaning(letter) ==   \* RFC 8259, section 7
  CASE letter = "quote" -> 34 [] letter = "backslash" -> 92 [] letter = "b" -> 8
    [] letter = "f" -> 12     [] letter = "n" -> 10         [] letter = "r" -> 13
    [] letter = "t" -> 9

Decoded(s) == [k \in 1..Len(s) |-> IF s[k].as = "short" THEN Meaning(s[k].value) ELSE s[k].value]

Readable(s) == \A k \in 1..Len(s) : ~signed \/ s[k] < 128

(* A parser accepts the body, and reads the message and the type back from *)
(* it, one in its own place: every byte where char is unsigned, and the    *)
(* ASCII ones where it is signed.                                          *)
RoundTrip ==
  LET message == StringAt(2)
      after   == ClosingOf(2)
      type    == StringAt(after + 2)
  IN /\ \A k \in 1..Len(message) : Legal(message[k])
     /\ IsFrame(m_payload[after + 1], "errorType") /\ IsQuote(m_payload[after + 2])
     /\ \A k \in 1..Len(type) : Legal(type[k])
     /\ IsFrame(m_payload[ClosingOf(after + 2) + 1], "stackTrace")
     /\ Readable(in.message) => Decoded(message) = in.message
     /\ Readable(in.type) => Decoded(type) = in.type

(* "escape and print as unicode codepoint" (runtime.cpp:571): what is      *)
(* escaped as \u is the code of the character that is escaped.             *)
EscapesAreCodepoints ==
  \A field \in {"message", "type"} : \A k \in 1..Len(out[field]) :
    out[field][k].as = "unicode" => out[field][k].value = in[field][k]
=============================================================================
