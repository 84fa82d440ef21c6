------------------------------ MODULE Tokenizer ------------------------------
(***************************************************************************)
(* strtok of src/include/libc.h: a program that takes texts apart, with    *)
(* the position kept in a static variable between the calls.               *)
(*                                                                         *)
(* A program may begin another text before it has come to the end of one;  *)
(* its calls then go on in the text begun last.                            *)
(***************************************************************************)
EXTENDS Integers, SequencesExt

CONSTANTS
  Text,    \* the texts
  Delim,   \* the characters that separate
  NUL,     \* the terminator
  NULL     \* the null pointer

TokenAssumption == NULL \notin Nat /\ \A text \in Text : NUL \notin ToSet(text)

VARIABLES
  mem,     \* the memory of the text begun last: its characters and a NUL
  last,    \* the static variable: a place in mem, or NULL
  tokens,  \* the places returned since the text was begun, NULL included
  origin   \* history: the text as it was when begun

vars == <<mem, last, tokens, origin>>

Init == mem = <<NUL>> /\ last = NULL /\ tokens = <<>> /\ origin = <<>>

-----------------------------------------------------------------------------

\* The first separator from i on, or the first character that is none; the
\* end counts as both.
From(d, i, separates) == Min({j \in i .. Len(d) : d[j] = NUL \/ (d[j] \in Delim) = separates})

\* Faulty: the character behind a token is not skipped, and stays.
Token_NoCut(d, at) ==
  LET start == From(d, at, FALSE)
      end   == From(d, start, TRUE)
  IN  IF d[start] = NUL THEN [mem |-> d, last |-> start, token |-> NULL]
      ELSE [mem |-> d, last |-> end, token |-> start]

\* One call that goes on at place at.
Token(d, at) ==
  LET start == From(d, at, FALSE)
      end   == From(d, start, TRUE)
  IN  CASE d[start] = NUL -> [mem |-> d, last |-> start, token |-> NULL]
        [] d[start] # NUL /\ d[end] = NUL -> [mem |-> d, last |-> end, token |-> start]
        [] OTHER -> [mem |-> [d EXCEPT ![end] = NUL], last |-> end + 1, token |-> start]

\* strtok(text, delim).
Begin(text) ==
  LET t == Token(Append(text, NUL), 1)
  IN  /\ mem' = t.mem /\ last' = t.last
      /\ tokens' = <<t.token>>
      /\ origin' = text

\* strtok(NULL, delim).  The program stops some calls after the end.
Continue ==
  /\ Len(tokens) <= Len(origin)
  /\ IF last = NULL
     THEN tokens' = Append(tokens, NULL) /\ UNCHANGED <<mem, last>>
     ELSE LET t == Token(mem, last)
          IN  mem' = t.mem /\ last' = t.last /\ tokens' = Append(tokens, t.token)
  /\ UNCHANGED origin

Next == Continue \/ \E text \in Text : Begin(text)

-----------------------------------------------------------------------------

\* The fields of a text: its longest stretches without a separator.
Fields(text) ==
  LET Plain(i, j) == \A k \in i .. j : text[k] \notin Delim
      Whole == {r \in (DOMAIN text) \X (DOMAIN text) :
                  /\ r[1] <= r[2] /\ Plain(r[1], r[2])
                  /\ r[1] = 1 \/ text[r[1] - 1] \in Delim
                  /\ r[2] = Len(text) \/ text[r[2] + 1] \in Delim}
  IN  [k \in 1 .. Cardinality(Whole) |->
         LET r == CHOOSE r \in Whole : Cardinality({q \in Whole : q[1] < r[1]}) = k - 1
         IN  SubSeq(text, r[1], r[2])]

\* The string at a place of the memory.
StringAt(i) == SubSeq(mem, i, Min({j \in i .. Len(mem) : mem[j] = NUL}) - 1)

\* The calls return the fields of the text in order, each once, and then
\* NULL for ever; the strings returned earlier stay what they were.
TokensAreFields ==
  LET fields == Fields(origin)
  IN  \A k \in DOMAIN tokens :
        IF k <= Len(fields)
        THEN tokens[k] # NULL /\ StringAt(tokens[k]) = fields[k]
        ELSE tokens[k] = NULL

=============================================================================
