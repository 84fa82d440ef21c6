----------------------------- MODULE MCPlatform -----------------------------
(* What netd stands on, on small instances: the link to the driver, and of *)
(* the C runtime the allocator, the functions on strings, the formatting   *)
(* of numbers and the reading of lines; and the messages of Wire.  They    *)
(* share no state: part says which of them moves.                          *)
EXTENDS DriverLink, TLC

CONSTANTS
  Object, Sizes, Products, SizeMod, Limit, Null,        \* Heap
  Char, NUL, Garbage, Capacity, MaxSource,              \* TextBuffer
  Letters, Delim, MaxText,                              \* Tokenizer
  Printable, Backspaces, CR, LF, Other, BufferSizes, MaxKeys,  \* LineInput
  IntBits, LongBits, Rooms,                             \* Format
  Names, Dot, QueryMax, Answers, OptionLists, Tags, Requests, Zero, Blocks  \* Wire

VARIABLES
  part,
  heap, held, data, lowered,
  mem, ret, cut, meant,
  line, last, tokens, origin,
  done, format, args, size, tail, text, count, numbers,
  pc, kbd0, event0, maxlen, buf, n, screen, kept, read,
  task, input, output

-----------------------------------------------------------------------------

\* 2 * 33 does not fit below 64; 2 * 28 does, but with its header not below
\* 32; 3 * 1 does.
SmallProducts == {<<2, 33>>, <<2, 28>>, <<3, 1>>}

Objects == Permutations(Object)

Hp == INSTANCE Heap

Tb == INSTANCE TextBuffer

Tk == INSTANCE Tokenizer WITH
  mem <- line, NULL <- Null, Text <- UNION {[1 .. l -> Letters \cup Delim] : l \in 0 .. MaxText}

Li == INSTANCE LineInput

Wr == INSTANCE Wire

ASSUME PlatformAssumption ==
  /\ Hp!HeapAssumption /\ Tb!TextAssumption /\ Tk!TokenAssumption
  /\ Li!InputAssumption /\ Wr!WireAssumption

-----------------------------------------------------------------------------

\* All formats of up to three of some characters, and longer ones.
Formats ==
  UNION {[1 .. l -> {"%", "l", "d", "x", "p", "a"}] : l \in 1 .. 3}
    \cup {<<"%", "l", "l", "d">>, <<"%", "l", "l", "x">>, <<"%", "l", "X">>, <<"%", "X">>,
          <<"%", "u">>, <<"%", "%">>, <<"%", "d", " ", "%", "d">>, <<"%", "d", " ", "%", "x">>,
          <<"%", "s", "a", "%", "c">>, <<"%", "0", "2", "x">>}

Argument(num, word) == [num |-> num, word |-> word, char |-> "z"]

\* The limits of both types, and null, empty and other strings.
Arguments ==
  {<<Argument(v, Null), Argument(31, <<>>)>> : v \in {0, 1, 10, 16, 31, 32, 63, 256, 511}}
    \cup {<<Argument(5, <<"w", "v">>), Argument(v, <<"w">>)>> : v \in {0, 32, 63}}

Fm == INSTANCE Format WITH
  ret <- count, Sizes <- Rooms, Tails <- {<<>>, <<" ", "7">>, <<"x", "1">>, <<"z">>}

-----------------------------------------------------------------------------

\* The values of Wire's constants.  Names of one letter and a dot, without
\* empty labels except at the end; and long ones, with labels of 62 to 66
\* letters, the last of which does not fit.
Letter == 97
Period == 46
SmallNames == {t \in UNION {[1 .. l -> {Letter, Period}] : l \in 0 .. 6} :
                 \A i \in DOMAIN t : t[i] = Period => i > 1 /\ t[i - 1] # Period}
LongNames == {[i \in 1 .. l |-> Letter] \o t : l \in 62 .. 66, t \in SmallNames}
LongAndSmallNames ==
  SmallNames \cup {t \in LongNames : \A i \in DOMAIN t : t[i] = Period => t[i - 1] # Period}

\* A name written out, the root, and a pointer; some data looks like names.
Owner(labels, at) == [labels |-> labels, at |-> at]

SmallRecords ==
  [name : {Owner(<<<<Letter>>>>, 0), Owner(<<>>, 0), Owner(<<>>, 12)}, type : {1, 5},
   data : {<<10, 0, 0, 1>>, <<192, 12, 0, 1>>, <<192, 12>>}]

SmallAnswers ==
  [question : {<<>>, <<<<97>>, <<98, 99>>>>}, count : 0 .. 2,
   records : UNION {[1 .. l -> SmallRecords] : l \in 0 .. 2}]

\* Options of several lengths, pads and ends.
SmallOptions ==
  [tag : {1, 12, 53}, value : {<<>>, <<53>>, <<1, 4, 9, 9>>, <<5, 255, 0, 1, 7>>}]
    \cup [tag : {0, 255}, value : {<<>>}]

SmallLists == UNION {[1 .. l -> SmallOptions] : l \in 0 .. 3}

NoAddress == <<0, 0, 0, 0>>
SmallRequests == {NoAddress, <<10, 0, 0, 1>>, <<255, 54, 4, 0>>}

SmallBlocks == UNION {[1 .. l -> {0, 1, 128, 255}] : l \in 2 .. 5}

-----------------------------------------------------------------------------

allocator == <<heap, held, data, lowered>>
texts == <<mem, ret, cut, meant>>
fields == <<line, last, tokens, origin>>
formats == <<done, format, args, size, tail, text, count, numbers>>
lines == <<pc, kbd0, event0, maxlen, buf, n, screen, kept, read>>
wire == <<task, input, output>>

MCInit ==
  /\ part \in {"driver", "allocator", "texts", "fields", "formats", "lines", "wire"}
  /\ Init /\ (part # "driver" => card = "prompt")
  /\ Hp!Init /\ Tb!Init /\ Tk!Init /\ Fm!Init /\ Li!Init /\ Wr!Init

MCNext ==
  /\ UNCHANGED part
  /\ \/ part = "driver" /\ Next /\ UNCHANGED <<allocator, texts, fields, formats, lines, wire>>
     \/ part = "allocator" /\ Hp!Next /\ UNCHANGED <<vars, texts, fields, formats, lines, wire>>
     \/ part = "texts" /\ Tb!Next /\ UNCHANGED <<vars, allocator, fields, formats, lines, wire>>
     \/ part = "fields" /\ Tk!Next /\ UNCHANGED <<vars, allocator, texts, formats, lines, wire>>
     \/ part = "formats" /\ Fm!Next /\ UNCHANGED <<vars, allocator, texts, fields, lines, wire>>
     \/ part = "lines" /\ Li!Next /\ UNCHANGED <<vars, allocator, texts, fields, formats, wire>>
     \/ part = "wire" /\ Wr!Next /\ UNCHANGED <<vars, allocator, texts, fields, formats, lines>>

MCSpec == MCInit /\ [][MCNext]_<<vars, part, allocator, texts, fields, formats, lines, wire>>

-----------------------------------------------------------------------------

\* The type invariants of the parts that keep state.
Typed == TypeOK /\ Hp!TypeOK /\ Tb!TypeOK /\ Li!TypeOK

\* The properties of the parts, which are stated in their modules.
BlocksTile == Hp!BlocksTile
FreeOrHeld == Hp!FreeOrHeld
ContentsKept == Hp!ContentsKept
AllFreedIsOneBlock == Hp!AllFreedIsOneBlock
LongestPrefix == Tb!LongestPrefix
TokensAreFields == Tk!TokensAreFields
FormatsAgree == Fm!FormatsAgree
PadsHex == Fm!PadsHex
LineIsTyped == Li!LineIsTyped
FindsTheRecord == Wr!FindsTheRecord
WrittenIsRead == Wr!WrittenIsRead

=============================================================================
