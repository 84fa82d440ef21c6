------------------------------- MODULE Format -------------------------------
(***************************************************************************)
(* Rendering and reading numbers in src/include/libc.h: snprintf, printf   *)
(* and sprintf with their digit printers, and atoi, strtol and sscanf.     *)
(*                                                                         *)
(* A text is the sequence of its characters.  Integers have few bits, so   *)
(* that every limit is met: IntBits for int, LongBits for long and long    *)
(* long.  A program renders a format, and reads numbers back from a text   *)
(* it made, with something else behind them.                               *)
(***************************************************************************)
EXTENDS Integers, SequencesExt

CONSTANTS
  IntBits, LongBits,
  Formats,    \* the formats, of at most two arguments
  Arguments,  \* the lists of arguments passed
  Null,       \* a null pointer passed for a string
  Sizes,      \* the sizes passed to snprintf
  Tails       \* what may follow a number that is read

\* Each argument has a bit pattern num, a string word and a character char: a
\* directive takes the one it is for.

VARIABLES
  done,     \* the latest call, or "nothing"
  format, args, size, tail,   \* what was passed
  text,     \* what the buffer or the screen got
  ret,      \* what the rendering call returned
  numbers   \* the numbers read back

vars == <<done, format, args, size, tail, text, ret, numbers>>

Init ==
  /\ done = "nothing" /\ format = <<>> /\ args = <<>> /\ size = 0 /\ tail = <<>>
  /\ text = <<>> /\ ret = 0 /\ numbers = <<>>

-----------------------------------------------------------------------------
(* Numbers.                                                                *)

Unsigned(v, bits) == v % 2^bits

\* Two's complement, which overflow wraps around to.
Signed(v, bits) == LET u == v % 2^bits IN IF u < 2^(bits - 1) THEN u ELSE u - 2^bits

Lower == <<"0","1","2","3","4","5","6","7","8","9","a","b","c","d","e","f">>
Upper == <<"0","1","2","3","4","5","6","7","8","9","A","B","C","D","E","F">>

\* Every renderer takes the lowest digit first and gives 0 a digit of its own.
LowFirst(n, base, alphabet) ==
  LET D[k \in Nat] == IF k = 0 THEN <<>> ELSE <<alphabet[(k % base) + 1]>> \o D[k \div base]
  IN  IF n = 0 THEN <<"0">> ELSE D[n]

\* ulltoa turns its digits around by swaps from both ends.
ulltoa(n, base, alphabet) ==
  LET Swap(t, i) == [t EXCEPT ![i] = t[Len(t) + 1 - i], ![Len(t) + 1 - i] = t[i]]
      low == LowFirst(n, base, alphabet)
  IN  FoldLeft(Swap, low, [i \in 1 .. Len(low) \div 2 |-> i])

\* The printers of printf, and sprintf itself, give their digits out backwards.
Digits(fn, n, base, alphabet) ==
  IF fn = "snprintf" THEN ulltoa(n, base, alphabet) ELSE Reverse(LowFirst(n, base, alphabet))

Decimal(fn, n) ==
  IF n < 0 THEN <<"-">> \o Digits(fn, -n, 10, Lower) ELSE Digits(fn, n, 10, Lower)

-----------------------------------------------------------------------------
(* Rendering.                                                              *)

\* A format taken apart: characters to copy, and directives with the number
\* of l before the conversion, which is "" when the format ends too early.
Pieces(fmt) ==
  LET At(i) == IF i <= Len(fmt) THEN fmt[i] ELSE ""
      Long(i) == IF At(i) # "l" THEN 0 ELSE IF At(i + 1) # "l" THEN 1 ELSE 2
      P[i \in Nat] ==
        IF i > Len(fmt) THEN <<>>
        ELSE IF fmt[i] # "%"
        THEN <<[directive |-> FALSE, long |-> 0, conv |-> fmt[i]]>> \o P[i + 1]
        ELSE LET l == Long(i + 1)
             IN  <<[directive |-> TRUE, long |-> l, conv |-> At(i + 1 + l)]>> \o P[i + 2 + l]
  IN  P[1]

Bits(p) == IF p.long = 0 THEN IntBits ELSE LongBits

\* What each function takes off its list of arguments.  The code of printf
\* for a width looks at the conversion itself, so that no width is read.
Takes(fn) == {"d", "i", "u", "x", "X", "s", "c"} \cup IF fn = "snprintf" THEN {"p"} ELSE {}

\* How much of a number each function heeds.
Width(fn, p) ==
  CASE fn = "snprintf" -> Bits(p)
    [] fn = "printf" -> IF p.conv = "x" THEN IntBits ELSE Bits(p)
    [] fn = "sprintf" -> IntBits

\* The text of a piece for argument a; an unknown conversion is shown as it
\* is, without its l.  With lost, the least int has no digits.
Text(fn, lost, p, a) ==
  LET bits == Width(fn, p)
      n == Signed(a.num, bits)
  IN  CASE ~ p.directive -> <<p.conv>>
        [] p.directive /\ p.conv \in Takes(fn) ->
             (CASE p.conv \in {"d", "i"} -> IF lost /\ n = -2^(bits - 1) THEN <<"-">> ELSE Decimal(fn, n)
                [] p.conv = "u" -> Digits(fn, Unsigned(a.num, bits), 10, Lower)
                [] p.conv = "x" -> Digits(fn, Unsigned(a.num, bits), 16, Lower)
                [] p.conv = "X" -> Digits(fn, Unsigned(a.num, bits), 16, Upper)
                [] p.conv = "p" -> <<"0", "x">> \o Digits(fn, Unsigned(a.num, LongBits), 16, Lower)
                [] p.conv = "c" -> <<a.char>>
                [] OTHER -> IF a.word = Null THEN <<"(","n","u","l","l",")">> ELSE a.word)
        [] p.directive /\ p.conv \in {"%", ""} -> <<"%">>
        [] OTHER -> <<"%", p.conv>>

\* All of a format, a text for each piece, each directive with the next argument.
Texts(fn, lost, fmt, as) ==
  LET Step(r, p) ==
        [texts |-> Append(r.texts, Text(fn, lost, p, as[r.used + 1])),
         used |-> r.used + IF p.directive /\ p.conv \in Takes(fn) THEN 1 ELSE 0]
  IN  FoldLeft(Step, [texts |-> <<>>, used |-> 0], Pieces(fmt)).texts

Render(fn, lost, fmt, as) == FlattenSeq(Texts(fn, lost, fmt, as))

\* Which lines of snprintf write the text of a piece: the loops of five
\* conversions, or those for one character; an unknown conversion has two.
Place(p) ==
  CASE ~ p.directive \/ p.conv = "" -> "copied"
    [] p.directive /\ p.conv \in {"d", "i"} -> "decimal"
    [] p.directive /\ p.conv \in {"x", "X"} -> "hex"
    [] p.directive /\ p.conv \in {"s", "u", "p", "c", "%"} -> p.conv
    [] OTHER -> "unknown"

\* Faulty: an unknown conversion is not counted, only its percent sign.
Emit_Uncounted(place, o, c) ==
  [text |-> IF o.rem > 0 THEN Append(o.text, c) ELSE o.text,
   rem |-> IF o.rem > 0 THEN o.rem - 1 ELSE 0,
   total |-> IF place = "unknown" /\ c # "%" THEN o.total ELSE o.total + 1]

\* One character of snprintf, kept if there is room and counted always.  Each
\* place has lines of its own for it, and they all do the same.
Emit(place, o, c) ==
  [text |-> IF o.rem > 0 THEN Append(o.text, c) ELSE o.text,
   rem |-> IF o.rem > 0 THEN o.rem - 1 ELSE 0, total |-> o.total + 1]

\* snprintf's way through its format with room for rem characters.
Emitted(fmt, as, rem) ==
  LET pieces == Pieces(fmt)
      texts == Texts("snprintf", FALSE, fmt, as)
      Step(o, k) == FoldLeft(LAMBDA q, c : Emit(Place(pieces[k]), q, c), o, texts[k])
  IN  FoldLeft(Step, [text |-> <<>>, rem |-> rem, total |-> 0], [k \in DOMAIN pieces |-> k])

Call(fn, fmt, as, n) ==
  /\ done' = fn /\ format' = fmt /\ args' = as /\ size' = n
  /\ UNCHANGED <<tail, numbers>>

\* Without room snprintf does nothing; a format that ends in an l it reads
\* past, so none is passed.
snprintf(fmt, as, n) ==
  LET o == Emitted(fmt, as, n - 1)
  IN  /\ Call("snprintf", fmt, as, n)
      /\ \A p \in ToSet(Pieces(fmt)) : p.conv = "" => p.long = 0
      /\ IF n = 0 THEN text' = <<>> /\ ret' = 0 ELSE text' = o.text /\ ret' = o.total

printf(fmt, as) ==
  /\ Call("printf", fmt, as, 0)
  /\ text' = Render("printf", FALSE, fmt, as) /\ ret' = 0

\* The negation of the least int overflows, and the loop that takes its digits
\* may then not run.
sprintf(fmt, as) ==
  /\ Call("sprintf", fmt, as, 0)
  /\ \E lost \in BOOLEAN : text' = Render("sprintf", lost, fmt, as)
  /\ ret' = Len(text')

-----------------------------------------------------------------------------
(* Reading.                                                                *)

\* The value of a character as a digit; the letters go on to z.
DigitOf(c) ==
  LET is == {i \in 1 .. 16 : c \in {Lower[i], Upper[i]}}
  IN  IF is # {} THEN Min(is) - 1 ELSE IF c = "x" THEN 33 ELSE 99

IsAt(t, i, c) == i <= Len(t) /\ t[i] = c

\* The first place from i on whose character is not of the set.
Behind(t, i, set) == Min({j \in i .. Len(t) + 1 : j = Len(t) + 1 \/ t[j] \notin set})

\* The digits of base from place i on, with a sign in front of them or not.
Number(t, i, negative, base, bits) ==
  LET end == Min({j \in i .. Len(t) + 1 : j = Len(t) + 1 \/ DigitOf(t[j]) >= base})
      Step(v, c) == Signed(v * base + DigitOf(c), bits)
      v == FoldLeft(Step, 0, SubSeq(t, i, end - 1))
  IN  [value |-> IF negative THEN Signed(-v, bits) ELSE v, next |-> end, found |-> end > i]

\* Blanks, a minus sign, digits: atoi, and each round of sscanf.
atoi(t, start) ==
  LET i == Behind(t, start, {" "})
      negative == IsAt(t, i, "-")
  IN  Number(t, IF negative THEN i + 1 ELSE i, negative, 10, IntBits)

\* Faulty: the prefix is skipped only when the base is to be found out.
SkipsPrefix_Auto(base) == base = 0

SkipsPrefix(base) == base \in {0, 16}

\* Base 0 goes by the prefix; 0x is skipped, digits or none.
strtol(t, base) ==
  LET i == Behind(t, 1, {" "})
      j == IF IsAt(t, i, "-") \/ IsAt(t, i, "+") THEN i + 1 ELSE i
      prefix == IsAt(t, j, "0") /\ IsAt(t, j + 1, "x") /\ SkipsPrefix(base)
      b == CASE base # 0 -> base [] base = 0 /\ prefix -> 16
             [] base = 0 /\ ~ prefix -> IF IsAt(t, j, "0") THEN 8 ELSE 10
  IN  Number(t, IF prefix THEN j + 2 ELSE j, IsAt(t, i, "-"), b, LongBits)

\* sscanf for k times %d ends at the first that finds no digits; what else is
\* in its format is not looked at.
sscanf(t, k) ==
  LET Round(s, i) ==
        LET r == atoi(t, s.at)
        IN  IF s.over \/ s.at > Len(t) \/ ~ r.found THEN [s EXCEPT !.over = TRUE]
            ELSE [s EXCEPT !.numbers = Append(@, r.value), !.at = r.next]
  IN  FoldLeft(Round, [numbers |-> <<>>, at |-> 1, over |-> FALSE], [i \in 1 .. k |-> i]).numbers

\* The formats a program reads back: one number, or several with blanks.
Directives(fmt) == SelectSeq(Pieces(fmt), LAMBDA p : p.directive)
Readable(fmt, convs) ==
  /\ \A p \in ToSet(Pieces(fmt)) : IF p.directive THEN p.conv \in convs ELSE p.conv = " "
  /\ Len(Directives(fmt)) > 0

IsInt(fmt) == Readable(fmt, {"d"}) /\ \A p \in ToSet(Directives(fmt)) : p.long = 0

\* A program that has its text complete reads it.
Read ==
  /\ done \in {"snprintf", "sprintf"} /\ ret = Len(text)
  /\ tail' \in Tails
  /\ LET t == text \o tail'
         one == Len(Directives(format)) = 1
     IN  \/ /\ IsInt(format) /\ one /\ done' = "atoi"
            /\ numbers' = <<atoi(t, 1).value>>
         \/ /\ IsInt(format) /\ done' = "sscanf"
            /\ numbers' = sscanf(t, Len(Directives(format)))
         \/ /\ done' = "strtol" /\ one
            /\ \E base \in {0, 10, 16} :
                 /\ Readable(format, CASE base = 0 -> {"d", "p"} [] base = 10 -> {"d"}
                                       [] base = 16 -> {"x", "X", "p"})
                 /\ numbers' = <<strtol(t, base).value, strtol(t, base).next>>
  /\ UNCHANGED <<format, args, size, text, ret>>

Next ==
  \/ /\ done = "nothing"
     /\ \E fmt \in Formats, as \in Arguments :
          (\E n \in Sizes : snprintf(fmt, as, n)) \/ printf(fmt, as) \/ sprintf(fmt, as)
  \/ Read

-----------------------------------------------------------------------------

\* The value given for the k-th directive, as a reader of longs sees it.
Given(k) ==
  LET p == Directives(format)[k]
      bits == IF p.conv = "p" THEN LongBits ELSE Bits(p)
  IN  Signed(IF p.conv = "d" THEN Signed(args[k].num, bits) ELSE Unsigned(args[k].num, bits),
             LongBits)

\* The numbers that all three functions render alike: those that are an int
\* and have a negation.
IsPlain(v) ==
  /\ Signed(v, LongBits) = Signed(v, IntBits) /\ Signed(v, IntBits) > -2^(IntBits - 1)
  /\ Signed(v, LongBits) >= 0 \/ \A p \in ToSet(Directives(format)) :
                                   p.conv \in {"d", "i"} \/ p.long = 0

\* A program that renders a number and reads it back gets the number, by
\* whichever functions, to the limits of the types, and finds what followed
\* it; one that passes snprintf too little room gets as much of the same text
\* as fits, and is told how much it is; and the three functions that have
\* their own code for it make the same text of an int.
FormatsAgree ==
  LET whole == Render("snprintf", FALSE, format, args)
  IN  /\ done = "snprintf" /\ size > 0 =>
           /\ text = SubSeq(whole, 1, Min({size - 1, Len(whole)}))
           /\ ret = Len(whole)
      /\ done \in {"printf", "sprintf"} =>
           \/ text = whole
           \/ \E p \in ToSet(Directives(format)) : p.conv = "p"
           \/ \E i \in 1 .. 2 : ~ IsPlain(args[i].num)
      /\ done \in {"atoi", "sscanf"} =>
           \/ numbers = [k \in DOMAIN Directives(format) |-> Given(k)]
           \/ text # whole
      /\ done = "strtol" =>
           \/ numbers = <<Given(1), Len(text) + 1>>
           \/ text = <<"0">> /\ IsAt(tail, 1, "x")
           \/ text # whole

\* The MAC address is shown by "%02x:...", and printf's code for it says that
\* a 0 sets the padding and a digit the width: a byte below 16 must come out
\* as two digits.
PadsHex ==
  done = "printf" /\ format = <<"%", "0", "2", "x">> /\ args[1].num < 16 =>
    text = <<"0", Lower[args[1].num + 1]>>

=============================================================================
