----------------------------- MODULE TextBuffer -----------------------------
(***************************************************************************)
(* The copying and appending functions of src/include/libc.h, called in    *)
(* any order by a program that builds a string in one buffer.              *)
(*                                                                         *)
(* The buffer is Capacity cells of memory, followed by cells of something  *)
(* else.  The program passes each function the size of the buffer, or what *)
(* is left of it, and calls what reads the buffer only while it holds a    *)
(* terminated string; strcpy and strcat, which know no size, only for what *)
(* fits.  A source is the sequence of its characters, without the NUL.     *)
(***************************************************************************)
EXTENDS Integers, SequencesExt

CONSTANTS
  Char,      \* characters
  NUL,       \* the terminator
  Garbage,   \* what memory holds before it is written
  Capacity,  \* the size of the buffer
  MaxSource  \* the longest source

\* What lies behind the buffer.
Beyond == Capacity .. Capacity + MaxSource

Cells == 0 .. Capacity + MaxSource

Sources == UNION {[1 .. n -> Char] : n \in 0 .. MaxSource}

TextAssumption ==
  /\ Capacity \in Nat \ {0} /\ MaxSource \in Nat
  /\ NUL \notin Char /\ Garbage \notin Char \cup {NUL}

VARIABLES
  mem,    \* the cells
  ret,    \* what the latest call returned: a pointer, the length of what it
          \* copied, or the length of the string that it tried to make
  cut,    \* history: whether the latest call had to leave characters out
  meant   \* history: the string that the calls so far spell out

vars == <<mem, ret, cut, meant>>

Pointer == <<"pointer", 0>>
Copied(n) == <<"copied", n>>
Tried(n) == <<"tried", n>>

Init ==
  /\ mem = [i \in Cells |-> Garbage]
  /\ ret = Pointer /\ cut = FALSE
  /\ meant = <<>>

-----------------------------------------------------------------------------
(* The functions, on memory d.                                             *)

\* The bytes s written from cell a on.
Put(d, a, s) ==
  [i \in DOMAIN d |-> IF i \in a .. a + Len(s) - 1 THEN s[i - a + 1] ELSE d[i]]

First(s, n) == SubSeq(s, 1, IF n < Len(s) THEN n ELSE Len(s))

\* Where the string that begins at cell 0 ends.
strlen(d) == Min({i \in DOMAIN d : d[i] = NUL})

\* Faulty: the terminator is not counted in the size.
strlcpy_Full(d, a, s, size) ==
  IF size = 0 THEN d ELSE Put(d, a, Append(First(s, size), NUL))

strlcpy(d, a, s, size) ==
  IF size = 0 THEN d ELSE Put(d, a, Append(First(s, size - 1), NUL))

strlcat(d, s, size) ==
  IF strlen(d) >= size THEN d ELSE strlcpy(d, strlen(d), s, size - strlen(d))

strlcat_Returns(d, s, size) ==
  (IF strlen(d) >= size THEN size ELSE strlen(d)) + Len(s)

\* strncpy fills up to n with NULs, and leaves a long source unterminated.
strncpy(d, s, n) ==
  Put(d, 0, First(s, n) \o [i \in 1 .. n - Len(First(s, n)) |-> NUL])

strncat(d, s, n) == Put(d, strlen(d), Append(First(s, n), NUL))

strcat(d, s) == Put(d, strlen(d), Append(s, NUL))

\* One cell copied to another.
Copy(d, to, from) == [d EXCEPT ![to] = d[from]]

\* memmove: from the end where no cell is overwritten before it was read;
\* moved[k] is the memory after k cells.
memmove(d, to, from, n) ==
  LET place(k) == IF to < from THEN k - 1 ELSE n - k
      moved[k \in 0 .. n] ==
        IF k = 0 THEN d ELSE Copy(moved[k - 1], to + place(k), from + place(k))
  IN  IF to = from THEN d ELSE moved[n]

-----------------------------------------------------------------------------
(* The program.                                                            *)

Terminated == \E i \in 0 .. Capacity - 1 : mem[i] = NUL

Copies(s, d, r, wrote) ==
  /\ mem' = d /\ ret' = r
  /\ meant' = s
  /\ cut' = (Len(s) > wrote)

Appends(s, d, r) ==
  /\ mem' = d /\ ret' = r
  /\ meant' = meant \o s
  /\ cut' = (strlen(mem) + Len(s) > Capacity - 1)

Strlcpy(s) == Copies(s, strlcpy(mem, 0, s, Capacity), Tried(Len(s)), Capacity - 1)

\* safe_strcpy copies like strlcpy and returns how much it copied.
SafeStrcpy(s) ==
  Copies(s, strlcpy(mem, 0, s, Capacity), Copied(Len(First(s, Capacity - 1))), Capacity - 1)

Strcpy(s) == Len(s) < Capacity /\ Copies(s, Put(mem, 0, Append(s, NUL)), Pointer, Capacity - 1)

Strncpy(s) == Copies(s, strncpy(mem, s, Capacity), Pointer, Capacity)

\* strlcat, and safe_strcat, which calls it.
Strlcat(s) ==
  /\ Terminated
  /\ Appends(s, strlcat(mem, s, Capacity), Tried(strlcat_Returns(mem, s, Capacity)))

Strcat(s) ==
  /\ Terminated /\ strlen(mem) + Len(s) < Capacity
  /\ Appends(s, strcat(mem, s), Pointer)

\* As snprintf calls it: strncat(buf, s, sizeof(buf) - strlen(buf) - 1).
Strncat(s) == Terminated /\ Appends(s, strncat(mem, s, Capacity - strlen(mem) - 1), Pointer)

\* The first character is taken out, the rest and the NUL move forward.
DropFirst ==
  /\ Terminated /\ strlen(mem) > 0
  /\ mem' = memmove(mem, 0, 1, strlen(mem))
  /\ meant' = Tail(First(meant, strlen(mem)))
  /\ ret' = Pointer /\ cut' = FALSE

\* Room is made for a character in front.
PutFirst(c) ==
  /\ Terminated /\ strlen(mem) + 1 < Capacity
  /\ mem' = Put(memmove(mem, 1, 0, strlen(mem) + 1), 0, <<c>>)
  /\ meant' = <<c>> \o meant
  /\ ret' = Pointer /\ cut' = FALSE

Next ==
  \/ \E s \in Sources :
       \/ Strlcpy(s) \/ SafeStrcpy(s) \/ Strcpy(s) \/ Strncpy(s)
       \/ Len(meant) < 2 * Capacity /\ (Strlcat(s) \/ Strcat(s) \/ Strncat(s))
  \/ DropFirst
  \/ \E c \in Char : PutFirst(c)

-----------------------------------------------------------------------------

\* The type invariant.
TypeOK ==
  /\ mem \in [Cells -> Char \cup {NUL, Garbage}]
  /\ ret \in {"pointer", "copied", "tried"} \X (0 .. Capacity + MaxSource)
  /\ cut \in BOOLEAN
  /\ meant \in Seq(Char)

Written == meant # <<>> \/ mem[0] = NUL

Content ==
  LET n == IF Terminated THEN strlen(mem) ELSE Capacity
  IN  [i \in 1 .. n |-> mem[i - 1]]

\* Whatever the order of the calls, and however often a string did not fit,
\* the buffer holds as much as fits of the string that the program spelled
\* out, nothing is written behind it, and the length returned by strlcpy and
\* strlcat reaches the size of the buffer exactly when the call lost
\* characters.
LongestPrefix ==
  /\ \A i \in Beyond : mem[i] = Garbage
  /\ Written =>
       /\ IsPrefix(Content, meant)
       /\ Len(Content) < Len(meant) => Len(Content) >= Capacity - 1
  /\ ret[1] = "tried" => (ret[2] >= Capacity <=> cut)
  /\ ret[1] = "copied" => ret[2] = Len(Content)

=============================================================================
