------------------------------ MODULE LineInput ------------------------------
(***************************************************************************)
(* Reading a line from the keyboard in src/include/libc.h:                 *)
(* input_line_to_buffer, input, and the flushes of pending input.          *)
(*                                                                         *)
(* The kernel puts every key into two queues, $/dev/input/kbd0 and         *)
(* $/dev/input/event0; the user types at any time.  The program reads      *)
(* lines and flushes the queues, between the keys.                         *)
(***************************************************************************)
EXTENDS Integers, SequencesExt

CONSTANTS
  Printable,   \* characters 32 to 126
  Backspaces,  \* '\b' and 127
  CR, LF,      \* '\r' and '\n'
  Other,       \* a key that is none of these
  NUL,         \* the terminator
  BufferSizes, \* the sizes of buffers passed
  MaxKeys      \* bound on the keys typed

Keys == Printable \cup Backspaces \cup {CR, LF, Other}

InputAssumption ==
  /\ BufferSizes \subseteq Nat
  /\ Printable \cap Backspaces = {} /\ LF \notin {CR, Other}
  /\ {CR, LF, Other} \cap (Printable \cup Backspaces) = {}

VARIABLES
  pc,      \* free, reading, ended (LF was read), flushing
  kbd0,    \* keys not read yet
  event0,  \* events not read yet
  maxlen,  \* the size of the buffer
  buf,     \* the buffer; only what was written is kept, NUL included
  n,       \* the characters in the line
  screen,  \* history: what the user sees of the line
  kept,    \* history: the keys typed since the last flush of kbd0
  read     \* history: how many of kept were read

vars == <<pc, kbd0, event0, maxlen, buf, n, screen, kept, read>>

Init ==
  /\ pc = "free"
  /\ kbd0 = <<>> /\ event0 = 0
  /\ maxlen = 0 /\ buf = <<>> /\ n = 0 /\ screen = <<>>
  /\ kept = <<>> /\ read = 0

\* The user types, whatever the program does.
Type(c) ==
  /\ Len(kept) < MaxKeys
  /\ kbd0' = Append(kbd0, c) /\ event0' = event0 + 1 /\ kept' = Append(kept, c)
  /\ UNCHANGED <<pc, maxlen, buf, n, screen, read>>

-----------------------------------------------------------------------------

\* input_line_to_buffer is called; for no room, or when the device cannot be
\* opened, it returns at once.
Call(size) ==
  /\ pc = "free"
  /\ maxlen' = size /\ n' = 0 /\ screen' = <<>>
  /\ kept' = kbd0 /\ read' = 0
  /\ \/ size > 0 /\ pc' = "reading" /\ buf' = <<>>
     \/ size > 0 /\ pc' = "free" /\ buf' = <<NUL>>
     \/ size = 0 /\ pc' = "free" /\ buf' = <<>>
  /\ UNCHANGED <<kbd0, event0>>

\* buf[i] = c.
Store(b, i, c) == [j \in 1 .. IF i < Len(b) THEN Len(b) ELSE i + 1 |->
                     IF j = i + 1 THEN c ELSE b[j]]

\* A character goes to the end of the line and is echoed.
Take(c) ==
  /\ buf' = Store(Store(buf, n, c), n + 1, NUL)
  /\ n' = n + 1 /\ screen' = Append(screen, c)

Erase ==
  /\ buf' = Store(buf, n - 1, NUL)
  /\ n' = n - 1 /\ screen' = Front(screen)

\* Faulty: the terminator is forgotten in the size.
HasRoom_OffByOne == n < maxlen

HasRoom == n < maxlen - 1

\* One turn of the loop that reads a key.
ReadKey ==
  /\ pc = "reading" /\ kbd0 # <<>>
  /\ kbd0' = Tail(kbd0) /\ read' = read + 1
  /\ LET c == Head(kbd0)
     IN  \/ /\ c = LF
            /\ pc' = "ended" /\ buf' = Store(buf, n, NUL)
            /\ UNCHANGED <<n, screen>>
         \/ c \in Backspaces /\ n > 0 /\ Erase /\ UNCHANGED pc
         \/ c \in Printable /\ HasRoom /\ Take(c) /\ UNCHANGED pc
         \/ /\ \/ c \in {CR, Other}
               \/ c \in Backspaces /\ n = 0
               \/ c \in Printable /\ ~ HasRoom
            /\ UNCHANGED <<pc, buf, n, screen>>
  /\ UNCHANGED <<event0, maxlen, kept>>

\* input_flush drains kbd0 first; the user may type before it goes on.
\* _start calls it after md_main.
Flush ==
  /\ pc = "free"
  /\ kbd0' = <<>> /\ kept' = <<>> /\ read' = 0
  /\ pc' = "flushing"
  /\ UNCHANGED <<event0, maxlen, buf, n, screen>>

\* input_flush_events, at the end of a line and of input_flush; then the
\* caller goes on.
FlushEvents ==
  /\ pc \in {"ended", "flushing"}
  /\ event0' = 0 /\ pc' = "free"
  /\ UNCHANGED <<kbd0, maxlen, buf, n, screen, kept, read>>

Next ==
  \/ \E c \in Keys : Type(c)
  \/ \E size \in BufferSizes : Call(size)
  \/ ReadKey \/ Flush \/ FlushEvents

-----------------------------------------------------------------------------

\* The type invariant.
TypeOK ==
  /\ pc \in {"free", "reading", "ended", "flushing"}
  /\ kbd0 \in Seq(Keys) /\ kept \in Seq(Keys) /\ event0 \in Nat
  /\ maxlen \in {0} \cup BufferSizes
  /\ buf \in Seq(Printable \cup {NUL}) /\ screen \in Seq(Printable)
  /\ n \in Nat /\ read \in 0 .. Len(kept)

\* What a key makes of a line, in a buffer of the given size.
Key(line, c, size) ==
  CASE c \in Backspaces /\ line # <<>> -> Front(line)
    [] c \in Printable /\ Len(line) + 1 < size -> Append(line, c)
    [] OTHER -> line

\* The line that keys make.
Edited(keys, size) ==
  LET after[k \in 0 .. Len(keys)] ==
        IF k = 0 THEN <<>> ELSE Key(after[k - 1], keys[k], size)
  IN  after[Len(keys)]

\* When the user has pressed Enter, the buffer holds the edited line, which
\* is what the user saw, made of the keys up to the first Enter that were
\* typed since the last flush; no key is lost or read twice, the keys after
\* Enter wait for the next line, and the buffer was never overrun.
LineIsTyped ==
  /\ kbd0 = SubSeq(kept, read + 1, Len(kept))
  /\ Len(buf) <= maxlen
  /\ pc = "ended" =>
       /\ SubSeq(buf, 1, n + 1) = Append(Edited(SubSeq(kept, 1, read), maxlen), NUL)
       /\ screen = SubSeq(buf, 1, n)
       /\ {i \in 1 .. read : kept[i] = LF} = {read}

=============================================================================
