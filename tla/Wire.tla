-------------------------------- MODULE Wire --------------------------------
(***************************************************************************)
(* What netd reads out of messages and writes into them: the walk of       *)
(* dns_rx through an answer and dns_build_query in src/src/dns.c, the      *)
(* options of a DHCP message in src/src/dhcp.c, and inet_cksum of          *)
(* src/include/netd.h.                                                     *)
(*                                                                         *)
(* A message is a sequence of bytes, the first in place 1.  It is made by  *)
(* netd, or by a server from a structure (names, records, options), which  *)
(* the properties compare with what netd finds.  The modules Resolver and  *)
(* DhcpBoot start from what is found here.                                 *)
(***************************************************************************)
EXTENDS Integers, SequencesExt

CONSTANTS
  Names,       \* what dns_resolve is asked for, sequences of characters
  Dot,         \* the character that separates labels
  QueryMax,    \* the size of the buffer for a query
  Answers,     \* DNS answers, as structures
  OptionLists, \* the options of DHCP messages, as structures
  Tags,        \* the options netd asks for
  Requests,    \* the addresses and servers of DHCP requests, Zero included
  Zero,        \* four zero bytes
  Blocks       \* blocks of bytes that get a checksum in places 1 and 2

Byte == 0 .. 255
Label == {l \in Seq(Byte) : Len(l) \in 1 .. 63}
Value == {v \in Seq(Byte) : Len(v) <= 255}

\* A name of a message is written out, or is a pointer to a place at # 0.
Name == [labels : Seq(Label), at : 0 .. 16383]

Record == [name : Name, type : Byte, data : Value]

\* Names have empty labels nowhere but behind a dot at the end; dns_resolve
\* gives dns_build_query a buffer of 256 bytes; netd asks for options that
\* are neither pads nor the end.
WireAssumption ==
  /\ Dot \in Byte /\ QueryMax \in 17 .. 256
  /\ Names \subseteq Seq(Byte)
  /\ \A name \in Names : \A i \in DOMAIN name :
       name[i] = Dot => i > 1 /\ name[i - 1] # Dot
  /\ Answers \subseteq [question : Seq(Label), count : Nat, records : Seq(Record)]
  /\ OptionLists \subseteq Seq([tag : Byte, value : Value])
  /\ Tags \subseteq 1 .. 254
  /\ Zero = <<0, 0, 0, 0>> /\ Requests \subseteq [1 .. 4 -> Byte]
  /\ Blocks \subseteq {d \in Seq(Byte) : Len(d) >= 2}

NoValue == <<>>
Ignored == <<"ignored">>

VARIABLES
  task,    \* what was done last, or "idle"
  input,   \* what it was done with
  output   \* what came out

vars == <<task, input, output>>

Init == task = "idle" /\ input = NoValue /\ output = NoValue

Done(t, in, out) == task' = t /\ input' = in /\ output' = out

\* The function that was called returns.
Return ==
  /\ task # "idle"
  /\ task' = "idle" /\ input' = NoValue /\ output' = NoValue

Word(m, p) == m[p] * 256 + m[p + 1]

-----------------------------------------------------------------------------
(* DNS: the walk of dns_rx.                                                *)

IsPointer(byte) == byte >= 192

\* Where a run of labels from place p on comes to a zero byte or leaves m.
LabelsEnd(m, p) ==
  LET S[q \in Nat \ {0}] == IF q > Len(m) \/ m[q] = 0 THEN q ELSE S[q + 1 + m[q]]
  IN  S[p]

\* Behind the question, of which a pointer ends the walk at once.
QuestionEnd(m) ==
  LET S[q \in Nat \ {0}] == IF q > Len(m) \/ m[q] = 0 THEN q + 5
                            ELSE IF IsPointer(m[q]) THEN q + 2 ELSE S[q + 1 + m[q]]
  IN  S[1]

\* Faulty: the name is always taken for labels.
NameEnd_Labels(m, p) == LabelsEnd(m, p) + 1

\* Behind the name of a record.
NameEnd(m, p) == IF IsPointer(m[p]) THEN p + 2 ELSE LabelsEnd(m, p) + 1

\* The address in the first address record of n, or NoValue.
Walk(m, n) ==
  LET R[at \in Nat \X (Nat \ {0})] ==
        LET i == at[1]
            p == at[2]
            q == NameEnd(m, p)
            data == q + 10
            length == Word(m, q + 8)
        IN  IF i = n \/ p > Len(m) \/ data > Len(m) + 1 THEN NoValue
            ELSE IF Word(m, q) = 1 /\ length = 4 /\ data + 4 <= Len(m) + 1
                 THEN SubSeq(m, data, data + 3)
                 ELSE R[<<i + 1, data + length>>]
  IN  R[<<0, QuestionEnd(m)>>]

\* The names of a message as the server writes them, and the whole body.
LabelBytes(labels) == FlattenSeq([i \in DOMAIN labels |-> <<Len(labels[i])>> \o labels[i]]) \o <<0>>

NameBytes(name) ==
  IF name.at = 0 THEN LabelBytes(name.labels) ELSE <<192 + name.at \div 256, name.at % 256>>

RecordBytes(r) ==
  NameBytes(r.name) \o <<0, r.type, 0, 1, 0, 0, 0, 60, 0, Len(r.data)>> \o r.data

Body(a) ==
  LabelBytes(a.question) \o <<0, 1, 0, 1>> \o FlattenSeq([i \in DOMAIN a.records |-> RecordBytes(a.records[i])])

\* dns_rx of an answer of which the first size bytes behind the header came.
\* What is not an answer to the query is ignored.
dns_rx(a, mine, response, size) ==
  Done("answer", [answer |-> a, mine |-> mine, response |-> response, size |-> size],
       IF ~ mine \/ ~ response THEN Ignored ELSE Walk(SubSeq(Body(a), 1, size), a.count))

-----------------------------------------------------------------------------
(* DNS: dns_build_query.                                                   *)

\* Where the label that begins at place i ends.
LabelEnd(name, i) == Min({j \in i .. Len(name) + 1 : j = Len(name) + 1 \/ name[j] = Dot})

\* The question for a name, or NoValue when it does not fit behind the header.
\* A dot at the end is not followed by a label.
Question(name) ==
  LET Q[at \in (Nat \ {0}) \X Seq(Nat)] ==
        LET i == at[1]
            made == at[2]
            end == LabelEnd(name, i)
        IN  IF i > Len(name) THEN made \o <<0, 0, 1, 0, 1>>
            ELSE IF 12 + Len(made) + 1 + (end - i) + 5 >= QueryMax THEN NoValue
            ELSE Q[<<end + 1, made \o <<end - i>> \o SubSeq(name, i, end - 1)>>]
  IN  Q[<<1, <<>>>>]

dns_build_query(name) == Done("query", name, Question(name))

-----------------------------------------------------------------------------
(* DHCP.                                                                   *)

DISCOVER == 1
REQUEST == 3
SERVER_ID == 54
REQ_IP == 50
MSG_TYPE == 53
END == 255

\* The options dhcp_send writes.
OptionsMade(type, ip, server) ==
  LET Option(tag, value) ==
        IF type = REQUEST /\ value # Zero THEN <<tag, 4>> \o value ELSE <<>>
  IN  <<MSG_TYPE, 1, type>> \o Option(REQ_IP, ip) \o Option(SERVER_ID, server) \o <<END>>

\* Faulty: the length byte is counted with the value.
NextOption_Short(o, i) == IF o[i] = 0 THEN i + 1 ELSE i + 1 + o[i + 1]

\* The place of the option behind the one at i, which may be a pad.
NextOption(o, i) == IF o[i] = 0 THEN i + 1 ELSE i + 2 + o[i + 1]

\* The value of the first option of the tag with at least size bytes, cut to
\* them: dhcp_get_opt32 and, for one byte, dhcp_get_msg_type.
Find(o, tag, size) ==
  LET F[i \in Nat \ {0}] ==
        IF i > Len(o) \/ o[i] = END \/ (o[i] # 0 /\ i = Len(o)) THEN NoValue
        ELSE IF o[i] = tag /\ o[i + 1] >= size THEN SubSeq(o, i + 2, i + 1 + size)
        ELSE F[NextOption(o, i)]
  IN  F[1]

OptionBytes(list) ==
  FlattenSeq([i \in DOMAIN list |->
    IF list[i].tag \in {0, END} THEN <<list[i].tag>>
    ELSE <<list[i].tag, Len(list[i].value)>> \o list[i].value])

dhcp_send(type, ip, server) ==
  Done("send", [type |-> type, ip |-> ip, server |-> server], OptionsMade(type, ip, server))

\* dhcp_rx looks for every option, the message type too.
dhcp_rx(list) ==
  Done("options", list,
       [t \in Tags |-> Find(OptionBytes(list), t, IF t = MSG_TYPE THEN 1 ELSE 4)])

-----------------------------------------------------------------------------
(* inet_cksum.                                                             *)

Fold(sum) ==
  LET F[s \in Nat] == IF s < 65536 THEN s ELSE F[(s % 65536) + (s \div 65536)] IN F[sum]

\* An odd last byte is the high one of a word.
Words(d) == [i \in 1 .. (Len(d) + 1) \div 2 |->
               256 * d[2 * i - 1] + IF 2 * i <= Len(d) THEN d[2 * i] ELSE 0]

SumOf(words) ==
  LET S[k \in 0 .. Len(words)] == IF k = 0 THEN 0 ELSE S[k - 1] + words[k] IN S[Len(words)]

inet_cksum(d) == 65535 - Fold(SumOf(Words(d)))

\* A header or an echo message gets its checksum, in network order.
Seal(d) ==
  LET sum == inet_cksum([d EXCEPT ![1] = 0, ![2] = 0])
  IN  Done("seal", d, [d EXCEPT ![1] = sum \div 256, ![2] = sum % 256])

-----------------------------------------------------------------------------

Next ==
  \/ /\ task = "idle"
     /\ \/ \E a \in Answers, mine, response \in BOOLEAN :
             \E size \in (IF mine /\ response THEN 0 ELSE Len(Body(a))) .. Len(Body(a)) :
               dns_rx(a, mine, response, size)
        \/ \E name \in Names : dns_build_query(name)
        \/ \E type \in {DISCOVER, REQUEST}, ip, server \in Requests : dhcp_send(type, ip, server)
        \/ \E list \in OptionLists : dhcp_rx(list)
        \/ \E d \in Blocks : Seal(d)
  \/ Return

-----------------------------------------------------------------------------

\* How many bytes of the body the first k records need.
Needed(a, k) == Len(Body([a EXCEPT !.records = SubSeq(@, 1, k)]))

\* dns_rx finds the address of the first address record, whether names are
\* labels or a pointer (not labels and then a pointer), and whatever other records stand before
\* it; a record that is cut off, or is not among those the message counts as
\* answers, gives no address, and a message for another query nothing.
FindsTheRecord ==
  task = "answer" =>
    LET a == input.answer
        found == {k \in DOMAIN a.records :
                    /\ a.records[k].type = 1 /\ Len(a.records[k].data) = 4
                    /\ k <= a.count /\ Needed(a, k) <= input.size}
    IN  output = IF ~ (input.mine /\ input.response) THEN Ignored
                 ELSE IF found = {} THEN NoValue ELSE a.records[Min(found)].data

\* What stands for a byte that is no length of a label: part of no name.
Unreadable == <<Dot>>

\* A question read by the rules of the protocol: its labels.  A label has at
\* most 63 bytes; a larger first byte is reserved, or begins a pointer, of which
\* a question that comes first in a message can have none.
ReadLabels(q) ==
  LET R[i \in Nat \ {0}] == IF i > Len(q) \/ q[i] = 0 THEN <<>>
                            ELSE IF q[i] > 63 THEN <<Unreadable>>
                            ELSE <<SubSeq(q, i + 1, i + q[i])>> \o R[i + 1 + q[i]]
  IN  R[1]

\* No label of the name has more than 63 characters: dns_build_query writes any
\* length as it is, and a longer label is not read as one.
ShortLabels(name) == \A i \in 1 .. Len(name) - 63 : \E j \in i .. i + 63 : name[j] = Dot

Joined(labels) ==
  LET J[k \in 0 .. Len(labels)] ==
        IF k = 0 THEN <<>> ELSE J[k - 1] \o (IF k > 1 THEN <<Dot>> ELSE <<>>) \o labels[k]
  IN  J[Len(labels)]

\* A query never outgrows its buffer, and asks for the very name when each of
\* its labels is one to the protocol.
QueriesAreRead ==
  task = "query" /\ output # NoValue =>
    /\ 12 + Len(output) <= QueryMax
    /\ ShortLabels(input) =>
         input \in {Joined(ReadLabels(output)), Append(Joined(ReadLabels(output)), Dot)}
    /\ SubSeq(output, Len(output) - 4, Len(output)) = <<0, 0, 1, 0, 1>>

\* A DHCP message has its type, and a request the address and the server, if
\* there are any, where netd's reader looks for them.
RequestsAreRead ==
  task = "send" =>
    LET given(value) == IF input.type = REQUEST /\ value # Zero THEN value ELSE NoValue
    IN  /\ Find(output, MSG_TYPE, 1) = <<input.type>>
        /\ Find(output, REQ_IP, 4) = given(input.ip)
        /\ Find(output, SERVER_ID, 4) = given(input.server)

\* The first option of the list with the tag and enough bytes, before the end.
FirstOption(list, tag, size) ==
  LET good == {i \in DOMAIN list :
                 /\ list[i].tag = tag /\ Len(list[i].value) >= size
                 /\ \A j \in 1 .. i : list[j].tag # END}
  IN  IF good = {} THEN NoValue ELSE SubSeq(list[Min(good)].value, 1, size)

\* netd finds in any order of options the first of a kind that is long enough.
OptionsAreFound ==
  task = "options" =>
    \A t \in Tags : output[t] = FirstOption(input, t, IF t = MSG_TYPE THEN 1 ELSE 4)

\* A checksum that was put in makes the checksum of the whole 0, at odd
\* lengths too.
SumsToZero == task = "seal" => inet_cksum(output) = 0

\* What netd writes, a reader of the protocol reads as meant, and what others
\* write netd finds.
WrittenIsRead == QueriesAreRead /\ RequestsAreRead /\ OptionsAreFound /\ SumsToZero

=============================================================================
