------------------------------- MODULE Buffer -------------------------------
(***************************************************************************)
(* Buffer.cpp: a string of bytes with a separator mode sep_.  0: none;     *)
(* 1: four bytes of length in front of each message (Buffer.h:34).  The    *)
(* code knows a mode 2 as well, which pickmessage() does nothing for.      *)
(***************************************************************************)
EXTENDS Integers, SequencesExt

CONSTANT Base          \* how many values a byte has: 256 in the code

ASSUME BufferAssumption == Base \in Nat /\ Base > 3 /\ Base % 2 = 0

Byte == 0..(Base - 1)
HeaderSize == 4
Words == Base * Base * Base * Base       \* how many values an int has

\* The bytes of an int, the lowest first.
Header(n) ==
    LET n2 == n \div Base
        n3 == n2 \div Base
        n4 == n3 \div Base
    IN  <<n % Base, n2 % Base, n3 % Base, n4 % Base>>

\* Two's complement.
Signed(u) == IF u % Words < Words \div 2 THEN u % Words ELSE (u % Words) - Words

\* memcpy(&len, bytes, 4)
Length(bytes) ==
    Signed(bytes[1] + Base * (bytes[2] + Base * (bytes[3] + Base * bytes[4])))

AppendBytes(buf, data) == buf \o data

AppendWithSep(buf, sep, data) ==
    CASE sep = 0 -> AppendBytes(buf, data)
      [] sep \in {1, 2} -> AppendBytes(AppendBytes(buf, Header(Len(data))), data)
      [] OTHER -> buf

\* erase(0, nn)
Erase(buf, nn) == SubSeq(buf, nn + 1, Len(buf))

\* What a header copied out of a string can hold: the string, its terminating
\* zero, and whatever lies behind.
HeaderBytes(buf) ==
    {h \in [1..HeaderSize -> Byte] :
        \A i \in 1..HeaderSize : i <= Len(buf) + 1 => h[i] = Append(buf, 0)[i]}

NotYet(buf) == [ok |-> FALSE, ss |-> <<>>, buf |-> buf]

\* A message of len bytes behind the header, if the buffer holds need bytes; gone
\* of them are erased.  The comparison is unsigned: a negative need is larger than
\* every size, and a negative len takes the rest.
PickBy(buf, sep, len, need, gone) ==
    LET end == IF len < 0 THEN Len(buf) ELSE Min({HeaderSize + len, Len(buf)})
    IN  CASE buf = <<>> -> NotYet(buf)
          [] buf # <<>> /\ sep = 0 -> [ok |-> TRUE, ss |-> buf, buf |-> <<>>]
          [] buf # <<>> /\ sep = 1 /\ need \notin 0..Len(buf) -> NotYet(buf)
          [] buf # <<>> /\ sep = 1 /\ need \in 0..Len(buf) ->
                [ok |-> TRUE, ss |-> SubSeq(buf, HeaderSize + 1, end), buf |-> Erase(buf, gone)]
          [] OTHER -> [ok |-> TRUE, ss |-> <<>>, buf |-> buf]

\* The int sum len + 4, on a machine where it wraps.
Framed(len) == Signed(len + HeaderSize)

\* Mutations of PickMessage: the comparison forgets the header; the header
\* stays in the buffer.
PickMessageEager(buf, sep, header) ==
    PickBy(buf, sep, Length(header), Length(header), Framed(Length(header)))
PickMessageKeepHeader(buf, sep, header) ==
    PickBy(buf, sep, Length(header), Framed(Length(header)), Length(header))

\* pickmessage(); header is what memcpy() found.
PickMessage(buf, sep, header) ==
    PickBy(buf, sep, Length(header), Framed(Length(header)), Framed(Length(header)))
=============================================================================
