------------------------------ MODULE LogStream ------------------------------
(***************************************************************************)
(* base/LogStream.h and base/LogStream.cc: the fixed buffer of a log       *)
(* statement and what operator<< puts into it.                             *)
(*                                                                         *)
(* An item is what a caller streams: a text, of which only the length      *)
(* matters (bool, char, strings, and "(null)" for a null pointer), an int, *)
(* or a floating-point number, of which only the length of its "%.12g"     *)
(* matters (a long double is passed to that format too, which is undefined,*)
(* and prints some number).  The other integer types differ from int in    *)
(* their width only.                                                       *)
(***************************************************************************)
EXTENDS Integers, Sequences

CONSTANTS
    IntMax,             \* the largest int, of which lengths are made
    kSmallBuffer,       \* SIZE of the FixedBuffer of a LogStream
    kMaxNumericSize,    \* what it must have free for a number
    TextLengths, IntValues, DoubleLengths

TextItem(n)   == [type |-> "text", arg |-> n]
IntItem(v)    == [type |-> "int", arg |-> v]
DoubleItem(n) == [type |-> "double", arg |-> n]

Items == {TextItem(n) : n \in TextLengths} \cup {IntItem(v) : v \in IntValues}
           \cup {DoubleItem(n) : n \in DoubleLengths}

------------------------------------------------------------------------------
(* convert: the digits of a value, from the least significant one.         *)

(* "9876543210123456789" is indexed from the zero in its middle.           *)
digits == <<"9", "8", "7", "6", "5", "4", "3", "2", "1",
            "0", "1", "2", "3", "4", "5", "6", "7", "8", "9">>
zero(lsd) == digits[10 + lsd]

(* / and % of C++ truncate towards zero.                                   *)
Quotient(i)  == IF i >= 0 \/ i % 10 = 0 THEN i \div 10 ELSE i \div 10 + 1
Remainder(i) == i - 10 * Quotient(i)

LeastFirst[i \in Int] ==
    <<zero(Remainder(i))>> \o
        (IF Quotient(i) = 0 THEN <<>> ELSE LeastFirst[Quotient(i)])

Reversed(s) == [k \in 1 .. Len(s) |-> s[Len(s) + 1 - k]]

X_ConvertStopsBelowZero(value) ==
    LET chars == IF value < 0 THEN <<zero(Remainder(value))>> ELSE LeastFirst[value]
    IN  Reversed(chars \o (IF value < 0 THEN <<"-">> ELSE <<>>))

Convert(value) ==
    Reversed(LeastFirst[value] \o (IF value < 0 THEN <<"-">> ELSE <<>>))

(* A number that satisfies the test of avail() also fits.                  *)
ASSUME SizeAssumption == kSmallBuffer \in Nat /\ kMaxNumericSize \in Nat
ASSUME IntMaxAssumption == IntMax \in Nat \ {0} /\ kSmallBuffer <= IntMax
ASSUME TextAssumption == TextLengths \subseteq Nat
ASSUME DoubleAssumption == DoubleLengths \subseteq 0 .. kMaxNumericSize - 1
ASSUME IntAssumption ==
    /\ IntValues \subseteq Int
    /\ \A v \in IntValues : Len(Convert(v)) \in 0 .. kMaxNumericSize - 1

------------------------------------------------------------------------------
(* A stream: the pieces kept, each with the digits it was converted to,    *)
(* length(), the end of the bytes the last operator<< wrote, which counts  *)
(* terminating zeros, and the items that found no room.                    *)

EmptyStream == [pieces |-> <<>>, length |-> 0, end |-> 0, dropped |-> {}]

Avail(s) == kSmallBuffer - s.length

Keep(s, item, chars, len, written) ==
    [pieces |-> Append(s.pieces, <<item, chars>>), length |-> s.length + len,
     end |-> s.length + written, dropped |-> s.dropped]

Drop(s, item) ==
    [pieces |-> s.pieces, length |-> s.length, end |-> s.end,
     dropped |-> s.dropped \cup {item}]

(* static_cast<int>(len), of a len that need not fit.                      *)
AsInt(len) ==
    LET half == IntMax + 1 IN ((len + half) % (2 * half)) - half

X_AppendTextReservesNumber(s, item) ==
    IF Avail(s) - kMaxNumericSize > AsInt(item.arg)
      THEN Keep(s, item, <<>>, item.arg, item.arg)
      ELSE Drop(s, item)

(* FixedBuffer::append tests one length and copies the other.              *)
AppendText(s, item) ==
    IF Avail(s) > AsInt(item.arg)
      THEN Keep(s, item, <<>>, item.arg, item.arg)
      ELSE Drop(s, item)

X_FormatIntegerByLength(s, item) ==
    LET chars == Convert(item.arg) IN
    IF Avail(s) >= Len(chars)
      THEN Keep(s, item, chars, Len(chars), Len(chars) + 1)
      ELSE Drop(s, item)

(* formatInteger; convert ends its digits with a zero.                     *)
FormatInteger(s, item) ==
    LET chars == Convert(item.arg) IN
    IF Avail(s) >= kMaxNumericSize
      THEN Keep(s, item, chars, Len(chars), Len(chars) + 1)
      ELSE Drop(s, item)

(* snprintf("%.12g"), which ends with a zero as well.                      *)
FormatDouble(s, item) ==
    IF Avail(s) >= kMaxNumericSize
      THEN Keep(s, item, <<>>, item.arg, item.arg + 1)
      ELSE Drop(s, item)

Insert(s, item) ==
    IF item.type = "text" THEN AppendText(s, item)
    ELSE IF item.type = "int" THEN FormatInteger(s, item)
    ELSE FormatDouble(s, item)

------------------------------------------------------------------------------
(* What is promised of a stream.                                           *)

InBuffer(s) == s.length <= kSmallBuffer /\ s.end <= kSmallBuffer

(* A text was kept whose length is not an int.                             *)
TooLong(s) ==
    \E k \in DOMAIN s.pieces :
        s.pieces[k][1].type = "text" /\ s.pieces[k][1].arg > IntMax

(* Reading the characters of a number, for comparison with convert.        *)
IsNegative(chars) == Head(chars) = "-"
DigitValue(char) == CHOOSE d \in 0 .. 9 : zero(d) = char
Number(chars) ==
    LET from == IF IsNegative(chars) THEN 2 ELSE 1
        sign == IF IsNegative(chars) THEN -1 ELSE 1
        value[k \in 0 .. Len(chars)] ==
            IF k < from THEN 0 ELSE 10 * value[k - 1] + sign * DigitValue(chars[k])
    IN  value[Len(chars)]

(* A decimal number without leading zeros that reads as the value.         *)
ReadsAs(chars, value) ==
    /\ Number(chars) = value
    /\ IsNegative(chars) <=> value < 0
    /\ chars[IF value < 0 THEN 2 ELSE 1] = "0" => value = 0

HadNoRoom(s, item) ==
    IF item.type = "text" THEN Avail(s) <= item.arg ELSE Avail(s) < kMaxNumericSize
==============================================================================
