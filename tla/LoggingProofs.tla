---------------------------- MODULE LoggingProofs ----------------------------
(***************************************************************************)
(* Proofs about Logging, for buffers, numbers, names and threads of any    *)
(* size, as long as a number fits into what is kept free for it.           *)
(***************************************************************************)
EXTENDS Logging, SequenceLemmas

(* What operator<< may be given, in a header or by a statement.            *)
IsItem(item) ==
    \/ item.type = "text" /\ item.arg \in Nat
    \/ item.type = "int" /\ item.arg \in IntValues
    \/ item.type = "double" /\ item.arg \in 0 .. kMaxNumericSize - 1

StreamInv(s) ==
    /\ s.length \in Nat /\ s.end \in Nat
    /\ \E S : s.pieces \in Seq(S)
    /\ InBuffer(s) \/ TooLong(s)
    /\ \A item \in s.dropped : IsItem(item) /\ HadNoRoom(s, item)

LEMMA ItemsAreItems == \A item \in Items : IsItem(item)
BY TextAssumption, DoubleAssumption DEF Items, IsItem, TextItem, IntItem, DoubleItem

LEMMA EmptyIsFine == StreamInv(EmptyStream)
<1>1. EmptyStream.pieces \in Seq({})
  BY DEF EmptyStream
<1> QED
  BY <1>1, SizeAssumption DEF StreamInv, EmptyStream, InBuffer

(* The cast keeps what fits into an int and never makes a length larger.   *)
LEMMA AsIntIs ==
    ASSUME NEW n \in Nat
    PROVE  /\ AsInt(n) \in Int /\ AsInt(n) <= n
           /\ n <= IntMax => AsInt(n) = n
<1> DEFINE half == IntMax + 1
           m == n + half
<1>1. half \in Nat \ {0} /\ 2 * half \in Nat \ {0} /\ m \in Nat
  BY IntMaxAssumption
<1>2. AsInt(n) = (m % (2 * half)) - half
  BY DEF AsInt
<1>3. m % (2 * half) \in Nat /\ m % (2 * half) <= m
  BY <1>1
<1>4. m < 2 * half => m % (2 * half) = m
  BY <1>1
<1>5. n <= IntMax => m < 2 * half
  BY IntMaxAssumption
<1> QED
  BY <1>1, <1>2, <1>3, <1>4, <1>5

(* What is appended to a sequence is in it.                                *)
LEMMA AppendedIsThere ==
    ASSUME NEW S, NEW before \in Seq(S), NEW piece
    PROVE  /\ \E T : Append(before, piece) \in Seq(T)
           /\ \E i \in DOMAIN Append(before, piece) : Append(before, piece)[i] = piece
<1> DEFINE T == S \cup {piece}
<1>1. before \in Seq(T) /\ piece \in T
  OBVIOUS
<1> HIDE DEF T
<1>2. /\ Append(before, piece) \in Seq(T)
      /\ Len(before) + 1 \in DOMAIN Append(before, piece)
      /\ Append(before, piece)[Len(before) + 1] = piece
  BY <1>1
<1> QED
  BY <1>2

(* A stream that only grows stays too full for what it has dropped.        *)
LEMMA KeepIsFine ==
    ASSUME NEW s, StreamInv(s), NEW item, NEW chars, NEW len \in Nat, NEW written \in Nat,
           \/ s.length + len <= kSmallBuffer /\ s.length + written <= kSmallBuffer
           \/ item.type = "text" /\ item.arg > IntMax
    PROVE  StreamInv(Keep(s, item, chars, len, written))
<1> DEFINE k == Keep(s, item, chars, len, written)
<1>1. k.length = s.length + len /\ k.end = s.length + written /\ k.dropped = s.dropped
  BY DEF Keep
<1>2. /\ \E T : k.pieces \in Seq(T)
      /\ \E i \in DOMAIN k.pieces : k.pieces[i] = <<item, chars>>
  <2>1. PICK S : s.pieces \in Seq(S)
    BY DEF StreamInv
  <2>2. k.pieces = Append(s.pieces, <<item, chars>>)
    BY DEF Keep
  <2> DEFINE before == s.pieces
             piece == <<item, chars>>
  <2>3. before \in Seq(S)
    BY <2>1
  <2> HIDE DEF before, piece
  <2>4. /\ \E T : Append(before, piece) \in Seq(T)
        /\ \E i \in DOMAIN Append(before, piece) : Append(before, piece)[i] = piece
    BY <2>3, AppendedIsThere
  <2>5. k.pieces = Append(before, piece)
    BY <2>2 DEF before, piece
  <2> HIDE DEF k
  <2> QED
    BY <2>4, <2>5 DEF piece
<1>3. InBuffer(k) \/ TooLong(k)
  <2>1. CASE s.length + len <= kSmallBuffer /\ s.length + written <= kSmallBuffer
    BY <1>1, <2>1 DEF InBuffer
  <2>2. CASE item.type = "text" /\ item.arg > IntMax
    <3>1. PICK i \in DOMAIN k.pieces : k.pieces[i] = <<item, chars>>
      BY <1>2
    <3>2. k.pieces[i][1] = item
      BY <3>1
    <3> QED
      BY <2>2, <3>2 DEF TooLong
  <2> QED
    BY <2>1, <2>2
<1>4. ASSUME NEW d \in s.dropped PROVE IsItem(d) /\ HadNoRoom(k, d)
  <2>1. IsItem(d) /\ HadNoRoom(s, d) /\ s.length \in Nat
    BY DEF StreamInv
  <2>2. Avail(k) \in Int /\ Avail(s) \in Int /\ Avail(k) <= Avail(s)
    BY <1>1, <2>1, SizeAssumption DEF Avail
  <2>3. CASE d.type = "text"
    <3>1. d.arg \in Nat /\ Avail(s) <= d.arg
      BY <2>1, <2>3 DEF IsItem, HadNoRoom
    <3> QED
      BY <2>1, <2>2, <2>3, <3>1 DEF HadNoRoom
  <2>4. CASE d.type # "text"
    <3>1. Avail(s) < kMaxNumericSize
      BY <2>1, <2>4 DEF HadNoRoom
    <3> QED
      BY <2>1, <2>2, <2>4, <3>1, SizeAssumption DEF HadNoRoom
  <2> QED
    BY <2>3, <2>4
<1>5. s.length \in Nat
  BY DEF StreamInv
<1> HIDE DEF k
<1> QED
  BY <1>1, <1>4, <1>5, <1>2, <1>3 DEF StreamInv, k

LEMMA DropIsFine ==
    ASSUME NEW s, StreamInv(s), NEW item, IsItem(item), HadNoRoom(s, item)
    PROVE  StreamInv(Drop(s, item))
<1> DEFINE k == Drop(s, item)
<1>1. /\ k.length = s.length /\ k.end = s.end /\ k.pieces = s.pieces
      /\ k.dropped = s.dropped \cup {item}
  BY DEF Drop
<1>2. \A d : HadNoRoom(s, d) => HadNoRoom(k, d)
  BY <1>1 DEF HadNoRoom, Avail
<1>3. InBuffer(k) \/ TooLong(k)
  BY <1>1 DEF StreamInv, InBuffer, TooLong
<1> HIDE DEF k
<1> QED
  BY <1>1, <1>2, <1>3 DEF StreamInv, k

(* Each operator<< checks for as much room as it may use.                  *)
LEMMA InsertIsFine ==
    ASSUME NEW s, StreamInv(s), NEW item, IsItem(item)
    PROVE  StreamInv(Insert(s, item))
<1>0. s.length \in Nat /\ Avail(s) = kSmallBuffer - s.length
  BY DEF StreamInv, Avail
<1>1. CASE item.type = "text"
  <2>1. Insert(s, item) = AppendText(s, item) /\ item.arg \in Nat
    BY <1>1 DEF Insert, IsItem
  <2>2. CASE Avail(s) > AsInt(item.arg)
    <3>1. s.length + item.arg <= kSmallBuffer \/ item.arg > IntMax
      BY <1>0, <2>1, <2>2, AsIntIs, SizeAssumption, IntMaxAssumption
    <3>2. Insert(s, item) = Keep(s, item, <<>>, item.arg, item.arg)
      BY <2>1, <2>2 DEF AppendText
    <3> QED
      BY <1>1, <2>1, <3>1, <3>2, KeepIsFine
  <2>3. CASE ~(Avail(s) > AsInt(item.arg))
    <3>1. HadNoRoom(s, item)
      BY <1>0, <1>1, <2>1, <2>3, AsIntIs, SizeAssumption DEF HadNoRoom
    <3> QED
      BY <2>1, <2>3, <3>1, DropIsFine DEF AppendText
  <2> QED
    BY <2>2, <2>3
<1>2. CASE item.type = "int"
  <2> DEFINE chars == Convert(item.arg)
  <2>1. Insert(s, item) = FormatInteger(s, item) /\ item.arg \in IntValues
    BY <1>2 DEF Insert, IsItem
  <2>2. Len(chars) \in 0 .. kMaxNumericSize - 1
    BY <2>1, IntAssumption
  <2> HIDE DEF chars
  <2>3. CASE Avail(s) >= kMaxNumericSize
    <3>1. Insert(s, item) = Keep(s, item, chars, Len(chars), Len(chars) + 1)
      BY <2>1, <2>3 DEF FormatInteger, chars
    <3>2. /\ Len(chars) \in Nat /\ Len(chars) + 1 \in Nat
          /\ s.length + Len(chars) <= kSmallBuffer
          /\ s.length + (Len(chars) + 1) <= kSmallBuffer
      BY <1>0, <2>2, <2>3, SizeAssumption
    <3> QED
      BY <3>1, <3>2, KeepIsFine
  <2>4. CASE ~(Avail(s) >= kMaxNumericSize)
    <3>1. HadNoRoom(s, item)
      BY <1>0, <1>2, <2>4, SizeAssumption DEF HadNoRoom
    <3> QED
      BY <2>1, <2>4, <3>1, DropIsFine DEF FormatInteger
  <2> QED
    BY <2>3, <2>4
<1>3. CASE item.type = "double"
  <2>1. Insert(s, item) = FormatDouble(s, item) /\ item.arg \in 0 .. kMaxNumericSize - 1
    BY <1>3 DEF Insert, IsItem
  <2>2. CASE Avail(s) >= kMaxNumericSize
    <3>1. /\ item.arg \in Nat /\ item.arg + 1 \in Nat
          /\ s.length + item.arg <= kSmallBuffer
          /\ s.length + (item.arg + 1) <= kSmallBuffer
      BY <1>0, <2>1, <2>2, SizeAssumption
    <3> QED
      BY <2>1, <2>2, <3>1, KeepIsFine DEF FormatDouble
  <2>3. CASE ~(Avail(s) >= kMaxNumericSize)
    <3>1. HadNoRoom(s, item)
      BY <1>0, <1>3, <2>3, SizeAssumption DEF HadNoRoom
    <3> QED
      BY <2>1, <2>3, <3>1, DropIsFine DEF FormatDouble
  <2> QED
    BY <2>2, <2>3
<1> QED
  BY <1>1, <1>2, <1>3 DEF IsItem

LEMMA HeaderIsFine ==
    ASSUME NEW level \in LevelNames, NEW file \in FileNames, NEW line \in LineNumbers
    PROVE  StreamInv(Header(level, file, line))
<1>1. /\ IsItem(TextItem(kTime)) /\ IsItem(TextItem(level)) /\ IsItem(TextItem(file))
      /\ IsItem(TextItem(1)) /\ IsItem(IntItem(line))
  BY HeaderAssumption, LineAssumption DEF IsItem, TextItem, IntItem
<1> DEFINE s1 == Insert(EmptyStream, TextItem(kTime))
           s2 == Insert(s1, TextItem(level))
           s3 == Insert(s2, TextItem(file))
           s4 == Insert(s3, TextItem(1))
           s5 == Insert(s4, IntItem(line))
           s6 == Insert(s5, TextItem(1))
<1>2. Header(level, file, line) = s6
  BY DEF Header
<1>3. StreamInv(s1)
  BY <1>1, EmptyIsFine, InsertIsFine
<1> HIDE DEF s1
<1>4. StreamInv(s2)
  BY <1>1, <1>3, InsertIsFine
<1> HIDE DEF s2
<1>5. StreamInv(s3)
  BY <1>1, <1>4, InsertIsFine
<1> HIDE DEF s3
<1>6. StreamInv(s4)
  BY <1>1, <1>5, InsertIsFine
<1> HIDE DEF s4
<1>7. StreamInv(s5)
  BY <1>1, <1>6, InsertIsFine
<1> HIDE DEF s5
<1> QED
  BY <1>1, <1>2, <1>7, InsertIsFine

------------------------------------------------------------------------------
(* Every stream, of every thread and at every moment.                      *)

StreamsInv ==
    /\ DOMAIN stream = Threads
    /\ \A t \in Threads : StreamInv(stream[t])

(* No step of a statement breaks the invariant of a stream.                *)
LEMMA StreamsInductive == StreamsInv /\ [Next]_vars => StreamsInv'
<1> SUFFICES ASSUME StreamsInv, [Next]_vars PROVE StreamsInv'
  OBVIOUS
<1> USE DEF StreamsInv
<1>1. CASE UNCHANGED stream
  BY <1>1
<1>2. ASSUME NEW t \in Threads, NEW s, stream' = [stream EXCEPT ![t] = s], StreamInv(s)
      PROVE  StreamsInv'
  BY <1>2
<1>3. ASSUME NEW t \in Threads, WriteHeader(t)
      PROVE  StreamsInv'
  BY <1>2, <1>3, HeaderIsFine DEF WriteHeader
<1>4. ASSUME NEW t \in Threads, StreamItem(t)
      PROVE  StreamsInv'
  <2>1. PICK item \in Items : stream' = [stream EXCEPT ![t] = Insert(stream[t], item)]
    BY <1>4 DEF StreamItem
  <2>2. StreamInv(Insert(stream[t], item))
    BY InsertIsFine, ItemsAreItems
  <2> QED
    BY <1>2, <2>1, <2>2
<1>5. ASSUME NEW t \in Threads, EndLine(t)
      PROVE  StreamsInv'
  <2>1. IsItem(TextItem(1))
    BY DEF IsItem, TextItem
  <2>2. StreamInv(Insert(stream[t], TextItem(1)))
    BY <2>1, InsertIsFine
  <2> QED
    BY <1>2, <1>5, <2>2 DEF EndLine
<1>6. ASSUME NEW t \in Threads, Output(t)
      PROVE  StreamsInv'
  BY <1>2, <1>6, EmptyIsFine DEF Output
<1>7. CASE Tick
  BY <1>1, <1>7 DEF Tick
<1>8. ASSUME NEW t \in Threads,
             ReadClock(t) \/ BeginLocaltime(t) \/ EndLocaltime(t) \/ Strftime(t)
      PROVE  StreamsInv'
  BY <1>1, <1>8 DEF ReadClock, BeginLocaltime, EndLocaltime, Strftime
<1> QED
  BY <1>1, <1>3, <1>4, <1>5, <1>6, <1>7, <1>8 DEF Next, Statement, vars

(* Every stream keeps its invariant through the header, the items and the  *)
(* end of the line (LogStream.h:20-33, LogStream.cc:28-98).                *)
THEOREM StreamsAreFine == Spec => []StreamsInv
<1>1. Init => StreamsInv
  BY EmptyIsFine DEF Init, StreamsInv
<1> QED
  BY <1>1, StreamsInductive, PTL DEF Spec

(* LogStream.cc:33, 102, LogStream.h:22: nothing is written past the end   *)
(* of a buffer, terminating zeros included, unless a text was kept whose   *)
(* length is not an int.                                                   *)
THEOREM BufferIsSafe == Spec => []NeverOverruns
<1>1. StreamsInv => NeverOverruns
  BY DEF StreamsInv, StreamInv, NeverOverruns
<1> QED
  BY <1>1, StreamsAreFine, PTL

(* LogStream.h:20-27: only what does not fit is dropped.                   *)
THEOREM OnlyFullStreamsDrop == Spec => []DroppedForWantOfRoom
<1>1. StreamsInv => DroppedForWantOfRoom
  BY DEF StreamsInv, StreamInv, DroppedForWantOfRoom
<1> QED
  BY <1>1, StreamsAreFine, PTL

------------------------------------------------------------------------------
(* The types of the variables, the streams apart.                          *)

ClockTyped == clock \in Seconds \ {0} /\ tm \in Seconds \cup {Garbled}

CacheTyped ==
    /\ pc \in [Threads -> {"idle", "localtime", "filling", "strftime",
                           "header", "items", "output"}]
    /\ time \in [Threads -> Seconds] /\ t_lastSecond \in [Threads -> Seconds]
    /\ t_time \in [Threads -> Seconds \cup {Garbled}]

(* A stream is in use from the header of its statement to its output.      *)
Unused ==
    /\ DOMAIN stream = Threads
    /\ \A t \in Threads : pc[t] \notin {"items", "output"} => stream[t] = EmptyStream

LEMMA TypedStep == ClockTyped /\ CacheTyped /\ [Next]_vars => ClockTyped' /\ CacheTyped'
<1> SUFFICES ASSUME ClockTyped, CacheTyped, [Next]_vars
             PROVE  ClockTyped' /\ CacheTyped'
  OBVIOUS
<1> USE DEF ClockTyped, CacheTyped, At, Goto
<1>1. CASE Tick
  BY <1>1, ClockAssumption DEF Tick, Seconds
<1>2. CASE UNCHANGED vars
  BY <1>2 DEF vars
<1>3. ASSUME NEW t \in Threads, ReadClock(t) PROVE ClockTyped' /\ CacheTyped'
  BY <1>3 DEF ReadClock
<1>4. ASSUME NEW t \in Threads, BeginLocaltime(t) \/ EndLocaltime(t)
      PROVE  ClockTyped' /\ CacheTyped'
  BY <1>4 DEF BeginLocaltime, EndLocaltime
<1>5. ASSUME NEW t \in Threads, Strftime(t) PROVE ClockTyped' /\ CacheTyped'
  BY <1>5 DEF Strftime
<1>6. ASSUME NEW t \in Threads,
             WriteHeader(t) \/ StreamItem(t) \/ EndLine(t) \/ Output(t)
      PROVE  ClockTyped' /\ CacheTyped'
  BY <1>6 DEF WriteHeader, StreamItem, EndLine, Output
<1> QED
  BY <1>1, <1>2, <1>3, <1>4, <1>5, <1>6 DEF Next, Statement

LEMMA UnusedStep == CacheTyped /\ Unused /\ [Next]_vars => Unused'
<1> SUFFICES ASSUME CacheTyped, Unused, [Next]_vars PROVE Unused'
  OBVIOUS
<1> USE DEF CacheTyped, Unused, At, Goto
<1>1. CASE Tick \/ UNCHANGED vars
  BY <1>1 DEF Tick, vars
<1>2. ASSUME NEW t \in Threads,
             ReadClock(t) \/ BeginLocaltime(t) \/ EndLocaltime(t) \/ Strftime(t)
      PROVE  Unused'
  BY <1>2 DEF ReadClock, BeginLocaltime, EndLocaltime, Strftime
<1>3. ASSUME NEW t \in Threads, WriteHeader(t) PROVE Unused'
  BY <1>3 DEF WriteHeader
<1>4. ASSUME NEW t \in Threads, StreamItem(t) \/ EndLine(t) PROVE Unused'
  BY <1>4 DEF StreamItem, EndLine
<1>5. ASSUME NEW t \in Threads, Output(t) PROVE Unused'
  BY <1>5 DEF Output
<1> QED
  BY <1>1, <1>2, <1>3, <1>4, <1>5 DEF Next, Statement

(* Every variable of Logging.cc keeps its type, and a stream that no       *)
(* statement is using is empty.                                            *)
THEOREM TypeCorrect == Spec => []TypeOK
<1>1. Init => ClockTyped /\ CacheTyped /\ Unused
  BY ClockAssumption DEF Init, ClockTyped, CacheTyped, Unused, Seconds
<1>2. StreamsInv /\ ClockTyped /\ CacheTyped /\ Unused => TypeOK
  BY DEF StreamsInv, StreamInv, ClockTyped, CacheTyped, Unused, TypeOK
<1> QED
  BY <1>1, <1>2, TypedStep, UnusedStep, StreamsAreFine, PTL DEF Spec

------------------------------------------------------------------------------
(* The cached time of a program that logs from one thread.                 *)

TimeInv ==
    /\ DOMAIN pc = Threads /\ DOMAIN time = Threads
    /\ DOMAIN t_lastSecond = Threads /\ DOMAIN t_time = Threads
    /\ \A t \in Threads :
          /\ pc[t] # "idle" => t_lastSecond[t] = time[t]
          /\ pc[t] = "strftime" => tm = time[t]
          /\ pc[t] \in {"idle", "header", "items", "output"} => t_time[t] = t_lastSecond[t]

(* Logging.cc:50-62: t_time is the text of t_lastSecond, so a line carries *)
(* the second its Logger read, if nobody else uses localtime.              *)
THEOREM LoneThreadTellsItsTime ==
    ASSUME \A t, u \in Threads : t = u
    PROVE  Spec => []TimeIsItsOwn
<1> USE DEF TimeInv, At, Goto
<1>1. Init => TimeInv
  BY DEF Init
<1>2. TimeInv /\ [Next]_vars => TimeInv'
  <2> SUFFICES ASSUME TimeInv, [Next]_vars PROVE TimeInv'
    OBVIOUS
  <2>1. ASSUME NEW t \in Threads, ReadClock(t) PROVE TimeInv'
    BY <2>1 DEF ReadClock
  <2>2. ASSUME NEW t \in Threads, BeginLocaltime(t) PROVE TimeInv'
    BY <2>2 DEF BeginLocaltime
  <2>3. ASSUME NEW t \in Threads, EndLocaltime(t) PROVE TimeInv'
    BY <2>3 DEF EndLocaltime
  <2>4. ASSUME NEW t \in Threads, Strftime(t) PROVE TimeInv'
    BY <2>4 DEF Strftime
  <2>5. ASSUME NEW t \in Threads, WriteHeader(t) PROVE TimeInv'
    BY <2>5 DEF WriteHeader
  <2>6. ASSUME NEW t \in Threads, EndLine(t) \/ Output(t) PROVE TimeInv'
    BY <2>6 DEF EndLine, Output
  <2>7. ASSUME NEW t \in Threads, StreamItem(t) PROVE TimeInv'
    BY <2>7 DEF StreamItem
  <2>8. CASE Tick \/ UNCHANGED vars
    BY <2>8 DEF Tick, vars
  <2> QED
    BY <2>1, <2>2, <2>3, <2>4, <2>5, <2>6, <2>7, <2>8 DEF Next, Statement
<1>3. TimeInv => TimeIsItsOwn
  BY DEF TimeIsItsOwn
<1> QED
  BY <1>1, <1>2, <1>3, PTL DEF Spec

------------------------------------------------------------------------------
(* The digits of a number, and what they read as.                          *)

(* / and % take the last decimal digit off an integer, whatever its sign.  *)
LEMMA LastDigit ==
    ASSUME NEW i \in Int
    PROVE  /\ Quotient(i) \in Int /\ Remainder(i) \in -9 .. 9
           /\ i = 10 * Quotient(i) + Remainder(i)
           /\ i >= 0 => Quotient(i) >= 0 /\ Remainder(i) >= 0
           /\ i <= 0 => Quotient(i) <= 0 /\ Remainder(i) <= 0
           /\ Quotient(i) = 0 => i = Remainder(i)
           /\ \A n \in Nat : i \in -(n + 1) .. n + 1 => Quotient(i) \in -n .. n
<1> DEFINE d == i \div 10
           m == i % 10
<1>1. d \in Int /\ m \in 0 .. 9 /\ i = 10 * d + m
  OBVIOUS
<1>2. Quotient(i) = IF i >= 0 \/ m = 0 THEN d ELSE d + 1
  BY DEF Quotient
<1>3. Remainder(i) = i - 10 * Quotient(i)
  BY DEF Remainder
<1> HIDE DEF d, m
<1> QED
  BY <1>1, <1>2, <1>3

LEMMA Digits ==
    \A r \in -9 .. 9 :
        /\ zero(r) # "-"
        /\ zero(r) = "0" <=> r = 0
        /\ DigitValue(zero(r)) = IF r < 0 THEN -r ELSE r
<1>1. /\ zero(0) = "0" /\ zero(1) = "1" /\ zero(2) = "2" /\ zero(3) = "3"
      /\ zero(4) = "4" /\ zero(5) = "5" /\ zero(6) = "6" /\ zero(7) = "7"
      /\ zero(8) = "8" /\ zero(9) = "9"
      /\ zero(-1) = "1" /\ zero(-2) = "2" /\ zero(-3) = "3" /\ zero(-4) = "4"
      /\ zero(-5) = "5" /\ zero(-6) = "6" /\ zero(-7) = "7" /\ zero(-8) = "8"
      /\ zero(-9) = "9"
  BY DEF zero, digits
<1>2. \A d, e \in 0 .. 9 : zero(d) = zero(e) => d = e
  <2> SUFFICES ASSUME NEW d \in 0 .. 9, NEW e \in 0 .. 9, zero(d) = zero(e)
               PROVE  d = e
    OBVIOUS
  <2>1. /\ d \in {0, 1, 2, 3, 4, 5, 6, 7, 8, 9} /\ e \in {0, 1, 2, 3, 4, 5, 6, 7, 8, 9}
    OBVIOUS
  <2> QED
    BY <1>1, <2>1
<1>3. \A d \in 0 .. 9 : zero(-d) = zero(d)
  <2> TAKE d \in 0 .. 9
  <2>1. d \in {0, 1, 2, 3, 4, 5, 6, 7, 8, 9}
    OBVIOUS
  <2> QED
    BY <1>1, <2>1
<1>4. \A d \in 0 .. 9 : zero(d) # "-" /\ (zero(d) = "0" <=> d = 0)
  <2> TAKE d \in 0 .. 9
  <2>1. d \in {0, 1, 2, 3, 4, 5, 6, 7, 8, 9}
    OBVIOUS
  <2> QED
    BY <1>1, <2>1
<1>5. \A d \in 0 .. 9 : DigitValue(zero(d)) = d
  <2> TAKE d \in 0 .. 9
  <2>1. \A e \in 0 .. 9 : zero(e) = zero(d) <=> e = d
    BY <1>2
  <2> QED
    BY <2>1 DEF DigitValue
<1> TAKE r \in -9 .. 9
<1>6. PICK d \in 0 .. 9 : d = IF r < 0 THEN -r ELSE r
  OBVIOUS
<1>7. zero(r) = zero(d) /\ (r = 0 <=> d = 0)
  <2>1. r = d \/ r = -d
    BY <1>6
  <2>2. r = 0 <=> d = 0
    BY <1>6
  <2> QED
    BY <1>3, <2>1, <2>2
<1> QED
  BY <1>4, <1>5, <1>6, <1>7

------------------------------------------------------------------------------
(* LeastFirst is defined by a recursive function over all integers: there  *)
(* is one, since / brings an integer nearer to zero.                       *)

DigitsOf(g, i) ==
    <<zero(Remainder(i))>> \o (IF Quotient(i) = 0 THEN <<>> ELSE g[Quotient(i)])

DigitsUpTo(g, n) == \A i \in -n .. n : g[i] = DigitsOf(g, i)

(* However far they are told, the digits of a number are the same.         *)
LEMMA DigitsAgree ==
    ASSUME NEW g, NEW h, NEW n \in Nat, DigitsUpTo(g, n), DigitsUpTo(h, n)
    PROVE  \A i \in -n .. n : g[i] = h[i]
<1> DEFINE T == {k \in Nat : k <= n => \A i \in -k .. k : g[i] = h[i]}
<1>1. 0 \in T
  <2> SUFFICES ASSUME NEW i \in -0 .. 0 PROVE g[i] = h[i]
    OBVIOUS
  <2>1. i \in -n .. n /\ i \in -9 .. 9 /\ i = 0
    OBVIOUS
  <2>2. Quotient(i) = 0
    BY <2>1 DEF Quotient
  <2> QED
    BY <2>1, <2>2 DEF DigitsUpTo, DigitsOf
<1>2. ASSUME NEW k \in Nat, k \in T PROVE k + 1 \in T
  <2> SUFFICES ASSUME k + 1 <= n, NEW i \in -(k + 1) .. k + 1 PROVE g[i] = h[i]
    OBVIOUS
  <2>1. i \in Int /\ i \in -n .. n
    OBVIOUS
  <2>2. Quotient(i) \in -k .. k
    BY <2>1, LastDigit
  <2>3. g[Quotient(i)] = h[Quotient(i)]
    BY <1>2, <2>2
  <2> QED
    BY <2>1, <2>3 DEF DigitsUpTo, DigitsOf
<1> HIDE DEF T
<1>3. n \in T
  BY <1>1, <1>2, SetInduction
<1> QED
  BY <1>3 DEF T

(* The digits of the numbers up to n can be told, for every n.             *)
LEMMA DigitsExist == \A n \in Nat : \E g : DigitsUpTo(g, n)
<1> DEFINE T == {n \in Nat : \E g : DigitsUpTo(g, n)}
<1>1. 0 \in T
  <2> DEFINE g == [i \in Int |-> <<zero(Remainder(i))>> \o <<>>]
  <2>1. ASSUME NEW i \in -0 .. 0 PROVE g[i] = DigitsOf(g, i)
    <3>1. i = 0 /\ i \in Int
      OBVIOUS
    <3>2. Quotient(i) = 0
      BY <3>1 DEF Quotient
    <3> QED
      BY <3>1, <3>2 DEF DigitsOf
  <2> HIDE DEF g
  <2>2. DigitsUpTo(g, 0)
    BY <2>1 DEF DigitsUpTo
  <2> QED
    BY <2>2
<1>2. ASSUME NEW n \in Nat, n \in T PROVE n + 1 \in T
  <2>1. PICK g : DigitsUpTo(g, n)
    BY <1>2
  <2> DEFINE h == [i \in Int |-> DigitsOf(g, i)]
  <2>2. \A i \in -n .. n : h[i] = g[i]
    BY <2>1 DEF DigitsUpTo
  <2>3. ASSUME NEW i \in -(n + 1) .. n + 1 PROVE h[i] = DigitsOf(h, i)
    <3>1. i \in Int /\ Quotient(i) \in -n .. n
      BY LastDigit
    <3>2. h[Quotient(i)] = g[Quotient(i)]
      BY <2>2, <3>1
    <3>3. h[i] = DigitsOf(g, i)
      BY <3>1
    <3> HIDE DEF h
    <3> QED
      BY <3>2, <3>3 DEF DigitsOf
  <2> HIDE DEF h
  <2>4. DigitsUpTo(h, n + 1)
    BY <2>3 DEF DigitsUpTo
  <2> QED
    BY <2>4
<1> HIDE DEF T
<1>3. Nat \subseteq T
  BY <1>1, <1>2, SetInduction
<1> QED
  BY <1>3 DEF T

Magnitude(i) == IF i < 0 THEN -i ELSE i

(* LeastFirst is the function of its definition, so that it can be         *)
(* unfolded.                                                               *)
LEMMA LeastFirstIs == \A i \in Int : LeastFirst[i] = DigitsOf(LeastFirst, i)
<1> DEFINE G(n) == CHOOSE g : DigitsUpTo(g, n)
           f == [i \in Int |-> G(Magnitude(i))[i]]
<1>1. \A n \in Nat : DigitsUpTo(G(n), n)
  <2> TAKE n \in Nat
  <2>1. \E g : DigitsUpTo(g, n)
    BY DigitsExist
  <2> QED
    BY <2>1, Zenon
<1> HIDE DEF G
<1>2. ASSUME NEW n \in Nat, NEW i \in -n .. n PROVE f[i] = G(n)[i]
  <2>1. Magnitude(i) \in Nat /\ Magnitude(i) <= n /\ i \in -Magnitude(i) .. Magnitude(i) /\ i \in Int
    BY DEF Magnitude
  <2>2. DigitsUpTo(G(n), Magnitude(i))
    <3>1. \A k \in -Magnitude(i) .. Magnitude(i) : k \in -n .. n
      BY <2>1
    <3> QED
      BY <1>1, <3>1 DEF DigitsUpTo
  <2>3. DigitsUpTo(G(Magnitude(i)), Magnitude(i))
    BY <1>1, <2>1
  <2>4. G(Magnitude(i))[i] = G(n)[i]
    BY <2>1, <2>2, <2>3, DigitsAgree
  <2> QED
    BY <2>1, <2>4
<1>3. ASSUME NEW i \in Int PROVE f[i] = DigitsOf(f, i)
  <2>1. Magnitude(i) \in Nat /\ i \in -Magnitude(i) .. Magnitude(i)
    BY DEF Magnitude
  <2>2. Quotient(i) \in -Magnitude(i) .. Magnitude(i)
    <3>1. PICK n \in Nat : n = Magnitude(i)
      BY <2>1
    <3>2. i \in -(n + 1) .. n + 1
      BY <2>1, <3>1
    <3> QED
      BY <3>1, <3>2, LastDigit
  <2>3. /\ f[i] = G(Magnitude(i))[i]
        /\ f[Quotient(i)] = G(Magnitude(i))[Quotient(i)]
    BY <1>2, <2>1, <2>2
  <2>4. G(Magnitude(i))[i] = DigitsOf(G(Magnitude(i)), i)
    BY <1>1, <2>1 DEF DigitsUpTo
  <2> HIDE DEF f
  <2> QED
    BY <2>3, <2>4 DEF DigitsOf
<1>4. f = [i \in Int |-> DigitsOf(f, i)]
  BY <1>3
<1> HIDE DEF f
<1>5. \E g : g = [i \in Int |-> <<zero(Remainder(i))>> \o
                     (IF Quotient(i) = 0 THEN <<>> ELSE g[Quotient(i)])]
  BY <1>4, Zenon DEF DigitsOf
<1>6. LeastFirst = [i \in Int |-> <<zero(Remainder(i))>> \o
                     (IF Quotient(i) = 0 THEN <<>> ELSE LeastFirst[Quotient(i)])]
  BY <1>5, Zenon DEF LeastFirst
<1> QED
  BY <1>6, Zenon DEF DigitsOf

------------------------------------------------------------------------------
(* So is the value in Number, over the characters.                         *)

Digit == {"0", "1", "2", "3", "4", "5", "6", "7", "8", "9"}

From(chars) == IF IsNegative(chars) THEN 2 ELSE 1
Sign(chars) == IF IsNegative(chars) THEN -1 ELSE 1

ValueOf(g, chars, from, sign, k) ==
    IF k < from THEN 0 ELSE 10 * g[k - 1] + sign * DigitValue(chars[k])

Reads(g, chars, from, sign, n) == g = [k \in 0 .. n |-> ValueOf(g, chars, from, sign, k)]

(* The function that the definition of Number chooses exists.              *)
LEMMA ReadsExists ==
    ASSUME NEW chars, NEW from \in Nat \ {0}, NEW sign, NEW n \in Nat
    PROVE  \E g : Reads(g, chars, from, sign, n)
<1> DEFINE T == {k \in Nat : \E g : Reads(g, chars, from, sign, k)}
<1>1. 0 \in T
  <2> DEFINE g == [k \in 0 .. 0 |-> 0]
  <2>1. \A k \in 0 .. 0 : k < from
    OBVIOUS
  <2>2. Reads(g, chars, from, sign, 0)
    BY <2>1 DEF Reads, ValueOf
  <2> QED
    BY <2>2
<1>2. ASSUME NEW k \in Nat, k \in T PROVE k + 1 \in T
  <2>1. PICK g : Reads(g, chars, from, sign, k)
    BY <1>2
  <2> DEFINE h == [j \in 0 .. k + 1 |-> ValueOf(g, chars, from, sign, j)]
  <2>2. \A j \in 0 .. k : h[j] = g[j]
    BY <2>1 DEF Reads
  <2>3. \A j \in 0 .. k + 1 : ~(j < from) => j - 1 \in 0 .. k
    OBVIOUS
  <2>4. ASSUME NEW j \in 0 .. k + 1
        PROVE  ValueOf(g, chars, from, sign, j) = ValueOf(h, chars, from, sign, j)
    BY <2>2, <2>3 DEF ValueOf
  <2>5. Reads(h, chars, from, sign, k + 1)
    BY <2>4 DEF Reads
  <2> QED
    BY <2>5
<1> HIDE DEF T
<1>3. Nat \subseteq T
  BY <1>1, <1>2, SetInduction
<1> QED
  BY <1>3 DEF T

(* Number is the last value of that function, which can be unfolded.       *)
LEMMA NumberIs ==
    ASSUME NEW chars, Len(chars) \in Nat
    PROVE  \E g : /\ Reads(g, chars, From(chars), Sign(chars), Len(chars))
                  /\ Number(chars) = g[Len(chars)]
<1> DEFINE f == IF IsNegative(chars) THEN 2 ELSE 1
           s == IF IsNegative(chars) THEN -1 ELSE 1
           G == CHOOSE g : g = [k \in 0 .. Len(chars) |->
                    IF k < f THEN 0 ELSE 10 * g[k - 1] + s * DigitValue(chars[k])]
<1>1. f \in Nat \ {0} /\ f = From(chars) /\ s = Sign(chars)
  BY DEF From, Sign
<1>2. Number(chars) = G[Len(chars)]
  BY Zenon DEF Number
<1> HIDE DEF f, s
<1>3. \E g : Reads(g, chars, f, s, Len(chars))
  BY <1>1, ReadsExists
<1>4. G = [k \in 0 .. Len(chars) |->
              IF k < f THEN 0 ELSE 10 * G[k - 1] + s * DigitValue(chars[k])]
  BY <1>3, Zenon DEF Reads, ValueOf
<1> HIDE DEF G
<1>5. Reads(G, chars, f, s, Len(chars))
  BY <1>4, Zenon DEF Reads, ValueOf
<1> QED
  BY <1>1, <1>2, <1>5, Zenon

LEMMA ReadsAgree ==
    ASSUME NEW c, NEW d, NEW from \in Nat \ {0}, NEW sign, NEW n \in Nat,
           \A k \in 1 .. n : c[k] = d[k],
           NEW g, NEW h, Reads(g, c, from, sign, n), Reads(h, d, from, sign, n + 1)
    PROVE  h[n] = g[n]
<1> DEFINE T == {k \in Nat : k <= n => h[k] = g[k]}
<1>1. /\ \A k \in 0 .. n : g[k] = ValueOf(g, c, from, sign, k)
      /\ \A k \in 0 .. n + 1 : h[k] = ValueOf(h, d, from, sign, k)
  BY DEF Reads
<1>2. 0 \in T
  <2>1. g[0] = ValueOf(g, c, from, sign, 0) /\ h[0] = ValueOf(h, d, from, sign, 0)
    BY <1>1
  <2> QED
    BY <2>1 DEF ValueOf
<1>3. ASSUME NEW k \in Nat, k \in T PROVE k + 1 \in T
  <2> SUFFICES ASSUME k + 1 <= n PROVE h[k + 1] = g[k + 1]
    OBVIOUS
  <2>1. /\ h[k] = g[k] /\ k + 1 - 1 = k /\ c[k + 1] = d[k + 1]
        /\ k + 1 \in 0 .. n /\ k + 1 \in 0 .. n + 1
    BY <1>3
  <2>2. ValueOf(g, c, from, sign, k + 1) = ValueOf(h, d, from, sign, k + 1)
    BY <2>1 DEF ValueOf
  <2> QED
    BY <1>1, <2>1, <2>2
<1> HIDE DEF T
<1>4. n \in T
  BY <1>2, <1>3, SetInduction
<1> QED
  BY <1>4 DEF T

Chars == Digit \cup {"-"}

(* One more digit.                                                         *)
LEMMA NumberAppend ==
    ASSUME NEW c \in Seq(Chars), NEW x \in Chars, c # <<>>
    PROVE  /\ Number(Append(c, x)) = 10 * Number(c) + Sign(c) * DigitValue(x)
           /\ IsNegative(Append(c, x)) <=> IsNegative(c)
<1> DEFINE d == Append(c, x)
           n == Len(c)
<1>1. /\ n \in Nat /\ n >= 1 /\ Len(d) = n + 1 /\ d[n + 1] = x
      /\ \A k \in 1 .. n : c[k] = d[k]
  <2>1. /\ n \in Nat /\ n # 0 /\ Len(d) = n + 1 /\ d[n + 1] = x
    OBVIOUS
  <2> QED
    BY <2>1
<1>2. IsNegative(d) <=> IsNegative(c)
  BY DEF IsNegative
<1>3. /\ From(d) = From(c) /\ Sign(d) = Sign(c) /\ From(c) \in Nat \ {0}
      /\ ~(n + 1 < From(c))
  BY <1>1, <1>2 DEF From, Sign
<1> HIDE DEF d, n
<1>4. PICK g : Reads(g, c, From(c), Sign(c), n) /\ Number(c) = g[n]
  BY <1>1, NumberIs DEF n
<1>5. PICK h : Reads(h, d, From(c), Sign(c), n + 1) /\ Number(d) = h[n + 1]
  <2>1. n + 1 \in Nat
    BY <1>1
  <2>2. Len(d) \in Nat
    BY <1>1, <2>1
  <2> QED
    BY <1>1, <1>3, <2>2, NumberIs, Zenon
<1>6. h[n] = g[n]
  BY <1>1, <1>3, <1>4, <1>5, ReadsAgree
<1>7. h[n + 1] = ValueOf(h, d, From(c), Sign(c), n + 1)
  <2>1. n + 1 \in 0 .. n + 1
    BY <1>1
  <2> QED
    BY <1>5, <2>1 DEF Reads
<1>8. ValueOf(h, d, From(c), Sign(c), n + 1) = 10 * h[n] + Sign(c) * DigitValue(x)
  <2>1. n + 1 - 1 = n
    BY <1>1
  <2> QED
    BY <1>1, <1>3, <2>1 DEF ValueOf
<1> QED
  BY <1>2, <1>4, <1>5, <1>6, <1>7, <1>8, Zenon DEF d

(* A sequence with one more element at its front, reversed.                *)
LEMMA ReversedAppends ==
    ASSUME NEW S, NEW w \in Seq(S), NEW x \in S
    PROVE  /\ Reversed(w) \in Seq(S) /\ Len(Reversed(w)) = Len(w)
           /\ Reversed(<<x>> \o w) = Append(Reversed(w), x)
<1> DEFINE n == Len(w)
           r == Reversed(w)
           l == Reversed(<<x>> \o w)
           a == Append(r, x)
<1>1. n \in Nat /\ \A k \in 1 .. n : w[k] \in S
  OBVIOUS
<1>2. r = [k \in 1 .. n |-> w[n + 1 - k]] /\ \A k \in 1 .. n : n + 1 - k \in 1 .. n
  BY <1>1 DEF Reversed
<1>3. r \in Seq(S) /\ Len(r) = n
  <2>1. r \in [1 .. n -> S]
    BY <1>1, <1>2
  <2> HIDE DEF r, n
  <2> QED
    BY <1>1, <2>1
<1>4. /\ <<x>> \o w \in Seq(S) /\ Len(<<x>> \o w) = n + 1
      /\ (<<x>> \o w)[1] = x /\ \A k \in 1 .. n : (<<x>> \o w)[k + 1] = w[k]
  BY <1>1
<1> DEFINE v == <<x>> \o w
<1>5. l = [k \in 1 .. n + 1 |-> v[n + 1 + 1 - k]]
  BY <1>4 DEF Reversed
<1> HIDE DEF v
<1>6. /\ a \in Seq(S) /\ Len(a) = n + 1 /\ a[n + 1] = x
      /\ \A k \in 1 .. n : a[k] = r[k]
  BY <1>3
<1>7. l \in Seq(S) /\ Len(l) = n + 1
  <2>1. \A k \in 1 .. n + 1 : n + 1 + 1 - k \in 1 .. n + 1
    BY <1>1
  <2>2. \A k \in 1 .. n + 1 : v[k] \in S
    BY <1>1, <1>4, ElementOfSeq DEF v
  <2>3. l \in [1 .. n + 1 -> S]
    BY <1>5, <2>1, <2>2
  <2>4. n + 1 \in Nat
    BY <1>1
  <2> HIDE DEF l, n
  <2> QED
    BY <2>3, <2>4
<1>8. ASSUME NEW k \in 1 .. n + 1 PROVE l[k] = a[k]
  <2>1. l[k] = v[n + 1 + 1 - k]
    BY <1>5
  <2>2. CASE k = n + 1
    <3>1. n + 1 + 1 - k = 1
      BY <1>1, <2>2
    <3> QED
      BY <1>4, <1>6, <2>1, <2>2, <3>1 DEF v
  <2>3. CASE k # n + 1
    <3>1. k \in 1 .. n /\ n + 1 - k \in 1 .. n /\ n + 1 + 1 - k = (n + 1 - k) + 1
      BY <1>1, <2>3
    <3>2. v[(n + 1 - k) + 1] = w[n + 1 - k]
      BY <1>4, <3>1 DEF v
    <3>3. a[k] = w[n + 1 - k]
      BY <1>2, <1>6, <3>1
    <3> QED
      BY <2>1, <3>1, <3>2, <3>3
  <2> QED
    BY <2>2, <2>3
<1> HIDE DEF l, a, r, n
<1>9. l = a
  <2>1. \A k \in 1 .. Len(l) : l[k] = a[k]
    BY <1>7, <1>8
  <2> QED
    BY <1>6, <1>7, <2>1, SeqEqual
<1> QED
  BY <1>3, <1>9 DEF l, a, r, n

------------------------------------------------------------------------------
(* convert and its reader.                                                 *)

Minus(v) == IF v < 0 THEN <<"-">> ELSE <<>>
Written(v) == LeastFirst[v] \o Minus(v)

First(v) == IF v < 0 THEN 2 ELSE 1

Converts(v) ==
    /\ LeastFirst[v] \in Seq(Digit)
    /\ Written(v) \in Seq(Chars) /\ Convert(v) \in Seq(Chars)
    /\ Len(Convert(v)) >= First(v)
    /\ ReadsAs(Convert(v), v)

(* The table has a digit for each remainder, negative ones included        *)
(* (LogStream.cc:7-26).                                                    *)
LEMMA DigitsAreDigits == \A r \in -9 .. 9 : zero(r) \in Digit /\ zero(r) \in Chars
<1> TAKE r \in -9 .. 9
<1>1. PICK d \in -9 .. 9 : d = r
  OBVIOUS
<1>2. r \in {-9, -8, -7, -6, -5, -4, -3, -2, -1, 0, 1, 2, 3, 4, 5, 6, 7, 8, 9}
  OBVIOUS
<1> QED
  BY <1>2 DEF zero, digits, Digit, Chars

(* A number of one digit.                                                  *)
LEMMA OneDigitConverts ==
    ASSUME NEW v \in Int, Quotient(v) = 0
    PROVE  Converts(v)
<1> DEFINE x == zero(v)
<1>1. v \in -9 .. 9 /\ Remainder(v) = v
  BY LastDigit
<1>2. x \in Digit /\ x \in Chars /\ "-" \in Chars
  BY <1>1, DigitsAreDigits DEF Chars
<1>3. x # "-" /\ (x = "0" <=> v = 0) /\ DigitValue(x) = IF v < 0 THEN -v ELSE v
  BY <1>1, Digits
<1> HIDE DEF x
<1>4. LeastFirst[v] = <<x>>
  <2>1. LeastFirst[v] = <<zero(v)>> \o <<>>
    BY <1>1, LeastFirstIs DEF DigitsOf
  <2> QED
    BY <1>2, <2>1 DEF x
<1>5. CASE v >= 0
  <2>1. ~(v < 0) /\ First(v) = 1 /\ Minus(v) = <<>> /\ Written(v) = <<x>> \o <<>>
    <3>1. ~(v < 0) /\ First(v) = 1 /\ Minus(v) = <<>>
      BY <1>5 DEF First, Minus
    <3> QED
      BY <1>4, <3>1, Zenon DEF Written
  <2>2. Written(v) = <<x>>
    BY <1>2, <2>1
  <2>3. Convert(v) = <<x>>
    <3>1. Convert(v) = Reversed(Written(v))
      BY Zenon DEF Convert, Written, Minus
    <3> QED
      BY <2>2, <3>1 DEF Reversed
  <2>4. ~IsNegative(<<x>>) /\ Len(<<x>>) = 1 /\ <<x>>[1] = x
    BY <1>3 DEF IsNegative
  <2>5. Number(<<x>>) = v
    <3>1. From(<<x>>) = 1 /\ Sign(<<x>>) = 1 /\ Len(<<x>>) \in Nat
      BY <2>4 DEF From, Sign
    <3>2. PICK g : Reads(g, <<x>>, 1, 1, 1) /\ Number(<<x>>) = g[1]
      BY <2>4, <3>1, NumberIs
    <3>3. g[1] = ValueOf(g, <<x>>, 1, 1, 1) /\ g[0] = ValueOf(g, <<x>>, 1, 1, 0)
      BY <3>2 DEF Reads
    <3> QED
      BY <1>3, <2>1, <2>4, <3>2, <3>3 DEF ValueOf
  <2>6. ReadsAs(<<x>>, v)
    BY <1>3, <2>1, <2>4, <2>5 DEF ReadsAs
  <2> QED
    BY <1>2, <1>4, <2>1, <2>2, <2>3, <2>4, <2>6 DEF Converts
<1>6. CASE v < 0
  <2> DEFINE c == <<"-", x>>
  <2>1. First(v) = 2 /\ Minus(v) = <<"-">> /\ Written(v) = <<x>> \o <<"-">>
    <3>1. First(v) = 2 /\ Minus(v) = <<"-">>
      BY <1>6 DEF First, Minus
    <3> QED
      BY <1>4, <3>1, Zenon DEF Written
  <2>2. Written(v) = <<x, "-">>
    <3>1. <<x>> \o <<"-">> = <<x, "-">>
      <4>1. <<x>> \in Seq(Chars) /\ "-" \in Chars
        BY <1>2
      <4>2. <<x>> \o <<"-">> = Append(<<x>>, "-")
        BY <4>1, AppendIsConcat
      <4>3. Append(<<x>>, "-") = <<x, "-">>
        <5> DEFINE a == Append(<<x>>, "-")
                   b == <<x, "-">>
        <5>1. a \in Seq(Chars) /\ Len(a) = 2 /\ a[1] = x /\ a[2] = "-"
          BY <4>1
        <5>2. b \in Seq(Chars) /\ Len(b) = 2 /\ b[1] = x /\ b[2] = "-"
          BY <1>2
        <5> HIDE DEF a, b
        <5>3. \A k \in 1 .. Len(a) : a[k] = b[k]
          <6>1. \A k \in 1 .. 2 : k = 1 \/ k = 2
            OBVIOUS
          <6> QED
            BY <5>1, <5>2, <6>1
        <5> QED
          BY <5>1, <5>2, <5>3, SeqEqual DEF a, b
      <4> QED
        BY <4>2, <4>3
    <3> QED
      BY <2>1, <3>1, Zenon
  <2>3. Convert(v) = c
    <3>1. Convert(v) = Reversed(Written(v))
      BY Zenon DEF Convert, Written, Minus
    <3>2. Reversed(<<x, "-">>) = c
      BY DEF Reversed
    <3> QED
      BY <2>2, <3>1, <3>2
  <2>4. IsNegative(c) /\ Len(c) = 2 /\ c[2] = x /\ c \in Seq(Chars)
    BY <1>2 DEF IsNegative
  <2> HIDE DEF c
  <2>5. Number(c) = v
    <3>1. From(c) = 2 /\ Sign(c) = -1 /\ Len(c) \in Nat
      BY <2>4 DEF From, Sign
    <3>2. PICK g : Reads(g, c, 2, -1, 2) /\ Number(c) = g[2]
      BY <2>4, <3>1, NumberIs
    <3>3. g[2] = ValueOf(g, c, 2, -1, 2) /\ g[1] = ValueOf(g, c, 2, -1, 1)
      BY <3>2 DEF Reads
    <3> QED
      BY <1>3, <1>6, <2>4, <3>2, <3>3 DEF ValueOf
  <2>6. ReadsAs(c, v)
    BY <1>3, <1>6, <2>4, <2>5 DEF ReadsAs
  <2>7. <<x, "-">> \in Seq(Chars) /\ LeastFirst[v] \in Seq(Digit)
    BY <1>2, <1>4
  <2>8. Convert(v) \in Seq(Chars) /\ ReadsAs(Convert(v), v)
    BY ONLY <2>3, <2>4, <2>6, Zenon
  <2>9. First(v) = 2 /\ Len(Convert(v)) = 2
    BY <2>3, <2>4, <1>6 DEF First
  <2>10. Len(Convert(v)) >= First(v) /\ Written(v) \in Seq(Chars)
    BY ONLY <2>2, <2>7, <2>9
  <2> QED
    BY ONLY <2>7, <2>8, <2>10, Zenon DEF Converts
<1> QED
  BY <1>5, <1>6

(* A number that has more digits than another, by one.                     *)
LEMMA OneMoreDigitConverts ==
    ASSUME NEW v \in Int, Quotient(v) # 0, Converts(Quotient(v))
    PROVE  Converts(v)
<1> DEFINE q == Quotient(v)
           x == zero(Remainder(v))
<1>1. /\ q \in Int /\ Remainder(v) \in -9 .. 9 /\ v = 10 * q + Remainder(v)
      /\ (v < 0 <=> q < 0) /\ v # 0
      /\ v < 0 => Remainder(v) <= 0
      /\ v >= 0 => Remainder(v) >= 0
  <2>1. /\ q \in Int /\ Remainder(v) \in -9 .. 9
        /\ v = 10 * q + Remainder(v)
        /\ v >= 0 => q >= 0 /\ Remainder(v) >= 0
        /\ v <= 0 => q <= 0 /\ Remainder(v) <= 0
    BY LastDigit, Zenon
  <2>2. q # 0
    OBVIOUS
  <2> HIDE DEF q
  <2>3. PICK r \in Int : r = Remainder(v)
    BY <2>1
  <2>4. v < 0 <=> q < 0
    BY <2>1, <2>2, <2>3
  <2>5. v # 0
    BY <2>1, <2>2, <2>3
  <2> QED
    BY <2>1, <2>3, <2>4, <2>5
<1>2. /\ x \in Digit /\ x \in Chars
      /\ DigitValue(x) = IF Remainder(v) < 0 THEN -Remainder(v) ELSE Remainder(v)
  BY <1>1, Digits, DigitsAreDigits
<1>3. LeastFirst[v] = <<x>> \o LeastFirst[q]
  BY LeastFirstIs DEF DigitsOf
<1> HIDE DEF x, q
<1>4. Converts(q)
  BY DEF q
<1>5. q # 0
  BY DEF q
<1>6. /\ LeastFirst[q] \in Seq(Digit) /\ Written(q) \in Seq(Chars)
      /\ Convert(q) \in Seq(Chars) /\ Len(Convert(q)) >= First(q)
      /\ ReadsAs(Convert(q), q)
  BY <1>4 DEF Converts
<1>7. Minus(v) = Minus(q) /\ First(v) = First(q)
  BY <1>1 DEF Minus, First
<1>8. Written(v) = <<x>> \o Written(q)
  <2>1. /\ <<x>> \in Seq(Chars) /\ LeastFirst[q] \in Seq(Chars) /\ Minus(q) \in Seq(Chars)
    <3>1. <<x>> \in Seq(Chars)
      BY <1>2
    <3>2. LeastFirst[q] \in Seq(Chars)
      <4>1. Digit \subseteq Chars
        BY DEF Chars
      <4> QED
        BY <1>6, <4>1
    <3>3. CASE q < 0
      <4>1. Minus(q) = <<"-">> /\ "-" \in Chars
        BY <3>3 DEF Minus, Chars
      <4>2. <<"-">> \in Seq(Chars)
        BY <4>1
      <4> QED
        BY <3>1, <3>2, <4>1, <4>2, Zenon
    <3>4. CASE ~(q < 0)
      <4>1. Minus(q) = <<>>
        BY <3>4 DEF Minus
      <4>2. <<>> \in Seq(Chars)
        OBVIOUS
      <4> QED
        BY <3>1, <3>2, <4>1, <4>2, Zenon
    <3> QED
      BY <3>3, <3>4
  <2> DEFINE e == <<x>>
             f == LeastFirst[q]
             g == Minus(q)
  <2>2. e \in Seq(Chars) /\ f \in Seq(Chars) /\ g \in Seq(Chars)
    BY <2>1
  <2> HIDE DEF e, f, g
  <2>3. (e \o f) \o g = e \o (f \o g)
    BY ONLY <2>2, ConcatIsAssociative
  <2> QED
    BY <1>3, <1>7, <2>3, Zenon DEF Written, e, f, g
<1>9. Convert(v) = Reversed(Written(v)) /\ Convert(q) = Reversed(Written(q))
  BY Zenon DEF Convert, Written, Minus
<1>10. Convert(v) = Append(Convert(q), x)
  BY <1>2, <1>6, <1>8, <1>9, ReversedAppends
<1> DEFINE c == Convert(q)
<1>11. /\ c \in Seq(Chars) /\ Len(c) >= First(v) /\ ReadsAs(c, q)
  BY <1>6, <1>7
<1>12. LeastFirst[v] \in Seq(Digit) /\ Written(v) \in Seq(Chars)
  <2>1. <<x>> \in Seq(Digit) /\ <<x>> \in Seq(Chars)
    BY <1>2
  <2>2. <<x>> \o LeastFirst[q] \in Seq(Digit)
    BY <1>6, <2>1, ConcatProperties
  <2>3. <<x>> \o Written(q) \in Seq(Chars)
    BY <1>6, <2>1, ConcatProperties
  <2> QED
    BY <1>3, <1>8, <2>2, <2>3
<1> HIDE DEF c
<1>13. c # <<>> /\ First(v) \in 1 .. Len(c)
  <2>1. First(v) \in {1, 2} /\ Len(c) \in Nat
    BY <1>11 DEF First
  <2> QED
    BY <1>11, <2>1
<1>14. /\ Append(c, x) \in Seq(Chars) /\ Len(Append(c, x)) >= First(v)
       /\ Append(c, x)[First(v)] = c[First(v)]
  <2>1. /\ Append(c, x) \in Seq(Chars) /\ Len(Append(c, x)) = Len(c) + 1
        /\ \A k \in 1 .. Len(c) : Append(c, x)[k] = c[k]
    BY <1>2, <1>11
  <2>2. First(v) \in {1, 2} /\ Len(c) \in Nat
    BY <1>11 DEF First
  <2> QED
    BY <1>11, <1>13, <2>1, <2>2
<1>15. /\ Number(c) = q /\ (IsNegative(c) <=> q < 0)
       /\ c[First(v)] # "0"
  <2>1. Number(c) = q /\ (IsNegative(c) <=> q < 0)
        /\ (c[IF q < 0 THEN 2 ELSE 1] = "0" => q = 0)
    BY <1>11 DEF ReadsAs
  <2> QED
    BY <1>5, <1>7, <2>1 DEF First
<1>16. Number(Append(c, x)) = v /\ (IsNegative(Append(c, x)) <=> v < 0)
  <2>1. /\ Number(Append(c, x)) = 10 * q + Sign(c) * DigitValue(x)
        /\ IsNegative(Append(c, x)) <=> IsNegative(c)
    BY <1>2, <1>11, <1>13, <1>15, NumberAppend
  <2>2. Sign(c) = IF v < 0 THEN -1 ELSE 1
    BY <1>1, <1>15 DEF Sign
  <2>3. Sign(c) * DigitValue(x) = Remainder(v)
    BY <1>1, <1>2, <2>2
  <2> QED
    BY <1>1, <1>15, <2>1, <2>3
<1>17. ReadsAs(Append(c, x), v)
  BY <1>14, <1>15, <1>16 DEF ReadsAs, First
<1> QED
  BY <1>10, <1>12, <1>14, <1>17 DEF Converts, c

(* The digits of every number, least first, read as the number.            *)
LEMMA ConvertsAll ==
    ASSUME NEW v \in Int
    PROVE  Converts(v)
<1> DEFINE T == {n \in Nat : \A i \in -n .. n : Converts(i)}
<1>1. 0 \in T
  <2> SUFFICES ASSUME NEW i \in -0 .. 0 PROVE Converts(i)
    OBVIOUS
  <2>1. i = 0 /\ i \in Int
    OBVIOUS
  <2>2. Quotient(i) = 0
    BY <2>1 DEF Quotient
  <2> QED
    BY <2>1, <2>2, OneDigitConverts
<1>2. ASSUME NEW n \in Nat, n \in T PROVE n + 1 \in T
  <2> SUFFICES ASSUME NEW i \in -(n + 1) .. n + 1 PROVE Converts(i)
    OBVIOUS
  <2>1. i \in Int /\ Quotient(i) \in -n .. n
    BY LastDigit
  <2>2. Converts(Quotient(i))
    BY <1>2, <2>1
  <2> QED
    BY <2>1, <2>2, OneDigitConverts, OneMoreDigitConverts
<1> HIDE DEF T
<1>3. Nat \subseteq T
  BY <1>1, <1>2, SetInduction
<1>4. Magnitude(v) \in Nat /\ v \in -Magnitude(v) .. Magnitude(v)
  BY DEF Magnitude
<1> QED
  BY <1>3, <1>4 DEF T

(* What convert writes reads as the number it was given, the smallest one  *)
(* included, and has no leading zero (LogStream.cc:10-27).                 *)
THEOREM ConvertReadsBack ==
    ASSUME NEW v \in Int
    PROVE  ReadsAs(Convert(v), v)
BY ConvertsAll DEF Converts

------------------------------------------------------------------------------
(* The pieces of a stream are what was inserted, each number with the      *)
(* characters convert made of it.                                          *)

Texts == TextLengths \cup LevelNames \cup FileNames \cup {kTime, 1}

Streamed ==
    {TextItem(n) : n \in Texts} \cup {IntItem(v) : v \in IntValues}
        \cup {DoubleItem(n) : n \in Nat}

Pieces ==
    {piece \in Streamed \X Seq(Chars) :
        piece[1].type = "int" => piece[2] = Convert(piece[1].arg)}

LEMMA IntegersAreStreamed == \A item \in Streamed : item.type = "int" => item.arg \in Int
<1> TAKE item \in Streamed
<1>1. CASE item \in {TextItem(n) : n \in Texts}
  <2>1. item.type = "text"
    BY <1>1 DEF TextItem
  <2> QED
    BY <2>1
<1>2. CASE item \in {IntItem(v) : v \in IntValues}
  <2>1. item.arg \in IntValues
    BY <1>2 DEF IntItem
  <2> QED
    BY <2>1, IntAssumption
<1>3. CASE item \in {DoubleItem(n) : n \in Nat}
  <2>1. item.type = "double"
    BY <1>3 DEF DoubleItem
  <2> QED
    BY <2>1
<1> QED
  BY <1>1, <1>2, <1>3 DEF Streamed

(* What an operator << keeps of an item is its conversion.                 *)
LEMMA PieceIs ==
    ASSUME NEW item \in Streamed
    PROVE  IF item.type = "int" THEN <<item, Convert(item.arg)>> \in Pieces
                                ELSE <<item, <<>>>> \in Pieces
<1>1. CASE item.type = "int"
  <2>1. item.arg \in Int
    BY <1>1, IntegersAreStreamed
  <2>2. Convert(item.arg) \in Seq(Chars)
    BY <2>1, ConvertsAll DEF Converts
  <2> QED
    BY <1>1, <2>2 DEF Pieces
<1>2. CASE item.type # "int"
  <2>1. <<>> \in Seq(Chars)
    OBVIOUS
  <2> QED
    BY <1>2, <2>1 DEF Pieces
<1> QED
  BY <1>1, <1>2

(* An operator << keeps the pieces of a stream and adds at most its own.   *)
LEMMA InsertKeepsPieces ==
    ASSUME NEW s, s.pieces \in Seq(Pieces), NEW item \in Streamed
    PROVE  Insert(s, item).pieces \in Seq(Pieces)
<1>1. \A other, chars, len, written :
         Keep(s, other, chars, len, written).pieces = Append(s.pieces, <<other, chars>>)
  BY DEF Keep
<1>2. \A other : Drop(s, other).pieces = s.pieces
  BY DEF Drop
<1>3. CASE item.type = "int"
  <2>1. Append(s.pieces, <<item, Convert(item.arg)>>) \in Seq(Pieces)
    <3>1. PICK piece \in Pieces : piece = <<item, Convert(item.arg)>>
      BY <1>3, PieceIs, Zenon
    <3>2. Append(s.pieces, piece) \in Seq(Pieces)
      OBVIOUS
    <3> QED
      BY <3>1, <3>2, Zenon
  <2>2. Insert(s, item) = FormatInteger(s, item)
    BY <1>3 DEF Insert
  <2> QED
    BY <1>1, <1>2, <2>1, <2>2 DEF FormatInteger
<1>4. CASE item.type # "int"
  <2>1. Append(s.pieces, <<item, <<>>>>) \in Seq(Pieces)
    <3>1. PICK piece \in Pieces : piece = <<item, <<>>>>
      BY <1>4, PieceIs, Zenon
    <3>2. Append(s.pieces, piece) \in Seq(Pieces)
      OBVIOUS
    <3> QED
      BY <3>1, <3>2, Zenon
  <2>2. Insert(s, item) = AppendText(s, item) \/ Insert(s, item) = FormatDouble(s, item)
    BY <1>4 DEF Insert
  <2>3. AppendText(s, item).pieces \in Seq(Pieces)
    <3>1. CASE Avail(s) > AsInt(item.arg)
      <4>1. AppendText(s, item) = Keep(s, item, <<>>, item.arg, item.arg)
        BY <3>1 DEF AppendText
      <4>2. Keep(s, item, <<>>, item.arg, item.arg).pieces
              = Append(s.pieces, <<item, <<>>>>)
        BY DEF Keep
      <4> QED
        BY <2>1, <4>1, <4>2, Zenon
    <3>2. CASE ~(Avail(s) > AsInt(item.arg))
      <4>1. AppendText(s, item) = Drop(s, item)
        BY <3>2 DEF AppendText
      <4> QED
        BY <1>2, <4>1
    <3> QED
      BY <3>1, <3>2
  <2>4. FormatDouble(s, item).pieces \in Seq(Pieces)
    BY <1>1, <1>2, <2>1 DEF FormatDouble
  <2> QED
    BY <2>2, <2>3, <2>4
<1> QED
  BY <1>3, <1>4

(* The header of a line is made of items too.                              *)
LEMMA HeaderKeepsPieces ==
    ASSUME NEW level \in LevelNames, NEW file \in FileNames, NEW line \in LineNumbers
    PROVE  Header(level, file, line).pieces \in Seq(Pieces)
<1>1. /\ TextItem(kTime) \in Streamed /\ TextItem(level) \in Streamed
      /\ TextItem(file) \in Streamed /\ TextItem(1) \in Streamed
      /\ IntItem(line) \in Streamed
  BY LineAssumption DEF Streamed, Texts
<1> DEFINE s1 == Insert(EmptyStream, TextItem(kTime))
           s2 == Insert(s1, TextItem(level))
           s3 == Insert(s2, TextItem(file))
           s4 == Insert(s3, TextItem(1))
           s5 == Insert(s4, IntItem(line))
           s6 == Insert(s5, TextItem(1))
<1>2. Header(level, file, line) = s6
  BY DEF Header
<1>3. s1.pieces \in Seq(Pieces)
  <2>1. EmptyStream.pieces \in Seq(Pieces)
    BY DEF EmptyStream
  <2> QED
    BY <1>1, <2>1, InsertKeepsPieces
<1> HIDE DEF s1
<1>4. s2.pieces \in Seq(Pieces)
  BY <1>1, <1>3, InsertKeepsPieces
<1> HIDE DEF s2
<1>5. s3.pieces \in Seq(Pieces)
  BY <1>1, <1>4, InsertKeepsPieces
<1> HIDE DEF s3
<1>6. s4.pieces \in Seq(Pieces)
  BY <1>1, <1>5, InsertKeepsPieces
<1> HIDE DEF s4
<1>7. s5.pieces \in Seq(Pieces)
  BY <1>1, <1>6, InsertKeepsPieces
<1> HIDE DEF s5
<1>8. s6.pieces \in Seq(Pieces)
  BY <1>1, <1>7, InsertKeepsPieces
<1> HIDE DEF s6
<1> QED
  BY <1>2, <1>8

PiecesInv ==
    /\ DOMAIN stream = Threads
    /\ \A t \in Threads : stream[t].pieces \in Seq(Pieces)

(* Every piece that a step adds to a stream is the conversion of its item. *)
LEMMA PiecesInductive == PiecesInv /\ [Next]_vars => PiecesInv'
<1> SUFFICES ASSUME PiecesInv, [Next]_vars PROVE PiecesInv'
  OBVIOUS
<1>0. DOMAIN stream = Threads /\ \A t \in Threads : stream[t].pieces \in Seq(Pieces)
  BY DEF PiecesInv
<1>1. CASE UNCHANGED stream
  BY <1>0, <1>1 DEF PiecesInv
<1>2. ASSUME NEW t \in Threads, NEW s, stream' = [stream EXCEPT ![t] = s],
             s.pieces \in Seq(Pieces)
      PROVE  PiecesInv'
  BY <1>0, <1>2 DEF PiecesInv
<1>3. ASSUME NEW t \in Threads, WriteHeader(t)
      PROVE  PiecesInv'
  BY <1>2, <1>3, HeaderKeepsPieces DEF WriteHeader
<1>4. ASSUME NEW t \in Threads, StreamItem(t)
      PROVE  PiecesInv'
  <2>1. PICK item \in Items : stream' = [stream EXCEPT ![t] = Insert(stream[t], item)]
    BY <1>4 DEF StreamItem
  <2>2. item \in Streamed
    BY DoubleAssumption DEF Items, Streamed, Texts
  <2>3. Insert(stream[t], item).pieces \in Seq(Pieces)
    BY <1>0, <2>2, InsertKeepsPieces
  <2> QED
    BY <1>2, <2>1, <2>3
<1>5. ASSUME NEW t \in Threads, EndLine(t)
      PROVE  PiecesInv'
  <2>1. TextItem(1) \in Streamed
    BY DEF Streamed, Texts
  <2>2. Insert(stream[t], TextItem(1)).pieces \in Seq(Pieces)
    BY <1>0, <2>1, InsertKeepsPieces
  <2> QED
    BY <1>2, <1>5, <2>2 DEF EndLine
<1>6. ASSUME NEW t \in Threads, Output(t)
      PROVE  PiecesInv'
  <2>1. EmptyStream.pieces \in Seq(Pieces)
    BY DEF EmptyStream
  <2> QED
    BY <1>2, <1>6, <2>1 DEF Output
<1>7. CASE Tick
  BY <1>1, <1>7 DEF Tick
<1>8. ASSUME NEW t \in Threads,
             ReadClock(t) \/ BeginLocaltime(t) \/ EndLocaltime(t) \/ Strftime(t)
      PROVE  PiecesInv'
  BY <1>1, <1>8 DEF ReadClock, BeginLocaltime, EndLocaltime, Strftime
<1> QED
  BY <1>1, <1>3, <1>4, <1>5, <1>6, <1>7, <1>8 DEF Next, Statement, vars

LEMMA PiecesInvariant == Spec => []PiecesInv
<1>1. Init => PiecesInv
  <2>1. EmptyStream.pieces \in Seq(Pieces)
    BY DEF EmptyStream
  <2> QED
    BY <2>1 DEF Init, PiecesInv
<1> QED
  BY <1>1, PiecesInductive, PTL DEF Spec

(* LogStream.cc:10-27: every integer in a stream is written as the decimal *)
(* number it is.                                                           *)
THEOREM NumbersAlwaysReadBack == Spec => []NumbersReadBack
<1>1. PiecesInv => NumbersReadBack
  <2> SUFFICES ASSUME PiecesInv, NEW t \in Threads, NEW k \in DOMAIN stream[t].pieces,
                      stream[t].pieces[k][1].type = "int"
               PROVE  ReadsAs(stream[t].pieces[k][2], stream[t].pieces[k][1].arg)
    BY DEF NumbersReadBack
  <2>1. stream[t].pieces \in Seq(Pieces)
    BY DEF PiecesInv
  <2>2. PICK piece \in Pieces : piece = stream[t].pieces[k]
    BY <2>1
  <2>3. piece[1] \in Streamed /\ piece[1].type = "int" /\ piece[2] = Convert(piece[1].arg)
    BY <2>2 DEF Pieces
  <2>4. piece[1].arg \in Int
    BY <2>3, IntegersAreStreamed
  <2>5. ReadsAs(Convert(piece[1].arg), piece[1].arg)
    BY <2>4, ConvertReadsBack
  <2> QED
    BY <2>2, <2>3, <2>5
<1> QED
  BY <1>1, PiecesInvariant, PTL

(* LogStream.h:22: in a program that streams no text longer than an int    *)
(* can tell, nothing is ever written past the end of a buffer.             *)
THEOREM ShortTextsNeverOverrun ==
    ASSUME TextLengths \subseteq 0 .. IntMax
    PROVE  Spec => [](\A t \in Threads : InBuffer(stream[t]))
<1>1. \A n \in Texts : ~(n > IntMax)
  BY HeaderAssumption, IntMaxAssumption DEF Texts
<1>2. ASSUME NEW item \in Streamed, item.type = "text"
      PROVE  ~(item.arg > IntMax)
  <2>1. CASE item \in {TextItem(n) : n \in Texts}
    BY <1>1, <2>1 DEF TextItem
  <2>2. CASE item \in {IntItem(v) : v \in IntValues} \cup {DoubleItem(n) : n \in Nat}
    BY <1>2, <2>2 DEF IntItem, DoubleItem
  <2> QED
    BY <2>1, <2>2 DEF Streamed
<1>3. ASSUME PiecesInv, NEW t \in Threads
      PROVE  ~TooLong(stream[t])
  <2> SUFFICES ASSUME NEW k \in DOMAIN stream[t].pieces,
                      stream[t].pieces[k][1].type = "text",
                      stream[t].pieces[k][1].arg > IntMax
               PROVE  FALSE
    BY DEF TooLong
  <2>1. stream[t].pieces \in Seq(Pieces)
    BY <1>3 DEF PiecesInv
  <2>2. PICK piece \in Pieces : piece = stream[t].pieces[k]
    BY <2>1
  <2>3. piece[1] \in Streamed
    BY DEF Pieces
  <2> QED
    BY <1>2, <2>2, <2>3
<1>4. PiecesInv /\ NeverOverruns => \A t \in Threads : InBuffer(stream[t])
  BY <1>3 DEF NeverOverruns
<1> QED
  BY <1>4, PiecesInvariant, BufferIsSafe, PTL
==============================================================================
