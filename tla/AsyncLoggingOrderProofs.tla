------------------------ MODULE AsyncLoggingOrderProofs ------------------------
(***************************************************************************)
(* Proofs about the lines in the buffers of AsyncLogging: what a step does *)
(* to Unsaved, to the file and to the notices in it, for any threads,      *)
(* buffer size, overload limit and number of lines.                        *)
(***************************************************************************)
EXTENDS AsyncLoggingProofs, SequenceLemmas

Taken == SubSeq(buffersToWrite, written + 1, Len(buffersToWrite))

(* Unsaved with the buffers that are being written under a name.           *)
LEMMA UnsavedIs == Unsaved = (FlattenSeq(Taken) \o FlattenSeq(buffers_)) \o currentBuffer_
BY DEF Unsaved, Taken

(* Buffers hold lines, and so does what they hold together.                *)
LEMMA BufferTypes ==
    ASSUME Inductive
    PROVE  /\ Taken \in Seq(Seq(Lines)) /\ buffersToWrite \in Seq(Seq(Lines))
           /\ buffers_ \in Seq(Seq(Lines))
           /\ currentBuffer_ \in Seq(Lines)
           /\ FlattenSeq(Taken) \in Seq(Lines)
           /\ FlattenSeq(buffers_) \in Seq(Lines)
           /\ FlattenSeq(Taken) \o FlattenSeq(buffers_) \in Seq(Lines)
           /\ Unsaved \in Seq(Lines)
<1>1. /\ buffersToWrite \in Seq(Seq(Lines)) /\ buffers_ \in Seq(Seq(Lines))
      /\ currentBuffer_ \in Seq(Lines)
  BY DEF Inductive, TypeOK, BuffersSuffice, Pointer
<1>2. Taken \in Seq(Seq(Lines))
  BY <1>1 DEF Taken, Inductive, TypeOK
<1>3. FlattenSeq(Taken) \in Seq(Lines) /\ FlattenSeq(buffers_) \in Seq(Lines)
  BY <1>1, <1>2, FlattenType
<1>4. FlattenSeq(Taken) \o FlattenSeq(buffers_) \in Seq(Lines)
  BY <1>3, ConcatProperties
<1>5. Unsaved \in Seq(Lines)
  BY <1>1, <1>4, UnsavedIs, ConcatProperties
<1> QED
  BY <1>1, <1>2, <1>3, <1>4, <1>5

(* A spare buffer that is at hand is an empty one.                         *)
LEMMA Emptied ==
    ASSUME LinesInv
    PROVE  /\ nextBuffer_ \in {NULL, <<>>}
           /\ newBuffer1 # NULL => newBuffer1 = <<>>
           /\ newBuffer2 # NULL => newBuffer2 = <<>>
BY DEF LinesInv, SparesAreEmpty

------------------------------------------------------------------------------
(* What each kind of step does to the lines.                               *)

Stays == UNCHANGED <<Unsaved, file, logged>>

Logs(t) ==
    /\ Line(t, logged[t] + 1) \in Lines
    /\ Unsaved' = Append(Unsaved, Line(t, logged[t] + 1))
    /\ logged' = [logged EXCEPT ![t] = @ + 1]
    /\ UNCHANGED file

Saves(first, rest) ==
    /\ Unsaved = first \o rest
    /\ Unsaved' = rest
    /\ file' = file \o first
    /\ UNCHANGED logged

GivesUp(kept, dropped, rest, n) ==
    /\ Unsaved = kept \o (dropped \o rest)
    /\ Unsaved' = kept \o rest
    /\ file' = Append(file, Line(Backend, n))
    /\ n <= Len(dropped) /\ Len(dropped) <= n * (Size - 1)
    /\ UNCHANGED logged

(* append() logs the next line of its thread, whether or not the buffer    *)
(* overflows (AsyncLogging.cc:38-54).                                      *)
LEMMA AppendLogs ==
    ASSUME LinesInv, NEW t \in FrontEnds, AppendFits(t) \/ AppendOverflows(t)
    PROVE  Logs(t)
<1> DEFINE line == Line(t, logged[t] + 1)
           before == FlattenSeq(Taken) \o FlattenSeq(buffers_)
<1>0. Inductive
  BY DEF LinesInv
<1>1. /\ logged \in [FrontEnds -> 0..MaxLines] /\ logged[t] < MaxLines
      /\ logged' = [logged EXCEPT ![t] = @ + 1]
  BY <1>0 DEF Inductive, TypeOK, AppendFits, AppendOverflows, CanLog
<1>2. logged[t] + 1 \in 1..MaxLines
  BY <1>1, LogAssumption
<1>3. line \in Lines /\ line = Line(t, logged'[t])
  BY <1>1, <1>2 DEF Line, Lines
<1>4. file' = file /\ Taken' = Taken
  <2>1. UNCHANGED <<file, buffersToWrite, written>>
    BY DEF AppendFits, AppendOverflows, backBuffers, output
  <2> QED
    BY <2>1 DEF Taken
<1>5. before \in Seq(Lines) /\ currentBuffer_ \in Seq(Lines) /\ Unsaved \in Seq(Lines)
      /\ Unsaved = before \o currentBuffer_
  BY <1>0, BufferTypes, UnsavedIs
<1>6. Unsaved' = (FlattenSeq(Taken) \o FlattenSeq(buffers_')) \o currentBuffer_'
  <2>1. Unsaved' = (FlattenSeq(Taken') \o FlattenSeq(buffers_')) \o currentBuffer_'
    BY DEF Unsaved, Taken
  <2> QED
    BY <1>4, <2>1
<1> HIDE DEF line
<1>7. CASE AppendFits(t)
  <2>1. buffers_' = buffers_ /\ currentBuffer_' = Append(currentBuffer_, line)
    BY <1>3, <1>7 DEF AppendFits, AppendTo
  <2>2. Unsaved' = before \o Append(currentBuffer_, line)
    BY <1>6, <2>1
  <2> HIDE DEF before
  <2>3. Unsaved' = Append(Unsaved, line)
    BY <1>3, <1>5, <2>2, AppendToConcat
  <2> QED
    BY <1>1, <1>3, <1>4, <2>3 DEF Logs, line
<1>8. CASE AppendOverflows(t)
  <2>1. buffers_' = Append(buffers_, currentBuffer_)
    BY <1>8 DEF AppendOverflows
  <2>2. currentBuffer_' = <<line>>
    <3>1. currentBuffer_' = AppendTo(<<>>, line)
      BY <1>3, <1>8, Emptied DEF AppendOverflows
    <3>2. Fits(<<>>)
      BY LogAssumption DEF Fits
    <3> QED
      BY <3>1, <3>2 DEF AppendTo
  <2>3. FlattenSeq(buffers_') = FlattenSeq(buffers_) \o currentBuffer_
    BY <1>0, <2>1, BufferTypes, FlattenAppend
  <2>4. FlattenSeq(Taken) \o FlattenSeq(buffers_') = Unsaved
    <3>1. /\ FlattenSeq(Taken) \in Seq(Lines) /\ FlattenSeq(buffers_) \in Seq(Lines)
          /\ currentBuffer_ \in Seq(Lines)
      BY <1>0, BufferTypes
    <3>2. (FlattenSeq(Taken) \o FlattenSeq(buffers_)) \o currentBuffer_
            = FlattenSeq(Taken) \o (FlattenSeq(buffers_) \o currentBuffer_)
      BY <3>1, ConcatIsAssociative
    <3> QED
      BY <1>5, <2>3, <3>2
  <2>5. Unsaved' = Unsaved \o <<line>>
    BY <1>6, <2>2, <2>4
  <2>6. Unsaved' = Append(Unsaved, line)
    BY <1>3, <1>5, <2>5, AppendIsConcat
  <2> QED
    BY <1>1, <1>3, <1>4, <2>6 DEF Logs, line
<1> QED
  BY <1>7, <1>8

(* Handing the buffers over moves no line (AsyncLogging.cc:79-86).         *)
LEMMA SwapStays ==
    ASSUME LinesInv, back \in {"lock", "woken"}, Swap
    PROVE  Stays
<1>0. Inductive
  BY DEF LinesInv
<1>1. buffersToWrite = <<>> /\ written = 0 /\ newBuffer1 = <<>>
  BY <1>0, Emptied DEF Inductive, BuffersSuffice, Placed
<1>2. buffersToWrite' = Append(buffers_, currentBuffer_) /\ written' = 0
      /\ buffers_' = <<>> /\ currentBuffer_' = <<>>
  BY <1>1 DEF Swap
<1>3. buffers_ \in Seq(Seq(Lines)) /\ currentBuffer_ \in Seq(Lines)
      /\ FlattenSeq(buffers_) \in Seq(Lines)
  BY <1>0, BufferTypes
<1> DEFINE b == FlattenSeq(buffers_)
<1>4. Unsaved = b \o currentBuffer_
  <2>1. Taken = <<>>
    BY <1>1 DEF Taken
  <2>2. <<>> \o b = b
    BY <1>3, ConcatEmptySeq
  <2> HIDE DEF b
  <2> QED
    BY <2>1, <2>2, FlattenEmpty, UnsavedIs DEF b
<1>5. b \o currentBuffer_ \in Seq(Lines)
  BY <1>3, ConcatProperties
<1>6. Unsaved' = ((b \o currentBuffer_) \o <<>>) \o <<>>
  <2>1. Taken' = buffersToWrite'
    <3>1. buffersToWrite' \in Seq(Seq(Lines))
      BY <1>2, <1>3
    <3>2. SubSeq(buffersToWrite', 1, Len(buffersToWrite')) = buffersToWrite'
      BY <3>1, SubSeqFull
    <3> QED
      BY <1>2, <3>2 DEF Taken
  <2>2. FlattenSeq(Taken') = b \o currentBuffer_
    BY <1>2, <1>3, <2>1, FlattenAppend
  <2>3. Unsaved' = (FlattenSeq(Taken') \o FlattenSeq(buffers_')) \o currentBuffer_'
    BY DEF Unsaved, Taken
  <2>4. FlattenSeq(buffers_') = <<>> /\ currentBuffer_' = <<>>
    BY <1>2, FlattenEmpty
  <2> HIDE DEF b
  <2> QED
    BY <2>2, <2>3, <2>4, Zenon
<1> HIDE DEF b
<1>7. Unsaved' = Unsaved
  BY <1>4, <1>5, <1>6, ConcatEmptySeq
<1> QED
  BY <1>7 DEF Stays, Swap, output

(* All but two of the buffers are dropped (AsyncLogging.cc:90-98).         *)
LEMMA OverloadGivesUp ==
    ASSUME LinesInv, Overload, Len(buffersToWrite) > DropAbove
    PROVE  \E kept, dropped, rest \in Seq(Lines), n \in Nat \ {0} :
              GivesUp(kept, dropped, rest, n)
<1>0. Inductive
  BY DEF LinesInv
<1>1. /\ written = 0 /\ written' = 0 /\ buffersToWrite \in Seq(Seq(Lines))
      /\ Len(buffersToWrite) \in Nat /\ Len(buffersToWrite) > 2
  BY <1>0, BufferTypes, LogAssumption DEF Inductive, Placed, Overload
<1>2. /\ buffersToWrite' = SubSeq(buffersToWrite, 1, 2)
      /\ file' = Append(file, Line(Backend, Len(buffersToWrite) - 2))
      /\ buffers_' = buffers_ /\ currentBuffer_' = currentBuffer_ /\ logged' = logged
  BY DEF Overload, frontBuffers
<1> DEFINE b == buffersToWrite
           two == SubSeq(b, 1, 2)
           others == SubSeq(b, 3, Len(b))
           n == Len(b) - 2
<1>3. /\ two \in Seq(Seq(Lines)) /\ others \in Seq(Seq(Lines)) /\ Len(two) = 2
      /\ Len(others) = n /\ n \in Nat \ {0}
      /\ \A i \in 1..n : others[i] = b[i + 2] /\ i + 2 \in 1..Len(b)
      /\ two \o others = b
  <2> HIDE DEF b
  <2>1. 2 \in 1..Len(b) /\ 2 + 1 = 3 /\ n \in Nat \ {0}
        /\ \A i \in 1..n : i + 2 \in 1..Len(b)
    <3>1. PICK m \in Nat : m = Len(b) /\ m > 2
      BY <1>1 DEF b
    <3>2. 2 \in 1..m /\ m - 2 \in Nat \ {0} /\ \A i \in 1..m - 2 : i + 2 \in 1..m
      BY <3>1
    <3> QED
      BY ONLY <3>1, <3>2
  <2> QED
    BY ONLY <1>1, <2>1, SplitAt DEF b
<1>4. SubSeq(b, 1, Len(b)) = b
  BY <1>1, SubSeqFull
<1>5. Taken = b /\ Taken' = two
  <2>1. SubSeq(two, 1, Len(two)) = two
    BY <1>3, SubSeqFull
  <2> QED
    BY <1>1, <1>2, <1>4, <2>1 DEF Taken
<1> DEFINE kept == FlattenSeq(two)
           dropped == FlattenSeq(others)
           rest == FlattenSeq(buffers_) \o currentBuffer_
<1>6. FlattenSeq(b) = kept \o dropped
  BY <1>3, FlattenConcat
<1>7. /\ kept \in Seq(Lines) /\ dropped \in Seq(Lines)
      /\ FlattenSeq(buffers_) \in Seq(Lines) /\ currentBuffer_ \in Seq(Lines)
      /\ rest \in Seq(Lines)
  <2>1. FlattenSeq(buffers_) \in Seq(Lines) /\ currentBuffer_ \in Seq(Lines)
    BY <1>0, BufferTypes
  <2> QED
    BY <1>3, <2>1, FlattenType, ConcatProperties
<1>8. n <= Len(dropped) /\ Len(dropped) <= n * (Size - 1)
  <2>1. Size - 1 \in Nat
    BY LogAssumption
  <2>2. \A i \in 1..Len(b) : Len(b[i]) \in 1..Size - 1
    BY <1>1 DEF LinesInv, BuffersAreFilled
  <2>3. \A i \in 1..Len(others) : Len(others[i]) \in 1..Size - 1
    BY <1>3, <2>2
  <2> HIDE DEF others
  <2> QED
    BY <1>3, <2>1, <2>3, FlattenLength
<1>9. Unsaved = ((kept \o dropped) \o FlattenSeq(buffers_)) \o currentBuffer_
  BY <1>5, <1>6, UnsavedIs
<1>10. Unsaved' = (kept \o FlattenSeq(buffers_)) \o currentBuffer_
  <2>1. Unsaved' = (FlattenSeq(Taken') \o FlattenSeq(buffers_')) \o currentBuffer_'
    BY DEF Unsaved, Taken
  <2> QED
    BY <1>2, <1>5, <2>1
<1> DEFINE full == FlattenSeq(buffers_)
<1> HIDE DEF kept, dropped, full, n
<1>11. Unsaved = kept \o (dropped \o rest) /\ Unsaved' = kept \o rest
  <2>1. /\ Cat(Cat(Cat(kept, dropped), full), currentBuffer_)
              = Cat(kept, Cat(dropped, Cat(full, currentBuffer_)))
        /\ Cat(Cat(kept, full), currentBuffer_) = Cat(kept, Cat(full, currentBuffer_))
    <3>1. /\ kept \in Seq(Lines) /\ dropped \in Seq(Lines) /\ full \in Seq(Lines)
          /\ currentBuffer_ \in Seq(Lines)
      BY <1>7 DEF full
    <3> QED
      BY ONLY <3>1, CatIsAssociative
  <2> QED
    BY <1>9, <1>10, <2>1, Zenon DEF full, Cat
<1>12. file' = Append(file, Line(Backend, n))
  BY <1>2 DEF n
<1>13. GivesUp(kept, dropped, rest, n)
  BY <1>2, <1>8, <1>11, <1>12 DEF GivesUp
<1>14. n \in Nat \ {0}
  BY <1>3 DEF n
<1> QED
  BY <1>7, <1>13, <1>14

(* Writing a buffer saves the oldest lines (AsyncLogging.cc:101-104).      *)
LEMMA WriteSaves ==
    ASSUME LinesInv, WriteBuffer
    PROVE  \E first, rest \in Seq(Lines) : Saves(first, rest)
<1>0. Inductive
  BY DEF LinesInv
<1> DEFINE b == buffersToWrite
           first == b[written + 1]
           later == SubSeq(b, written + 2, Len(b))
           full == FlattenSeq(buffers_)
           rest == FlattenSeq(later) \o (full \o currentBuffer_)
<1>1. /\ b \in Seq(Seq(Lines)) /\ written \in Nat /\ written < Len(b)
      /\ full \in Seq(Lines) /\ currentBuffer_ \in Seq(Lines)
  BY <1>0, BufferTypes DEF WriteBuffer, Inductive, TypeOK
<1>2. /\ written' = written + 1 /\ b' = b /\ file' = file \o first
      /\ buffers_' = buffers_ /\ currentBuffer_' = currentBuffer_ /\ logged' = logged
  BY DEF WriteBuffer, frontBuffers
<1>3. first \in Seq(Lines) /\ later \in Seq(Seq(Lines))
  BY <1>1
<1>4. Taken = <<first>> \o later
  <2>1. written + 1 \in 1..Len(b) /\ Len(b) \in written + 1 .. Len(b)
    BY <1>1
  <2>2. SubSeq(b, written + 1, Len(b)) = <<b[written + 1]>> \o SubSeq(b, written + 1 + 1, Len(b))
    BY <1>1, <2>1, SubSeqRecursiveFirst
  <2>3. written + 1 + 1 = written + 2
    BY <1>1
  <2> QED
    BY <2>2, <2>3, Zenon DEF Taken
<1>5. FlattenSeq(Taken) = first \o FlattenSeq(later)
  <2>1. <<first>> \in Seq(Seq(Lines))
    BY <1>3
  <2> HIDE DEF first, later
  <2> QED
    <3>1. FlattenSeq(<<first>> \o later) = FlattenSeq(<<first>>) \o FlattenSeq(later)
      BY <1>3, <2>1, FlattenConcat
    <3> QED
      BY ONLY <1>4, <3>1, FlattenOne
<1>6. FlattenSeq(Taken') = FlattenSeq(later)
  <2>1. Taken' = SubSeq(b, written + 1 + 1, Len(b))
    BY <1>2, Zenon DEF Taken
  <2>2. written + 1 + 1 = written + 2
    BY <1>1
  <2> QED
    BY <2>1, <2>2
<1>7. Unsaved = ((first \o FlattenSeq(later)) \o full) \o currentBuffer_
  BY <1>5, UnsavedIs
<1>8. Unsaved' = (FlattenSeq(later) \o full) \o currentBuffer_
  <2>1. Unsaved' = (FlattenSeq(Taken') \o FlattenSeq(buffers_')) \o currentBuffer_'
    BY DEF Unsaved, Taken
  <2> QED
    BY <1>2, <1>6, <2>1
<1> DEFINE f == FlattenSeq(later)
<1>9. f \in Seq(Lines)
  BY <1>3, FlattenType
<1> HIDE DEF f, first, full
<1>10. Unsaved = first \o rest /\ Unsaved' = rest /\ rest \in Seq(Lines)
  <2>1. /\ Cat(Cat(Cat(first, f), full), currentBuffer_)
              = Cat(first, Cat(f, Cat(full, currentBuffer_)))
        /\ Cat(Cat(f, full), currentBuffer_) = Cat(f, Cat(full, currentBuffer_))
    <3>1. /\ first \in Seq(Lines) /\ f \in Seq(Lines) /\ full \in Seq(Lines)
          /\ currentBuffer_ \in Seq(Lines)
      BY <1>1, <1>3, <1>9
    <3> QED
      BY ONLY <3>1, CatIsAssociative
  <2>2. f \o (full \o currentBuffer_) \in Seq(Lines)
    BY <1>1, <1>9, ConcatProperties
  <2> QED
    BY <1>7, <1>8, <2>1, <2>2, Zenon DEF f, Cat
<1>11. file' = file \o first /\ UNCHANGED logged
  BY <1>2 DEF first
<1> HIDE DEF rest
<1>12. Saves(first, rest)
  BY <1>10, <1>11 DEF Saves
<1> QED
  BY <1>3, <1>10, <1>12 DEF first

(* Steps that touch no buffer, among them an Overload that drops nothing.  *)
Idles ==
    \/ Start \/ LatchWakesSpuriously \/ StopRunning \/ WaitForLatch
    \/ SignalStop \/ Join \/ EnterThread \/ TestRunning
    \/ LockFindsNone \/ BeginWait \/ Timeout
    \/ Overload /\ ~(Len(buffersToWrite) > DropAbove)
    \/ UNCHANGED vars

LEMMA IdlesTouchesNothing ==
    ASSUME Idles
    PROVE  UNCHANGED <<frontBuffers, backBuffers, file, logged>>
<1>1. CASE Overload /\ ~(Len(buffersToWrite) > DropAbove)
  BY <1>1 DEF Overload, frontBuffers, backBuffers
<1>2. CASE ~Overload
  BY <1>2
     DEF Idles, Start, LatchWakesSpuriously, StopRunning, WaitForLatch, SignalStop,
         Join, EnterThread, TestRunning, LockFindsNone, BeginWait, Timeout,
         output, vars
<1> QED
  BY <1>1, <1>2
     DEF Idles, Start, LatchWakesSpuriously, StopRunning, WaitForLatch, SignalStop,
         Join, EnterThread, TestRunning, LockFindsNone, BeginWait, Timeout,
         output, vars

(* The steps of the other threads, and recycling, leave the lines where    *)
(* they are (AsyncLogging.cc:105-125).                                     *)
LEMMA IdlesStays ==
    ASSUME Idles \/ Recycle, LinesInv
    PROVE  Stays
<1>0. Inductive
  BY DEF LinesInv
<1>1. CASE Idles
  <2>1. UNCHANGED <<buffersToWrite, written, buffers_, currentBuffer_, file, logged>>
    BY <1>1, IdlesTouchesNothing DEF frontBuffers, backBuffers
  <2> QED
    BY <2>1 DEF Stays, Unsaved
<1>2. CASE Recycle
  <2>1. /\ written = Len(buffersToWrite) /\ written' = 0 /\ buffersToWrite' = <<>>
        /\ UNCHANGED <<buffers_, currentBuffer_, file, logged>>
    BY <1>2 DEF Recycle, frontBuffers
  <2>2. Taken = <<>>
    BY <1>0, <2>1 DEF Taken, Inductive, TypeOK
  <2>3. Taken' = <<>>
    BY <2>1 DEF Taken
  <2>4. Unsaved' = (FlattenSeq(Taken') \o FlattenSeq(buffers_')) \o currentBuffer_'
    BY DEF Unsaved, Taken
  <2>5. Unsaved' = Unsaved
    BY <2>1, <2>2, <2>3, <2>4, UnsavedIs
  <2> QED
    BY <2>1, <2>5 DEF Stays
<1> QED
  BY <1>1, <1>2

(* Every step of the program is one of these to its lines.                 *)
LEMMA StepsOfLines ==
    ASSUME LinesInv, [Next]_vars
    PROVE  \/ Stays
           \/ \E t \in FrontEnds : Logs(t)
           \/ \E first, rest \in Seq(Lines) : Saves(first, rest)
           \/ \E kept, dropped, rest \in Seq(Lines), n \in Nat \ {0} :
                 GivesUp(kept, dropped, rest, n)
<1>1. CASE FrontEnd
  BY <1>1, AppendLogs DEF FrontEnd
<1>2. CASE LockFindsFull \/ Woken
  BY <1>2, SwapStays DEF LockFindsFull, Woken
<1>3. CASE Overload /\ Len(buffersToWrite) > DropAbove
  BY <1>3, OverloadGivesUp
<1>4. CASE WriteBuffer
  BY <1>4, WriteSaves
<1>5. CASE Idles \/ Recycle
  BY <1>5, IdlesStays
<1> QED
  BY <1>1, <1>2, <1>3, <1>4, <1>5 DEF Next, MainRuns, BackRuns, Idles

------------------------------------------------------------------------------
(* The spares stay empty and the buffers filled.                           *)

(* A buffer is empty when it becomes a spare, in every step.               *)
LEMMA SparesStayEmpty ==
    ASSUME LinesInv, [Next]_vars
    PROVE  SparesAreEmpty'
<1> USE DEF SparesAreEmpty
<1>0. {nextBuffer_, newBuffer1, newBuffer2} \subseteq {NULL, <<>>}
  BY DEF LinesInv
<1>1. CASE FrontEnd
  BY <1>0, <1>1 DEF FrontEnd, AppendFits, AppendOverflows, backBuffers
<1>2. CASE LockFindsFull \/ Woken
  BY <1>0, <1>2 DEF LockFindsFull, Woken, Swap
<1>3. CASE Overload \/ WriteBuffer \/ Recycle
  BY <1>0, <1>3 DEF Overload, WriteBuffer, Recycle, frontBuffers
<1>4. CASE Idles
  BY <1>0, <1>4, IdlesTouchesNothing DEF frontBuffers, backBuffers
<1> QED
  BY <1>1, <1>2, <1>3, <1>4 DEF Next, MainRuns, BackRuns, Idles

(* A buffer is put behind the others only when it holds a line, and none   *)
(* holds more than fits, in every step.                                    *)
LEMMA BuffersStayFilled ==
    ASSUME LinesInv, [Next]_vars
    PROVE  BuffersAreFilled'
<1>0. /\ Inductive /\ BuffersAreFilled
      /\ buffersToWrite \in Seq(Seq(Lines)) /\ buffers_ \in Seq(Seq(Lines))
      /\ currentBuffer_ \in Seq(Lines) /\ Size \in Nat /\ Size > 1
  BY BufferTypes, LogAssumption DEF LinesInv
<1>1. ASSUME NEW t \in FrontEnds, AppendFits(t) PROVE BuffersAreFilled'
  <2>1. /\ UNCHANGED <<buffers_, buffersToWrite>>
        /\ Size - Len(currentBuffer_) > 1
        /\ Len(currentBuffer_') = Len(currentBuffer_) + 1
    BY <1>0, <1>1 DEF AppendFits, Fits, AppendTo, backBuffers
  <2>2. Len(currentBuffer_') \in 1..Size - 1
    BY <1>0, <2>1
  <2> QED
    BY <1>0, <2>1, <2>2 DEF BuffersAreFilled
<1>2. ASSUME NEW t \in FrontEnds, AppendOverflows(t) PROVE BuffersAreFilled'
  <2>1. /\ buffers_' = Append(buffers_, currentBuffer_) /\ buffersToWrite' = buffersToWrite
        /\ ~(Size - Len(currentBuffer_) > 1)
    BY <1>2 DEF AppendOverflows, Fits, backBuffers
  <2>2. Len(currentBuffer_) \in 1..Size - 1
    <3>1. Len(currentBuffer_) \in 0..Size - 1
      BY <1>0 DEF BuffersAreFilled
    <3> QED
      BY <1>0, <2>1, <3>1
  <2>3. Len(currentBuffer_') = 1
    <3>1. currentBuffer_' = AppendTo(<<>>, Line(t, logged'[t]))
      BY <1>2, Emptied DEF AppendOverflows
    <3>2. Fits(<<>>)
      BY LogAssumption DEF Fits
    <3> QED
      BY <3>1, <3>2 DEF AppendTo
  <2>4. \A i \in 1..Len(buffers_') : Len(buffers_'[i]) \in 1..Size - 1
    <3>1. /\ Len(buffers_') = Len(buffers_) + 1
          /\ buffers_'[Len(buffers_) + 1] = currentBuffer_
          /\ \A i \in 1..Len(buffers_) : buffers_'[i] = buffers_[i]
      BY <1>0, <2>1
    <3>2. \A i \in 1..Len(buffers_) + 1 : i \in 1..Len(buffers_) \/ i = Len(buffers_) + 1
      BY <1>0
    <3>3. \A i \in 1..Len(buffers_) : Len(buffers_[i]) \in 1..Size - 1
      BY <1>0 DEF BuffersAreFilled
    <3> QED
      BY <2>2, <3>1, <3>2, <3>3
  <2>5. 1 \in 1..Size - 1 /\ 1 \in 0..Size - 1
    BY <1>0
  <2> QED
    BY <1>0, <2>1, <2>3, <2>4, <2>5 DEF BuffersAreFilled
<1>3. CASE LockFindsFull \/ Woken
  <2>1. /\ buffersToWrite' = Append(buffers_, currentBuffer_)
        /\ buffers_' = <<>> /\ currentBuffer_' = <<>>
    BY <1>0, <1>3, Emptied DEF LockFindsFull, Woken, Swap, Inductive, BuffersSuffice
  <2>2. /\ Len(buffersToWrite') = Len(buffers_) + 1
        /\ buffersToWrite'[Len(buffers_) + 1] = currentBuffer_
        /\ \A i \in 1..Len(buffers_) : buffersToWrite'[i] = buffers_[i]
    BY <1>0, <2>1
  <2>3. \A i \in 1..Len(buffers_) + 1 : i \in 1..Len(buffers_) \/ i = Len(buffers_) + 1
    BY <1>0
  <2>4. /\ \A i \in 1..Len(buffers_) : Len(buffers_[i]) \in 1..Size - 1
        /\ Len(currentBuffer_) \in (IF buffers_ = <<>> THEN 0 ELSE 1)..Size - 1
    BY <1>0 DEF BuffersAreFilled
  <2>5. Len(buffers_) + 1 > 1 <=> buffers_ # <<>>
    BY <1>0
  <2>6. \A i \in 1..Len(buffersToWrite') :
           Len(buffersToWrite'[i]) \in (IF Len(buffersToWrite') > 1 THEN 1 ELSE 0)..Size - 1
    <3> DEFINE least == IF Len(buffers_) + 1 > 1 THEN 1 ELSE 0
    <3>1. least = IF buffers_ = <<>> THEN 0 ELSE 1
      BY <2>5
    <3>2. 1..Size - 1 \subseteq least..Size - 1
      BY <1>0
    <3> HIDE DEF least
    <3>3. \A i \in 1..Len(buffers_) : Len(buffersToWrite'[i]) \in least..Size - 1
      BY <2>2, <2>4, <3>2
    <3>4. Len(buffersToWrite'[Len(buffers_) + 1]) \in least..Size - 1
      BY <2>2, <2>4, <3>1
    <3>5. \A i \in 1..Len(buffersToWrite') : Len(buffersToWrite'[i]) \in least..Size - 1
      BY <2>2, <2>3, <3>3, <3>4
    <3> QED
      BY <2>2, <3>5 DEF least
  <2>7. 0 \in 0..Size - 1
    BY <1>0
  <2> QED
    BY <2>1, <2>6, <2>7 DEF BuffersAreFilled
<1>4. CASE Overload /\ Len(buffersToWrite) > DropAbove
  <2>1. /\ buffersToWrite' = SubSeq(buffersToWrite, 1, 2)
        /\ UNCHANGED <<buffers_, currentBuffer_>>
        /\ Len(buffersToWrite) > 2
    BY <1>4, <1>0, LogAssumption DEF Overload, frontBuffers
  <2>2. /\ Len(buffersToWrite') = 2
        /\ \A i \in 1..2 : i \in 1..Len(buffersToWrite) /\ buffersToWrite'[i] = buffersToWrite[i]
    BY <1>0, <2>1
  <2>3. \A i \in 1..2 : Len(buffersToWrite'[i]) \in 1..Size - 1
    BY <1>0, <2>1, <2>2 DEF BuffersAreFilled
  <2>4. \A i \in 1..Len(buffersToWrite') :
           Len(buffersToWrite'[i]) \in (IF Len(buffersToWrite') > 1 THEN 1 ELSE 0)..Size - 1
    BY ONLY <2>2, <2>3
  <2>5. /\ Len(currentBuffer_) \in (IF buffers_ = <<>> THEN 0 ELSE 1)..Size - 1
        /\ \A i \in 1..Len(buffers_) : Len(buffers_[i]) \in 1..Size - 1
    BY <1>0 DEF BuffersAreFilled
  <2> QED
    BY ONLY <2>1, <2>4, <2>5, Zenon DEF BuffersAreFilled
<1>5. CASE WriteBuffer
  BY <1>0, <1>5 DEF WriteBuffer, BuffersAreFilled, frontBuffers
<1>6. CASE Recycle
  BY <1>0, <1>6 DEF Recycle, BuffersAreFilled, frontBuffers
<1>7. CASE Idles
  BY <1>0, <1>7, IdlesTouchesNothing DEF frontBuffers, backBuffers, BuffersAreFilled
<1> QED
  BY <1>1, <1>2, <1>3, <1>4, <1>5, <1>6, <1>7 DEF Next, FrontEnd, MainRuns, BackRuns, Idles

------------------------------------------------------------------------------
(* What the file says about lost lines is a sum over its notices.          *)

Counted(f) ==
    FoldSeq(LAMBDA entry, sum : IF entry.by = Backend THEN entry.nr + sum ELSE sum,
            0, f)

NoticeIn(f) == [k \in DOMAIN f |-> IF f[k].by = Backend THEN f[k].nr ELSE 0]

IsCount(C, f) ==
    C = [s \in SUBSET DOMAIN f |->
            IF s = {} THEN 0
            ELSE LET x == CHOOSE x \in s : TRUE
                 IN  IF f[x].by = Backend THEN f[x].nr + C[s \ {x}] ELSE C[s \ {x}]]

Entries == Lines \cup Notices

LEMMA EntryTypes ==
    /\ \A e \in Lines : e.by # Backend
    /\ \A e \in Notices : e.by = Backend /\ e.nr \in Nat /\ e \notin Lines
    /\ \A n \in Nat : Line(Backend, n) \in Notices /\ Line(Backend, n).nr = n
BY LogAssumption DEF Lines, Notices, Line

(* Reported is the sum of the numbers in the notices of the file.          *)
LEMMA CountIsSum ==
    ASSUME NEW f \in Seq(Entries)
    PROVE  /\ IsFiniteSet(DOMAIN f) /\ DOMAIN f = 1..Len(f) /\ Len(f) \in Nat
           /\ NoticeIn(f) \in [DOMAIN f -> Nat]
           /\ \E F : Sums(F, NoticeIn(f), DOMAIN f) /\ Counted(f) = F[DOMAIN f]
<1> DEFINE D == DOMAIN f
           w == NoticeIn(f)
<1>1. IsFiniteSet(D) /\ D = 1..Len(f) /\ Len(f) \in Nat
  <2>1. D = 1..Len(f) /\ Len(f) \in Nat
    BY LenProperties
  <2>2. 1 \in Int /\ Len(f) \in Int
    BY <2>1
  <2> QED
    BY <2>1, <2>2, FS_Interval
<1>2. w \in [D -> Nat]
  <2>1. ASSUME NEW k \in D PROVE (IF f[k].by = Backend THEN f[k].nr ELSE 0) \in Nat
    <3>1. f[k] \in Lines \/ f[k] \in Notices
      BY <1>1, ElementOfSeq DEF Entries
    <3> QED
      BY <3>1, EntryTypes
  <2> QED
    BY <2>1 DEF NoticeIn
<1>3. PICK F : Sums(F, w, D)
  BY <1>1, SumsExists
<1>4. \A s \in SUBSET D : F[s] \in Nat
  BY <1>1, <1>2, <1>3, SumsType
<1>0. /\ F[{}] = 0
      /\ \A s \in SUBSET D : s # {} => F[s] = w[Some(s)] + F[s \ {Some(s)}]
  BY <1>3, SumsUnfold
<1>5. ASSUME NEW s \in SUBSET D, s # {}, NEW x, x = Some(s)
      PROVE  F[s] = IF f[x].by = Backend THEN f[x].nr + F[s \ {x}] ELSE F[s \ {x}]
  <2>1. x \in s /\ x \in D
    BY <1>5, Zenon DEF Some
  <2>2. F[s] = w[x] + F[s \ {x}] /\ F[s \ {x}] \in Nat
    <3>1. F[s] = w[Some(s)] + F[s \ {Some(s)}]
      BY <1>0, <1>5
    <3>2. s \ {x} \in SUBSET D
      OBVIOUS
    <3> QED
      BY <1>4, <1>5, <3>1, <3>2
  <2>3. w[x] = IF f[x].by = Backend THEN f[x].nr ELSE 0
    BY <2>1 DEF NoticeIn
  <2> QED
    BY <2>2, <2>3
<1>6. F[{}] = 0
  BY <1>0
<1>7. IsCount(F, f)
  <2>1. \A s \in SUBSET D :
           F[s] = IF s = {} THEN 0
                  ELSE LET x == CHOOSE x \in s : TRUE
                       IN  IF f[x].by = Backend THEN f[x].nr + F[s \ {x}] ELSE F[s \ {x}]
    BY <1>5, <1>6 DEF Some
  <2> QED
    BY <1>3, <2>1 DEF IsCount, Sums
<1> DEFINE C == CHOOSE c : c = [s \in SUBSET DOMAIN f |->
            IF s = {} THEN 0
            ELSE LET x == CHOOSE x \in s : TRUE
                 IN  IF f[x].by = Backend THEN f[x].nr + c[s \ {x}] ELSE c[s \ {x}]]
<1>8. IsCount(C, f)
  <2>1. \E c : c = [s \in SUBSET DOMAIN f |->
            IF s = {} THEN 0
            ELSE LET x == CHOOSE x \in s : TRUE
                 IN  IF f[x].by = Backend THEN f[x].nr + c[s \ {x}] ELSE c[s \ {x}]]
    BY <1>7 DEF IsCount
  <2> QED
    BY <2>1, Zenon DEF IsCount
<1>9. Counted(f) = C[D]
  BY Zenon DEF Counted, FoldSeq, FoldFunction, FoldFunctionOnSet, MapThenFoldSet
<1> HIDE DEF C
<1> DEFINE T == {n \in Nat : \A s \in SUBSET D : Cardinality(s) <= n => C[s] = F[s]}
<1>10. /\ C[{}] = 0 /\ F[{}] = 0
       /\ \A s \in SUBSET D : s # {} =>
             /\ C[s] = IF f[Some(s)].by = Backend THEN f[Some(s)].nr + C[s \ {Some(s)}]
                       ELSE C[s \ {Some(s)}]
             /\ F[s] = IF f[Some(s)].by = Backend THEN f[Some(s)].nr + F[s \ {Some(s)}]
                       ELSE F[s \ {Some(s)}]
  <2>1. /\ C[{}] = 0
        /\ \A s \in SUBSET D : s # {} =>
              C[s] = IF f[Some(s)].by = Backend THEN f[Some(s)].nr + C[s \ {Some(s)}]
                     ELSE C[s \ {Some(s)}]
    BY <1>8 DEF IsCount, Some
  <2> QED
    BY <1>5, <1>6, <2>1
<1>11. 0 \in T
  <2>1. \A s \in SUBSET D : Cardinality(s) <= 0 => s = {}
    BY <1>1, SmallerSet
  <2> QED
    BY <1>10, <2>1
<1>12. ASSUME NEW n \in Nat, n \in T PROVE n + 1 \in T
  <2> SUFFICES ASSUME NEW s \in SUBSET D, Cardinality(s) <= n + 1
               PROVE  C[s] = F[s]
    OBVIOUS
  <2> SUFFICES ASSUME s # {} PROVE C[s] = F[s]
    BY <1>10
  <2>1. /\ s \ {Some(s)} \in SUBSET D
        /\ Cardinality(s \ {Some(s)}) <= n
    BY <1>1, SmallerSet
  <2>2. C[s \ {Some(s)}] = F[s \ {Some(s)}]
    BY <1>12, <2>1
  <2> QED
    BY <1>10, <2>2
<1> HIDE DEF T
<1>13. Nat \subseteq T
  BY <1>11, <1>12, SetInduction
<1>14. Cardinality(D) \in Nat /\ D \in SUBSET D
  BY <1>1, FS_CardinalityType
<1>15. C[D] = F[D]
  <2>1. Cardinality(D) \in T /\ Cardinality(D) <= Cardinality(D)
    BY <1>13, <1>14
  <2> QED
    BY <1>14, <2>1 DEF T
<1> HIDE DEF w, D
<1>16. Sums(F, w, D) /\ Counted(f) = F[D]
  BY <1>3, <1>9, <1>15, Zenon
<1> QED
  BY <1>1, <1>2, <1>16, Zenon DEF w, D

(* A further entry adds its number if it is a notice, and nothing if it is *)
(* a line.                                                                 *)
LEMMA CountedAppend ==
    ASSUME NEW f \in Seq(Entries), NEW e \in Entries
    PROVE  /\ Counted(f) \in Nat
           /\ Counted(Append(f, e)) = Counted(f) + (IF e.by = Backend THEN e.nr ELSE 0)
<1> DEFINE g == Append(f, e)
           n == Len(f) + 1
           w == NoticeIn(f)
           v == NoticeIn(g)
           D == DOMAIN f
           E == DOMAIN g
<1>1. g \in Seq(Entries) /\ g[n] = e /\ \A i \in 1..Len(f) : g[i] = f[i]
  OBVIOUS
<1>2. PICK F : Sums(F, w, D) /\ Counted(f) = F[D]
  BY CountIsSum
<1>3. IsFiniteSet(D) /\ D = 1..Len(f) /\ Len(f) \in Nat /\ w \in [D -> Nat]
  BY CountIsSum
<1>4. PICK G : Sums(G, v, E) /\ Counted(g) = G[E]
  BY <1>1, CountIsSum
<1>5. IsFiniteSet(E) /\ E = 1..Len(g) /\ v \in [E -> Nat]
  BY <1>1, CountIsSum
<1>6. Len(g) = n
  OBVIOUS
<1>7. D \subseteq E /\ n \in E /\ E \ {n} = D /\ n \notin D
  BY <1>3, <1>5, <1>6
<1>8. \A x \in D : w[x] = v[x]
  BY <1>1, <1>3, <1>7 DEF NoticeIn
<1>9. v[n] = IF e.by = Backend THEN e.nr ELSE 0
  BY <1>1, <1>7 DEF NoticeIn
<1> HIDE DEF g, n, w, v, D, E
<1>10. F[D] \in Nat /\ G[E] = v[n] + F[D]
  <2>1. D = E \ {n} /\ n \in E /\ IsFiniteSet(E)
    BY <1>5, <1>7
  <2>2. w \in [D -> Nat] /\ v \in [E -> Nat] /\ AgreeOn(w, v, D)
    BY <1>3, <1>5, <1>8 DEF AgreeOn
  <2>3. Sums(F, w, D) /\ Sums(G, v, E)
    BY <1>2, <1>4
  <2> QED
    BY <2>1, <2>2, <2>3, SumsExtend
<1>13. v[n] \in Nat
  BY <1>5, <1>7
<1>14. Counted(f) \in Nat /\ Counted(g) = Counted(f) + v[n]
  BY <1>2, <1>4, <1>10, <1>13
<1> QED
  BY <1>9, <1>14, Zenon DEF g

(* Lines that are saved count for nothing.                                 *)
LEMMA CountedLines ==
    ASSUME NEW f \in Seq(Entries)
    PROVE  \A s \in Seq(Lines) : Counted(f \o s) = Counted(f)
<1> DEFINE T == {n \in Nat : \A s \in Seq(Lines) :
                    Len(s) = n => Counted(f \o s) = Counted(f)}
<1>1. 0 \in T
  <2>1. \A s \in Seq(Lines) : Len(s) = 0 => s = <<>>
    OBVIOUS
  <2>2. f \o <<>> = f
    BY ConcatEmptySeq
  <2> QED
    BY <2>1, <2>2
<1>2. ASSUME NEW n \in Nat, n \in T PROVE n + 1 \in T
  <2> SUFFICES ASSUME NEW s \in Seq(Lines), Len(s) = n + 1
               PROVE  Counted(f \o s) = Counted(f)
    OBVIOUS
  <2>1. PICK r \in Seq(Lines), x \in Lines : s = Append(r, x) /\ Len(r) = n
    BY FrontAndLast
  <2>2. Counted(f \o r) = Counted(f)
    BY <1>2, <2>1
  <2>3. r \in Seq(Entries) /\ x \in Entries /\ f \o r \in Seq(Entries)
    <3>1. r \in Seq(Entries) /\ x \in Entries
      BY DEF Entries
    <3> QED
      BY <3>1, ConcatProperties
  <2>4. f \o s = Append(f \o r, x)
    BY <2>1, <2>3, AppendToConcat
  <2>5. x.by # Backend
    BY EntryTypes
  <2>6. Counted(f \o r) \in Nat /\ Counted(Append(f \o r, x)) = Counted(f \o r) + 0
    BY <2>3, <2>5, CountedAppend
  <2> QED
    BY <2>2, <2>4, <2>6
<1> HIDE DEF T
<1>3. Nat \subseteq T
  BY <1>1, <1>2, SetInduction
<1>4. \A s \in Seq(Lines) : Len(s) \in Nat
  OBVIOUS
<1> QED
  BY <1>3, <1>4 DEF T

LEMMA ReportedIs == Reported = Counted(file)
BY Zenon DEF Reported, Counted

------------------------------------------------------------------------------
(* No line is in two places, and every line that is anywhere was logged.   *)

InPlace(unsaved, saved, counts) ==
    /\ IsInjective(unsaved)
    /\ Range(unsaved) \cap Range(saved) = {}
    /\ \A line \in Range(unsaved) \cup Range(saved) :
          line \in Lines => line.nr <= counts[line.by]

(* A sequence of lines is one of entries.                                  *)
LEMMA EntriesOfLines == \A s \in Seq(Lines) : s \in Seq(Entries)
BY DEF Entries

(* A line just logged is nowhere else.                                     *)
LEMMA LogKeepsPlace ==
    ASSUME NEW u \in Seq(Lines), NEW f \in Seq(Entries),
           NEW l \in [FrontEnds -> 0..MaxLines], InPlace(u, f, l),
           NEW t \in FrontEnds, Line(t, l[t] + 1) \in Lines
    PROVE  InPlace(Append(u, Line(t, l[t] + 1)), f, [l EXCEPT ![t] = @ + 1])
<1> DEFINE line == Line(t, l[t] + 1)
           m == [l EXCEPT ![t] = @ + 1]
<1>1. l[t] \in Nat /\ line.by = t /\ line.nr = l[t] + 1
  <2>1. l[t] \in 0..MaxLines
    OBVIOUS
  <2> QED
    BY <2>1, LogAssumption DEF Line
<1>2. line \notin Range(u) \cup Range(f)
  BY <1>1 DEF InPlace
<1>3. line \in Lines
  OBVIOUS
<1>4. \A other \in Lines : other.nr <= l[other.by] => other.nr <= m[other.by]
  <2> SUFFICES ASSUME NEW other \in Lines, other.nr <= l[other.by]
               PROVE  other.nr <= m[other.by]
    OBVIOUS
  <2>1. other.by \in FrontEnds /\ other.nr \in Nat /\ l[other.by] \in 0..MaxLines
    BY LogAssumption DEF Lines
  <2>2. m[other.by] = l[other.by] \/ m[other.by] = l[other.by] + 1
    BY <2>1
  <2> HIDE DEF m
  <2> QED
    BY <2>1, <2>2, LogAssumption
<1>5. line.nr <= m[line.by]
  BY <1>1
<1> HIDE DEF line, m
<1>6. /\ Range(Append(u, line)) = Range(u) \cup {line}
      /\ IsInjective(Append(u, line))
  BY <1>2, <1>3, AppendRange DEF InPlace
<1>7. InPlace(Append(u, line), f, m)
  BY <1>2, <1>4, <1>5, <1>6 DEF InPlace
<1> QED
  BY <1>7 DEF line, m

(* Lines that are saved leave the buffers, so that none is in two places.  *)
LEMMA SaveKeepsPlace ==
    ASSUME NEW first \in Seq(Lines), NEW rest \in Seq(Lines), NEW f \in Seq(Entries),
           NEW l, InPlace(first \o rest, f, l)
    PROVE  InPlace(rest, f \o first, l)
<1>1. Range(first \o rest) = Range(first) \cup Range(rest)
  BY RangeConcatenation
<1>2. Range(f \o first) = Range(f) \cup Range(first)
  BY EntriesOfLines, RangeConcatenation
<1>3. IsInjective(rest) /\ Range(first) \cap Range(rest) = {}
  BY ConcatInjective DEF InPlace
<1>4. /\ Range(rest) \cap (Range(f) \cup Range(first)) = {}
      /\ \A line \in Range(rest) \cup (Range(f) \cup Range(first)) :
            line \in Lines => line.nr <= l[line.by]
  BY <1>1, <1>3 DEF InPlace
<1> QED
  BY <1>2, <1>3, <1>4, Zenon DEF InPlace

(* Lines that are given up are nowhere, and a notice is not a line.        *)
LEMMA GivingUpKeepsPlace ==
    ASSUME NEW kept \in Seq(Lines), NEW dropped \in Seq(Lines), NEW rest \in Seq(Lines),
           NEW f \in Seq(Entries), NEW n \in Nat,
           NEW l, InPlace(kept \o (dropped \o rest), f, l)
    PROVE  InPlace(kept \o rest, Append(f, Line(Backend, n)), l)
<1> DEFINE notice == Line(Backend, n)
<1>1. dropped \o rest \in Seq(Lines) /\ notice \in Entries /\ notice \notin Lines
  BY ConcatProperties, EntryTypes DEF Entries
<1>2. /\ Range(dropped \o rest) = Range(dropped) \cup Range(rest)
      /\ Range(kept \o rest) = Range(kept) \cup Range(rest)
      /\ Range(kept \o (dropped \o rest)) = Range(kept) \cup Range(dropped \o rest)
  <2>1. Range(dropped \o rest) = Range(dropped) \cup Range(rest)
    BY RangeConcatenation
  <2>2. Range(kept \o rest) = Range(kept) \cup Range(rest)
    BY RangeConcatenation
  <2>3. Range(kept \o (dropped \o rest)) = Range(kept) \cup Range(dropped \o rest)
    <3>1. PICK tail \in Seq(Lines) : tail = dropped \o rest
      BY <1>1
    <3>2. Range(kept \o tail) = Range(kept) \cup Range(tail)
      BY RangeConcatenation
    <3> QED
      BY <3>1, <3>2, Zenon
  <2> QED
    BY <2>1, <2>2, <2>3
<1>3. /\ IsInjective(kept) /\ IsInjective(dropped \o rest)
      /\ Range(kept) \cap Range(dropped \o rest) = {}
  BY <1>1, ConcatInjective DEF InPlace
<1>4. IsInjective(rest)
  BY <1>3, ConcatInjective
<1>5. IsInjective(kept \o rest)
  BY <1>2, <1>3, <1>4, ConcatInjective
<1> HIDE DEF notice
<1>6. Range(Append(f, notice)) = Range(f) \cup {notice}
  BY <1>1, AppendRange
<1>7. Range(kept) \subseteq Lines /\ Range(rest) \subseteq Lines
  BY RangeOfSeq
<1>8. /\ (Range(kept) \cup Range(rest)) \cap (Range(f) \cup {notice}) = {}
      /\ \A line \in (Range(kept) \cup Range(rest)) \cup (Range(f) \cup {notice}) :
            line \in Lines => line.nr <= l[line.by]
  BY <1>1, <1>2, <1>7 DEF InPlace
<1>9. InPlace(kept \o rest, Append(f, notice), l)
  BY <1>2, <1>5, <1>6, <1>8, Zenon DEF InPlace
<1> QED
  BY <1>9 DEF notice

(* No step puts a line in two places.                                      *)
LEMMA LinesStayInPlace ==
    ASSUME LinesInv, [Next]_vars
    PROVE  LinesAreInPlace'
<1>1. /\ Unsaved \in Seq(Lines) /\ file \in Seq(Entries)
      /\ logged \in [FrontEnds -> 0..MaxLines]
  BY BufferTypes DEF LinesInv, Inductive, TypeOK, Entries
<1>2. InPlace(Unsaved, file, logged)
  BY DEF LinesInv, LinesAreInPlace, InPlace
<1>3. SUFFICES InPlace(Unsaved', file', logged')
  BY Zenon DEF LinesAreInPlace, InPlace
<1>4. CASE Stays
  BY <1>2, <1>4 DEF Stays
<1>5. ASSUME NEW t \in FrontEnds, Logs(t) PROVE InPlace(Unsaved', file', logged')
  BY <1>1, <1>2, <1>5, LogKeepsPlace DEF Logs
<1>6. ASSUME NEW first \in Seq(Lines), NEW rest \in Seq(Lines), Saves(first, rest)
      PROVE  InPlace(Unsaved', file', logged')
  BY <1>1, <1>2, <1>6, SaveKeepsPlace DEF Saves
<1>7. ASSUME NEW kept \in Seq(Lines), NEW dropped \in Seq(Lines),
             NEW rest \in Seq(Lines), NEW n \in Nat \ {0}, GivesUp(kept, dropped, rest, n)
      PROVE  InPlace(Unsaved', file', logged')
  BY <1>1, <1>2, <1>7, GivingUpKeepsPlace DEF GivesUp
<1> QED
  BY <1>4, <1>5, <1>6, <1>7, StepsOfLines

LEMMA InitIsEmpty == Init => Unsaved = <<>>
<1> SUFFICES ASSUME Init PROVE Unsaved = <<>>
  OBVIOUS
<1>1. buffersToWrite = <<>> /\ buffers_ = <<>> /\ currentBuffer_ = <<>>
  BY DEF Init
<1>2. Taken = <<>>
  BY <1>1 DEF Init, Taken
<1>3. <<>> \o <<>> = <<>>
  OBVIOUS
<1> QED
  BY <1>1, <1>2, <1>3, FlattenEmpty, UnsavedIs, Zenon

(* The lines of all threads are in order at every step: the spares are     *)
(* empty, the other buffers are filled, no line is in two places, and      *)
(* every line that is anywhere was logged (AsyncLogging.cc:42-54,71-124).  *)
THEOREM LinesInvariant == Spec => []LinesInv
<1>1. Init => LinesInv
  <2> SUFFICES ASSUME Init PROVE LinesInv
    OBVIOUS
  <2>1. /\ currentBuffer_ = <<>> /\ nextBuffer_ = <<>> /\ buffers_ = <<>>
        /\ newBuffer1 = <<>> /\ newBuffer2 = <<>> /\ buffersToWrite = <<>>
        /\ written = 0 /\ file = <<>>
    BY DEF Init
  <2>2. Inductive
    BY InitIsInductive
  <2>3. SparesAreEmpty
    BY <2>1 DEF SparesAreEmpty
  <2>4. BuffersAreFilled
    BY <2>1, LogAssumption DEF BuffersAreFilled
  <2>5. Unsaved = <<>>
    BY InitIsEmpty
  <2>6. LinesAreInPlace
    BY <2>1, <2>5 DEF LinesAreInPlace, IsInjective, Range
  <2> QED
    BY <2>2, <2>3, <2>4, <2>6 DEF LinesInv
<1>2. LinesInv /\ [Next]_vars => LinesInv'
  <2>1. LinesInv => Inductive
    BY DEF LinesInv
  <2> QED
    BY <2>1, InductiveStep, SparesStayEmpty, BuffersStayFilled, LinesStayInPlace DEF LinesInv
<1> QED
  BY <1>1, <1>2, PTL DEF Spec

------------------------------------------------------------------------------
(* Which lines are lost, and what the notices say of them.                 *)

(* There are finitely many lines, since there are finitely many threads.   *)
LEMMA LinesAreFinite ==
    /\ IsFiniteSet(Lines)
    /\ Cardinality(FrontEnds) \in Nat
    /\ Cardinality(Lines) = MaxLines * Cardinality(FrontEnds)
<1> DEFINE pairs == FrontEnds \X (1..MaxLines)
           lineOf == [p \in pairs |-> [by |-> p[1], nr |-> p[2]]]
<1>1. IsFiniteSet(1..MaxLines) /\ Cardinality(1..MaxLines) = MaxLines
  <2>1. 1 \in Int /\ MaxLines \in Int
    BY LogAssumption
  <2>2. /\ IsFiniteSet(1..MaxLines)
        /\ Cardinality(1..MaxLines) = IF 1 > MaxLines THEN 0 ELSE MaxLines - 1 + 1
    BY <2>1, FS_Interval, Zenon
  <2> QED
    BY <2>2, LogAssumption
<1>2. IsFiniteSet(FrontEnds) /\ Cardinality(FrontEnds) \in Nat
  BY LogAssumption, FS_CardinalityType
<1>3. /\ IsFiniteSet(pairs)
      /\ Cardinality(pairs) = Cardinality(FrontEnds) * Cardinality(1..MaxLines)
  BY <1>1, <1>2, FS_Product
<1>4. lineOf \in Bijection(pairs, Lines)
  <2>1. lineOf \in [pairs -> Lines]
    BY DEF Lines
  <2>2. \A p, q \in pairs : lineOf[p] = lineOf[q] => p = q
    OBVIOUS
  <2>3. \A line \in Lines : \E p \in pairs : lineOf[p] = line
    <3> TAKE line \in Lines
    <3>1. <<line.by, line.nr>> \in pairs /\ lineOf[<<line.by, line.nr>>] = line
      BY DEF Lines
    <3> QED
      BY <3>1
  <2> HIDE DEF lineOf, pairs
  <2> QED
    BY <2>1, <2>2, <2>3, Fun_IsBij
<1> HIDE DEF lineOf, pairs
<1>5. IsFiniteSet(Lines) /\ Cardinality(Lines) = Cardinality(pairs)
  BY <1>3, <1>4, FS_Bijection DEF ExistsBijection
<1>6. Cardinality(FrontEnds) * MaxLines = MaxLines * Cardinality(FrontEnds)
  BY <1>2, LogAssumption
<1> QED
  BY <1>1, <1>2, <1>3, <1>5, <1>6

LostOf(unsaved, saved, counts) ==
    Lines \ ({line \in Lines : line.nr > counts[line.by]}
                \cup Range(saved) \cup Range(unsaved))

(* Lost, of what the log holds, what it saved and how much was logged.     *)
LEMMA LostIs == Lost = LostOf(Unsaved, file, logged)
<1> DEFINE all == {Line(t, n) : t \in FrontEnds, n \in 1..MaxLines}
<1>1. all \subseteq Lines
  BY DEF Line, Lines
<1>2. ASSUME NEW x \in Lines PROVE x \in all
  <2>1. x.by \in FrontEnds /\ x.nr \in 1..MaxLines /\ x = Line(x.by, x.nr)
    BY DEF Line, Lines
  <2> QED
    BY <2>1
<1>3. Lost = all \ ({line \in Lines : line.nr > logged[line.by]}
                      \cup Range(file) \cup Range(Unsaved))
  BY DEF Lost
<1> HIDE DEF all
<1>4. all = Lines
  BY <1>1, <1>2
<1> QED
  BY <1>3, <1>4 DEF LostOf

LEMMA LostIsFinite ==
    \A u, f, l : /\ IsFiniteSet(LostOf(u, f, l))
                 /\ Cardinality(LostOf(u, f, l)) \in Nat
<1> TAKE u, f, l
<1>1. LostOf(u, f, l) \in SUBSET Lines
  BY DEF LostOf
<1>2. IsFiniteSet(LostOf(u, f, l))
  BY <1>1, LinesAreFinite, FS_Subset
<1> QED
  BY <1>2, FS_CardinalityType

OneMore(m, l, t) == m = [l EXCEPT ![t] = @ + 1]

(* Logging a line and saving lines loses nothing.                          *)
LEMMA LoggingLosesNothing ==
    ASSUME NEW u \in Seq(Lines), NEW f \in Seq(Entries),
           NEW l \in [FrontEnds -> 0..MaxLines], NEW m, NEW t \in FrontEnds,
           OneMore(m, l, t), NEW line \in Lines, line = Line(t, l[t] + 1)
    PROVE  LostOf(Append(u, line), f, m) = LostOf(u, f, l)
<1>1. \A x \in Lines : (x.nr <= m[x.by] /\ x # line) <=> x.nr <= l[x.by]
  <2> TAKE x \in Lines
  <2>1. l[t] \in Nat /\ x.by \in FrontEnds /\ x.nr \in Nat /\ l[x.by] \in Nat
    <3>1. l[t] \in 0..MaxLines /\ x.by \in FrontEnds /\ x.nr \in 1..MaxLines
      BY DEF Lines
    <3>2. l[x.by] \in 0..MaxLines
      BY <3>1
    <3> QED
      BY <3>1, <3>2, LogAssumption
  <2>2. x = line <=> x.by = t /\ x.nr = l[t] + 1
    BY DEF Lines, Line
  <2>3. m[x.by] = IF x.by = t THEN l[t] + 1 ELSE l[x.by]
    BY <2>1 DEF OneMore
  <2> QED
    BY <2>1, <2>2, <2>3
<1>2. Range(Append(u, line)) = Range(u) \cup {line}
  BY AppendRange
<1>3. ASSUME NEW x \in Lines
      PROVE  /\ x.nr > l[x.by] <=> ~(x.nr <= l[x.by])
             /\ x.nr > m[x.by] <=> ~(x.nr <= m[x.by])
  <2>1. x.by \in FrontEnds /\ x.nr \in Int
    BY LogAssumption DEF Lines
  <2>2. l[x.by] \in 0..MaxLines /\ m[x.by] \in Int
    BY <2>1, LogAssumption DEF OneMore
  <2> QED
    BY <2>1, <2>2
<1>4. ASSUME NEW x \in Lines
      PROVE  x \in LostOf(Append(u, line), f, m) <=> x \in LostOf(u, f, l)
  <2>1. x \in LostOf(Append(u, line), f, m)
          <=> x.nr <= m[x.by] /\ x \notin Range(f) /\ x \notin Range(u) /\ x # line
    BY <1>2, <1>3 DEF LostOf
  <2>2. x \in LostOf(u, f, l)
          <=> x.nr <= l[x.by] /\ x \notin Range(f) /\ x \notin Range(u)
    BY <1>3 DEF LostOf
  <2> QED
    BY <1>1, <2>1, <2>2
<1> QED
  BY <1>4 DEF LostOf

(* Saving moves lines and loses none.                                      *)
LEMMA SavingLosesNothing ==
    ASSUME NEW first \in Seq(Lines), NEW rest \in Seq(Lines), NEW f \in Seq(Entries),
           NEW l
    PROVE  LostOf(rest, f \o first, l) = LostOf(first \o rest, f, l)
<1>1. Range(first \o rest) = Range(first) \cup Range(rest)
  BY RangeConcatenation
<1>2. Range(f \o first) = Range(f) \cup Range(first)
  BY EntriesOfLines, RangeConcatenation
<1> QED
  BY <1>1, <1>2 DEF LostOf

(* Giving up lines loses these lines.                                      *)
LEMMA GivingUpLoses ==
    ASSUME NEW kept \in Seq(Lines), NEW dropped \in Seq(Lines), NEW rest \in Seq(Lines),
           NEW f \in Seq(Entries), NEW n \in Nat,
           NEW l \in [FrontEnds -> 0..MaxLines],
           InPlace(kept \o (dropped \o rest), f, l)
    PROVE  Cardinality(LostOf(kept \o rest, Append(f, Line(Backend, n)), l))
             = Cardinality(LostOf(kept \o (dropped \o rest), f, l)) + Len(dropped)
<1> DEFINE notice == Line(Backend, n)
           before == LostOf(kept \o (dropped \o rest), f, l)
           after == LostOf(kept \o rest, Append(f, notice), l)
<1>1. dropped \o rest \in Seq(Lines) /\ notice \in Entries /\ notice \notin Lines
  BY ConcatProperties, EntryTypes DEF Entries
<1>2. PICK tail \in Seq(Lines) : tail = dropped \o rest
  BY <1>1
<1>3. /\ Range(tail) = Range(dropped) \cup Range(rest)
      /\ Range(kept \o rest) = Range(kept) \cup Range(rest)
      /\ Range(kept \o tail) = Range(kept) \cup Range(tail)
  <2>1. Range(tail) = Range(dropped) \cup Range(rest)
    BY <1>2, RangeConcatenation
  <2>2. Range(kept \o rest) = Range(kept) \cup Range(rest)
    BY RangeConcatenation
  <2>3. Range(kept \o tail) = Range(kept) \cup Range(tail)
    BY RangeConcatenation
  <2> QED
    BY <2>1, <2>2, <2>3
<1>4. /\ IsInjective(kept) /\ IsInjective(tail) /\ Range(kept) \cap Range(tail) = {}
  BY <1>2, ConcatInjective DEF InPlace
<1>5. IsInjective(dropped) /\ Range(dropped) \cap Range(rest) = {}
  BY <1>2, <1>4, ConcatInjective
<1>6. Range(Append(f, notice)) = Range(f) \cup {notice}
  BY <1>1, AppendRange
<1>7. Range(dropped) \subseteq Lines
  BY RangeOfSeq
<1>8. \A x \in Range(dropped) : x \notin Range(f) /\ ~(x.nr > l[x.by])
  <2> TAKE x \in Range(dropped)
  <2>1. x \in Lines /\ x \in Range(kept \o tail)
    BY <1>3, <1>7
  <2>2. x \notin Range(f) /\ x.nr <= l[x.by]
    BY <1>2, <2>1 DEF InPlace
  <2>3. x.by \in FrontEnds /\ x.nr \in Int
    BY <2>1, LogAssumption DEF Lines
  <2>4. l[x.by] \in 0..MaxLines
    BY <2>3
  <2> QED
    BY <2>2, <2>3, <2>4
<1>9. after = before \cup Range(dropped) /\ before \cap Range(dropped) = {}
  <2> HIDE DEF notice
  <2>1. before = Lines \ ({line \in Lines : line.nr > l[line.by]} \cup Range(f)
                            \cup (Range(kept) \cup (Range(dropped) \cup Range(rest))))
    BY <1>2, <1>3, Zenon DEF LostOf
  <2>2. after = Lines \ ({line \in Lines : line.nr > l[line.by]} \cup (Range(f) \cup {notice})
                            \cup (Range(kept) \cup Range(rest)))
    BY <1>3, <1>6, Zenon DEF LostOf
  <2>3. Range(dropped) \cap Range(kept) = {}
    BY <1>3, <1>4
  <2> HIDE DEF before, after
  <2> QED
    BY <1>1, <1>5, <1>7, <1>8, <2>1, <2>2, <2>3
<1>10. IsFiniteSet(Range(dropped)) /\ Cardinality(Range(dropped)) = Len(dropped)
  BY <1>5, InjectiveCounts
<1>11. IsFiniteSet(before) /\ Cardinality(before) \in Nat
  BY LostIsFinite
<1> HIDE DEF before, after
<1>12. Cardinality(after) = Cardinality(before) + Cardinality(Range(dropped))
  <2>1. Cardinality(before \cup Range(dropped))
          = Cardinality(before) + Cardinality(Range(dropped))
              - Cardinality(before \cap Range(dropped))
    BY <1>10, <1>11, FS_Union
  <2>2. Cardinality(before \cap Range(dropped)) = 0
    BY <1>9, FS_EmptySet
  <2>3. Cardinality(Range(dropped)) \in Nat
    BY <1>10
  <2> QED
    BY <1>9, <1>11, <2>1, <2>2, <2>3
<1> QED
  BY <1>10, <1>12 DEF before, after

LossIsCounted(unsaved, saved, counts) ==
    /\ Counted(saved) <= Cardinality(LostOf(unsaved, saved, counts))
    /\ Cardinality(LostOf(unsaved, saved, counts)) <= Counted(saved) * (Size - 1)

(* LossIsReported, of the same three.                                      *)
LEMMA LossIs == LossIsReported <=> LossIsCounted(Unsaved, file, logged)
BY LostIs, ReportedIs DEF LossIsReported, LossIsCounted

(* No step loses a line that its notice does not count.                    *)
LEMMA LossStaysCounted ==
    ASSUME LinesInv, LossIsCounted(Unsaved, file, logged), [Next]_vars
    PROVE  LossIsCounted(Unsaved', file', logged')
<1>1. /\ Unsaved \in Seq(Lines) /\ file \in Seq(Entries)
      /\ logged \in [FrontEnds -> 0..MaxLines]
  BY BufferTypes DEF LinesInv, Inductive, TypeOK, Entries
<1>2. InPlace(Unsaved, file, logged)
  BY DEF LinesInv, LinesAreInPlace, InPlace
<1>3. CASE Stays
  BY <1>3 DEF Stays
<1>4. ASSUME NEW t \in FrontEnds, Logs(t)
      PROVE  LossIsCounted(Unsaved', file', logged')
  <2>1. LostOf(Unsaved', file', logged') = LostOf(Unsaved, file, logged)
    <3>1. /\ Line(t, logged[t] + 1) \in Lines
          /\ Unsaved' = Append(Unsaved, Line(t, logged[t] + 1))
          /\ logged' = [logged EXCEPT ![t] = @ + 1] /\ file' = file
      BY <1>4 DEF Logs
    <3>2. PICK line \in Lines : line = Line(t, logged[t] + 1)
      BY <3>1
    <3>3. OneMore(logged', logged, t)
      BY <3>1 DEF OneMore
    <3>4. LostOf(Append(Unsaved, line), file, logged') = LostOf(Unsaved, file, logged)
      BY ONLY <1>1, <3>2, <3>3, t \in FrontEnds, LoggingLosesNothing
    <3> QED
      BY <3>1, <3>2, <3>4, Zenon
  <2>2. file' = file
    BY <1>4 DEF Logs
  <2> QED
    BY <2>1, <2>2 DEF LossIsCounted
<1>5. ASSUME NEW first \in Seq(Lines), NEW rest \in Seq(Lines), Saves(first, rest)
      PROVE  LossIsCounted(Unsaved', file', logged')
  <2>1. LostOf(Unsaved', file', logged') = LostOf(Unsaved, file, logged)
    BY <1>1, <1>5, SavingLosesNothing DEF Saves
  <2>2. Counted(file') = Counted(file)
    BY <1>1, <1>5, CountedLines DEF Saves
  <2> QED
    BY <2>1, <2>2 DEF LossIsCounted
<1>6. ASSUME NEW kept \in Seq(Lines), NEW dropped \in Seq(Lines),
             NEW rest \in Seq(Lines), NEW n \in Nat \ {0}, GivesUp(kept, dropped, rest, n)
      PROVE  LossIsCounted(Unsaved', file', logged')
  <2>1. Cardinality(LostOf(Unsaved', file', logged'))
          = Cardinality(LostOf(Unsaved, file, logged)) + Len(dropped)
    BY <1>1, <1>2, <1>6, GivingUpLoses DEF GivesUp
  <2>2. Counted(file) \in Nat /\ Counted(file') = Counted(file) + n
    <3>1. /\ Line(Backend, n) \in Entries /\ Line(Backend, n).by = Backend
          /\ Line(Backend, n).nr = n
      BY EntryTypes DEF Entries
    <3> QED
      BY <1>1, <1>6, <3>1, CountedAppend DEF GivesUp
  <2>3. PICK r \in Nat, lost \in Nat, k \in Nat, len \in Nat :
           /\ r = Counted(file) /\ k = Size - 1 /\ len = Len(dropped)
           /\ lost = Cardinality(LostOf(Unsaved, file, logged))
    <3>1. Size - 1 \in Nat
      BY LogAssumption
    <3>2. Len(dropped) \in Nat
      BY LenProperties
    <3>3. Cardinality(LostOf(Unsaved, file, logged)) \in Nat
      BY LostIsFinite
    <3> QED
      BY <2>2, <3>1, <3>2, <3>3, Zenon
  <2>4. n <= len /\ len <= n * k /\ r <= lost /\ lost <= r * k
    BY <1>6, <2>3 DEF GivesUp, LossIsCounted
  <2>5. (r + n) * k = r * k + n * k /\ r * k \in Nat /\ n * k \in Nat
    OBVIOUS
  <2>6. r + n <= lost + len /\ lost + len <= (r + n) * k
    BY <2>4, <2>5
  <2> QED
    BY <2>1, <2>2, <2>3, <2>6, Zenon DEF LossIsCounted
<1> QED
  BY <1>3, <1>4, <1>5, <1>6, StepsOfLines

(* Lines are lost only when buffers are dropped under overload, and the    *)
(* notices in the file count those buffers (AsyncLogging.cc:90-98).        *)
THEOREM EveryLossIsReported == Spec => []LossIsReported
<1> DEFINE Counts == LossIsCounted(Unsaved, file, logged)
<1>1. Init => Counts
  <2> SUFFICES ASSUME Init PROVE LossIsCounted(Unsaved, file, logged)
    OBVIOUS
  <2>1. file = <<>> /\ logged = [t \in FrontEnds |-> 0]
    BY DEF Init
  <2>2. Counted(<<>>) = 0
    <3>1. <<>> \in Seq(Entries) /\ DOMAIN <<>> = {}
      OBVIOUS
    <3>2. PICK F : Sums(F, NoticeIn(<<>>), DOMAIN <<>>) /\ Counted(<<>>) = F[DOMAIN <<>>]
      BY <3>1, CountIsSum
    <3> QED
      BY <3>1, <3>2, SumsUnfold
  <2>3. LostOf(Unsaved, file, logged) = {}
    <3>1. \A line \in Lines : line.nr > logged[line.by]
      BY <2>1, LogAssumption DEF Lines
    <3> QED
      BY <3>1 DEF LostOf
  <2>4. Cardinality({}) = 0
    BY FS_EmptySet
  <2>5. 0 * (Size - 1) = 0
    BY LogAssumption
  <2> QED
    <3>1. Counted(file) = 0 /\ Cardinality(LostOf(Unsaved, file, logged)) = 0
      BY <2>1, <2>2, <2>3, <2>4, Zenon
    <3>2. 0 <= 0
      OBVIOUS
    <3> QED
      BY <2>5, <3>1, <3>2, Zenon DEF LossIsCounted
<1>2. LinesInv /\ Counts /\ [Next]_vars => Counts'
  BY LossStaysCounted
<1>3. Counts => LossIsReported
  BY LossIs
<1> QED
  BY <1>1, <1>2, <1>3, LinesInvariant, PTL DEF Spec

------------------------------------------------------------------------------
(* Every step is one of the queue of lines, or none of its steps.          *)

(* Saving a buffer is saving as many lines of the queue.                   *)
LEMMA SaveIsQueueSave ==
    ASSUME NEW first \in Seq(Lines), NEW rest \in Seq(Lines), Saves(first, rest),
           file \in Seq(Entries)
    PROVE  [Queue!Next]_(Queue!vars)
<1>1. /\ Unsaved = first \o rest /\ Unsaved' = rest /\ file' = file \o first
  BY DEF Saves
<1>2. CASE first = <<>>
  <2>1. <<>> \o rest = rest /\ file \o <<>> = file
    BY ConcatEmptySeq
  <2> QED
    BY <1>1, <1>2, <2>1 DEF Queue!vars
<1>3. CASE first # <<>>
  <2>1. /\ SubSeq(Unsaved, 1, Len(first)) = first
        /\ SubSeq(Unsaved, Len(first) + 1, Len(Unsaved)) = rest
    BY <1>1, ConcatSplits
  <2>2. Len(first) \in 1..Len(Unsaved)
    <3>1. Len(Unsaved) = Len(first) + Len(rest) /\ Len(first) \in Nat /\ Len(rest) \in Nat
      BY <1>1, ConcatProperties, LenProperties
    <3>2. Len(first) # 0
      BY <1>3
    <3> QED
      BY <3>1, <3>2
  <2>3. Queue!Save(Len(first))
    BY <1>1, <2>1 DEF Queue!Save
  <2> QED
    BY <2>2, <2>3 DEF Queue!Next
<1> QED
  BY <1>2, <1>3

(* Discarding buffers is giving up a stretch of the queue: not an empty    *)
(* one, since the buffers are filled.                                      *)
LEMMA GivingUpIsQueueGiveUp ==
    ASSUME NEW kept \in Seq(Lines), NEW dropped \in Seq(Lines),
           NEW rest \in Seq(Lines), NEW n \in Nat \ {0},
           GivesUp(kept, dropped, rest, n), IsInjective(Unsaved)
    PROVE  Queue!Next
<1> DEFINE i == Len(kept) + 1
           j == Len(kept) + Len(dropped)
           notice == Line(Backend, n)
<1>1. /\ Unsaved = kept \o (dropped \o rest) /\ Unsaved' = kept \o rest
      /\ file' = Append(file, notice) /\ n <= Len(dropped)
  BY DEF GivesUp
<1>2. /\ Len(Unsaved) = Len(kept) + Len(dropped) + Len(rest)
      /\ SubSeq(Unsaved, 1, Len(kept)) = kept
      /\ SubSeq(Unsaved, Len(kept) + Len(dropped) + 1, Len(Unsaved)) = rest
  BY <1>1, MiddleSplits
<1>3. Len(kept) \in Nat /\ Len(dropped) \in Nat /\ Len(rest) \in Nat
  BY LenProperties
<1>4. i \in 1..Len(Unsaved) /\ j \in 1..Len(Unsaved) /\ i <= j /\ i - 1 = Len(kept)
  BY <1>1, <1>2, <1>3
<1>5. Queue!GiveUp(i, j, notice)
  <2>1. /\ SubSeq(Unsaved, 1, i - 1) = kept
        /\ SubSeq(Unsaved, j + 1, Len(Unsaved)) = rest
    BY <1>2, <1>4
  <2> QED
    BY <1>1, <2>1 DEF Queue!GiveUp
<1>6. n \in 1..(MaxLines * Cardinality(FrontEnds))
  <2>1. IsInjective(dropped)
    <3>1. PICK tail \in Seq(Lines) : tail = dropped \o rest
      BY ConcatProperties
    <3>2. IsInjective(tail)
      BY <1>1, <3>1, ConcatInjective
    <3> QED
      BY <3>1, <3>2, ConcatInjective
  <2>2. Cardinality(Range(dropped)) = Len(dropped)
    BY <2>1, InjectiveCounts
  <2>3. Range(dropped) \in SUBSET Lines
    BY RangeOfSeq
  <2>4. Cardinality(Range(dropped)) <= Cardinality(Lines)
    BY <2>3, LinesAreFinite, FS_Subset
  <2>5. PICK size \in Nat : size = Cardinality(Lines)
                             /\ size = MaxLines * Cardinality(FrontEnds)
    BY LinesAreFinite, FS_CardinalityType
  <2> QED
    BY <1>1, <1>3, <2>2, <2>4, <2>5
<1>7. notice \in [by : {Backend}, nr : 1..(MaxLines * Cardinality(FrontEnds))]
  BY <1>6 DEF Line
<1> HIDE DEF i, j, notice
<1> QED
  BY <1>4, <1>5, <1>7 DEF Queue!Next

(* Every step of the log is a step of the queue, or changes neither the    *)
(* lines it holds nor the file.                                            *)
LEMMA StepIsQueueStep ==
    ASSUME LinesInv, [Next]_vars
    PROVE  [Queue!Next]_(Queue!vars)
<1>1. CASE Stays
  BY <1>1 DEF Stays, Queue!vars
<1>2. ASSUME NEW t \in FrontEnds, Logs(t) PROVE Queue!Next
  <2>1. Queue!Log(Line(t, logged[t] + 1)) /\ Line(t, logged[t] + 1) \in Lines
    BY <1>2 DEF Logs, Queue!Log
  <2> QED
    BY <2>1 DEF Queue!Next
<1>3. ASSUME NEW first \in Seq(Lines), NEW rest \in Seq(Lines), Saves(first, rest)
      PROVE  [Queue!Next]_(Queue!vars)
  <2>1. file \in Seq(Entries)
    BY DEF LinesInv, Inductive, TypeOK, Entries
  <2> QED
    BY <1>3, <2>1, SaveIsQueueSave
<1>4. ASSUME NEW kept \in Seq(Lines), NEW dropped \in Seq(Lines),
             NEW rest \in Seq(Lines), NEW n \in Nat \ {0}, GivesUp(kept, dropped, rest, n)
      PROVE  Queue!Next
  BY <1>4, GivingUpIsQueueGiveUp DEF LinesInv, LinesAreInPlace
<1> QED
  BY <1>1, <1>2, <1>3, <1>4, StepsOfLines

(* The log is a queue: every line of the file is there once, and in the    *)
(* order in which append() was called; a stretch of lines is missing only  *)
(* where a notice was written (AsyncLogging.cc:38-54,71-103).              *)
THEOREM LogIsQueue == Spec => ImplementsLogQueue
<1>1. Init => Queue!Init
  <2> SUFFICES ASSUME Init PROVE Queue!Init
    OBVIOUS
  <2>1. Unsaved = <<>> /\ file = <<>>
    BY InitIsEmpty DEF Init
  <2> QED
    BY <2>1 DEF Queue!Init
<1>2. LinesInv /\ [Next]_vars => [Queue!Next]_(Queue!vars)
  BY StepIsQueueStep
<1> QED
  BY <1>1, <1>2, LinesInvariant, PTL DEF Spec, ImplementsLogQueue, Queue!Spec
==============================================================================
