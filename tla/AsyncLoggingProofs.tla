-------------------------- MODULE AsyncLoggingProofs --------------------------
(***************************************************************************)
(* Proofs about AsyncLogging and its latch, for any threads, buffer size,  *)
(* overload limit and number of lines.                                     *)
(***************************************************************************)
EXTENDS AsyncLogging, TLAPS

(* A latch alone, with any number of waiters and any count, opens for      *)
(* nobody too early and leaves nobody asleep (CountDownLatch.cc:15-32).    *)
THEOREM LatchIsSafe == LatchSpec => [](LatchTypeOK /\ LatchSafe)
<1>1. LatchInit => LatchTypeOK /\ LatchSafe
  BY CountAssumption DEF LatchInit, LatchTypeOK, LatchSafe
<1>2. LatchTypeOK /\ LatchSafe /\ [LatchNext]_latchVars
        => (LatchTypeOK /\ LatchSafe)'
  <2> SUFFICES ASSUME LatchTypeOK, LatchSafe, [LatchNext]_latchVars
               PROVE  (LatchTypeOK /\ LatchSafe)'
    OBVIOUS
  <2> USE CountAssumption DEF LatchTypeOK, LatchSafe
  <2>1. ASSUME NEW w \in Waiters, CallWait(w) PROVE (LatchTypeOK /\ LatchSafe)'
    BY <2>1 DEF CallWait
  <2>2. ASSUME NEW w \in Waiters, TestCount(w) PROVE (LatchTypeOK /\ LatchSafe)'
    BY <2>2 DEF TestCount
  <2>3. ASSUME NEW w \in Waiters, WakeSpuriously(w)
        PROVE  (LatchTypeOK /\ LatchSafe)'
    BY <2>3 DEF WakeSpuriously
  <2>4. CASE CountDown
    <3>1. count_' \in 0..Count /\ count_' = count_ - 1
      BY <2>4 DEF CountDown
    <3>2. \A w \in Waiters : waiter[w] # "through"
      BY <2>4 DEF CountDown
    <3>3. waiter' \in [Waiters -> {"outside", "testing", "asleep", "through"}]
      BY <2>4 DEF CountDown
    <3>4. \A w \in Waiters : /\ waiter'[w] # "through"
                             /\ waiter'[w] = "asleep" => count_' # 0
      BY <2>4, <3>2 DEF CountDown
    <3> QED
      BY <3>1, <3>3, <3>4
  <2>5. CASE UNCHANGED latchVars
    BY <2>5 DEF latchVars
  <2> QED
    BY <2>1, <2>2, <2>3, <2>4, <2>5 DEF LatchNext
<1> QED
  BY <1>1, <1>2, PTL DEF LatchSpec

------------------------------------------------------------------------------
LEMMA EmptyIsNotNull == NULL # <<>> /\ <<>> \in Seq(Lines) /\ NULL \notin Seq(Lines)
<1>1. <<>> \in Seq(Lines)
  OBVIOUS
<1> QED
  BY <1>1, NullAssumption

LEMMA AppendKeepsType ==
    ASSUME NEW buffer \in Seq(Lines), NEW t \in FrontEnds, NEW n \in 1..MaxLines
    PROVE  AppendTo(buffer, Line(t, n)) \in Seq(Lines)
<1>1. Line(t, n) \in Lines
  BY DEF Line, Lines
<1>2. Append(buffer, Line(t, n)) \in Seq(Lines)
  BY <1>1
<1> QED
  BY <1>2 DEF AppendTo

(* The latch inside the object keeps its type.                             *)
LEMMA LatchKeepsType ==
    ASSUME LatchTypeOK,
           \/ UNCHANGED latchVars \/ CallWait(Main) \/ TestCount(Main)
           \/ WakeSpuriously(Main) \/ CountDown
    PROVE  LatchTypeOK'
BY CountAssumption, LogAssumption
   DEF LatchTypeOK, latchVars, CallWait, TestCount, WakeSpuriously, CountDown

(* The critical section that hands the buffers over, from any of its two   *)
(* entries (AsyncLogging.cc:79-86).                                        *)
LEMMA SwapStep ==
    ASSUME Inductive, back \in {"lock", "woken"}, Swap
    PROVE  Inductive'
<1> USE DEF Inductive, Placed
<1>1. /\ currentBuffer_ \in Seq(Lines) /\ newBuffer1 \in Seq(Lines)
      /\ newBuffer2 \in Seq(Lines) /\ buffersToWrite = <<>> /\ written = 0
  BY DEF TypeOK, BuffersSuffice, Pointer
<1>2. /\ buffersToWrite' \in Seq(Seq(Lines))
      /\ Len(buffersToWrite') = Len(buffers_) + 1
      /\ buffers_ \in Seq(Seq(Lines))
      /\ buffers_' = <<>>
  BY <1>1 DEF Swap, TypeOK
<1>3. /\ currentBuffer_' \in Seq(Lines) /\ currentBuffer_' # NULL
      /\ nextBuffer_' # NULL /\ newBuffer1' = NULL
      /\ newBuffer2' = NULL => nextBuffer_ = NULL
  BY <1>1, EmptyIsNotNull DEF Swap
<1>4. BuffersSuffice'
  <2>1. nextBuffer_ = NULL => Len(buffers_) > 0
    BY <1>2 DEF BuffersSuffice
  <2> QED
    BY <1>2, <1>3, <2>1 DEF Swap, BuffersSuffice
<1>5. TypeOK'
  <2>1. nextBuffer_' \in Pointer /\ newBuffer2' \in Pointer
    BY <1>1 DEF Swap, TypeOK, Pointer
  <2>2. LatchTypeOK'
    BY LatchKeepsType DEF Swap, TypeOK
  <2>3. written' \in 0..Len(buffersToWrite')
    BY <1>1, <1>2 DEF Swap
  <2> QED
    BY <1>1, <1>2, <1>3, <2>1, <2>2, <2>3 DEF Swap, TypeOK, Pointer, output
<1> QED
  BY <1>1, <1>4, <1>5 DEF Swap

LEMMA AppendStep ==
    ASSUME Inductive, NEW t \in FrontEnds, AppendFits(t) \/ AppendOverflows(t)
    PROVE  Inductive'
<1> USE DEF Inductive, Placed
<1>1. /\ logged' \in [FrontEnds -> 0..MaxLines]
      /\ logged'[t] \in 1..MaxLines
  <2>1. /\ logged \in [FrontEnds -> 0..MaxLines] /\ logged[t] < MaxLines
        /\ logged' = [logged EXCEPT ![t] = @ + 1]
    BY DEF TypeOK, AppendFits, AppendOverflows, CanLog
  <2>2. logged[t] + 1 \in 1..MaxLines /\ 1..MaxLines \subseteq 0..MaxLines
    BY <2>1, LogAssumption
  <2> QED
    BY <2>1, <2>2
<1>2. currentBuffer_ \in Seq(Lines)
  BY DEF TypeOK, BuffersSuffice, Pointer
<1>3. LatchTypeOK'
  BY LatchKeepsType DEF AppendFits, AppendOverflows, TypeOK
<1>4. CASE AppendFits(t)
  <2>1. currentBuffer_' \in Seq(Lines)
    BY <1>1, <1>2, <1>4, AppendKeepsType DEF AppendFits
  <2>2. TypeOK'
    BY <1>1, <1>3, <1>4, <2>1
       DEF TypeOK, AppendFits, backBuffers, output, latchVars, Pointer
  <2>3. BuffersSuffice' /\ Placed'
    BY <1>4, <2>1, EmptyIsNotNull DEF AppendFits, BuffersSuffice, backBuffers
  <2> QED
    BY <2>2, <2>3
<1>5. CASE AppendOverflows(t)
  <2>1. currentBuffer_' \in Seq(Lines)
    <3> DEFINE fresh == IF nextBuffer_ # NULL THEN nextBuffer_ ELSE <<>>
    <3>1. fresh \in Seq(Lines)
      BY EmptyIsNotNull DEF TypeOK, Pointer
    <3>2. currentBuffer_' = AppendTo(fresh, Line(t, logged'[t]))
      BY <1>5 DEF AppendOverflows
    <3> HIDE DEF fresh
    <3> QED
      BY <1>1, <3>1, <3>2, AppendKeepsType
  <2>2. buffers_' \in Seq(Seq(Lines)) /\ buffers_' # <<>>
    BY <1>2, <1>5 DEF AppendOverflows, TypeOK
  <2>3. back' = back \/ (back = "waiting" /\ back' = "woken")
    BY <1>5 DEF AppendOverflows, Signal
  <2>4. TypeOK'
    BY <1>1, <1>3, <1>5, <2>1, <2>2, <2>3
       DEF TypeOK, AppendOverflows, backBuffers, output, latchVars, Pointer
  <2>5. BuffersSuffice' /\ Placed'
    BY <1>5, <2>1, <2>2, <2>3, EmptyIsNotNull
       DEF AppendOverflows, BuffersSuffice, backBuffers
  <2> QED
    BY <2>4, <2>5
<1> QED
  BY <1>4, <1>5

(* Writing, discarding and recycling what was taken                        *)
(* (AsyncLogging.cc:90-124).                                               *)
LEMMA WriteStep ==
    ASSUME Inductive, Overload \/ WriteBuffer \/ Recycle
    PROVE  Inductive'
<1> USE DEF Inductive, Placed
<1>1. LatchTypeOK'
  BY LatchKeepsType DEF Overload, WriteBuffer, Recycle, TypeOK
<1>2. CASE Overload
  <2>1. /\ file' \in Seq(Lines \cup Notices) /\ flushed' \in 0..Len(file')
    <3> DEFINE notice == Line(Backend, Len(buffersToWrite) - 2)
    <3>1. file' = file \/ (Len(buffersToWrite) > DropAbove
                            /\ file' = Append(file, notice))
      BY <1>2 DEF Overload
    <3>2. Len(buffersToWrite) > DropAbove => notice \in Lines \cup Notices
      BY LogAssumption DEF TypeOK, Line, Notices
    <3> HIDE DEF notice
    <3>3. file \in Seq(Lines \cup Notices) /\ flushed \in 0..Len(file)
      BY DEF TypeOK
    <3>4. flushed' = flushed
      BY <1>2 DEF Overload
    <3> QED
      BY <3>1, <3>2, <3>3, <3>4
  <2>2. /\ buffersToWrite' \in Seq(Seq(Lines))
        /\ Len(buffersToWrite') = IF Len(buffersToWrite) > DropAbove THEN 2
                                  ELSE Len(buffersToWrite)
    <3>1. buffersToWrite \in Seq(Seq(Lines))
      BY DEF TypeOK
    <3>2. Len(buffersToWrite) > DropAbove
            => /\ SubSeq(buffersToWrite, 1, 2) \in Seq(Seq(Lines))
               /\ Len(SubSeq(buffersToWrite, 1, 2)) = 2
      BY <3>1, LogAssumption
    <3> QED
      BY <1>2, <3>1, <3>2 DEF Overload
  <2>3. /\ buffersToWrite' # <<>>
        /\ newBuffer2 = NULL => Len(buffersToWrite') > 1
    BY <1>2, <2>2, LogAssumption DEF Overload, TypeOK, BuffersSuffice
  <2>4. written' = 0 /\ written' \in 0..Len(buffersToWrite')
    BY <1>2, <2>2 DEF Overload
  <2>5. TypeOK'
    BY <1>1, <1>2, <2>1, <2>2, <2>4 DEF Overload, TypeOK, frontBuffers, latchVars
  <2>6. BuffersSuffice'
    BY <1>2, <2>3 DEF Overload, BuffersSuffice, frontBuffers
  <2> QED
    BY <1>2, <2>4, <2>5, <2>6 DEF Overload
<1>3. CASE WriteBuffer
  <2>1. buffersToWrite[written + 1] \in Seq(Lines)
    BY <1>3 DEF WriteBuffer, TypeOK
  <2>2. /\ file' \in Seq(Lines \cup Notices)
        /\ Len(file') >= Len(file)
    <3>1. buffersToWrite[written + 1] \in Seq(Lines \cup Notices)
      BY <2>1
    <3> QED
      BY <1>3, <3>1 DEF WriteBuffer, TypeOK
  <2>3. TypeOK'
    BY <1>1, <1>3, <2>2 DEF WriteBuffer, TypeOK, frontBuffers, latchVars
  <2> QED
    BY <1>3, <2>3 DEF WriteBuffer, BuffersSuffice, frontBuffers
<1>4. CASE Recycle
  <2>1. newBuffer1' # NULL /\ newBuffer2' # NULL
    BY <1>4, EmptyIsNotNull DEF Recycle
  <2>2. TypeOK'
    BY <1>1, <1>4, EmptyIsNotNull
       DEF Recycle, TypeOK, Pointer, frontBuffers, latchVars
  <2> QED
    BY <1>4, <2>1, <2>2 DEF Recycle, BuffersSuffice, frontBuffers
<1> QED
  BY <1>2, <1>3, <1>4

(* Steps that move Main or the background thread and leave every buffer.   *)
LEMMA ControlStep ==
    ASSUME Inductive,
           \/ Start \/ LatchWakesSpuriously \/ StopRunning \/ WaitForLatch
           \/ SignalStop \/ Join \/ EnterThread \/ TestRunning
           \/ LockFindsNone \/ BeginWait \/ Timeout
    PROVE  Inductive'
<1> USE DEF Inductive, Placed
<1>1. LatchTypeOK'
  BY LatchKeepsType
     DEF Start, LatchWakesSpuriously, StopRunning, WaitForLatch, SignalStop,
         Join, EnterThread, TestRunning, LockFindsNone, BeginWait, Timeout, TypeOK
<1>2. UNCHANGED <<frontBuffers, backBuffers, file, logged>>
  BY DEF Start, LatchWakesSpuriously, StopRunning, WaitForLatch, SignalStop,
         Join, EnterThread, TestRunning, LockFindsNone, BeginWait, Timeout, output
<1>3. back' = back
      \/ (/\ back' \in {"none", "entered", "test", "lock", "check", "waiting",
                        "woken", "exited"}
          /\ back \notin {"swapped", "write"})
  <2>1. CASE Start
    BY <2>1 DEF Start, TypeOK
  <2> QED
    BY <2>1
       DEF LatchWakesSpuriously, StopRunning, WaitForLatch, SignalStop, Signal,
         Join, EnterThread, TestRunning, LockFindsNone, BeginWait, Timeout
<1>4. BuffersSuffice'
  BY <1>2, <1>3 DEF BuffersSuffice, frontBuffers, backBuffers
<1>5. Placed'
  <2>1. main' = "idle" => main = "idle" /\ back' = back
    BY DEF Start, LatchWakesSpuriously, StopRunning, WaitForLatch, SignalStop,
         Join, EnterThread, TestRunning, LockFindsNone, BeginWait, Timeout
  <2>2. written' = written
    BY <1>2 DEF backBuffers
  <2> QED
    BY <1>3, <2>1, <2>2
<1>6. /\ running_' \in BOOLEAN
      /\ main' \in {"idle", "latch", "started", "signal", "join", "done"}
  BY DEF Start, LatchWakesSpuriously, StopRunning, WaitForLatch, SignalStop,
         Join, EnterThread, TestRunning, LockFindsNone, BeginWait, Timeout, TypeOK
<1>7. flushed' \in 0..Len(file')
  BY <1>2
     DEF Start, LatchWakesSpuriously, StopRunning, WaitForLatch, SignalStop,
         Join, EnterThread, TestRunning, LockFindsNone, BeginWait, Timeout,
         TypeOK, output
<1> QED
  BY <1>1, <1>2, <1>3, <1>4, <1>6, <1>7, <1>5
     DEF TypeOK, frontBuffers, backBuffers

------------------------------------------------------------------------------
(* The constructor leaves the buffers as the invariant asks                *)
(* (AsyncLogging.cc:5-19).                                                 *)
LEMMA InitIsInductive == Init => Inductive
<1> SUFFICES ASSUME Init PROVE Inductive
  OBVIOUS
<1>1. LatchTypeOK
  BY CountAssumption DEF Init, LatchInit, LatchTypeOK
<1>2. logged \in [FrontEnds -> 0..MaxLines]
  BY LogAssumption DEF Init
<1>3. /\ buffers_ \in Seq(Seq(Lines)) /\ buffersToWrite \in Seq(Seq(Lines))
      /\ file \in Seq(Lines \cup Notices)
      /\ written \in 0..Len(buffersToWrite) /\ flushed \in 0..Len(file)
  BY DEF Init
<1>4. TypeOK
  BY <1>1, <1>2, <1>3, EmptyIsNotNull DEF Init, TypeOK, Pointer
<1> QED
  BY <1>4, EmptyIsNotNull DEF Init, Inductive, Placed, BuffersSuffice

(* Every step of every thread keeps the invariant of the buffers.          *)
LEMMA InductiveStep == Inductive /\ [Next]_vars => Inductive'
<1> SUFFICES ASSUME Inductive, [Next]_vars PROVE Inductive'
  OBVIOUS
<1>1. CASE FrontEnd
  BY <1>1, AppendStep DEF FrontEnd
<1>2. CASE \/ Start \/ LatchWakesSpuriously \/ StopRunning \/ WaitForLatch
           \/ SignalStop \/ Join \/ EnterThread \/ TestRunning
           \/ LockFindsNone \/ BeginWait \/ Timeout
  BY <1>2, ControlStep
<1>3. CASE LockFindsFull \/ Woken
  BY <1>3, SwapStep DEF LockFindsFull, Woken
<1>4. CASE Overload \/ WriteBuffer \/ Recycle
  BY <1>4, WriteStep
<1>5. CASE UNCHANGED vars
  BY <1>5
     DEF vars, frontBuffers, backBuffers, output, latchVars, Inductive,
         Placed, TypeOK, BuffersSuffice, LatchTypeOK
<1> QED
  BY <1>1, <1>2, <1>3, <1>4, <1>5 DEF Next, MainRuns, BackRuns

(* The buffers of AsyncLogging.cc at every step, for any number of threads *)
(* and lines, any buffer size and overload limit.                          *)
THEOREM InductiveInvariant == Spec => []Inductive
BY InitIsInductive, InductiveStep, PTL DEF Spec

(* append() and threadFunc() never follow a NULL pointer and never take    *)
(* the last element of an empty vector (AsyncLogging.cc:42-66,111-122).    *)
THEOREM BuffersAlwaysSuffice == Spec => []BuffersSuffice
<1>1. Inductive => BuffersSuffice
  BY DEF Inductive
<1> QED
  BY <1>1, InductiveInvariant, PTL

(* Every variable of AsyncLogging keeps its type.                          *)
THEOREM TypeCorrect == Spec => []TypeOK
<1>1. Inductive => TypeOK
  BY DEF Inductive
<1> QED
  BY <1>1, InductiveInvariant, PTL
==============================================================================
