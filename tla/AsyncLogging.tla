----------------------------- MODULE AsyncLogging -----------------------------
(***************************************************************************)
(* base/AsyncLogging.cc: threads append lines to the current one of a set  *)
(* of large buffers; a background thread takes the filled buffers and the  *)
(* current one away under mutex_, puts spare ones in their place, writes   *)
(* what it took to a LogFile without the lock, and keeps two of the        *)
(* buffers as its next spares.                                             *)
(*                                                                         *)
(* A std::unique_ptr<Buffer> is NULL or the lines in the buffer it owns.   *)
(* A line is a record that says which thread logged it and as which of its *)
(* lines; a line takes one unit of the Size of a buffer.                   *)
(***************************************************************************)
EXTENDS CountDownLatch, SequencesExt

CONSTANTS
    FrontEnds,          \* the threads that log
    Main,               \* the thread that starts and destroys the object
    Backend,            \* the author of the notices in the file
    NULL,               \* an empty unique_ptr
    Size,               \* FixedBuffer's SIZE
    DropAbove,          \* 25 in the code
    MaxLines            \* bound: lines logged by each thread

ASSUME LogAssumption ==
    /\ Waiters = {Main} /\ Count = 1
    /\ IsFiniteSet(FrontEnds) /\ Backend \notin FrontEnds
    /\ Size \in Nat /\ Size > 1
    /\ DropAbove \in Nat /\ DropAbove > 1
    /\ MaxLines \in Nat

VARIABLES
    running_,
    currentBuffer_, nextBuffer_, buffers_,      \* guarded by mutex_
    newBuffer1, newBuffer2, buffersToWrite,     \* locals of threadFunc()
    written,            \* how many of buffersToWrite are in the file
    back,               \* where the background thread is
    main,               \* where Main is in start() and ~AsyncLogging()
    file,               \* what output.append() was given
    flushed,            \* how much of it output.flush() has pushed to disk
    logged              \* how many lines each thread has logged

frontBuffers == <<currentBuffer_, nextBuffer_, buffers_>>
backBuffers == <<newBuffer1, newBuffer2, buffersToWrite, written>>
output == <<file, flushed>>
vars == <<running_, frontBuffers, backBuffers, back, main, output, logged,
          latchVars>>

Line(t, n) == [by |-> t, nr |-> n]
Lines == [by : FrontEnds, nr : 1..MaxLines]
ASSUME NullAssumption == NULL \notin Seq(Lines)

Notices == [by : {Backend}, nr : Nat]
Pointer == Seq(Lines) \cup {NULL}

TypeOK ==
    /\ running_ \in BOOLEAN
    /\ currentBuffer_ \in Pointer /\ nextBuffer_ \in Pointer
    /\ buffers_ \in Seq(Seq(Lines))
    /\ newBuffer1 \in Pointer /\ newBuffer2 \in Pointer
    /\ buffersToWrite \in Seq(Seq(Lines))
    /\ written \in 0..Len(buffersToWrite)
    /\ back \in {"none", "entered", "test", "lock", "check", "waiting",
                 "woken", "swapped", "write", "exited"}
    /\ main \in {"idle", "latch", "started", "signal", "join", "done"}
    /\ file \in Seq(Lines \cup Notices)
    /\ flushed \in 0..Len(file)
    /\ logged \in [FrontEnds -> 0..MaxLines]
    /\ LatchTypeOK

Init ==
    /\ running_ = FALSE
    /\ currentBuffer_ = <<>> /\ nextBuffer_ = <<>> /\ buffers_ = <<>>
    /\ newBuffer1 = <<>> /\ newBuffer2 = <<>> /\ buffersToWrite = <<>>
    /\ written = 0
    /\ back = "none" /\ main = "idle"
    /\ file = <<>> /\ flushed = 0
    /\ logged = [t \in FrontEnds |-> 0]
    /\ LatchInit

(* FixedBuffer: append() does nothing when the line does not fit.          *)
Fits(buffer) == Size - Len(buffer) > 1
AppendTo(buffer, line) == IF Fits(buffer) THEN Append(buffer, line) ELSE buffer

(* cond_.signal() wakes the background thread if it waits.                 *)
Signal == back' = IF back = "waiting" THEN "woken" ELSE back

(* The background thread holds mutex_ between its test of buffers_ and the *)
(* wait that releases it; all its other critical sections are one step.    *)
MutexIsFree == back # "check"

------------------------------------------------------------------------------
(* append(logline, len), from any thread while the object exists.          *)

CanLog(t) ==
    /\ main \in {"idle", "latch", "started"}
    /\ logged[t] < MaxLines
    /\ MutexIsFree
    /\ logged' = [logged EXCEPT ![t] = @ + 1]

AppendFits(t) ==
    /\ CanLog(t)
    /\ Fits(currentBuffer_)
    /\ currentBuffer_' = AppendTo(currentBuffer_, Line(t, logged'[t]))
    /\ UNCHANGED <<running_, nextBuffer_, buffers_, backBuffers, back, main,
                   output, latchVars>>

X_AppendOverflowsLosesLine(t) ==
    /\ CanLog(t)
    /\ ~Fits(currentBuffer_)
    /\ buffers_' = Append(buffers_, currentBuffer_)
    /\ currentBuffer_' = IF nextBuffer_ # NULL THEN nextBuffer_ ELSE <<>>
    /\ nextBuffer_' = NULL
    /\ Signal
    /\ UNCHANGED <<running_, backBuffers, main, output, latchVars>>

X_AppendOverflowsMovesNext(t) ==
    /\ CanLog(t)
    /\ ~Fits(currentBuffer_)
    /\ buffers_' = Append(buffers_, nextBuffer_)
    /\ currentBuffer_' = <<Line(t, logged'[t])>>
    /\ nextBuffer_' = NULL
    /\ Signal
    /\ UNCHANGED <<running_, backBuffers, main, output, latchVars>>

AppendOverflows(t) ==
    /\ CanLog(t)
    /\ ~Fits(currentBuffer_)
    /\ buffers_' = Append(buffers_, currentBuffer_)
    /\ currentBuffer_' = AppendTo(IF nextBuffer_ # NULL THEN nextBuffer_ ELSE <<>>,
                                  Line(t, logged'[t]))
    /\ nextBuffer_' = NULL
    /\ Signal
    /\ UNCHANGED <<running_, backBuffers, main, output, latchVars>>

------------------------------------------------------------------------------
(* start() and ~AsyncLogging(), from Main.                                 *)

(* pthread_create may fail; Thread::start's result is dropped.             *)
Start ==
    /\ main = "idle"
    /\ running_' = TRUE
    /\ back' \in {"none", "entered"}
    /\ main' = "latch"
    /\ CallWait(Main)
    /\ UNCHANGED <<frontBuffers, backBuffers, output, logged>>

WaitForLatch ==
    /\ main = "latch"
    /\ TestCount(Main)
    /\ main' = IF waiter'[Main] = "through" THEN "started" ELSE "latch"
    /\ UNCHANGED <<running_, frontBuffers, backBuffers, back, output, logged>>

LatchWakesSpuriously ==
    /\ WakeSpuriously(Main)
    /\ UNCHANGED <<running_, frontBuffers, backBuffers, back, main, output,
                   logged>>

(* running_ = false, without mutex_.                                       *)
StopRunning ==
    /\ main = "started"
    /\ running_' = FALSE
    /\ main' = "signal"
    /\ UNCHANGED <<frontBuffers, backBuffers, back, output, logged, latchVars>>

(* cond_.signal(), without mutex_: it is lost if it comes between the test *)
(* of buffers_ and the wait.                                               *)
SignalStop ==
    /\ main = "signal"
    /\ Signal
    /\ main' = "join"
    /\ UNCHANGED <<running_, frontBuffers, backBuffers, output, logged, latchVars>>

Join ==
    /\ main = "join"
    /\ back = "exited"
    /\ main' = "done"
    /\ UNCHANGED <<running_, frontBuffers, backBuffers, back, output, logged,
                   latchVars>>

------------------------------------------------------------------------------
(* threadFunc(), the background thread.                                    *)

EnterThread ==
    /\ back = "entered"
    /\ CountDown
    /\ back' = "test"
    /\ UNCHANGED <<running_, frontBuffers, backBuffers, main, output, logged>>

(* while (running_); after the loop a last flush.                          *)
TestRunning ==
    /\ back = "test"
    /\ back' = IF running_ THEN "lock" ELSE "exited"
    /\ flushed' = IF running_ THEN flushed ELSE Len(file)
    /\ UNCHANGED <<running_, frontBuffers, backBuffers, main, file, logged,
                   latchVars>>

(* The end of the critical section: the current buffer joins the full      *)
(* ones, all change hands, and the spares take their places.               *)
Swap ==
    /\ buffersToWrite' = Append(buffers_, currentBuffer_)
    /\ buffers_' = buffersToWrite
    /\ currentBuffer_' = newBuffer1
    /\ newBuffer1' = NULL
    /\ nextBuffer_' = IF nextBuffer_ = NULL THEN newBuffer2 ELSE nextBuffer_
    /\ newBuffer2' = IF nextBuffer_ = NULL THEN NULL ELSE newBuffer2
    /\ back' = "swapped"
    /\ UNCHANGED <<running_, written, main, output, logged, latchVars>>

LockFindsFull ==
    /\ back = "lock"
    /\ buffers_ # <<>>
    /\ Swap

X_LockAlwaysWaits ==
    /\ back = "lock"
    /\ back' = "check"
    /\ UNCHANGED <<running_, frontBuffers, backBuffers, main, output, logged,
                   latchVars>>

LockFindsNone ==
    /\ back = "lock"
    /\ buffers_ = <<>>
    /\ back' = "check"
    /\ UNCHANGED <<running_, frontBuffers, backBuffers, main, output, logged,
                   latchVars>>

BeginWait ==
    /\ back = "check"
    /\ back' = "waiting"
    /\ UNCHANGED <<running_, frontBuffers, backBuffers, main, output, logged,
                   latchVars>>

X_TimeoutNever == FALSE

(* timedwait(flushInteval_) gives up waiting, or wakes up without a signal.*)
Timeout ==
    /\ back = "waiting"
    /\ back' = "woken"
    /\ UNCHANGED <<running_, frontBuffers, backBuffers, main, output, logged,
                   latchVars>>

X_WokenRechecks ==
    /\ back = "woken"
    /\ IF buffers_ # <<>> THEN Swap
       ELSE /\ back' = "check"
            /\ UNCHANGED <<running_, frontBuffers, backBuffers, main, output,
                           logged, latchVars>>

(* mutex_ is taken again; buffers_ is not looked at again.                 *)
Woken ==
    /\ back = "woken"
    /\ Swap

X_OverloadKeepsOne ==
    /\ back = "swapped"
    /\ back' = "write"
    /\ IF Len(buffersToWrite) > DropAbove
       THEN /\ file' = Append(file, Line(Backend, Len(buffersToWrite) - 2))
            /\ buffersToWrite' = SubSeq(buffersToWrite, 1, 1)
       ELSE UNCHANGED <<file, buffersToWrite>>
    /\ UNCHANGED <<running_, frontBuffers, newBuffer1, newBuffer2, written,
                   main, flushed, logged, latchVars>>

(* More than DropAbove buffers: a notice, and all but two are discarded.   *)
Overload ==
    /\ back = "swapped"
    /\ back' = "write"
    /\ IF Len(buffersToWrite) > DropAbove
       THEN /\ file' = Append(file, Line(Backend, Len(buffersToWrite) - 2))
            /\ buffersToWrite' = SubSeq(buffersToWrite, 1, 2)
       ELSE UNCHANGED <<file, buffersToWrite>>
    /\ UNCHANGED <<running_, frontBuffers, newBuffer1, newBuffer2, written,
                   main, flushed, logged, latchVars>>

WriteBuffer ==
    /\ back = "write"
    /\ written < Len(buffersToWrite)
    /\ file' = file \o buffersToWrite[written + 1]
    /\ written' = written + 1
    /\ UNCHANGED <<running_, frontBuffers, newBuffer1, newBuffer2,
                   buffersToWrite, back, main, flushed, logged, latchVars>>

Kept == SubSeq(buffersToWrite, 1, IF Len(buffersToWrite) > 2 THEN 2
                                  ELSE Len(buffersToWrite))

X_RecycleWithoutReset ==
    /\ back = "write"
    /\ written = Len(buffersToWrite)
    /\ newBuffer1' = IF newBuffer1 = NULL THEN Last(Kept) ELSE newBuffer1
    /\ newBuffer2' = IF newBuffer2 = NULL THEN Head(Kept) ELSE newBuffer2
    /\ buffersToWrite' = <<>>
    /\ written' = 0
    /\ flushed' = Len(file)
    /\ back' = "test"
    /\ UNCHANGED <<running_, frontBuffers, main, file, logged, latchVars>>

(* The spares that were handed out are replaced by buffers just written,   *)
(* which are reset; the others are destroyed; the file is flushed.         *)
Recycle ==
    /\ back = "write"
    /\ written = Len(buffersToWrite)
    /\ newBuffer1' = IF newBuffer1 = NULL THEN <<>> ELSE newBuffer1
    /\ newBuffer2' = IF newBuffer2 = NULL THEN <<>> ELSE newBuffer2
    /\ buffersToWrite' = <<>>
    /\ written' = 0
    /\ flushed' = Len(file)
    /\ back' = "test"
    /\ UNCHANGED <<running_, frontBuffers, main, file, logged, latchVars>>

------------------------------------------------------------------------------
FrontEnd == \E t \in FrontEnds : AppendFits(t) \/ AppendOverflows(t)

MainRuns == WaitForLatch \/ SignalStop \/ Join

BackRuns ==
    \/ EnterThread \/ TestRunning \/ LockFindsFull \/ LockFindsNone
    \/ BeginWait \/ Woken \/ Overload \/ WriteBuffer \/ Recycle

Next ==
    \/ FrontEnd \/ Start \/ LatchWakesSpuriously \/ StopRunning
    \/ MainRuns \/ BackRuns \/ Timeout

Spec == Init /\ [][Next]_vars

(* Main and the background thread run when they can.  That timedwait times *)
(* out is assumed by the properties that need it and by no other; that     *)
(* anybody logs, starts or destroys the object is not assumed at all.      *)
FairSpec == Spec /\ WF_vars(MainRuns) /\ WF_vars(BackRuns)

------------------------------------------------------------------------------
(* Properties.                                                             *)

(* AsyncLogging.cc:42-66,111-122: the pointers that append() and           *)
(* threadFunc() follow without a test are never NULL, and the buffers just *)
(* written always suffice to replace the spares handed out, after a drop   *)
(* or resize(2) too, so that back() is never taken of an empty vector.     *)
BuffersSuffice ==
    /\ currentBuffer_ # NULL
    /\ nextBuffer_ = NULL => buffers_ # <<>>
    /\ IF back \in {"swapped", "write"}
       THEN /\ newBuffer1 = NULL /\ buffersToWrite # <<>>
            /\ newBuffer2 = NULL => Len(buffersToWrite) > 1
       ELSE newBuffer1 # NULL /\ newBuffer2 # NULL /\ buffersToWrite = <<>>

(* BuffersSuffice, with the types, the place at which writing begins and   *)
(* the order of start(): an inductive invariant.                           *)
Placed ==
    /\ back # "write" => written = 0
    /\ main = "idle" => back = "none"

Inductive == TypeOK /\ BuffersSuffice /\ Placed

(* What the object still holds, oldest first.                              *)
Unsaved ==
    FlattenSeq(SubSeq(buffersToWrite, written + 1, Len(buffersToWrite)))
        \o FlattenSeq(buffers_) \o currentBuffer_

Lost ==
    {Line(t, n) : t \in FrontEnds, n \in 1..MaxLines}
        \ ({l \in Lines : l.nr > logged[l.by]} \cup Range(file) \cup Range(Unsaved))

Reported ==
    FoldSeq(LAMBDA entry, sum : IF entry.by = Backend THEN entry.nr + sum ELSE sum,
            0, file)

(* AsyncLogging.cc:90-98: lines are lost only when buffers are dropped     *)
(* under overload, and the notices in the file count those buffers: none   *)
(* of them was empty, and none held more than fits.                        *)
LossIsReported ==
    Reported <= Cardinality(Lost) /\ Cardinality(Lost) <= Reported * (Size - 1)

(* The buffers of all threads in one piece: the spares are empty, the      *)
(* others hold from one line to as many as fit (an only one may be empty,  *)
(* and so may the current one), no line is in two places, and every line   *)
(* that is anywhere was logged (AsyncLogging.cc:42-54,79-86,111-122).      *)
SparesAreEmpty == {nextBuffer_, newBuffer1, newBuffer2} \subseteq {NULL, <<>>}

BuffersAreFilled ==
    /\ Len(currentBuffer_) \in (IF buffers_ = <<>> THEN 0 ELSE 1)..Size - 1
    /\ \A i \in 1..Len(buffers_) : Len(buffers_[i]) \in 1..Size - 1
    /\ \A i \in 1..Len(buffersToWrite) :
          Len(buffersToWrite[i]) \in (IF Len(buffersToWrite) > 1 THEN 1 ELSE 0)..Size - 1

LinesAreInPlace ==
    /\ IsInjective(Unsaved)
    /\ Range(Unsaved) \cap Range(file) = {}
    /\ \A line \in Range(Unsaved) \cup Range(file) :
          line \in Lines => line.nr <= logged[line.by]

LinesInv == Inductive /\ SparesAreEmpty /\ BuffersAreFilled /\ LinesAreInPlace

(* Every behaviour of the buffers is one of a queue of lines: whatever is  *)
(* in the file is there once, and in the order in which append() was       *)
(* called (AsyncLogging.cc:38-54,71-103).                                  *)
Queue == INSTANCE LogQueue WITH unsaved <- Unsaved, saved <- file,
    Notices <- [by : {Backend}, nr : 1..(MaxLines * Cardinality(FrontEnds))]
ImplementsLogQueue == Queue!Spec

(* CountDownLatch.cc:15-32, AsyncLogging.cc:29-35: once the thread exists  *)
(* start() returns.                                                        *)
StartReturns == back = "entered" ~> main # "latch"

(* AsyncLogging.cc:74-77: a buffer that was filled is taken away without   *)
(* waiting for a timeout, whenever its signal comes, unless the object is  *)
(* told to stop.                                                           *)
FullBufferIsTaken ==
    running_ /\ back # "none" /\ buffers_ # <<>>
        ~> buffers_ = <<>> \/ ~running_

OnDisk == Range(SubSeq(file, 1, flushed))

(* AsyncLogging.h:19: as long as timedwait times out, every line reaches   *)
(* the disk or is part of a reported loss, unless the object is told to    *)
(* stop.                                                                   *)
LineReachesDisk ==
    WF_vars(Timeout) =>
        \A line \in Lines :
            running_ /\ back # "none" /\ line.nr <= logged[line.by]
                ~> line \in OnDisk \cup Lost \/ ~running_

(* AsyncLogging.cc:21-26: the destructor returns even if its signal comes  *)
(* before the wait, as long as timedwait times out.                        *)
DestructorReturns == WF_vars(Timeout) => (main = "join" ~> main = "done")
==============================================================================
