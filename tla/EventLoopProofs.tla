--------------------------- MODULE EventLoopProofs ---------------------------
(***************************************************************************)
(* Proofs, for every set of threads, descriptors and functors, that no     *)
(* wakeup of an event loop is lost and that the loop implements TaskQueue. *)
(***************************************************************************)
EXTENDS EventLoop, SequenceTheorems, TLAPS

LEMMA InitInductive == Init => Inductive
BY EmptySeq DEF Init, Inductive, TypeOK

(* What each step of the loop thread leaves of the invariant.              *)
LEMMA LoopInductive == Inductive /\ Loop => Inductive'
<1> SUFFICES ASSUME Inductive, Loop PROVE Inductive'
  OBVIOUS
<1> USE DEF Inductive, TypeOK, WakeComing, Fds, Threads
<1>1. CASE LoopStart
  BY <1>1 DEF LoopStart, kernel, tasks
<1>2. CASE LoopContinue
  BY <1>2 DEF LoopContinue, tasks
<1>3. CASE LoopExit
  BY <1>3 DEF LoopExit, kernel, tasks
<1>4. CASE EpollWait
  BY <1>4 DEF EpollWait, Reported, tasks
<1>5. CASE EpollError
  BY <1>5 DEF EpollError, kernel, tasks
<1>6. CASE HandleRead
  BY <1>6 DEF HandleRead, control, tasks
<1>7. CASE \E c \in Channels : HandleEvent(c)
  BY <1>7 DEF HandleEvent, tasks
<1>8. CASE CallbackReturns
  BY <1>8 DEF CallbackReturns, InUserCode, kernel, tasks
<1>9. CASE DoPendingFunctors
  BY <1>9, EmptySeq DEF DoPendingFunctors, kernel
<1>10. CASE RunFunctor
  <2>1. /\ Head(tempFunctors) \in Functors
        /\ Tail(tempFunctors) \in Seq(Functors)
    BY <1>10, HeadTailProperties DEF RunFunctor
  <2>2. /\ <<Head(tempFunctors)>> \in Seq(Functors)
        /\ <<Head(tempFunctors)>> # <<>>
    BY <2>1
  <2> QED
    BY <1>10, <2>1, <2>2 DEF RunFunctor, kernel
<1>11. CASE FunctorReturns
  BY <1>11, EmptySeq DEF FunctorReturns, InUserCode, kernel
<1>12. CASE InlineReturns
  <2>1. callStack # <<>>
    BY <1>12, EmptySeq DEF InlineReturns
  <2>2. /\ Tail(callStack) \in Seq(Functors)
        /\ pc = "functor" => Tail(callStack) # <<>>
    BY <1>12, <2>1, HeadTailProperties, EmptySeq DEF InlineReturns
  <2> QED
    BY <1>12, <2>1, <2>2 DEF InlineReturns, InUserCode, control, kernel
<1>13. CASE FunctorsDone
  BY <1>13 DEF FunctorsDone, kernel, tasks
<1>14. CASE ResetQuit
  BY <1>14 DEF ResetQuit, kernel, tasks
<1> QED
  BY <1>1, <1>2, <1>3, <1>4, <1>5, <1>6, <1>7, <1>8, <1>9, <1>10, <1>11,
     <1>12, <1>13, <1>14 DEF Loop

(* A thread that calls into the loop leaves a wakeup coming whenever it    *)
(* leaves a functor in the queue or quit_ set.                             *)
LEMMA CallInductive ==
  ASSUME Inductive, NEW t \in Threads, Call(t)
  PROVE  Inductive'
<1> USE DEF Inductive, TypeOK, WakeComing, Fds, Threads
<1>1. ASSUME NEW f \in Functors, QueueInLoop(t, f) PROVE Inductive'
  <2>1. Append(pendingFunctors, f) \in Seq(Functors)
    BY AppendProperties
  <2> QED
    BY <1>1, <2>1 DEF QueueInLoop, CanCall, InUserCode, control, kernel
<1>2. ASSUME NEW f \in Functors, RunInLoop(t, f) PROVE Inductive'
  <2>1. CASE t = LoopThread
    <3>1. /\ <<f>> \o callStack \in Seq(Functors)
          /\ <<f>> \o callStack # <<>>
      <4>1. <<f>> \in Seq(Functors) /\ <<f>> # <<>>
        OBVIOUS
      <4> QED
        BY <4>1, ConcatProperties, ConcatEqualIffEmpty
    <3>2. /\ callStack' = <<f>> \o callStack
          /\ InUserCode
          /\ UNCHANGED <<control, kernel, pendingFunctors, tempFunctors, waking>>
      BY <1>2, <2>1 DEF RunInLoop, CanCall
    <3>3. callStack' \in Seq(Functors) /\ callStack' # <<>>
      BY <3>1, <3>2
    <3>4. UNCHANGED <<control, kernel, pendingFunctors, tempFunctors, waking>>
      BY <3>2
    <3>5. InUserCode
      BY <3>2
    <3> QED
      BY <3>3, <3>4, <3>5 DEF InUserCode, control, kernel
  <2>2. CASE t # LoopThread
    BY <1>1, <1>2, <2>2 DEF RunInLoop
  <2> QED
    BY <2>1, <2>2
<1>3. CASE Quit(t)
  BY <1>3 DEF Quit, CanCall, InUserCode, kernel, tasks
<1>4. CASE Wakeup(t)
  BY <1>4 DEF Wakeup, control, tasks
<1> QED
  BY <1>1, <1>2, <1>3, <1>4 DEF Call

LEMMA StepInductive == Inductive /\ [Next]_vars => Inductive'
<1> SUFFICES ASSUME Inductive, [Next]_vars PROVE Inductive'
  OBVIOUS
<1>1. CASE Loop
  BY <1>1, LoopInductive
<1>2. CASE \E t \in Threads : Call(t)
  BY <1>2, CallInductive
<1>3. CASE \E c \in Channels : Arrival(c)
  BY <1>3 DEF Inductive, TypeOK, WakeComing, Fds, Arrival, control, tasks
<1>4. CASE UNCHANGED vars
  BY <1>4
  DEF Inductive, TypeOK, WakeComing, vars, control, kernel, tasks
<1> QED
  BY <1>1, <1>2, <1>3, <1>4 DEF Next

(* The invariant that relates the queue, the eventfd and the position of   *)
(* the loop thread (EventLoop.cc:42-137) holds of every behaviour.         *)
THEOREM InductiveInvariant == Spec => []Inductive
BY InitInductive, StepInductive, PTL DEF Spec

(* Every variable of an event loop keeps its type, and looping_ and        *)
(* isPendingFunctor_ mirror the position in loop().                        *)
THEOREM TypeCorrect == Spec => []TypeOK
<1>1. Inductive => TypeOK
  BY DEF Inductive
<1> QED
  BY InductiveInvariant, <1>1, PTL

(* A loop asleep in epoll_wait with a queued functor, or after quit(), is  *)
(* always about to be woken (EventLoop.cc:62-69, 85-96).                   *)
THEOREM NoWakeupLost == Spec => []NoLostWakeup
<1>1. Inductive => NoLostWakeup
  BY DEF Inductive, NoLostWakeup, TypeOK, WakeComing, Threads
<1> QED
  BY InductiveInvariant, <1>1, PTL
------------------------------------------------------------------------------
(* The loop implements the abstract queue.                                 *)

(* Queueing behind the batch that is being run.                            *)
LEMMA ConcatAppend ==
  ASSUME NEW S, NEW s \in Seq(S), NEW t \in Seq(S), NEW e \in S
  PROVE  s \o Append(t, e) = Append(s \o t, e)
<1>1. s \o t \in Seq(S) /\ <<e>> \in Seq(S)
  BY ConcatProperties
<1>2. Append(t, e) = t \o <<e>> /\ Append(s \o t, e) = (s \o t) \o <<e>>
  BY <1>1, AppendIsConcat
<1> QED
  BY <1>1, <1>2, ConcatAssociative

(* Taking the oldest functor of a batch that is not used up.               *)
LEMMA HeadTailConcat ==
  ASSUME NEW S, NEW s \in Seq(S), NEW t \in Seq(S), s # <<>>
  PROVE  /\ s \o t # <<>>
         /\ Head(s \o t) = Head(s)
         /\ Tail(s \o t) = Tail(s) \o t
<1>1. /\ s \o t \in Seq(S)
      /\ Len(s \o t) = Len(s) + Len(t)
      /\ \A i \in 1 .. Len(s) + Len(t) :
            (s \o t)[i] = IF i <= Len(s) THEN s[i] ELSE t[i - Len(s)]
  BY ConcatProperties
<1>2. Len(s) \in Nat \ {0} /\ Len(t) \in Nat
  BY EmptySeq, LenProperties
<1>3. s \o t # <<>>
  BY <1>1, <1>2, EmptySeq
<1>4. Head(s \o t) = Head(s)
  BY <1>1, <1>2
<1>5. /\ Tail(s) \in Seq(S) /\ Len(Tail(s)) = Len(s) - 1
      /\ \A i \in 1 .. Len(Tail(s)) : Tail(s)[i] = s[i + 1]
  BY HeadTailProperties
<1>6. /\ Tail(s \o t) \in Seq(S)
      /\ Len(Tail(s \o t)) = Len(s) + Len(t) - 1
      /\ \A i \in 1 .. Len(Tail(s \o t)) : Tail(s \o t)[i] = (s \o t)[i + 1]
  BY <1>1, <1>3, HeadTailProperties
<1>7. /\ Tail(s) \o t \in Seq(S)
      /\ Len(Tail(s) \o t) = Len(s) - 1 + Len(t)
      /\ \A i \in 1 .. Len(s) - 1 + Len(t) :
            (Tail(s) \o t)[i] = IF i <= Len(s) - 1 THEN Tail(s)[i]
                                                   ELSE t[i - (Len(s) - 1)]
  BY <1>5, ConcatProperties
<1>8. ASSUME NEW i \in 1 .. Len(s) - 1 + Len(t)
      PROVE  Tail(s \o t)[i] = (Tail(s) \o t)[i]
  <2>1. Tail(s \o t)[i] = (s \o t)[i + 1]
    BY <1>2, <1>6
  <2>2. i + 1 \in 1 .. Len(s) + Len(t)
    BY <1>2
  <2>3. (s \o t)[i + 1] = IF i + 1 <= Len(s) THEN s[i + 1]
                                             ELSE t[i + 1 - Len(s)]
    BY <1>1, <2>2
  <2>4. CASE i <= Len(s) - 1
    BY <1>2, <1>5, <1>7, <2>1, <2>3, <2>4
  <2>5. CASE ~(i <= Len(s) - 1)
    <3>1. i - (Len(s) - 1) = i + 1 - Len(s)
      BY <1>2
    <3> QED
      BY <1>2, <1>7, <2>1, <2>3, <2>5, <3>1
  <2> QED
    BY <2>4, <2>5
<1>9. Tail(s \o t) = Tail(s) \o t
  <2>1. Len(Tail(s \o t)) = Len(Tail(s) \o t)
    BY <1>2, <1>6, <1>7
  <2>2. \A i \in 1 .. Len(Tail(s \o t)) :
            Tail(s \o t)[i] = (Tail(s) \o t)[i]
    BY <1>2, <1>6, <1>8
  <2> QED
    BY <1>6, <1>7, <2>1, <2>2, SeqEqual
<1> QED
  BY <1>3, <1>4, <1>9

LEMMA InitRefines == Init => TQ!Init
<1>1. <<>> \o <<>> = <<>>
  BY EmptySeq, ConcatEmptySeq
<1> QED
  BY <1>1 DEF Init, TQ!Init

(* A step that leaves the tasks alone is a stutter of the queue.           *)
LEMMA TasksUnchanged == UNCHANGED tasks => [TQ!Next]_(TQ!vars)
BY DEF tasks, TQ!vars

LEMMA QueueRefines ==
  ASSUME Inductive, NEW t \in Threads, NEW f \in Functors, QueueInLoop(t, f)
  PROVE  TQ!Next
<1>1. tempFunctors \o Append(pendingFunctors, f)
        = Append(tempFunctors \o pendingFunctors, f)
  BY ConcatAppend DEF Inductive, TypeOK
<1>2. TQ!Submit(f)
  BY <1>1 DEF QueueInLoop, TQ!Submit
<1> QED
  BY <1>2 DEF TQ!Next

LEMMA StepRefines == Inductive /\ [Next]_vars => [TQ!Next]_(TQ!vars)
<1> SUFFICES ASSUME Inductive, [Next]_vars PROVE [TQ!Next]_(TQ!vars)
  OBVIOUS
<1> USE DEF Inductive, TypeOK
<1>1. CASE DoPendingFunctors
  <2>1. tempFunctors = <<>>
    BY <1>1 DEF DoPendingFunctors
  <2>2. /\ pendingFunctors \o <<>> = pendingFunctors
        /\ <<>> \o pendingFunctors = pendingFunctors
    BY ConcatEmptySeq
  <2>3. /\ (tempFunctors \o pendingFunctors)'
              = tempFunctors \o pendingFunctors
        /\ callStack' = callStack
    BY <1>1, <2>1, <2>2 DEF DoPendingFunctors
  <2> QED
    BY <2>3 DEF TQ!vars
<1>2. CASE RunFunctor
  <2>1. /\ tempFunctors \o pendingFunctors # <<>>
        /\ Head(tempFunctors \o pendingFunctors) = Head(tempFunctors)
        /\ Tail(tempFunctors \o pendingFunctors)
              = Tail(tempFunctors) \o pendingFunctors
    BY <1>2, HeadTailConcat DEF RunFunctor
  <2>2. callStack = <<>>
    BY <1>2 DEF RunFunctor
  <2>3. TQ!Run
    BY <1>2, <2>1, <2>2 DEF RunFunctor, TQ!Run
  <2> QED
    BY <2>3 DEF TQ!Next
<1>3. CASE FunctorReturns
  <2>1. callStack # <<>> /\ Tail(callStack) = <<>>
    <3>1. callStack \in Seq(Functors) /\ Len(callStack) = 1
      BY <1>3 DEF FunctorReturns
    <3>2. callStack # <<>>
      BY <1>3 DEF FunctorReturns
    <3>3. Tail(callStack) \in Seq(Functors) /\ Len(Tail(callStack)) = 0
      BY <3>1, <3>2, HeadTailProperties
    <3> QED
      BY <3>2, <3>3, EmptySeq
  <2>2. TQ!Return
    BY <1>3, <2>1 DEF FunctorReturns, TQ!Return
  <2> QED
    BY <2>2 DEF TQ!Next
<1>4. CASE InlineReturns
  <2>1. callStack # <<>>
    BY <1>4, EmptySeq DEF InlineReturns
  <2>2. TQ!Return
    BY <1>4, <2>1 DEF InlineReturns, TQ!Return
  <2> QED
    BY <2>2 DEF TQ!Next
<1>5. ASSUME NEW t \in Threads, Call(t) PROVE [TQ!Next]_(TQ!vars)
  <2>1. CASE \E f \in Functors : QueueInLoop(t, f)
    BY <2>1, QueueRefines
  <2>2. ASSUME NEW f \in Functors, RunInLoop(t, f) PROVE TQ!Next
    <3>1. CASE t = LoopThread
      BY <2>2, <3>1 DEF RunInLoop, TQ!Call, TQ!Next
    <3>2. CASE t # LoopThread
      BY <2>2, <3>2, QueueRefines DEF RunInLoop
    <3> QED
      BY <3>1, <3>2
  <2>3. CASE Quit(t) \/ Wakeup(t)
    BY <2>3, TasksUnchanged DEF Quit, Wakeup
  <2> QED
    BY <1>5, <2>1, <2>2, <2>3 DEF Call
<1>6. CASE \/ LoopStart \/ ResetQuit \/ LoopContinue \/ LoopExit
           \/ EpollWait \/ EpollError \/ HandleRead
           \/ (\E c \in Channels : HandleEvent(c)) \/ CallbackReturns
           \/ FunctorsDone
  BY <1>6, TasksUnchanged
  DEF LoopStart, ResetQuit, LoopContinue, LoopExit, EpollWait, EpollError,
      HandleRead, HandleEvent, CallbackReturns, FunctorsDone
<1>7. CASE \E c \in Channels : Arrival(c)
  BY <1>7, TasksUnchanged DEF Arrival
<1>8. CASE UNCHANGED vars
  BY <1>8, TasksUnchanged DEF vars
<1> QED
  BY <1>1, <1>2, <1>3, <1>4, <1>5, <1>6, <1>7, <1>8 DEF Next, Loop

(* Functors are run one at a time, once each and in the order in which     *)
(* they were queued (EventLoop.cc:72-96, 122-137): every behaviour of the  *)
(* loop is one of TaskQueue.                                               *)
THEOREM Refinement == Spec => ImplementsTaskQueue
BY InitRefines, InductiveInvariant, StepRefines, PTL
DEF Spec, ImplementsTaskQueue, TQ!Spec
==============================================================================
