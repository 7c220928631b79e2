------------------------ MODULE EventLoopThreadProofs ------------------------
(***************************************************************************)
(* Proofs about net/EventLoopThread.cc: the loop inside it behaves as an   *)
(* EventLoop, and the pointer startLoop() returns is live while it is used.*)
(***************************************************************************)
EXTENDS EventLoopThread, EventLoopProofs

------------------------------------------------------------------------------
(* The composition is an EventLoop with one caller.                        *)

LEMMA OwnerIsThread == Owner \in Threads /\ LoopThread \in Threads
BY OwnerAssumption DEF Threads

LEMMA ThreadStepIsLoopStep == [ThreadNext]_allVars => [Next]_vars
<1> SUFFICES ASSUME [ThreadNext]_allVars PROVE [Next]_vars
  OBVIOUS
<1>1. CASE UseLoop
  BY <1>1, OwnerIsThread DEF UseLoop, Next, Call
<1>2. CASE QuitLoop
  BY <1>2, OwnerIsThread DEF QuitLoop, Next, Call
<1>3. CASE QuitWakesUp
  BY <1>3, OwnerIsThread DEF QuitWakesUp, Next, Call
<1>4. CASE EnterLoop
  BY <1>4 DEF EnterLoop, Next, Loop
<1>5. CASE RunLoop
  BY <1>5, OwnerIsThread DEF RunLoop, Next, Call
<1>6. CASE \/ StartThread \/ CheckLoop \/ SpuriousWakeup \/ ReturnLoop
           \/ TestLoop \/ Join \/ ConstructLoop \/ Publish
           \/ LeaveLoop \/ EndScope
  BY <1>6 DEF StartThread, CheckLoop, SpuriousWakeup, ReturnLoop, TestLoop,
              Join, ConstructLoop, Publish, LeaveLoop, EndScope
<1>7. CASE UNCHANGED allVars
  BY <1>7 DEF allVars
<1> QED
  BY <1>1, <1>2, <1>3, <1>4, <1>5, <1>6, <1>7
  DEF ThreadNext, OwnerNext, ThreadFunc

(* Whatever the owner does, the loop it owns is an EventLoop, so no wakeup *)
(* of it is lost and its functors run in order (EventLoopThread.cc:38-48). *)
THEOREM OwnedLoop == ThreadSpec => []NoLostWakeup /\ ImplementsTaskQueue
<1>1. ThreadSpec => Spec
  BY ThreadStepIsLoopStep, PTL DEF ThreadSpec, ThreadInit, Spec
<1> QED
  BY <1>1, NoWakeupLost, Refinement, PTL

------------------------------------------------------------------------------
(* The pointer and the thread.                                             *)

(* Only the destructor sets quit_, and only quit_ ends the loop; so loop_, *)
(* once published, stays published until the destructor has called quit(). *)
ThreadInv ==
    /\ ThreadTypeOK
    /\ owner = "idle" => thread = "none"
    /\ pc = "stopped" => quit_
    /\ thread = "looping" => pc # "start"
    /\ thread \in {"returned", "exited"} => pc = "stopped"
    /\ quit_ => owner \in {"wakeup", "join", "done"}
    /\ owner \in {"return", "using", "quit"} => loop_ = "loop"
    /\ owner \in {"using", "quit"} => handle = "loop"
    /\ owner = "done" => thread = "exited"

(* Calls other than quit() leave pc and quit_ alone.                       *)
LEMMA CallsKeepControl ==
  ASSUME NEW t, \/ \E f \in Functors : QueueInLoop(t, f) \/ RunInLoop(t, f)
                \/ Wakeup(t)
  PROVE  UNCHANGED <<pc, quit_>>
BY DEF QueueInLoop, RunInLoop, Wakeup, control

(* A step of loop() does not set quit_, and only quit_ ends loop().        *)
LEMMA LoopNeverQuits ==
  ASSUME Loop, pc # "start"
  PROVE  /\ quit_' => quit_
         /\ pc' = "stopped" => quit_'
         /\ pc' # "start"
         /\ pc # "stopped"
<1>1. CASE InlineReturns
  BY <1>1 DEF InlineReturns, InUserCode, control
<1>2. CASE HandleRead
  BY <1>2 DEF HandleRead, control
<1>3. CASE ~InlineReturns /\ ~HandleRead
  BY <1>3 DEF Loop, LoopStart, ResetQuit, LoopContinue, LoopExit, EpollWait,
     EpollError, HandleEvent, CallbackReturns, DoPendingFunctors, RunFunctor,
     FunctorReturns, FunctorsDone
<1> QED
  BY <1>1, <1>2, <1>3

LEMMA ThreadInvInit == ThreadInit => ThreadInv
BY DEF ThreadInit, Init, ThreadInv, ThreadTypeOK

LEMMA ThreadInvStep == ThreadInv /\ [ThreadNext]_allVars => ThreadInv'
<1> SUFFICES ASSUME ThreadInv, [ThreadNext]_allVars PROVE ThreadInv'
  OBVIOUS
<1> USE DEF ThreadInv, ThreadTypeOK
<1>1. CASE StartThread
  BY <1>1 DEF StartThread, vars, control
<1>2. CASE CheckLoop
  BY <1>2 DEF CheckLoop, vars, control
<1>3. CASE SpuriousWakeup
  BY <1>3 DEF SpuriousWakeup, vars, control
<1>4. CASE ReturnLoop
  BY <1>4 DEF ReturnLoop, vars, control
<1>5. CASE UseLoop
  <2>1. UNCHANGED <<pc, quit_>> /\ UNCHANGED threadVars
    BY <1>5, CallsKeepControl DEF UseLoop
  <2> QED
    BY <2>1 DEF threadVars
<1>6. CASE TestLoop
  BY <1>6 DEF TestLoop, vars, control
<1>7. CASE QuitLoop
  BY <1>7 DEF QuitLoop, Quit
<1>8. CASE QuitWakesUp
  BY <1>8 DEF QuitWakesUp, Wakeup, control
<1>9. CASE Join
  BY <1>9 DEF Join, vars, control
<1>10. CASE ConstructLoop
  BY <1>10 DEF ConstructLoop, vars, control
<1>11. CASE Publish
  BY <1>11 DEF Publish, vars, control
<1>12. CASE EnterLoop
  BY <1>12 DEF EnterLoop, LoopStart
<1>13. CASE RunLoop
  <2>1. CASE Loop /\ pc # "start"
    BY <1>13, <2>1, LoopNeverQuits DEF RunLoop, threadVars
  <2>2. CASE UNCHANGED <<pc, quit_>>
    BY <1>13, <2>2 DEF RunLoop, threadVars
  <2>3. (\E c \in Channels : Arrival(c)) => UNCHANGED <<pc, quit_>>
    BY DEF Arrival, control
  <2> QED
    BY <1>13, <2>1, <2>2, <2>3, CallsKeepControl DEF RunLoop
<1>14. CASE LeaveLoop
  BY <1>14 DEF LeaveLoop, vars, control
<1>15. CASE EndScope
  BY <1>15 DEF EndScope, vars, control
<1>16. CASE UNCHANGED allVars
  BY <1>16 DEF allVars, vars, control, threadVars
<1> QED
  BY <1>1, <1>2, <1>3, <1>4, <1>5, <1>6, <1>7, <1>8, <1>9, <1>10, <1>11,
     <1>12, <1>13, <1>14, <1>15, <1>16 DEF ThreadNext, OwnerNext, ThreadFunc

THEOREM ThreadInvariant == ThreadSpec => []ThreadInv
BY ThreadInvInit, ThreadInvStep, PTL DEF ThreadSpec

(* Thread, owner and the two pointers keep their types.                    *)
THEOREM ThreadTyped == ThreadSpec => []ThreadTypeOK
<1>1. ThreadInv => ThreadTypeOK
  BY DEF ThreadInv
<1> QED
  BY ThreadInvariant, <1>1, PTL

(* startLoop never returns NULL or a dangling pointer, and the pointer     *)
(* stays valid until the destructor has set quit_                          *)
(* (EventLoopThread.cc:14-48).                                             *)
THEOREM HandleLive == ThreadSpec => []HandleIsLive
<1>1. ThreadInv => HandleIsLive
  BY DEF ThreadInv, ThreadTypeOK, HandleIsLive, Alive
<1> QED
  BY ThreadInvariant, <1>1, PTL

(* ~EventLoopThread never finishes while ThreadFunc may still write loop_  *)
(* (EventLoopThread.cc:14-21, 47).                                         *)
THEOREM OutlivesThread == ThreadSpec => []ObjectOutlivesThread
<1>1. ThreadInv => ObjectOutlivesThread
  BY DEF ThreadInv, ObjectOutlivesThread
<1> QED
  BY ThreadInvariant, <1>1, PTL
==============================================================================
