--------------------------- MODULE EventLoopThread ---------------------------
(***************************************************************************)
(* net/EventLoopThread.cc: one thread around one EventLoop.  The owner     *)
(* (the thread that runs EventLoopThreadPool::start) creates the thread,   *)
(* waits on a condition variable until loop_ points at the EventLoop that  *)
(* lives on the new thread's stack, hands it work, and in the destructor   *)
(* quits the loop and joins.  The loop is the module EventLoop; as in the  *)
(* repository the destructor is the only caller of quit().                 *)
(***************************************************************************)
EXTENDS EventLoop

CONSTANT Owner

ASSUME OwnerAssumption == Callers = {Owner}

VARIABLES
    owner,      \* where the owner is in startLoop() or ~EventLoopThread()
    thread,     \* where the thread is in ThreadFunc()
    loop_,      \* the member shared by both
    handle      \* what startLoop() returned

threadVars == <<owner, thread, loop_, handle>>
allVars == <<vars, threadVars>>

(* The EventLoop is constructed and not yet destroyed.                     *)
Alive == thread \in {"constructed", "published", "looping", "returned"}

ThreadTypeOK ==
    /\ owner \in {"idle", "check", "waiting", "return", "using",
                  "quit", "wakeup", "join", "done"}
    /\ thread \in {"none", "entered", "constructed", "published",
                   "looping", "returned", "exited"}
    /\ loop_ \in {"NULL", "loop"} /\ handle \in {"NULL", "loop"}
    /\ (loop_ = "loop" <=> thread \in {"published", "looping"})

ThreadInit ==
    /\ Init
    /\ owner = "idle" /\ thread = "none"
    /\ loop_ = "NULL" /\ handle = "NULL"

------------------------------------------------------------------------------
(* startLoop(): Thread::start calls pthread_create; its result is logged   *)
(* and dropped.                                                            *)
StartThread ==
    /\ owner = "idle"
    /\ owner' = "check"
    /\ thread' \in {"none", "entered"}
    /\ UNCHANGED <<vars, loop_, handle>>

(* while (loop_ == NULL) cond_.wait(), holding mutex_.                     *)
CheckLoop ==
    /\ owner = "check"
    /\ owner' = IF loop_ = "NULL" THEN "waiting" ELSE "return"
    /\ UNCHANGED <<vars, thread, loop_, handle>>

X_SpuriousWakeupIsTrusted ==
    /\ owner = "waiting"
    /\ owner' = "return"
    /\ UNCHANGED <<vars, thread, loop_, handle>>

SpuriousWakeup ==
    /\ owner = "waiting"
    /\ owner' = "check"
    /\ UNCHANGED <<vars, thread, loop_, handle>>

(* return loop_, after mutex_ was released.                                *)
ReturnLoop ==
    /\ owner = "return"
    /\ owner' = "using"
    /\ handle' = loop_
    /\ UNCHANGED <<vars, thread, loop_>>

(* The owner hands work to the loop through the pointer it was given.      *)
UseLoop ==
    /\ owner = "using"
    /\ \/ \E f \in Functors : QueueInLoop(Owner, f) \/ RunInLoop(Owner, f)
       \/ Wakeup(Owner)
    /\ UNCHANGED threadVars

------------------------------------------------------------------------------
(* ~EventLoopThread().                                                     *)

TestLoop ==
    /\ owner = "using"
    /\ Owner \notin waking
    /\ owner' = IF loop_ = "NULL" THEN "done" ELSE "quit"
    /\ UNCHANGED <<vars, thread, loop_, handle>>

X_QuitLoopWithoutWakeup ==
    /\ owner = "quit"
    /\ quit_' = TRUE
    /\ owner' = "join"
    /\ UNCHANGED <<pc, looping_, isPendingFunctor_, kernel, tasks, waking,
                   thread, loop_, handle>>

(* loop_->quit(): the flag, then in a second step the write.               *)
QuitLoop ==
    /\ owner = "quit"
    /\ Quit(Owner)
    /\ owner' = "wakeup"
    /\ UNCHANGED <<thread, loop_, handle>>

QuitWakesUp ==
    /\ owner = "wakeup"
    /\ Wakeup(Owner)
    /\ owner' = "join"
    /\ UNCHANGED <<thread, loop_, handle>>

X_JoinDetaches ==
    /\ owner = "join"
    /\ owner' = "done"
    /\ UNCHANGED <<vars, thread, loop_, handle>>

Join ==
    /\ owner = "join"
    /\ thread = "exited"
    /\ owner' = "done"
    /\ UNCHANGED <<vars, thread, loop_, handle>>

------------------------------------------------------------------------------
(* ThreadFunc() in the new thread.                                         *)

ConstructLoop ==
    /\ thread = "entered"
    /\ thread' = "constructed"
    /\ UNCHANGED <<vars, owner, loop_, handle>>

X_PublishWithoutSignal ==
    /\ thread = "constructed"
    /\ thread' = "published"
    /\ loop_' = "loop"
    /\ UNCHANGED <<vars, owner, handle>>

(* loop_ = &loop and cond_.signal() in one critical section.               *)
Publish ==
    /\ thread = "constructed"
    /\ thread' = "published"
    /\ loop_' = "loop"
    /\ owner' = IF owner = "waiting" THEN "check" ELSE owner
    /\ UNCHANGED <<vars, handle>>

EnterLoop ==
    /\ thread = "published"
    /\ LoopStart
    /\ thread' = "looping"
    /\ UNCHANGED <<owner, loop_, handle>>

(* A pass of loop(), with the callbacks and functors it runs.              *)
RunLoop ==
    /\ thread = "looping"
    /\ \/ Loop
       \/ \E f \in Functors : QueueInLoop(LoopThread, f)
                              \/ RunInLoop(LoopThread, f)
       \/ Wakeup(LoopThread)
       \/ \E c \in Channels : Arrival(c)
    /\ UNCHANGED threadVars

X_LeaveLoopKeepsPointer ==
    /\ thread = "looping"
    /\ pc = "stopped"
    /\ thread' = "returned"
    /\ UNCHANGED <<vars, owner, loop_, handle>>

(* loop_ = NULL, without mutex_.                                           *)
LeaveLoop ==
    /\ thread = "looping"
    /\ pc = "stopped"
    /\ thread' = "returned"
    /\ loop_' = "NULL"
    /\ UNCHANGED <<vars, owner, handle>>

(* The local EventLoop is destroyed: wakeupFd_ is closed, the functors     *)
(* still queued are dropped.                                               *)
EndScope ==
    /\ thread = "returned"
    /\ thread' = "exited"
    /\ UNCHANGED <<vars, owner, loop_, handle>>

OwnerNext ==
    \/ StartThread \/ CheckLoop \/ SpuriousWakeup \/ ReturnLoop
    \/ UseLoop \/ TestLoop \/ QuitLoop \/ QuitWakesUp \/ Join

ThreadFunc ==
    \/ ConstructLoop \/ Publish \/ EnterLoop \/ RunLoop
    \/ LeaveLoop \/ EndScope

ThreadNext == OwnerNext \/ ThreadFunc

ThreadSpec == ThreadInit /\ [][ThreadNext]_allVars

(* Neither thread is starved.  Nothing is assumed of SpuriousWakeup, and   *)
(* the owner need not start, use or destroy the EventLoopThread.           *)
ThreadFairness ==
    /\ LoopFairness
    /\ WF_allVars(CheckLoop) /\ WF_allVars(ReturnLoop)
    /\ WF_allVars(QuitLoop) /\ WF_allVars(QuitWakesUp) /\ WF_allVars(Join)
    /\ WF_allVars(ConstructLoop) /\ WF_allVars(Publish)
    /\ WF_allVars(EnterLoop) /\ WF_allVars(LeaveLoop) /\ WF_allVars(EndScope)

FairThreadSpec == ThreadSpec /\ ThreadFairness

------------------------------------------------------------------------------
(* Properties.                                                             *)

(* startLoop (EventLoopThread.cc:23-36) hands out a pointer to an          *)
(* EventLoop that exists, and it exists until the destructor has set       *)
(* quit_; it may be gone before the wakeup() that follows in quit()        *)
(* (EventLoop.cc:67).                                                      *)
HandleIsLive == owner \in {"using", "quit"} => handle = "loop" /\ Alive

(* ThreadFunc writes the member loop_ when its loop ends                   *)
(* (EventLoopThread.cc:47): the destructor never finishes before that.     *)
ObjectOutlivesThread == owner = "done" => thread = "exited"

(* EventLoopThread.cc:30-44: once the thread runs, startLoop returns; the  *)
(* signal is not lost between the test of loop_ and the wait.              *)
StartLoopReturns == thread = "entered" ~> owner = "using"

(* A quit() that arrives after loop() has reset quit_ ends the thread and  *)
(* the join of the destructor returns (EventLoopThread.cc:14-21).          *)
QuitWhileLoopingJoins ==
    owner = "join" /\ quit_ /\ looping_ /\ pc # "reset" ~> owner = "done"

------------------------------------------------------------------------------
(* A claim of the comments that the code does not keep.                    *)

(* EventLoop.cc:64: quit() ends the loop at the next test of while(!quit_),*)
(* so that the destructor returns.                                         *)
DestructorReturns == owner = "join" ~> owner = "done"
==============================================================================
