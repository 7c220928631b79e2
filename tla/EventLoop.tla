------------------------------ MODULE EventLoop ------------------------------
(***************************************************************************)
(* net/EventLoop.cc: one reactor thread that sleeps in epoll_wait,         *)
(* dispatches the channels that became active, then runs the functors that *)
(* other threads (or its own callbacks) queued.  A queued functor must     *)
(* never be left behind by a loop asleep in epoll_wait: queueInLoop writes *)
(* to an eventfd that is watched like any other descriptor, edge           *)
(* triggered (net/Epoll.cc adds EPOLLET to every interest set).            *)
(*                                                                         *)
(* An element of Functors is one callback object; it may be handed over    *)
(* again once it is neither queued nor running, so that no history grows   *)
(* and behaviours are infinite.  Channels are the descriptors other than   *)
(* the eventfd; their callbacks, like the functors, are user code that may *)
(* call queueInLoop, runInLoop and quit any number of times.               *)
(***************************************************************************)
EXTENDS Naturals, Sequences

CONSTANTS
    LoopThread,         \* the thread that constructed the EventLoop
    Callers,            \* the other threads that hold a pointer to it
    Channels,           \* the descriptors registered beside the eventfd
    WakeupFd,           \* wakeupFd_ and its wakeupChannel_
    Functors

ASSUME ThreadAssumption == LoopThread \notin Callers
ASSUME ChannelAssumption == WakeupFd \notin Channels

VARIABLES
    pc,                 \* where the loop thread is in loop()
    looping_, quit_,
    isPendingFunctor_,
    eventfd,            \* the eventfd counter is not zero
    ready,              \* epoll's ready list: descriptors with a new edge
    ActiveChannels_,    \* returned by epoll_wait and not yet dispatched
    pendingFunctors,    \* guarded by mutex_
    tempFunctors,       \* the local vector of doPendingFunctors, not yet run
    callStack,          \* functors the loop thread is inside, innermost first
    waking              \* threads about to enter wakeup()

control == <<pc, looping_, quit_, isPendingFunctor_>>
kernel  == <<eventfd, ready, ActiveChannels_>>
tasks   == <<pendingFunctors, tempFunctors, callStack>>
vars    == <<control, kernel, tasks, waking>>

Threads == Callers \cup {LoopThread}
Fds     == Channels \cup {WakeupFd}

RangeOf(s) == {s[i] : i \in DOMAIN s}

(* Types, and the two flags that mirror the position in loop().            *)
TypeOK ==
    /\ pc \in {"start", "reset", "test", "wait", "dispatch", "callback",
               "run", "functor", "stopped"}
    /\ looping_ \in BOOLEAN /\ quit_ \in BOOLEAN
    /\ isPendingFunctor_ \in BOOLEAN
    /\ eventfd \in BOOLEAN
    /\ ready \subseteq Fds /\ ActiveChannels_ \subseteq Fds
    /\ pendingFunctors \in Seq(Functors)
    /\ tempFunctors \in Seq(Functors)
    /\ callStack \in Seq(Functors)
    /\ waking \subseteq Threads
    /\ (looping_ <=> pc \notin {"start", "stopped"})
    /\ (isPendingFunctor_ <=> pc \in {"run", "functor"})

(* The constructor: the wakeup channel is already in the epoll set.        *)
Init ==
    /\ pc = "start"
    /\ looping_ = FALSE /\ quit_ = FALSE
    /\ isPendingFunctor_ = FALSE
    /\ eventfd = FALSE
    /\ ready = {} /\ ActiveChannels_ = {}
    /\ pendingFunctors = <<>> /\ tempFunctors = <<>> /\ callStack = <<>>
    /\ waking = {}

------------------------------------------------------------------------------
(* Calls made by any thread.                                               *)

(* The loop thread calls from user code, between two of its own calls.     *)
InUserCode == pc \in {"callback", "functor"} /\ LoopThread \notin waking

CanCall(t) == IF t = LoopThread THEN InUserCode ELSE t \notin waking

(* A callback object is handed over again only when nobody holds it.       *)
Idle(f) ==
    f \notin RangeOf(pendingFunctors) \cup RangeOf(tempFunctors)
             \cup RangeOf(callStack)

(* Faulty variants, named X_..., stand before the operator they would      *)
(* replace; no specification uses them.                                    *)
X_QueueInLoopWakesOnlyInFunctors(t, f) ==
    /\ CanCall(t)
    /\ Idle(f)
    /\ pendingFunctors' = Append(pendingFunctors, f)
    /\ waking' = IF t # LoopThread /\ isPendingFunctor_
                   THEN waking \cup {t} ELSE waking
    /\ UNCHANGED <<control, kernel, tempFunctors, callStack>>

X_QueueInLoopWakesForOthersOnly(t, f) ==
    /\ CanCall(t)
    /\ Idle(f)
    /\ pendingFunctors' = Append(pendingFunctors, f)
    /\ waking' = IF t # LoopThread THEN waking \cup {t} ELSE waking
    /\ UNCHANGED <<control, kernel, tempFunctors, callStack>>

(* The push happens under mutex_, the test and the write after it.         *)
QueueInLoop(t, f) ==
    /\ CanCall(t)
    /\ Idle(f)
    /\ pendingFunctors' = Append(pendingFunctors, f)
    /\ waking' = IF t # LoopThread \/ isPendingFunctor_
                   THEN waking \cup {t} ELSE waking
    /\ UNCHANGED <<control, kernel, tempFunctors, callStack>>

RunInLoop(t, f) ==
    \/ /\ t = LoopThread
       /\ CanCall(t)
       /\ Idle(f)
       /\ callStack' = <<f>> \o callStack
       /\ UNCHANGED <<control, kernel, pendingFunctors, tempFunctors, waking>>
    \/ /\ t # LoopThread
       /\ QueueInLoop(t, f)

X_QuitSetsFlagOnly(t) ==
    /\ CanCall(t)
    /\ quit_' = TRUE
    /\ UNCHANGED <<pc, looping_, isPendingFunctor_, kernel, tasks, waking>>

Quit(t) ==
    /\ CanCall(t)
    /\ quit_' = TRUE
    /\ waking' = IF t # LoopThread THEN waking \cup {t} ELSE waking
    /\ UNCHANGED <<pc, looping_, isPendingFunctor_, kernel, tasks>>

(* Every write to the eventfd is a new edge, even on a nonzero counter.    *)
Wakeup(t) ==
    /\ t \in waking
    /\ eventfd' = TRUE
    /\ ready' = ready \cup {WakeupFd}
    /\ waking' = waking \ {t}
    /\ UNCHANGED <<control, ActiveChannels_, tasks>>

------------------------------------------------------------------------------
(* loop() in the loop thread.                                              *)

LoopStart ==
    /\ pc = "start"
    /\ pc' = "reset"
    /\ looping_' = TRUE
    /\ UNCHANGED <<quit_, isPendingFunctor_, kernel, tasks, waking>>

(* Whoever has called quit() by now has called it in vain.                 *)
ResetQuit ==
    /\ pc = "reset"
    /\ pc' = "test"
    /\ quit_' = FALSE
    /\ UNCHANGED <<looping_, isPendingFunctor_, kernel, tasks, waking>>

(* while (!quit_)                                                          *)
LoopContinue ==
    /\ pc = "test"
    /\ ~quit_
    /\ pc' = "wait"
    /\ ActiveChannels_' = {}
    /\ UNCHANGED <<looping_, quit_, isPendingFunctor_, eventfd, ready,
                   tasks, waking>>

X_LoopExitKeepsLooping ==
    /\ pc = "test"
    /\ quit_
    /\ pc' = "stopped"
    /\ UNCHANGED <<looping_, quit_, isPendingFunctor_, kernel, tasks, waking>>

LoopExit ==
    /\ pc = "test"
    /\ quit_
    /\ pc' = "stopped"
    /\ looping_' = FALSE
    /\ UNCHANGED <<quit_, isPendingFunctor_, kernel, tasks, waking>>

(* A descriptor on the ready list is reported if it is readable when       *)
(* epoll_wait looks at it, and its edge is consumed.                       *)
Reported == {c \in ready : c = WakeupFd => eventfd}

EpollWait ==
    /\ pc = "wait"
    /\ Reported # {}
    /\ ActiveChannels_' = Reported
    /\ ready' = {}
    /\ pc' = "dispatch"
    /\ UNCHANGED <<looping_, quit_, isPendingFunctor_, eventfd, tasks, waking>>

(* epoll_wait returns -1 (a signal while it sleeps; with a descriptor to    *)
(* report it returns that instead): logged, and the pass goes on empty.    *)
EpollError ==
    /\ pc = "wait"
    /\ Reported = {}
    /\ pc' = "dispatch"
    /\ UNCHANGED <<looping_, quit_, isPendingFunctor_, kernel, tasks, waking>>

(* handleRead of the wakeup channel empties the eventfd.                   *)
HandleRead ==
    /\ pc = "dispatch"
    /\ WakeupFd \in ActiveChannels_
    /\ ActiveChannels_' = ActiveChannels_ \ {WakeupFd}
    /\ eventfd' = FALSE
    /\ UNCHANGED <<control, ready, tasks, waking>>

(* handleEvent of any other channel enters its user callback.              *)
HandleEvent(c) ==
    /\ pc = "dispatch"
    /\ c \in ActiveChannels_ \cap Channels
    /\ ActiveChannels_' = ActiveChannels_ \ {c}
    /\ pc' = "callback"
    /\ UNCHANGED <<looping_, quit_, isPendingFunctor_, eventfd, ready,
                   tasks, waking>>

CallbackReturns ==
    /\ pc = "callback"
    /\ InUserCode
    /\ callStack = <<>>
    /\ pc' = "dispatch"
    /\ UNCHANGED <<looping_, quit_, isPendingFunctor_, kernel, tasks, waking>>

(* The swap under mutex_: functors queued from now on wait for the next    *)
(* pass.                                                                   *)
DoPendingFunctors ==
    /\ pc = "dispatch"
    /\ ActiveChannels_ = {}
    /\ pc' = "run"
    /\ isPendingFunctor_' = TRUE
    /\ tempFunctors' = pendingFunctors
    /\ pendingFunctors' = <<>>
    /\ UNCHANGED <<looping_, quit_, kernel, callStack, waking>>

X_RunFunctorNewestFirst ==
    /\ pc = "run"
    /\ tempFunctors # <<>>
    /\ pc' = "functor"
    /\ callStack' = <<tempFunctors[Len(tempFunctors)]>>
    /\ tempFunctors' = SubSeq(tempFunctors, 1, Len(tempFunctors) - 1)
    /\ UNCHANGED <<looping_, quit_, isPendingFunctor_, kernel,
                   pendingFunctors, waking>>

RunFunctor ==
    /\ pc = "run"
    /\ tempFunctors # <<>>
    /\ pc' = "functor"
    /\ callStack' = <<Head(tempFunctors)>>
    /\ tempFunctors' = Tail(tempFunctors)
    /\ UNCHANGED <<looping_, quit_, isPendingFunctor_, kernel,
                   pendingFunctors, waking>>

FunctorReturns ==
    /\ pc = "functor"
    /\ InUserCode
    /\ Len(callStack) = 1
    /\ callStack' = <<>>
    /\ pc' = "run"
    /\ UNCHANGED <<looping_, quit_, isPendingFunctor_, kernel,
                   pendingFunctors, tempFunctors, waking>>

(* cb() of a runInLoop in the loop thread returns to its caller.           *)
InlineReturns ==
    /\ InUserCode
    /\ Len(callStack) > (IF pc = "functor" THEN 1 ELSE 0)
    /\ callStack' = Tail(callStack)
    /\ UNCHANGED <<control, kernel, pendingFunctors, tempFunctors, waking>>

X_FunctorsDoneReadsEventfd ==
    /\ pc = "run"
    /\ tempFunctors = <<>>
    /\ pc' = "test"
    /\ isPendingFunctor_' = FALSE
    /\ eventfd' = FALSE
    /\ UNCHANGED <<looping_, quit_, ready, ActiveChannels_, tasks, waking>>

X_FunctorsDoneWhenQueueEmpty ==
    /\ pc = "run"
    /\ tempFunctors = <<>>
    /\ tempFunctors' = pendingFunctors
    /\ pendingFunctors' = <<>>
    /\ pc' = IF pendingFunctors = <<>> THEN "test" ELSE "run"
    /\ isPendingFunctor_' = (pendingFunctors # <<>>)
    /\ UNCHANGED <<looping_, quit_, kernel, callStack, waking>>

FunctorsDone ==
    /\ pc = "run"
    /\ tempFunctors = <<>>
    /\ pc' = "test"
    /\ isPendingFunctor_' = FALSE
    /\ UNCHANGED <<looping_, quit_, kernel, tasks, waking>>

------------------------------------------------------------------------------
(* The world: a watched descriptor gets new input, an edge.                *)
Arrival(c) ==
    /\ c \notin ready
    /\ ready' = ready \cup {c}
    /\ UNCHANGED <<control, eventfd, ActiveChannels_, tasks, waking>>

Loop ==
    \/ LoopStart \/ ResetQuit \/ LoopContinue \/ LoopExit
    \/ EpollWait \/ EpollError
    \/ HandleRead \/ (\E c \in Channels : HandleEvent(c)) \/ CallbackReturns
    \/ DoPendingFunctors \/ RunFunctor \/ FunctorReturns \/ InlineReturns
    \/ FunctorsDone

Call(t) ==
    \/ \E f \in Functors : QueueInLoop(t, f) \/ RunInLoop(t, f)
    \/ Quit(t)
    \/ Wakeup(t)

Next ==
    \/ Loop
    \/ \E t \in Threads : Call(t)
    \/ \E c \in Channels : Arrival(c)

Spec == Init /\ [][Next]_vars

(* Every thread that can take a step of the code takes it (the scheduler   *)
(* starves nobody) and user code returns: a callback or functor may call   *)
(* into the loop any number of times, not for ever.  Nothing is assumed of *)
(* EpollError, of Arrival or of the calls user code and other threads make.*)
LoopFairness ==
    /\ WF_vars(ResetQuit) /\ WF_vars(LoopContinue) /\ WF_vars(LoopExit)
    /\ WF_vars(EpollWait)
    /\ WF_vars(HandleRead) /\ WF_vars(\E c \in Channels : HandleEvent(c))
    /\ WF_vars(DoPendingFunctors) /\ WF_vars(RunFunctor)
    /\ WF_vars(FunctorsDone)
    /\ \A f \in Functors : SF_vars(InlineReturns /\ Head(callStack) = f)
    /\ SF_vars(CallbackReturns) /\ SF_vars(FunctorReturns)
    /\ \A t \in Threads : WF_vars(Wakeup(t))

FairSpec == Spec /\ WF_vars(LoopStart) /\ LoopFairness

------------------------------------------------------------------------------
(* Properties.                                                             *)

(* The loop thread will be woken: an edge of the eventfd waits for it, or  *)
(* another thread is between its push (or quit_ = true) and its write.     *)
WakeComing == (eventfd /\ WakeupFd \in ready) \/ waking # {}

(* No lost wakeup (EventLoop.cc:85-96, 62-69, 110-137): a loop asleep in   *)
(* epoll_wait with a functor queued or quit_ set will be woken, whatever   *)
(* the interleaving of push, write, epoll_wait, read of the eventfd, swap. *)
NoLostWakeup ==
    pc = "wait" /\ (pendingFunctors # <<>> \/ quit_)
        => (eventfd /\ WakeupFd \in ready) \/ waking \cap Callers # {}

(* The inductive invariant behind NoLostWakeup: between the swap and the   *)
(* next return of epoll_wait a queued functor always has a wakeup coming;  *)
(* from the return of epoll_wait to the swap (EventLoop.cc:51-56) it needs *)
(* none, which is why handleRead may empty the eventfd there.              *)
Inductive ==
    /\ TypeOK
    /\ pendingFunctors # <<>>
         => WakeComing \/ pc \in {"dispatch", "callback", "stopped"}
    /\ quit_ /\ pc = "wait" => WakeComing
    /\ LoopThread \in waking => pc \in {"callback", "functor"}
    /\ tempFunctors # <<>> => pc \in {"run", "functor"}
    /\ callStack # <<>> => pc \in {"callback", "functor"}
    /\ pc = "functor" => callStack # <<>>

(* The loop, its mutex, eventfd and double vector implement the abstract   *)
(* queue: functors run one at a time, once each, in the order of queueing. *)
TQ == INSTANCE TaskQueue
        WITH queue <- tempFunctors \o pendingFunctors, active <- callStack

ImplementsTaskQueue == TQ!Spec

(* EventLoop.h:26-27: a functor queued from any thread is eventually run   *)
(* by the loop thread, unless the loop is told to quit.                    *)
QueuedFunctorRuns ==
    \A f \in Functors :
        f \in RangeOf(pendingFunctors) ~> f \in RangeOf(callStack) \/ quit_

(* EventLoop.cc:64: once loop() has reset quit_, it takes effect: the loop *)
(* returns.                                                                *)
QuitTakesEffect == looping_ /\ pc # "reset" /\ quit_ ~> pc = "stopped"

(* EventLoop.cc:129: functors that keep queueing functors do not starve    *)
(* the descriptors: a new edge is eventually dispatched, or the loop quits.*)
ChannelsNotStarved ==
    \A c \in Channels : c \in ready ~> c \in ActiveChannels_ \/ quit_
==============================================================================
