------------------------------ MODULE TaskQueue ------------------------------
(***************************************************************************)
(* What an event loop promises to the threads that hand it work, without   *)
(* its mutex, its eventfd or its epoll set: the functors queued with       *)
(* queueInLoop are run one at a time, each exactly once, in the order in   *)
(* which they were queued, while a functor handed to runInLoop by the loop *)
(* thread itself is called at once, inside the code that hands it over.    *)
(***************************************************************************)
EXTENDS Sequences

CONSTANT Functors       \* the callbacks, one element per std::function

VARIABLES
    queue,              \* functors queued and not yet started, oldest first
    active              \* functors the loop thread is inside, innermost first

vars == <<queue, active>>

Init ==
    /\ queue = <<>>
    /\ active = <<>>

Submit(f) ==
    /\ queue' = Append(queue, f)
    /\ UNCHANGED active

Run ==
    /\ queue # <<>>
    /\ active = <<>>
    /\ active' = <<Head(queue)>>
    /\ queue' = Tail(queue)

Call(f) ==
    /\ active' = <<f>> \o active
    /\ UNCHANGED queue

Return ==
    /\ active # <<>>
    /\ active' = Tail(active)
    /\ UNCHANGED queue

Next ==
    \/ \E f \in Functors : Submit(f) \/ Call(f)
    \/ Run
    \/ Return

Spec == Init /\ [][Next]_vars
==============================================================================
