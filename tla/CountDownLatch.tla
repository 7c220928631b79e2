---------------------------- MODULE CountDownLatch ----------------------------
(***************************************************************************)
(* base/CountDownLatch.cc: threads wait on a condition variable until a    *)
(* counter, guarded by the same mutex, has been counted down to zero.      *)
(***************************************************************************)
EXTENDS Naturals

CONSTANTS
    Waiters,            \* threads that may call wait()
    Count               \* the constructor's argument

ASSUME CountAssumption == Count \in Nat \ {0}

VARIABLES
    count_,
    waiter              \* where each thread is in wait()

latchVars == <<count_, waiter>>

LatchTypeOK ==
    /\ count_ \in 0..Count
    /\ waiter \in [Waiters -> {"outside", "testing", "asleep", "through"}]

LatchInit ==
    /\ count_ = Count
    /\ waiter = [w \in Waiters |-> "outside"]

CallWait(w) ==
    /\ waiter[w] = "outside"
    /\ waiter' = [waiter EXCEPT ![w] = "testing"]
    /\ UNCHANGED count_

(* while (count_ > 0) cond_.wait(), holding mutex_.                        *)
TestCount(w) ==
    /\ waiter[w] = "testing"
    /\ waiter' = [waiter EXCEPT ![w] = IF count_ > 0 THEN "asleep" ELSE "through"]
    /\ UNCHANGED count_

X_WakeSpuriouslyIsTrusted(w) ==
    /\ waiter[w] = "asleep"
    /\ waiter' = [waiter EXCEPT ![w] = "through"]
    /\ UNCHANGED count_

WakeSpuriously(w) ==
    /\ waiter[w] = "asleep"
    /\ waiter' = [waiter EXCEPT ![w] = "testing"]
    /\ UNCHANGED count_

X_CountDownWithoutBroadcast ==
    /\ count_ > 0
    /\ count_' = count_ - 1
    /\ UNCHANGED waiter

(* --count_ and, at zero, broadcast, in one critical section; nobody       *)
(* counts down more often than the constructor was told.                   *)
CountDown ==
    /\ count_ > 0
    /\ count_' = count_ - 1
    /\ waiter' = [w \in Waiters |->
                    IF count_' = 0 /\ waiter[w] = "asleep" THEN "testing"
                    ELSE waiter[w]]

LatchNext ==
    \/ \E w \in Waiters : CallWait(w) \/ TestCount(w) \/ WakeSpuriously(w)
    \/ CountDown

LatchSpec == LatchInit /\ [][LatchNext]_latchVars

(* CountDownLatch.cc:15-32: wait() returns only when the counter is zero,  *)
(* and nobody is left asleep by a countDown() that made it zero.           *)
LatchSafe ==
    \A w \in Waiters :
        /\ waiter[w] = "through" => count_ = 0
        /\ waiter[w] = "asleep" => count_ > 0
==============================================================================
