------------------------------- MODULE LogQueue -------------------------------
(***************************************************************************)
(* What the asynchronous log promises to the threads that log, without its *)
(* buffers, its mutex and its thread: lines are saved once each and in the *)
(* order in which they were logged; a stretch of lines may be given up,    *)
(* and then a notice is saved in their place.                              *)
(***************************************************************************)
EXTENDS Sequences, Naturals

CONSTANTS
    Lines,              \* what threads log
    Notices             \* what the log says about lines it gave up

VARIABLES
    unsaved,            \* lines logged and not yet saved, oldest first
    saved               \* the log file

vars == <<unsaved, saved>>

Init ==
    /\ unsaved = <<>>
    /\ saved = <<>>

Log(line) ==
    /\ unsaved' = Append(unsaved, line)
    /\ UNCHANGED saved

Save(n) ==
    /\ saved' = saved \o SubSeq(unsaved, 1, n)
    /\ unsaved' = SubSeq(unsaved, n + 1, Len(unsaved))

GiveUp(i, j, notice) ==
    /\ unsaved' = SubSeq(unsaved, 1, i - 1) \o SubSeq(unsaved, j + 1, Len(unsaved))
    /\ saved' = Append(saved, notice)

Next ==
    \/ \E line \in Lines : Log(line)
    \/ \E n \in 1..Len(unsaved) : Save(n)
    \/ \E i, j \in 1..Len(unsaved), notice \in Notices :
          i <= j /\ GiveUp(i, j, notice)

Spec == Init /\ [][Next]_vars
==============================================================================
