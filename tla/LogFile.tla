------------------------------- MODULE LogFile -------------------------------
(***************************************************************************)
(* base/LogFile.cc: a log file that is rolled and flushed by the clock.    *)
(* Both are looked at by append() only, under mutex_; the clock goes on    *)
(* between any two steps, also between append()'s reading of it and the    *)
(* one that names the next file.                                           *)
(***************************************************************************)
EXTENDS Integers, Sequences

CONSTANTS
    Sixty, Hours,       \* the numbers in kRollPerSeconds: 60 * 60 * 24
    flushInterval_,
    Starts,             \* bound: times at which the object is constructed
    LastSecond,         \* bound: where the clock stops
    MaxLines            \* bound: lines appended

ASSUME ClockAssumption ==
    /\ Sixty \in Nat \ {0} /\ Hours \in Nat \ {0}
    /\ flushInterval_ \in Nat
    /\ LastSecond \in Nat /\ Starts \subseteq 0..LastSecond
    /\ MaxLines \in Nat

VARIABLES
    clock,              \* time(NULL)
    name,               \* the time in the name of the open file
    names,              \* the names of all files opened so far
    startTime_, lastFlush_,
    pc,                 \* "roll" inside append(), before rollFile()
    lines,              \* lines appended: when, and to which file
    flushed             \* how many of them are known to be on disk

vars == <<clock, name, names, startTime_, lastFlush_, pc, lines, flushed>>

TypeOK ==
    /\ clock \in 0..LastSecond
    /\ name \in 0..clock /\ names \subseteq 0..clock
    /\ startTime_ \in Nat
    /\ lastFlush_ \in 0..clock
    /\ pc \in {"idle", "roll"}
    /\ lines \in Seq([at : 0..clock, in : names])
    /\ flushed \in 0..Len(lines)

(* t / kRollPerSeconds * kRollPerSeconds.  The macro has no parentheses:   *)
(* this is t / 60, times 60 * 24 * 60 * 60 * 24.                           *)
RollUnit(t) ==
    (t \div Sixty) * (Sixty * Hours * Sixty * Sixty * Hours)

Init ==
    /\ clock \in Starts
    /\ name = clock /\ names = {clock}
    /\ startTime_ = RollUnit(clock)
    /\ lastFlush_ = 0
    /\ pc = "idle"
    /\ lines = <<>> /\ flushed = 0

Tick ==
    /\ clock < LastSecond
    /\ clock' = clock + 1
    /\ UNCHANGED <<name, names, startTime_, lastFlush_, pc, lines, flushed>>

(* The line goes to the open file, before anything else.                   *)
Write ==
    /\ pc = "idle"
    /\ Len(lines) < MaxLines
    /\ lines' = Append(lines, [at |-> clock, in |-> name])

(* append() in the unit of the open file: it flushes when the last flush   *)
(* of its own is too long ago.                                             *)
X_AppendStoresDeadline ==
    /\ Write
    /\ RollUnit(clock) = startTime_
    /\ IF clock - lastFlush_ > flushInterval_
       THEN lastFlush_' = clock + flushInterval_ /\ flushed' = Len(lines')
       ELSE UNCHANGED <<lastFlush_, flushed>>
    /\ UNCHANGED <<clock, name, names, startTime_, pc>>

X_AppendAlwaysMovesLastFlush ==
    /\ Write
    /\ RollUnit(clock) = startTime_
    /\ lastFlush_' = clock
    /\ flushed' = IF clock - lastFlush_ > flushInterval_ THEN Len(lines')
                  ELSE flushed
    /\ UNCHANGED <<clock, name, names, startTime_, pc>>

AppendInUnit ==
    /\ Write
    /\ RollUnit(clock) = startTime_
    /\ IF clock - lastFlush_ > flushInterval_
       THEN lastFlush_' = clock /\ flushed' = Len(lines')
       ELSE UNCHANGED <<lastFlush_, flushed>>
    /\ UNCHANGED <<clock, name, names, startTime_, pc>>

AppendThenRoll ==
    /\ Write
    /\ RollUnit(clock) # startTime_
    /\ pc' = "roll"
    /\ UNCHANGED <<clock, name, names, startTime_, lastFlush_, flushed>>

X_RollKeepsStartTime ==
    /\ pc = "roll"
    /\ name' = clock /\ names' = names \cup {clock}
    /\ flushed' = Len(lines)
    /\ pc' = "idle"
    /\ UNCHANGED <<clock, startTime_, lastFlush_, lines>>

X_RollTakesLastLine ==
    /\ pc = "roll"
    /\ name' = clock /\ names' = names \cup {clock}
    /\ startTime_' = RollUnit(clock)
    /\ lines' = [lines EXCEPT ![Len(lines)].in = clock]
    /\ flushed' = Len(lines)
    /\ pc' = "idle"
    /\ UNCHANGED <<clock, lastFlush_>>

(* rollFile(): reads the clock again, opens the new file and closes, and   *)
(* thereby flushes, the old one.                                           *)
Roll ==
    /\ pc = "roll"
    /\ name' = clock /\ names' = names \cup {clock}
    /\ startTime_' = RollUnit(clock)
    /\ flushed' = Len(lines)
    /\ pc' = "idle"
    /\ UNCHANGED <<clock, lastFlush_, lines>>

(* flush(), by the owner of the LogFile.                                   *)
Flush ==
    /\ pc = "idle"
    /\ flushed' = Len(lines)
    /\ UNCHANGED <<clock, name, names, startTime_, lastFlush_, pc, lines>>

Next == Tick \/ AppendInUnit \/ AppendThenRoll \/ Roll \/ Flush

Spec == Init /\ [][Next]_vars

------------------------------------------------------------------------------
(* Properties.                                                             *)

(* LogFile.cc:25-39: whenever append() returns, what may be lost in a      *)
(* crash is at most flushInterval_ old, although flush() and rollFile() do *)
(* not move lastFlush_.                                                    *)
UnflushedIsRecent ==
    [][lines' # lines /\ pc' = "idle" =>
          \A i \in (flushed' + 1)..Len(lines') :
              clock - lines'[i].at <= flushInterval_]_vars

(* LogFile.cc:29,51-72: read in the order of their names, the files give   *)
(* the lines in the order in which they were appended, and no line is      *)
(* older than the file that holds it.                                      *)
FilesInOrder ==
    /\ \A i, j \in DOMAIN lines : i < j => lines[i].in <= lines[j].in
    /\ \A i \in DOMAIN lines : lines[i].in <= lines[i].at

(* LogFile.cc:30-33,55,63: two files never belong to the same unit,        *)
(* however the clock moves between its two readings: a roll is not         *)
(* repeated, and no two files get one name.                                *)
OneFilePerUnit ==
    \A n, m \in names : n \div Sixty = m \div Sixty => n = m

(* What append() and rollFile() keep true: the open file is the youngest,  *)
(* startTime_ is its unit, and lines not yet flushed are no older than the *)
(* last flush.                                                             *)
Inductive ==
    /\ TypeOK
    /\ FilesInOrder
    /\ OneFilePerUnit
    /\ name \in names /\ \A n \in names : n <= name
    /\ \A i \in DOMAIN lines : lines[i].in <= name
    /\ startTime_ = RollUnit(name)
    /\ pc = "roll" => startTime_ # RollUnit(clock)
    /\ \A i \in (flushed + 1)..Len(lines) : lines[i].at >= lastFlush_

------------------------------------------------------------------------------
(* A claim of the comments that the code does not keep.                    *)

(* LogFile.h:63,72: the file is rolled when the day changes: one file for  *)
(* each day.                                                               *)
OneFilePerDay ==
    LET Day == Sixty * Sixty * Hours
    IN  \A n, m \in names : n \div Day = m \div Day => n = m
==============================================================================
