------------------------------- MODULE Logging -------------------------------
(***************************************************************************)
(* base/Logging.cc: log statements of several threads.  A statement        *)
(* constructs a Logger, which writes the time, level, file and line into   *)
(* its stream, streams its items, and destroys the Logger, which ends the  *)
(* line and hands it to output.                                            *)
(*                                                                         *)
(* Each thread caches the text of the current second.  ::localtime returns *)
(* a pointer to a struct tm that all threads share; libc fills it under a  *)
(* lock of its own and strftime reads it without one.  A second stands for *)
(* its text; Garbled is the text of fields of two different seconds.       *)
(***************************************************************************)
EXTENDS LogStream, FiniteSets

CONSTANTS
    Threads,
    kTime,              \* lengths of the time and of the names of files
    LevelNames,         \* lengths in LogLevelName
    FileNames,
    LineNumbers,
    MaxItems,           \* bounds the items of one statement
    MaxClock

ASSUME HeaderAssumption ==
    kTime \in 0 .. IntMax /\ LevelNames \cup FileNames \subseteq 0 .. IntMax
ASSUME LineAssumption == LineNumbers \subseteq IntValues
ASSUME ClockAssumption == MaxClock \in Nat \ {0} /\ MaxItems \in Nat

Garbled == -1
Seconds == 0 .. MaxClock            \* 0: t_lastSecond and t_time at first

VARIABLES
    clock, tm,
    pc, time,                       \* the local time of formatTime
    t_lastSecond, t_time,           \* __thread
    stream

vars == <<clock, tm, pc, time, t_lastSecond, t_time, stream>>

HeaderItems == 6
Inserted(s) == Len(s.pieces) + Cardinality(s.dropped)

TypeOK ==
    /\ clock \in Seconds \ {0}
    /\ tm \in Seconds \cup {Garbled}
    /\ pc \in [Threads -> {"idle", "localtime", "filling", "strftime",
                           "header", "items", "output"}]
    /\ time \in [Threads -> Seconds] /\ t_lastSecond \in [Threads -> Seconds]
    /\ t_time \in [Threads -> Seconds \cup {Garbled}]
    /\ \A t \in Threads :
          /\ stream[t].length \in Nat
          /\ pc[t] \notin {"items", "output"} => stream[t] = EmptyStream

Init ==
    /\ clock = 1 /\ tm = 0
    /\ pc = [t \in Threads |-> "idle"]
    /\ time = [t \in Threads |-> 0]
    /\ t_lastSecond = [t \in Threads |-> 0] /\ t_time = [t \in Threads |-> 0]
    /\ stream = [t \in Threads |-> EmptyStream]

(* A copy past the end of a buffer, which is on the stack of its thread, is*)
(* of 2 GB and more: it runs off the stack and the process is dead.        *)
Crashed == \E t \in Threads : ~InBuffer(stream[t])

Tick ==
    /\ clock < MaxClock /\ ~Crashed
    /\ clock' = clock + 1
    /\ UNCHANGED <<tm, pc, time, t_lastSecond, t_time, stream>>

------------------------------------------------------------------------------
(* Logger::Impl::Impl: formatTime and the rest of the header.              *)

At(t, where) == pc[t] = where /\ ~Crashed
Goto(t, where) == pc' = [pc EXCEPT ![t] = where]

X_ReadClockTrustsCache(t) ==
    /\ At(t, "idle")
    /\ time' = [time EXCEPT ![t] = clock]
    /\ t_lastSecond' = [t_lastSecond EXCEPT ![t] = clock]
    /\ Goto(t, IF t_lastSecond[t] = 0 THEN "localtime" ELSE "header")
    /\ UNCHANGED <<clock, tm, t_time, stream>>

(* gettimeofday; a second other than the cached one is converted.          *)
ReadClock(t) ==
    /\ At(t, "idle")
    /\ time' = [time EXCEPT ![t] = clock]
    /\ t_lastSecond' = [t_lastSecond EXCEPT ![t] = clock]
    /\ Goto(t, IF t_lastSecond[t] # clock THEN "localtime" ELSE "header")
    /\ UNCHANGED <<clock, tm, t_time, stream>>

(* ::localtime, one thread at a time, writes field after field.            *)
BeginLocaltime(t) ==
    /\ At(t, "localtime")
    /\ \A u \in Threads : pc[u] # "filling"
    /\ tm' = IF tm = time[t] THEN tm ELSE Garbled
    /\ Goto(t, "filling")
    /\ UNCHANGED <<clock, time, t_lastSecond, t_time, stream>>

EndLocaltime(t) ==
    /\ At(t, "filling")
    /\ tm' = time[t]
    /\ Goto(t, "strftime")
    /\ UNCHANGED <<clock, time, t_lastSecond, t_time, stream>>

(* ::strftime reads *p_time, whoever has written it.                       *)
Strftime(t) ==
    /\ At(t, "strftime")
    /\ t_time' = [t_time EXCEPT ![t] = tm]
    /\ Goto(t, "header")
    /\ UNCHANGED <<clock, tm, time, t_lastSecond, stream>>

Header(level, file, line) ==
    LET s1 == Insert(EmptyStream, TextItem(kTime))
        s2 == Insert(s1, TextItem(level))
        s3 == Insert(s2, TextItem(file))
        s4 == Insert(s3, TextItem(1))
        s5 == Insert(s4, IntItem(line))
    IN  Insert(s5, TextItem(1))

WriteHeader(t) ==
    /\ At(t, "header")
    /\ \E level \in LevelNames, file \in FileNames, line \in LineNumbers :
          stream' = [stream EXCEPT ![t] = Header(level, file, line)]
    /\ Goto(t, "items")
    /\ UNCHANGED <<clock, tm, time, t_lastSecond, t_time>>

------------------------------------------------------------------------------
(* operator<< of the statement, and ~Logger.                               *)

StreamItem(t) ==
    /\ At(t, "items")
    /\ Inserted(stream[t]) < HeaderItems + MaxItems
    /\ \E item \in Items :
          stream' = [stream EXCEPT ![t] = Insert(@, item)]
    /\ UNCHANGED <<clock, tm, pc, time, t_lastSecond, t_time>>

EndLine(t) ==
    /\ At(t, "items")
    /\ stream' = [stream EXCEPT ![t] = Insert(@, TextItem(1))]
    /\ Goto(t, "output")
    /\ UNCHANGED <<clock, tm, time, t_lastSecond, t_time>>

X_OutputKeepsStream(t) ==
    /\ At(t, "output")
    /\ Goto(t, "idle")
    /\ UNCHANGED <<clock, tm, time, t_lastSecond, t_time, stream>>

(* output takes the line; the stream goes with its Logger.                 *)
Output(t) ==
    /\ At(t, "output")
    /\ stream' = [stream EXCEPT ![t] = EmptyStream]
    /\ Goto(t, "idle")
    /\ UNCHANGED <<clock, tm, time, t_lastSecond, t_time>>

------------------------------------------------------------------------------
Statement(t) ==
    \/ ReadClock(t)
    \/ BeginLocaltime(t) \/ EndLocaltime(t) \/ Strftime(t)
    \/ WriteHeader(t) \/ StreamItem(t) \/ EndLine(t) \/ Output(t)

Next == Tick \/ \E t \in Threads : Statement(t)

Spec == Init /\ [][Next]_vars

------------------------------------------------------------------------------
(* Properties.                                                             *)

(* LogStream.cc:33, 102, LogStream.h:22: nothing is written past the end   *)
(* of the buffer, terminating zeros included, unless a text is longer than *)
(* an int can tell, which the test of append() takes for another length.   *)
NeverOverruns == \A t \in Threads : InBuffer(stream[t]) \/ TooLong(stream[t])

(* LogStream.cc:10-27: an integer is written as the decimal number it is,  *)
(* the smallest one included.                                              *)
NumbersReadBack ==
    \A t \in Threads : \A k \in DOMAIN stream[t].pieces :
        LET piece == stream[t].pieces[k] IN
        piece[1].type = "int" => ReadsAs(piece[2], piece[1].arg)

(* LogStream.h:20-27: an item is kept whole or not at all, and only        *)
(* because what is left of the buffer would still not take it; so a line   *)
(* lacks its newline only if the buffer is full to the last byte.          *)
DroppedForWantOfRoom ==
    \A t \in Threads : \A item \in stream[t].dropped : HadNoRoom(stream[t], item)

(* Logging.cc:50, Logging.h:33: the time in a line is the one its Logger   *)
(* read.  It holds of one thread; two may give each other theirs.          *)
TimeIsItsOwn ==
    \A t \in Threads : pc[t] \in {"items", "output"} => t_time[t] = time[t]
==============================================================================
