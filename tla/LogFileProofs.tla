---------------------------- MODULE LogFileProofs ----------------------------
(***************************************************************************)
(* Proofs about LogFile, for any units of the clock, any flush interval    *)
(* and any number of lines.                                                *)
(***************************************************************************)
EXTENDS LogFile, TLAPS

(* Times the multiplier, two units are equal only if they were before: the *)
(* wrong macro still tells minutes apart.                                  *)
LEMMA RollUnitIsInjective ==
    ASSUME NEW s \in Nat, NEW t \in Nat
    PROVE  /\ RollUnit(s) \in Nat
           /\ RollUnit(s) = RollUnit(t) <=> s \div Sixty = t \div Sixty
<1> DEFINE K == Sixty * Hours * Sixty * Sixty * Hours
<1>1. K \in Nat /\ K > 0
  <2>1. \A a, b \in Nat \ {0} : a * b \in Nat \ {0}
    BY SMT
  <2>2. Sixty * Hours \in Nat \ {0}
    BY <2>1, ClockAssumption
  <2>3. Sixty * Hours * Sixty \in Nat \ {0}
    BY <2>1, <2>2, ClockAssumption
  <2>4. Sixty * Hours * Sixty * Sixty \in Nat \ {0}
    BY <2>1, <2>3, ClockAssumption
  <2>5. K \in Nat \ {0}
    BY <2>1, <2>4, ClockAssumption
  <2> QED
    BY <2>5
<1>2. s \div Sixty \in Nat /\ t \div Sixty \in Nat
  BY ClockAssumption
<1>3. RollUnit(s) = (s \div Sixty) * K /\ RollUnit(t) = (t \div Sixty) * K
  BY DEF RollUnit
<1> HIDE DEF K
<1>4. \A a, b \in Nat : a * K \in Nat /\ (a * K = b * K => a = b)
  BY <1>1
<1> QED
  BY <1>2, <1>3, <1>4

LEMMA UnitGrows ==
    ASSUME NEW s \in Nat, NEW t \in Nat, s <= t
    PROVE  s \div Sixty <= t \div Sixty
BY ClockAssumption

LEMMA WriteKeepsLines ==
    ASSUME Inductive, Write
    PROVE  /\ lines' \in Seq([at : 0..clock, in : names])
           /\ Len(lines') = Len(lines) + 1
           /\ \A i \in 1..Len(lines) : lines'[i] = lines[i]
           /\ lines'[Len(lines')] = [at |-> clock, in |-> name]
           /\ \A i, j \in DOMAIN lines' : i < j => lines'[i].in <= lines'[j].in
           /\ \A i \in DOMAIN lines' : lines'[i].in <= lines'[i].at
           /\ \A i \in DOMAIN lines' : lines'[i].in <= name
<1> USE DEF Inductive
<1> DEFINE line == [at |-> clock, in |-> name]
<1>1. line \in [at : 0..clock, in : names] /\ line.at = clock /\ line.in = name
  BY DEF TypeOK
<1>2. lines \in Seq([at : 0..clock, in : names]) /\ lines' = Append(lines, line)
  BY DEF Write, TypeOK
<1> HIDE DEF line
<1>3. /\ lines' \in Seq([at : 0..clock, in : names])
      /\ Len(lines') = Len(lines) + 1 /\ DOMAIN lines' = 1..(Len(lines) + 1)
      /\ \A i \in 1..Len(lines) : lines'[i] = lines[i]
      /\ lines'[Len(lines')] = line /\ DOMAIN lines = 1..Len(lines)
  BY <1>1, <1>2
<1>4. \A i, j \in DOMAIN lines' : i < j => lines'[i].in <= lines'[j].in
  <2> SUFFICES ASSUME NEW i \in DOMAIN lines', NEW j \in DOMAIN lines', i < j
               PROVE  lines'[i].in <= lines'[j].in
    OBVIOUS
  <2>1. i \in 1..Len(lines) /\ (j \in 1..Len(lines) \/ j = Len(lines'))
    BY <1>2, <1>3
  <2> QED
    BY <1>1, <1>3, <2>1 DEF FilesInOrder
<1>5. \A i \in DOMAIN lines' : lines'[i].in <= lines'[i].at /\ lines'[i].in <= name
  <2> SUFFICES ASSUME NEW i \in DOMAIN lines'
               PROVE  lines'[i].in <= lines'[i].at /\ lines'[i].in <= name
    OBVIOUS
  <2>1. i \in 1..Len(lines) \/ i = Len(lines')
    BY <1>2, <1>3
  <2>2. name <= clock /\ name \in Nat
    BY DEF TypeOK
  <2> QED
    BY <1>1, <1>3, <2>1, <2>2 DEF FilesInOrder
<1> QED
  BY <1>3, <1>4, <1>5 DEF line

LEMMA SeqGrows ==
    ASSUME NEW A, NEW B, A \subseteq B, NEW s \in Seq(A)
    PROVE  s \in Seq(B)
OBVIOUS

LEMMA SeqElement ==
    ASSUME NEW A, NEW s \in Seq(A)
    PROVE  /\ Len(s) \in Nat /\ DOMAIN s = 1..Len(s)
           /\ \A i \in 1..Len(s) : s[i] \in A
OBVIOUS

LEMMA TypesGrow ==
    ASSUME TypeOK, NEW S, names \subseteq S, NEW c \in Nat, clock <= c
    PROVE  lines \in Seq([at : 0..c, in : S])
<1>1. clock \in Nat /\ 0..clock \subseteq 0..c
  BY ClockAssumption DEF TypeOK
<1>2. [at : 0..clock, in : names] \subseteq [at : 0..c, in : S]
  BY <1>1
<1>3. lines \in Seq([at : 0..clock, in : names])
  BY DEF TypeOK
<1> QED
  BY <1>2, <1>3, SeqGrows

LEMMA TickStep == ASSUME Inductive, Tick PROVE Inductive'
<1> USE DEF Inductive
<1>1. /\ clock \in Nat /\ clock' = clock + 1 /\ clock' \in 0..LastSecond
      /\ UNCHANGED <<name, names, startTime_, lastFlush_, pc, lines, flushed>>
  BY ClockAssumption DEF Tick, TypeOK
<1>2. TypeOK'
  <2>1. lines \in Seq([at : 0..clock', in : names'])
    <3>1. names \subseteq names' /\ clock <= clock' /\ clock' \in Nat
      BY <1>1
    <3> QED
      BY <3>1, TypesGrow
  <2> QED
    BY <1>1, <2>1 DEF TypeOK
<1>3. FilesInOrder' /\ OneFilePerUnit'
  BY <1>1 DEF FilesInOrder, OneFilePerUnit
<1>4. pc' = "roll" => startTime_' # RollUnit(clock')
  <2> SUFFICES ASSUME pc = "roll" PROVE RollUnit(name) # RollUnit(clock')
    BY <1>1
  <2>1. name \in Nat /\ name <= clock /\ clock' \in Nat
    BY <1>1 DEF TypeOK
  <2>2. name \div Sixty # clock \div Sixty
    BY <1>1, <2>1, RollUnitIsInjective
  <2>3. /\ name \div Sixty <= clock \div Sixty
        /\ clock \div Sixty <= clock' \div Sixty
    BY <1>1, <2>1, UnitGrows
  <2>4. /\ name \div Sixty \in Int /\ clock \div Sixty \in Int
        /\ clock' \div Sixty \in Int
    BY <1>1, <2>1, ClockAssumption
  <2>5. name \div Sixty # clock' \div Sixty
    BY <2>2, <2>3, <2>4
  <2> QED
    BY <2>1, <2>5, RollUnitIsInjective
<1> QED
  BY <1>1, <1>2, <1>3, <1>4

LEMMA AppendStep ==
    ASSUME Inductive, AppendInUnit \/ AppendThenRoll
    PROVE  Inductive'
<1> USE DEF Inductive
<1>1. Write
  BY DEF AppendInUnit, AppendThenRoll
<1>2. UNCHANGED <<clock, name, names, startTime_>>
  BY DEF AppendInUnit, AppendThenRoll
<1>3. \/ lastFlush_' = lastFlush_ /\ flushed' = flushed
      \/ lastFlush_' = clock /\ flushed' = Len(lines')
  BY DEF AppendInUnit, AppendThenRoll
<1>4. pc' = "idle" \/ (pc' = "roll" /\ startTime_ # RollUnit(clock))
  BY <1>1 DEF AppendInUnit, AppendThenRoll, Write
<1>5. /\ clock \in Nat /\ lastFlush_ \in 0..clock /\ flushed \in 0..Len(lines)
      /\ lines \in Seq([at : 0..clock, in : names])
  BY ClockAssumption DEF TypeOK
<1>6. TypeOK'
  <2>1. flushed' \in 0..Len(lines')
    BY <1>1, <1>3, <1>5, WriteKeepsLines
  <2> QED
    BY <1>1, <1>2, <1>3, <1>4, <1>5, <2>1, WriteKeepsLines DEF TypeOK
<1>7. FilesInOrder' /\ OneFilePerUnit'
  <2>1. FilesInOrder'
    BY <1>1, WriteKeepsLines DEF FilesInOrder
  <2> QED
    BY <1>2, <2>1 DEF OneFilePerUnit
<1>8. \A i \in (flushed' + 1)..Len(lines') : lines'[i].at >= lastFlush_'
  <2> SUFFICES ASSUME NEW i \in (flushed' + 1)..Len(lines')
               PROVE  lines'[i].at >= lastFlush_'
    OBVIOUS
  <2>1. lastFlush_' = lastFlush_ /\ flushed' = flushed
    BY <1>1, <1>3, <1>5, WriteKeepsLines
  <2>2. CASE i = Len(lines')
    <3>1. lines'[i].at = clock
      BY <1>1, <2>2, WriteKeepsLines
    <3> QED
      BY <1>5, <2>1, <3>1
  <2>3. CASE i # Len(lines')
    <3>1. i \in (flushed + 1)..Len(lines) /\ i \in 1..Len(lines)
      BY <1>1, <1>5, <2>1, <2>3, WriteKeepsLines
    <3>2. lines'[i] = lines[i]
      BY <1>1, <3>1, WriteKeepsLines
    <3> QED
      BY <2>1, <3>1, <3>2
  <2> QED
    BY <2>2, <2>3
<1>9. \A i \in DOMAIN lines' : lines'[i].in <= name'
  BY <1>1, <1>2, WriteKeepsLines
<1> QED
  BY <1>2, <1>4, <1>6, <1>7, <1>8, <1>9

LEMMA RollStep == ASSUME Inductive, Roll PROVE Inductive'
<1> USE DEF Inductive
<1>1. /\ name' = clock /\ names' = names \cup {clock} /\ pc' = "idle"
      /\ startTime_' = RollUnit(clock) /\ flushed' = Len(lines)
      /\ UNCHANGED <<clock, lastFlush_, lines>>
  BY DEF Roll
<1>2. /\ clock \in Nat /\ clock \in 0..LastSecond /\ name \in 0..clock
      /\ names \subseteq Nat /\ names \subseteq 0..clock
      /\ Len(lines) \in Nat
  BY ClockAssumption DEF TypeOK
<1>3. TypeOK'
  <2>1. lines \in Seq([at : 0..clock', in : names'])
    <3>1. names \subseteq names' /\ clock <= clock' /\ clock' \in Nat
      BY <1>1, <1>2
    <3> QED
      BY <3>1, TypesGrow
  <2>2. startTime_' \in Nat
    BY <1>1, <1>2, RollUnitIsInjective
  <2> QED
    BY <1>1, <1>2, <2>1, <2>2 DEF TypeOK
<1>4. OneFilePerUnit'
  <2>1. name \div Sixty # clock \div Sixty
    BY <1>2, RollUnitIsInjective DEF Roll
  <2>2. ASSUME NEW n \in names PROVE n \div Sixty # clock \div Sixty
    <3>1. n \in Nat /\ n <= name /\ name \in Nat /\ name <= clock
      BY <1>2
    <3>2. n \div Sixty <= name \div Sixty /\ name \div Sixty <= clock \div Sixty
      BY <1>2, <3>1, UnitGrows
    <3>3. /\ n \div Sixty \in Int /\ name \div Sixty \in Int
          /\ clock \div Sixty \in Int
      BY <1>2, <3>1, ClockAssumption
    <3> QED
      BY <2>1, <3>2, <3>3
  <2> QED
    BY <1>1, <2>2 DEF OneFilePerUnit
<1>5. FilesInOrder' /\ \A i \in DOMAIN lines' : lines'[i].in <= name'
  <2>1. FilesInOrder'
    BY <1>1 DEF FilesInOrder
  <2>2. ASSUME NEW i \in DOMAIN lines PROVE lines[i].in <= clock
    <3>1. lines \in Seq([at : 0..clock, in : names])
      BY DEF TypeOK
    <3>2. lines[i] \in [at : 0..clock, in : names]
      BY <3>1, SeqElement
    <3>3. lines[i].in \in Nat /\ lines[i].in <= name
      BY <1>2, <3>2
    <3> QED
      BY <1>2, <3>3
  <2> QED
    BY <1>1, <2>1, <2>2
<1>6. name' \in names' /\ \A n \in names' : n <= name'
  BY <1>1, <1>2
<1>7. \A i \in (flushed' + 1)..Len(lines') : lines'[i].at >= lastFlush_'
  BY <1>1, <1>2
<1> QED
  BY <1>1, <1>3, <1>4, <1>5, <1>6, <1>7

LEMMA FlushStep == ASSUME Inductive, Flush PROVE Inductive'
<1> USE DEF Inductive
<1>1. /\ flushed' = Len(lines) /\ Len(lines) \in Nat
      /\ UNCHANGED <<clock, name, names, startTime_, lastFlush_, pc, lines>>
  BY DEF Flush, TypeOK
<1>2. TypeOK'
  BY <1>1 DEF TypeOK
<1> QED
  BY <1>1, <1>2 DEF FilesInOrder, OneFilePerUnit

(* The invariant of LogFile.cc's append(), rollFile() and flush().         *)
THEOREM InductiveInvariant == Spec => []Inductive
<1>1. Init => Inductive
  <2> SUFFICES ASSUME Init PROVE Inductive
    OBVIOUS
  <2>1. clock \in 0..LastSecond /\ clock \in Nat
    BY ClockAssumption DEF Init
  <2>2. TypeOK
    <3>1. RollUnit(clock) \in Nat
      BY <2>1, RollUnitIsInjective
    <3> QED
      BY <2>1, <3>1 DEF Init, TypeOK
  <2> QED
    BY <2>1, <2>2 DEF Init, Inductive, FilesInOrder, OneFilePerUnit
<1>2. Inductive /\ [Next]_vars => Inductive'
  <2> SUFFICES ASSUME Inductive, [Next]_vars PROVE Inductive'
    OBVIOUS
  <2>1. CASE UNCHANGED vars
    BY <2>1 DEF vars, Inductive, TypeOK, FilesInOrder, OneFilePerUnit
  <2> QED
    BY <2>1, TickStep, AppendStep, RollStep, FlushStep DEF Next
<1> QED
  BY <1>1, <1>2, PTL DEF Spec

(* Whatever the calls, the times of LogFile are never ahead of the clock   *)
(* and every line is in a file that was opened.                            *)
THEOREM LogFileTyped == Spec => []TypeOK
<1>1. Inductive => TypeOK
  BY DEF Inductive
<1> QED
  BY <1>1, InductiveInvariant, PTL

(* Lines stay in order across files and are never older than their file    *)
(* (LogFile.cc:29,51-72).                                                  *)
THEOREM AlwaysInOrder == Spec => []FilesInOrder
<1>1. Inductive => FilesInOrder
  BY DEF Inductive
<1> QED
  BY <1>1, InductiveInvariant, PTL

(* A unit of the clock never has two files (LogFile.cc:30-33,55,63).       *)
THEOREM NeverTwoFilesPerUnit == Spec => []OneFilePerUnit
<1>1. Inductive => OneFilePerUnit
  BY DEF Inductive
<1> QED
  BY <1>1, InductiveInvariant, PTL

(* When append() returns, nothing it or an earlier append() wrote is       *)
(* unflushed for longer than flushInterval_ (LogFile.cc:25-39).            *)
THEOREM AppendBoundsUnflushed == Spec => UnflushedIsRecent
<1> DEFINE Recent ==
      lines' # lines /\ pc' = "idle" =>
          \A i \in (flushed' + 1)..Len(lines') :
              clock - lines'[i].at <= flushInterval_
<1>1. Inductive /\ Inductive' /\ [Next]_vars => [Recent]_vars
  <2> SUFFICES ASSUME Inductive, Inductive', Next,
                      lines' # lines, pc' = "idle",
                      NEW i \in (flushed' + 1)..Len(lines')
               PROVE  clock - lines'[i].at <= flushInterval_
    OBVIOUS
  <2>1. AppendInUnit
    BY DEF Next, Tick, Roll, Flush, AppendThenRoll
  <2>2. lines' \in Seq([at : 0..clock, in : names])
    BY <2>1, WriteKeepsLines DEF AppendInUnit
  <2>3. /\ clock \in Nat /\ lastFlush_ \in Nat /\ flushed' \in Nat
        /\ Len(lines') \in Nat
    BY <2>2, ClockAssumption DEF Inductive, TypeOK
  <2>4. i \in 1..Len(lines') /\ flushed' # Len(lines')
    <3> DEFINE f == flushed'
               n == Len(lines')
    <3>1. f \in Nat /\ n \in Nat /\ i \in (f + 1)..n
      BY <2>3
    <3> HIDE DEF f, n
    <3>2. i \in 1..n /\ f # n
      BY <3>1
    <3> QED
      BY <3>2 DEF f, n
  <2>5. clock - lastFlush_ <= flushInterval_ /\ lastFlush_' = lastFlush_
    BY <2>1, <2>3, <2>4, ClockAssumption DEF AppendInUnit
  <2>6. lines'[i] \in [at : 0..clock, in : names]
    BY <2>2, <2>4, SeqElement
  <2>7. lines'[i].at >= lastFlush_ /\ lines'[i].at \in Nat
    <3>1. lines'[i].at \in 0..clock
      BY <2>6
    <3>2. lines'[i].at >= lastFlush_'
      BY DEF Inductive
    <3> QED
      BY <2>3, <2>5, <3>1, <3>2
  <2> QED
    BY <2>3, <2>5, <2>7, ClockAssumption
<1> QED
  BY <1>1, InductiveInvariant, PTL DEF Spec, UnflushedIsRecent
==============================================================================
