-------------------------- MODULE AsyncLoggerProofs --------------------------
(***************************************************************************)
(* AsyncLogger for any callers, queue capacity, number of calls and days.   *)
(* The invariants need to know what each place of the worker says of the    *)
(* entries it holds (PlaceInv), and that the numbers of one caller grow     *)
(* from the file over the worker's deque and the queue to the entry that    *)
(* the caller is about to push (OrderInv).                                  *)
(***************************************************************************)
EXTENDS AsyncLogger, SequenceTheorems, TLAPS

Drained == {"drain", "last_notice", "last_flush", "done"}

WLine == [file : 0..MaxDay, line : Entries \cup {NoEntry}]

WrittenType == written \in Seq(WLine)

PlaceInv ==
    /\ accepting <=> dpc = "alive"
    /\ stop <=> dpc \in {"stopping", "joining", "closed"}
    /\ wpc \notin {"write", "failed"} => pending = <<>>
    /\ wpc \notin {"notice", "last_notice", "failed"} => in_hand = 0
    /\ wpc \in Drained => stop /\ queue = <<>>
    /\ dpc = "closed" => wpc \in {"done", "failed"} /\ flushed = Len(written)

(* In one sequence, and from one set of entries to another, the numbers of
   each caller grow.                                                        *)
Grows(s) == \A i, j \in DOMAIN s : i < j /\ s[i].from = s[j].from => s[i].n < s[j].n
Precede(A, B) == \A a \in A, b \in B : a.from = b.from => a.n < b.n

OrderInv ==
    /\ Grows(queue) /\ Grows(pending)
    /\ Precede(Lines(written), Range(pending) \cup Range(queue))
    /\ Precede(Range(pending), Range(queue))
    /\ \A c \in Callers : cpc[c] = "lock" =>
          /\ entry[c] \in Entries /\ entry[c].from = c /\ entry[c].n <= calls
          /\ Precede(pushed, {entry[c]})
    /\ \A e \in pushed : e.n <= calls

(* A line that a caller waits for on disk is in the buffer only while the worker
   remembers to flush it in this turn.                                      *)
UrgentInv ==
    \A i \in DOMAIN written : written[i].line.urgent =>
        Tried(i) \/ (urgent /\ wpc \in {"write", "notice", "flush"}) \/ wpc = "failed"

IInv ==
    /\ TypeOK /\ WrittenType /\ PlaceInv /\ OrderInv /\ UrgentInv
    /\ NothingLost /\ DropsAccounted /\ OrderedPerThread

-----------------------------------------------------------------------------
(* Sequences.                                                               *)

(* What an Append adds to the elements.                                     *)
LEMMA RangeAppend ==
    ASSUME NEW S, NEW s \in Seq(S), NEW e \in S
    PROVE  Range(Append(s, e)) = Range(s) \cup {e}
<1>1. Append(s, e) = s \o <<e>> /\ <<e>> \in Seq(S)
    BY AppendIsConcat
<1>2. Range(<<e>>) = {e}
    BY DEF Range
<1>3. Range(s \o <<e>>) = Range(s) \cup Range(<<e>>)
    BY <1>1, RangeConcatenation
<1> QED BY <1>1, <1>2, <1>3

(* What a step through the front of a deque leaves.                         *)
LEMMA RangeTail ==
    ASSUME NEW S, NEW s \in Seq(S), s # <<>>
    PROVE  /\ Head(s) \in S /\ Tail(s) \in Seq(S) /\ Len(Tail(s)) = Len(s) - 1
           /\ \A i \in DOMAIN Tail(s) : Tail(s)[i] = s[i + 1] /\ i + 1 \in DOMAIN s
           /\ Range(s) = {Head(s)} \cup Range(Tail(s))
           /\ Head(s) = s[1] /\ 1 \in DOMAIN s
<1>1. /\ Head(s) \in S /\ Tail(s) \in Seq(S) /\ Len(Tail(s)) = Len(s) - 1
      /\ \A i \in DOMAIN Tail(s) : Tail(s)[i] = s[i + 1] /\ i + 1 \in DOMAIN s
      /\ Head(s) = s[1] /\ 1 \in DOMAIN s /\ Len(s) \in Nat
    OBVIOUS
<1>2. ASSUME NEW i \in DOMAIN s, i # 1
      PROVE  i - 1 \in DOMAIN Tail(s) /\ s[i] = Tail(s)[i - 1]
    BY <1>1, <1>2
<1>3. Range(s) = {Head(s)} \cup Range(Tail(s))
    BY <1>1, <1>2 DEF Range
<1> QED BY <1>1, <1>3

(* A notice is no entry.                                                    *)
LEMMA NoEntryApart == NoEntry \notin Entries
BY DEF NoEntry, Entries

(* What is written in addition.                                             *)
LEMMA LinesAppend ==
    ASSUME WrittenType, NEW w \in WLine
    PROVE  /\ Append(written, w) \in Seq(WLine)
           /\ Lines(Append(written, w)) = Lines(written) \cup ({w.line} \ {NoEntry})
<1> DEFINE longer == Append(written, w)
<1>1. /\ longer \in Seq(WLine) /\ DOMAIN longer = 1..(Len(written) + 1)
      /\ \A i \in 1..Len(written) : longer[i] = written[i]
      /\ longer[Len(written) + 1] = w /\ DOMAIN written = 1..Len(written)
      /\ Len(written) \in Nat
    BY DEF WrittenType
<1> HIDE DEF longer
<1>2. {longer[i].line : i \in DOMAIN longer} = {written[i].line : i \in DOMAIN written} \cup {w.line}
    <2>1. ASSUME NEW i \in DOMAIN longer
          PROVE  longer[i].line \in {written[j].line : j \in DOMAIN written} \cup {w.line}
        BY <1>1
    <2>2. ASSUME NEW i \in DOMAIN written
          PROVE  written[i].line \in {longer[j].line : j \in DOMAIN longer}
        BY <1>1
    <2>3. w.line \in {longer[j].line : j \in DOMAIN longer}
        BY <1>1
    <2> QED BY <2>1, <2>2, <2>3
<1> QED BY <1>1, <1>2 DEF Lines, longer

-----------------------------------------------------------------------------
(* Types.                                                                   *)

(* The indices of the lines, and of those in the buffer.                    *)
LEMMA LineNumbers ==
    ASSUME IInv
    PROVE  /\ Len(written) \in Nat /\ flushed \in 0..Len(written)
           /\ DOMAIN written = 1..Len(written)
           /\ Buffered \subseteq 1..Len(written) /\ struck \subseteq 1..Len(written)
           /\ \A i \in 1..Len(written) : i <= flushed \/ i \in Buffered
           /\ bad \in BOOLEAN
BY DEF IInv, TypeOK, WrittenType, Buffered

(* The file that is open after open_for.                                    *)
LEMMA OpenDay ==
    ASSUME NEW day, OpenFor(day)
    PROVE  active_date' = day
BY DEF OpenFor

(* What a flush, a close and the file of a day do with the lines: none goes
   back into the buffer, and after a flush or a close each was tried.       *)
LEMMA DiskFacts ==
    ASSUME IInv
    PROVE  /\ FlushFile =>
                 /\ flushed' \in 0..Len(written) /\ flushed <= flushed' /\ bad' \in BOOLEAN
                 /\ struck' \subseteq 1..Len(written) /\ struck \subseteq struck'
                 /\ \A i \in 1..Len(written) : i <= flushed' \/ i \in struck'
           /\ CloseFile =>
                 /\ flushed' = Len(written) /\ flushed <= flushed'
                 /\ struck' \subseteq 1..Len(written) /\ struck \subseteq struck'
           /\ \A day : OpenFor(day) \/ FailIn(day) =>
                 /\ flushed' \in 0..Len(written) /\ flushed <= flushed' /\ bad' \in BOOLEAN
                 /\ struck' \subseteq 1..Len(written) /\ struck \subseteq struck'
<1>0. /\ Len(written) \in Nat /\ flushed \in 0..Len(written) /\ bad \in BOOLEAN
      /\ Buffered \subseteq 1..Len(written) /\ struck \subseteq 1..Len(written)
      /\ \A i \in 1..Len(written) : i <= flushed \/ i \in Buffered
    BY LineNumbers
<1>1. CloseFile =>
          /\ flushed' = Len(written) /\ flushed <= flushed'
          /\ struck' \subseteq 1..Len(written) /\ struck \subseteq struck'
    BY <1>0 DEF CloseFile
<1>2. ASSUME FlushFile
      PROVE  /\ flushed' \in 0..Len(written) /\ flushed <= flushed' /\ bad' \in BOOLEAN
             /\ struck' \subseteq 1..Len(written) /\ struck \subseteq struck'
             /\ \A i \in 1..Len(written) : i <= flushed' \/ i \in struck'
    <2> DEFINE n == Len(written)
    <2>0. n \in Nat /\ flushed \in 0..n
        BY <1>0
    <2>1. CASE ~bad /\ flushed' = Len(written) /\ UNCHANGED <<bad, struck>>
        BY <1>0, <2>1
    <2>2. CASE bad' = TRUE /\ struck' = struck \cup Buffered /\ UNCHANGED flushed
        <3>1. flushed' \in 0..n /\ flushed <= flushed'
            BY <2>0, <2>2
        <3>2. struck' \subseteq 1..n /\ struck \subseteq struck'
            BY <1>0, <2>2
        <3>3. \A i \in 1..n : i <= flushed' \/ i \in struck'
            BY <1>0, <2>2
        <3> QED BY <2>2, <3>1, <3>2, <3>3
    <2> QED BY <1>2, <2>1, <2>2 DEF FlushFile
<1>3. ASSUME NEW day, OpenFor(day) \/ FailIn(day)
      PROVE  /\ flushed' \in 0..Len(written) /\ flushed <= flushed' /\ bad' \in BOOLEAN
             /\ struck' \subseteq 1..Len(written) /\ struck \subseteq struck'
    <2>0. bad' = bad \/ bad' = FALSE
        BY <1>3 DEF OpenFor, FailIn, diskVars
    <2>1. bad' \in BOOLEAN
        BY <1>0, <2>0
    <2>2. UNCHANGED <<flushed, struck>> \/ CloseFile
        BY <1>3 DEF OpenFor, FailIn, diskVars
    <2>3. CASE UNCHANGED <<flushed, struck>>
        BY <1>0, <2>1, <2>3
    <2>4. CASE CloseFile
        <3> DEFINE n == Len(written)
        <3>1. n \in Nat
            BY <1>0
        <3>2. n \in 0..n
            BY <3>1
        <3> QED BY <1>1, <2>1, <2>4, <3>2
    <2> QED BY <2>2, <2>3, <2>4
<1> QED BY <1>1, <1>2, <1>3

(* Every step keeps the types.                                              *)
LEMMA TypeStep ==
    ASSUME IInv, [Next]_vars
    PROVE  TypeOK' /\ WrittenType'
<1> USE AsyncLoggerAssumption DEF IInv, TypeOK, WrittenType
<1>0. Len(written) \in Nat /\ (0..MaxDay) \subseteq Nat
    OBVIOUS
<1>1. CASE UNCHANGED vars
    BY <1>1 DEF vars
<1>2. CASE Midnight
    BY <1>2 DEF Midnight, dropVars, fileVars, diskVars, callerVars
<1>3. ASSUME NEW c \in Callers, LogEnter(c)
      PROVE  TypeOK' /\ WrittenType'
    <2>1. calls + 1 \in 1..MaxLogs /\ calls' = calls + 1
        BY <1>3 DEF LogEnter
    <2>2. \A u \in BOOLEAN :
             [from |-> c, n |-> calls + 1, day |-> today, urgent |-> u] \in Entries
        BY <2>1 DEF Entries
    <2>3. entry' \in [Callers -> Entries \cup {NoEntry}]
          /\ cpc' \in [Callers -> {"idle", "lock", "notify"}]
        BY <1>3, <2>2 DEF LogEnter
    <2>4. dropped_pending' \in Nat /\ dropped_total' \in Nat
        BY <1>3 DEF LogEnter, Drop, dropVars
    <2> QED BY <1>3, <2>1, <2>3, <2>4 DEF LogEnter, fileVars, diskVars
<1>4. ASSUME NEW c \in Callers, LogLock(c)
      PROVE  TypeOK' /\ WrittenType'
    <2>1. dropped_pending' \in Nat /\ dropped_total' \in Nat
        BY <1>4 DEF LogLock, Drop, dropVars
    <2>2. cpc' \in [Callers -> {"idle", "lock", "notify"}]
        BY <1>4 DEF LogLock
    <2>3. queue' \in Seq(Entries) /\ Len(queue') <= Capacity /\ pushed' \subseteq Entries
        <3>1. CASE UNCHANGED <<queue, pushed>>
            BY <3>1
        <3>2. CASE accepting /\ Len(queue) < Capacity /\ queue' = Append(queue, entry[c])
                   /\ pushed' = pushed \cup {entry[c]}
            <4>1. entry[c] \in Entries
                BY <1>4 DEF OrderInv, LogLock
            <4> QED BY <3>2, <4>1
        <3> QED BY <1>4, <3>1, <3>2 DEF LogLock
    <2> QED BY <1>4, <2>1, <2>2, <2>3 DEF LogLock, fileVars, diskVars
<1>5. ASSUME NEW c \in Callers, LogNotify(c)
      PROVE  TypeOK' /\ WrittenType'
    BY <1>5 DEF LogNotify, WakeWorker, dropVars, fileVars, diskVars
<1>6. CASE DestroyStart \/ DestroyStop \/ DestroyNotify
    BY <1>6 DEF DestroyStart, DestroyStop, DestroyNotify, WakeWorker,
                dropVars, fileVars, diskVars, callerVars
<1>6b. CASE DestroyClose
    <2>1. flushed' \in 0..Len(written') /\ struck' \subseteq 1..Len(written')
        BY <1>0, <1>6b, DiskFacts DEF DestroyClose
    <2> QED BY <1>6b, <2>1 DEF DestroyClose, dropVars, callerVars
<1>7. CASE WorkerCheck \/ WorkerSleep \/ WorkerWoken
    BY <1>7 DEF WorkerCheck, WorkerSleep, WorkerWoken, dropVars, fileVars, diskVars, callerVars
<1>7b. CASE WorkerTake \/ WorkerTimeout
    <2>1. Swap
        BY <1>7b DEF WorkerTake, WorkerTimeout
    <2>2. /\ queue' \in Seq(Entries) /\ Len(queue') <= Capacity
          /\ pending' \in Seq(Entries) /\ Len(pending') <= Capacity
        BY <2>1 DEF Swap
    <2> QED BY <2>1, <2>2 DEF Swap, dropVars, fileVars, diskVars, callerVars
<1>8. CASE WorkerWrite
    <2>1. Head(pending) \in Entries /\ Tail(pending) \in Seq(Entries)
          /\ Len(Tail(pending)) <= Capacity
        BY <1>8, RangeTail DEF WorkerWrite
    <2>2. Head(pending).day \in 0..MaxDay /\ Head(pending).urgent \in BOOLEAN
        BY <2>1 DEF Entries
    <2>3. [file |-> Head(pending).day, line |-> Head(pending)] \in WLine
        BY <2>1, <2>2 DEF WLine
    <2>4. /\ written' \in Seq(WLine) /\ Len(written') = Len(written) + 1
          /\ active_date' \in 0..MaxDay
        BY <1>8, <2>2, <2>3, OpenDay DEF WorkerWrite
    <2>5. /\ flushed' \in 0..Len(written') /\ bad' \in BOOLEAN
          /\ struck' \subseteq 1..Len(written')
        BY <1>0, <1>8, <2>4, DiskFacts DEF WorkerWrite
    <2> QED BY <1>8, <2>1, <2>2, <2>4, <2>5 DEF WorkerWrite, dropVars, callerVars
<1>9. CASE WorkerCollect
    BY <1>9 DEF WorkerCollect, fileVars, diskVars, callerVars
<1>10. CASE WorkerNotice
    <2>1. [file |-> today, line |-> NoEntry] \in WLine
        BY DEF WLine
    <2>2. /\ written' \in Seq(WLine) /\ active_date' \in 0..MaxDay
          /\ flushed' \in 0..Len(written') /\ reported' \in Nat
          /\ bad' \in BOOLEAN /\ struck' \subseteq 1..Len(written')
        <3>1. CASE in_hand > 0
            <4>1. Len(Append(written, [file |-> today, line |-> NoEntry])) = Len(written) + 1
                BY <2>1
            <4>2. /\ written' = Append(written, [file |-> today, line |-> NoEntry])
                  /\ active_date' = today /\ OpenFor(today)
                  /\ reported' = reported + in_hand
                BY <1>10, <3>1, OpenDay DEF WorkerNotice
            <4>3. /\ flushed' \in 0..(Len(written) + 1) /\ bad' \in BOOLEAN
                  /\ struck' \subseteq 1..(Len(written) + 1)
                BY <1>0, <4>2, DiskFacts
            <4> QED BY <2>1, <4>1, <4>2, <4>3
        <3>2. CASE ~(in_hand > 0)
            BY <1>10, <3>2 DEF WorkerNotice, fileVars, diskVars
        <3> QED BY <3>1, <3>2
    <2>3. urgent' \in BOOLEAN
        BY <1>10 DEF WorkerNotice
    <2> QED BY <1>10, <2>2, <2>3 DEF WorkerNotice, dropVars, callerVars
<1>11. CASE WorkerFlush \/ WorkerLastFlush \/ WorkerFails
    <2>1. written' = written /\ active_date' = active_date
        BY <1>11 DEF WorkerFlush, WorkerLastFlush, WorkerFails, FailIn
    <2>2. /\ flushed' \in 0..Len(written) /\ bad' \in BOOLEAN
          /\ struck' \subseteq 1..Len(written)
        BY <1>0, <1>11, DiskFacts
           DEF WorkerFlush, WorkerLastFlush, WorkerFails, diskVars
    <2> QED BY <1>11, <2>1, <2>2 DEF WorkerFlush, WorkerLastFlush, WorkerFails, dropVars, callerVars
<1> QED BY <1>1, <1>2, <1>3, <1>4, <1>5, <1>6, <1>6b, <1>7, <1>7b, <1>8, <1>9, <1>10, <1>11
        DEF Next, CallerStep, DestructorStep, WorkerStep

-----------------------------------------------------------------------------
(* Places.                                                                  *)

(* Every step keeps what a place says of the entries and of the shutdown.   *)
LEMMA PlaceStep ==
    ASSUME IInv, [Next]_vars
    PROVE  PlaceInv'
<1> USE DEF IInv, PlaceInv, Drained
<1>0. queue \in Seq(Entries) /\ pending \in Seq(Entries)
    BY DEF TypeOK
<1>1. CASE UNCHANGED vars
    BY <1>1 DEF vars
<1>2. CASE Midnight
    BY <1>2 DEF Midnight, dropVars, fileVars, diskVars, callerVars
<1>3. ASSUME NEW c \in Callers, LogEnter(c) \/ LogLock(c) \/ LogNotify(c)
      PROVE  PlaceInv'
    BY <1>3 DEF LogEnter, LogLock, LogNotify, dropVars, fileVars, diskVars
<1>4. CASE DestroyStart \/ DestroyStop \/ DestroyNotify \/ DestroyClose
    BY <1>4 DEF DestroyStart, DestroyStop, DestroyNotify, DestroyClose, CloseFile,
                dropVars, fileVars, diskVars, callerVars
<1>5. CASE WorkerCheck \/ WorkerSleep \/ WorkerWoken \/ WorkerTake \/ WorkerTimeout
    BY <1>5 DEF WorkerCheck, WorkerSleep, WorkerWoken, WorkerTake, WorkerTimeout, Swap,
                WorkerIdle, dropVars, fileVars, diskVars, callerVars
<1>6. CASE WorkerWrite \/ WorkerCollect
    BY <1>6 DEF WorkerWrite, WorkerCollect, dropVars, fileVars, diskVars, callerVars
<1>7. CASE WorkerNotice
    BY <1>7 DEF WorkerNotice, dropVars, callerVars
<1>8. CASE WorkerFlush \/ WorkerLastFlush \/ WorkerFails
    BY <1>8 DEF WorkerFlush, WorkerLastFlush, WorkerFails, dropVars, callerVars
<1> QED BY <1>1, <1>2, <1>3, <1>4, <1>5, <1>6, <1>7, <1>8
        DEF Next, CallerStep, DestructorStep, WorkerStep

-----------------------------------------------------------------------------
(* Accepted and discarded entries.                                          *)

(* Every step keeps the accepted entries together.                          *)
LEMMA LostStep ==
    ASSUME IInv, [Next]_vars
    PROVE  NothingLost'
<1>0. /\ queue \in Seq(Entries) /\ pending \in Seq(Entries) /\ WrittenType
      /\ pushed = Range(queue) \cup Range(pending) \cup Lines(written)
    BY DEF IInv, TypeOK, NothingLost
<1>1. PlaceInv /\ PlaceInv'
    BY PlaceStep DEF IInv
<1>2. (dpc = "closed" /\ wpc = "done" =>
          queue = <<>> /\ pending = <<>> /\ flushed = Len(written))'
    BY <1>1 DEF PlaceInv, Drained
<1> SUFFICES pushed' = Range(queue') \cup Range(pending') \cup Lines(written')
    BY <1>2 DEF NothingLost, Range, Lines
<1>3. CASE UNCHANGED <<queue, pending, written, pushed>>
    BY <1>0, <1>3
<1>4. ASSUME NEW c \in Callers, LogLock(c), ~UNCHANGED <<queue, pending, written, pushed>>
      PROVE  pushed' = Range(queue') \cup Range(pending') \cup Lines(written')
    <2>1. /\ queue' = Append(queue, entry[c]) /\ pushed' = pushed \cup {entry[c]}
          /\ UNCHANGED <<pending, written>> /\ cpc[c] = "lock"
        BY <1>4 DEF LogLock, fileVars, diskVars
    <2>2. entry[c] \in Entries
        BY <2>1 DEF IInv, OrderInv
    <2> QED BY <1>0, <2>1, <2>2, RangeAppend
<1>5. CASE WorkerTake \/ WorkerTimeout
    <2>1. pending = <<>> /\ pending' = queue /\ queue' = <<>> /\ UNCHANGED <<written, pushed>>
        BY <1>1, <1>5 DEF PlaceInv, WorkerTake, WorkerTimeout, Swap, fileVars, diskVars, callerVars
    <2>2. Range(<<>>) = {}
        BY DEF Range
    <2> QED BY <1>0, <2>1, <2>2
<1>6. CASE WorkerWrite
    <2> DEFINE w == [file |-> Head(pending).day, line |-> Head(pending)]
    <2>1. /\ Head(pending) \in Entries /\ Range(pending) = {Head(pending)} \cup Range(Tail(pending))
        BY <1>0, <1>6, RangeTail DEF WorkerWrite
    <2>2. w \in WLine /\ w.line = Head(pending)
        BY <2>1 DEF WLine, Entries
    <2>3. written' = Append(written, w) /\ pending' = Tail(pending) /\ UNCHANGED <<queue, pushed>>
        BY <1>6, OpenDay DEF WorkerWrite, callerVars
    <2> HIDE DEF w
    <2>4. Lines(written') = Lines(written) \cup {Head(pending)}
        BY <1>0, <2>1, <2>2, <2>3, LinesAppend, NoEntryApart
    <2> QED BY <1>0, <2>1, <2>3, <2>4
<1>7. CASE WorkerNotice
    <2>1. UNCHANGED <<queue, pending, pushed>>
        BY <1>7 DEF WorkerNotice, callerVars
    <2>2. Lines(written') = Lines(written)
        <3>1. CASE in_hand > 0
            <4> DEFINE w == [file |-> today, line |-> NoEntry]
            <4>1. w \in WLine /\ w.line = NoEntry
                BY DEF WLine, IInv, TypeOK
            <4>2. written' = Append(written, w)
                BY <1>7, <3>1 DEF WorkerNotice
            <4> HIDE DEF w
            <4> QED BY <1>0, <4>1, <4>2, LinesAppend
        <3>2. CASE ~(in_hand > 0)
            BY <1>7, <3>2 DEF WorkerNotice, fileVars, diskVars
        <3> QED BY <3>1, <3>2
    <2> QED BY <1>0, <2>1, <2>2
<1>8. CASE \/ UNCHANGED vars \/ Midnight \/ WorkerCheck \/ WorkerSleep \/ WorkerWoken
           \/ WorkerCollect \/ WorkerFlush \/ WorkerLastFlush \/ WorkerFails
           \/ DestroyStart \/ DestroyStop \/ DestroyNotify \/ DestroyClose
    BY <1>3, <1>8 DEF vars, Midnight, WorkerCheck, WorkerSleep, WorkerWoken, WorkerCollect,
                      WorkerFlush, WorkerLastFlush, WorkerFails, DestroyStart, DestroyStop,
                      DestroyNotify, DestroyClose, fileVars, diskVars, callerVars
<1>9. ASSUME NEW c \in Callers, LogEnter(c) \/ LogNotify(c)
      PROVE  UNCHANGED <<queue, pending, written, pushed>>
    BY <1>9 DEF LogEnter, LogNotify, fileVars, diskVars
<1> QED BY <1>3, <1>4, <1>5, <1>6, <1>7, <1>8, <1>9
        DEF Next, CallerStep, DestructorStep, WorkerStep

(* Every step keeps the account of the discarded entries.                   *)
LEMMA DropStep ==
    ASSUME IInv, [Next]_vars
    PROVE  DropsAccounted'
<1>0. /\ dropped_total \in Nat /\ dropped_pending \in Nat /\ in_hand \in Nat /\ reported \in Nat
      /\ dropped_total = reported + in_hand + dropped_pending /\ PlaceInv
    BY DEF IInv, TypeOK, DropsAccounted
<1> USE DEF DropsAccounted
<1>1. CASE UNCHANGED vars
    BY <1>0, <1>1 DEF vars
<1>2. ASSUME NEW c \in Callers, LogEnter(c) \/ LogLock(c) \/ LogNotify(c)
      PROVE  DropsAccounted'
    BY <1>0, <1>2 DEF LogEnter, LogLock, LogNotify, Drop, dropVars, fileVars, diskVars
<1>3. CASE WorkerCollect
    <2>1. in_hand = 0
        BY <1>0, <1>3 DEF WorkerCollect, PlaceInv
    <2> QED BY <1>0, <1>3, <2>1 DEF WorkerCollect, fileVars, diskVars
<1>4. CASE WorkerNotice
    BY <1>0, <1>4 DEF WorkerNotice, dropVars, fileVars, diskVars
<1>5. CASE \/ Midnight \/ WorkerCheck \/ WorkerSleep \/ WorkerWoken \/ WorkerTake
           \/ WorkerTimeout \/ WorkerWrite \/ WorkerFlush \/ WorkerLastFlush \/ WorkerFails
           \/ DestroyStart \/ DestroyStop \/ DestroyNotify \/ DestroyClose
    BY <1>0, <1>5 DEF Midnight, WorkerCheck, WorkerSleep, WorkerWoken, WorkerTake, WorkerTimeout,
                      Swap, WorkerWrite, WorkerFlush, WorkerLastFlush, WorkerFails, DestroyStart,
                      DestroyStop, DestroyNotify, DestroyClose, dropVars, fileVars, diskVars
<1> QED BY <1>1, <1>2, <1>3, <1>4, <1>5 DEF Next, CallerStep, DestructorStep, WorkerStep

-----------------------------------------------------------------------------
(* Order.                                                                   *)

(* The sequences and sets that OrderInv speaks of, and their types.         *)
LEMMA OrderFacts ==
    ASSUME IInv
    PROVE  /\ queue \in Seq(Entries) /\ pending \in Seq(Entries) /\ WrittenType
           /\ calls \in Nat /\ pushed \subseteq Entries
           /\ cpc \in [Callers -> {"idle", "lock", "notify"}]
           /\ entry \in [Callers -> Entries \cup {NoEntry}]
           /\ Range(queue) \subseteq pushed /\ Range(pending) \subseteq pushed
           /\ Lines(written) \subseteq pushed
           /\ \A e \in Entries : e.n \in Int /\ e.from \in Callers
BY AsyncLoggerAssumption DEF IInv, TypeOK, NothingLost, Entries

(* A caller's newest number at the end of the queue keeps its order.        *)
LEMMA GrowsAppend ==
    ASSUME NEW s \in Seq(Entries), NEW e \in Entries, Grows(s), Precede(Range(s), {e})
    PROVE  Grows(Append(s, e))
<1> DEFINE longer == Append(s, e)
<1>1. /\ DOMAIN longer = 1..(Len(s) + 1) /\ Len(s) \in Nat /\ longer[Len(s) + 1] = e
      /\ \A i \in 1..Len(s) : longer[i] = s[i] /\ i \in DOMAIN s
    OBVIOUS
<1> HIDE DEF longer
<1>2. ASSUME NEW i \in DOMAIN longer, NEW j \in DOMAIN longer,
             i < j, longer[i].from = longer[j].from
      PROVE  longer[i].n < longer[j].n
    <2>1. CASE j <= Len(s)
        BY <1>1, <1>2, <2>1 DEF Grows
    <2>2. CASE j = Len(s) + 1
        <3>1. i \in 1..Len(s) /\ longer[i] = s[i] /\ longer[j] = e
            BY <1>1, <1>2, <2>2
        <3>2. s[i] \in Range(s)
            BY <1>1, <3>1 DEF Range
        <3> QED BY <1>2, <3>1, <3>2 DEF Precede
    <2> QED BY <1>1, <1>2, <2>1, <2>2
<1> QED BY <1>2 DEF Grows, longer

(* The front of a deque precedes the rest of it.                            *)
LEMMA GrowsTail ==
    ASSUME NEW s \in Seq(Entries), s # <<>>, Grows(s)
    PROVE  Grows(Tail(s)) /\ Precede({Head(s)}, Range(Tail(s)))
<1>1. /\ \A i \in DOMAIN Tail(s) : Tail(s)[i] = s[i + 1] /\ i + 1 \in DOMAIN s
      /\ Head(s) = s[1] /\ 1 \in DOMAIN s
      /\ \A i \in DOMAIN Tail(s) : i \in Nat /\ 1 < i + 1
    <2>1. DOMAIN Tail(s) = 1..(Len(s) - 1)
        OBVIOUS
    <2> QED BY <2>1, RangeTail
<1>2. Grows(Tail(s))
    BY <1>1 DEF Grows
<1>3. ASSUME NEW b \in Range(Tail(s)), Head(s).from = b.from
      PROVE  Head(s).n < b.n
    <2>1. PICK i \in DOMAIN Tail(s) : b = Tail(s)[i]
        BY DEF Range
    <2> QED BY <1>1, <1>3, <2>1 DEF Grows
<1> QED BY <1>2, <1>3 DEF Precede

(* Every step keeps the numbers of a caller growing.                        *)
LEMMA OrderStep ==
    ASSUME IInv, [Next]_vars
    PROVE  OrderInv'
<1>0. /\ queue \in Seq(Entries) /\ pending \in Seq(Entries) /\ WrittenType
      /\ calls \in Nat /\ pushed \subseteq Entries
      /\ cpc \in [Callers -> {"idle", "lock", "notify"}]
      /\ entry \in [Callers -> Entries \cup {NoEntry}]
      /\ Range(queue) \subseteq pushed /\ Range(pending) \subseteq pushed
      /\ Lines(written) \subseteq pushed
      /\ \A e \in Entries : e.n \in Int /\ e.from \in Callers
    BY OrderFacts
<1>1. OrderInv
    BY DEF IInv
<1>2. ASSUME UNCHANGED <<queue, pending, pushed, cpc, entry, calls>>,
             Lines(written') = Lines(written)
      PROVE  OrderInv'
    <2>1. Lines(written)' = Lines(written)
        BY <1>2 DEF Lines
    <2>2. Range(queue)' = Range(queue) /\ Range(pending)' = Range(pending)
        BY <1>2 DEF Range
    <2> QED BY <1>1, <1>2, <2>1, <2>2 DEF OrderInv, Grows, Precede
<1>3. ASSUME NEW c \in Callers, LogEnter(c)
      PROVE  OrderInv'
    <2>1. UNCHANGED <<queue, pending, written, pushed>> /\ calls' = calls + 1
        BY <1>3 DEF LogEnter, fileVars, diskVars
    <2>2. Range(queue)' = Range(queue) /\ Range(pending)' = Range(pending)
          /\ Lines(written)' = Lines(written)
        BY <2>1 DEF Range, Lines
    <2>3. ASSUME NEW d \in Callers, cpc'[d] = "lock"
          PROVE  /\ entry'[d] \in Entries /\ entry'[d].from = d /\ entry'[d].n <= calls'
                 /\ Precede(pushed, {entry'[d]})
        <3>1. CASE entry'[d] = entry[d] /\ cpc[d] = "lock"
            BY <1>0, <1>1, <2>1, <3>1 DEF OrderInv
        <3>2. CASE ~(entry'[d] = entry[d] /\ cpc[d] = "lock")
            <4>1. PICK u \in BOOLEAN : d = c /\
                     entry'[d] = [from |-> c, n |-> calls + 1, day |-> today, urgent |-> u]
                BY <1>0, <1>3, <2>3, <3>2 DEF LogEnter
            <4>2. entry'[d] \in Entries
                BY <1>3, <4>1, AsyncLoggerAssumption DEF LogEnter, Entries, IInv, TypeOK
            <4>3. \A e \in pushed : e.n < calls + 1
                BY <1>0, <1>1 DEF OrderInv
            <4> QED BY <1>0, <2>1, <4>1, <4>2, <4>3 DEF Precede
        <3> QED BY <3>1, <3>2
    <2>4. \A e \in pushed : e.n <= calls'
        BY <1>0, <1>1, <2>1 DEF OrderInv
    <2> QED BY <1>1, <2>1, <2>2, <2>3, <2>4 DEF OrderInv, Grows, Precede
<1>4. ASSUME NEW c \in Callers, LogLock(c)
      PROVE  OrderInv'
    <2>0. UNCHANGED <<pending, written, entry, calls>> /\ cpc[c] = "lock"
        BY <1>4 DEF LogLock, fileVars, diskVars
    <2>1. Range(pending)' = Range(pending) /\ Lines(written)' = Lines(written)
        BY <2>0 DEF Range, Lines
    <2>2. \A d \in Callers : cpc'[d] = "lock" => cpc[d] = "lock" /\ d # c
        BY <1>0, <1>4 DEF LogLock
    <2>3. CASE UNCHANGED <<queue, pushed>>
        <3>1. Range(queue)' = Range(queue)
            BY <2>3 DEF Range
        <3> QED BY <1>1, <2>0, <2>1, <2>2, <2>3, <3>1 DEF OrderInv, Grows, Precede
    <2>4. CASE queue' = Append(queue, entry[c]) /\ pushed' = pushed \cup {entry[c]}
        <3>1. /\ entry[c] \in Entries /\ entry[c].from = c /\ entry[c].n <= calls
              /\ Precede(pushed, {entry[c]})
            BY <1>1, <2>0 DEF OrderInv
        <3>2. Range(queue)' = Range(queue) \cup {entry[c]}
            <4>1. Range(Append(queue, entry[c])) = Range(queue) \cup {entry[c]}
                BY <1>0, <3>1, RangeAppend
            <4> QED BY <2>4, <4>1 DEF Range
        <3>3. Grows(queue')
            <4>1. Precede(Range(queue), {entry[c]})
                BY <1>0, <3>1 DEF Precede
            <4>2. Grows(Append(queue, entry[c]))
                BY <1>0, <1>1, <3>1, <4>1, GrowsAppend DEF OrderInv
            <4> QED BY <2>4, <4>2
        <3>4. /\ Precede(Lines(written), Range(pending) \cup (Range(queue) \cup {entry[c]}))
              /\ Precede(Range(pending), Range(queue) \cup {entry[c]})
            BY <1>0, <1>1, <3>1 DEF OrderInv, Precede
        <3>5. ASSUME NEW d \in Callers, cpc'[d] = "lock"
              PROVE  /\ entry[d] \in Entries /\ entry[d].from = d /\ entry[d].n <= calls
                     /\ Precede(pushed \cup {entry[c]}, {entry[d]})
            BY <1>1, <2>2, <3>1, <3>5 DEF OrderInv, Precede
        <3>6. \A e \in pushed \cup {entry[c]} : e.n <= calls
            BY <1>1, <3>1 DEF OrderInv
        <3>7. Grows(queue)' /\ Grows(pending)'
            BY <1>1, <2>0, <3>3 DEF OrderInv, Grows
        <3> QED BY <2>0, <2>1, <2>4, <3>2, <3>4, <3>5, <3>6, <3>7 DEF OrderInv, Precede
    <2> QED BY <1>4, <2>3, <2>4 DEF LogLock
<1>5. ASSUME NEW c \in Callers, LogNotify(c)
      PROVE  OrderInv'
    <2>1. UNCHANGED <<queue, pending, written, pushed, entry, calls>>
        BY <1>5 DEF LogNotify, fileVars, diskVars
    <2>2. \A d \in Callers : cpc'[d] = "lock" => cpc[d] = "lock"
        BY <1>0, <1>5 DEF LogNotify
    <2>3. Range(queue)' = Range(queue) /\ Range(pending)' = Range(pending)
          /\ Lines(written)' = Lines(written)
        BY <2>1 DEF Range, Lines
    <2> QED BY <1>1, <2>1, <2>2, <2>3 DEF OrderInv, Grows, Precede
<1>6. CASE WorkerTake \/ WorkerTimeout
    <2>1. /\ pending = <<>> /\ pending' = queue /\ queue' = <<>>
          /\ UNCHANGED <<written, pushed, cpc, entry, calls>>
        BY <1>6 DEF IInv, PlaceInv, WorkerTake, WorkerTimeout, Swap, fileVars, diskVars, callerVars
    <2>2. Range(queue)' = {} /\ Range(pending)' = Range(queue) /\ Lines(written)' = Lines(written)
        BY <2>1 DEF Range, Lines
    <2>3. Grows(queue)' /\ Grows(pending)'
        BY <1>1, <2>1 DEF OrderInv, Grows
    <2> QED BY <1>1, <2>1, <2>2, <2>3 DEF OrderInv, Precede
<1>7. CASE WorkerWrite
    <2> DEFINE w == [file |-> Head(pending).day, line |-> Head(pending)]
    <2>0. pending # <<>> /\ written' = Append(written, w) /\ pending' = Tail(pending)
          /\ UNCHANGED <<queue, pushed, cpc, entry, calls>>
        BY <1>7, OpenDay DEF WorkerWrite, callerVars
    <2>1. Head(pending) \in Entries /\ Range(pending) = {Head(pending)} \cup Range(Tail(pending))
        BY <1>0, <2>0, RangeTail
    <2>2. w \in WLine /\ w.line = Head(pending)
        BY <2>1 DEF WLine, Entries
    <2> HIDE DEF w
    <2>3. Lines(written)' = Lines(written) \cup {Head(pending)}
        <3>1. Lines(Append(written, w)) = Lines(written) \cup {Head(pending)}
            BY <1>0, <2>1, <2>2, LinesAppend, NoEntryApart
        <3> QED BY <2>0, <3>1 DEF Lines
    <2>4. Range(queue)' = Range(queue) /\ Range(pending)' = Range(Tail(pending))
        BY <2>0 DEF Range
    <2>5. Grows(Tail(pending)) /\ Precede({Head(pending)}, Range(Tail(pending)))
        BY <1>0, <1>1, <2>0, GrowsTail DEF OrderInv
    <2>6. /\ Precede(Lines(written) \cup {Head(pending)}, Range(Tail(pending)) \cup Range(queue))
          /\ Precede(Range(Tail(pending)), Range(queue))
        BY <1>1, <2>1, <2>5 DEF OrderInv, Precede
    <2>7. Grows(queue)' /\ Grows(pending)'
        BY <1>1, <2>0, <2>5 DEF OrderInv, Grows
    <2> QED BY <1>1, <2>0, <2>3, <2>4, <2>6, <2>7 DEF OrderInv, Precede
<1>8. CASE WorkerNotice
    <2>1. UNCHANGED <<queue, pending, pushed, cpc, entry, calls>>
        BY <1>8 DEF WorkerNotice, callerVars
    <2>2. Lines(written') = Lines(written)
        <3>1. CASE in_hand > 0
            <4> DEFINE w == [file |-> today, line |-> NoEntry]
            <4>1. w \in WLine /\ w.line = NoEntry
                BY DEF WLine, IInv, TypeOK
            <4>2. written' = Append(written, w)
                BY <1>8, <3>1 DEF WorkerNotice
            <4> HIDE DEF w
            <4> QED BY <1>0, <4>1, <4>2, LinesAppend
        <3>2. CASE ~(in_hand > 0)
            BY <1>8, <3>2 DEF WorkerNotice, fileVars, diskVars
        <3> QED BY <3>1, <3>2
    <2> QED BY <1>2, <2>1, <2>2
<1>9. CASE \/ UNCHANGED vars \/ Midnight \/ WorkerCheck \/ WorkerSleep \/ WorkerWoken
           \/ WorkerCollect \/ WorkerFlush \/ WorkerLastFlush \/ WorkerFails
           \/ DestroyStart \/ DestroyStop \/ DestroyNotify \/ DestroyClose
    <2>1. UNCHANGED <<queue, pending, pushed, cpc, entry, calls, written>>
        BY <1>9 DEF vars, Midnight, WorkerCheck, WorkerSleep, WorkerWoken, WorkerCollect,
                    WorkerFlush, WorkerLastFlush, WorkerFails, DestroyStart, DestroyStop,
                    DestroyNotify, DestroyClose, fileVars, diskVars, callerVars
    <2> QED BY <1>2, <2>1
<1> QED BY <1>3, <1>4, <1>5, <1>6, <1>7, <1>8, <1>9
        DEF Next, CallerStep, DestructorStep, WorkerStep

(* A line after the others keeps the file in order.                         *)
LEMMA FileStep ==
    ASSUME IInv, NEW w \in WLine, written' = Append(written, w),
           w.line # NoEntry => w.file = w.line.day /\ w.line \in Range(pending)
    PROVE  OrderedPerThread'
<1>0. WrittenType /\ OrderedPerThread /\ Precede(Lines(written), Range(pending))
    BY DEF IInv, OrderInv, Precede
<1>1. /\ DOMAIN written' = 1..(Len(written) + 1) /\ Len(written) \in Nat
      /\ \A i \in 1..Len(written) : written'[i] = written[i] /\ i \in DOMAIN written
      /\ written'[Len(written) + 1] = w
    BY <1>0 DEF WrittenType
<1>2. \A i \in DOMAIN written : written[i].line \in Entries \cup {NoEntry}
    <2>1. \A i \in DOMAIN written : written[i] \in WLine
        BY <1>0 DEF WrittenType
    <2> QED BY <2>1 DEF WLine
<1>3. ASSUME NEW i \in DOMAIN written', NEW j \in DOMAIN written', i < j,
             written'[i].line # NoEntry, written'[i].line.from = written'[j].line.from
      PROVE  written'[i].line.n < written'[j].line.n
    <2>1. CASE j <= Len(written)
        BY <1>0, <1>1, <1>3, <2>1 DEF OrderedPerThread
    <2>2. CASE j = Len(written) + 1
        <3>1. i \in DOMAIN written /\ written'[i] = written[i] /\ written'[j] = w
            BY <1>1, <1>3, <2>2
        <3>2. written[i].line \in Entries /\ written[i].line \in Lines(written)
            BY <1>2, <1>3, <3>1 DEF Lines
        <3>3. written[i].line.from \in Callers
            BY <3>2 DEF Entries
        <3>4. w.line # NoEntry
            BY <1>3, <3>1, <3>3, AsyncLoggerAssumption DEF NoEntry
        <3> QED BY <1>0, <1>3, <3>1, <3>2, <3>4 DEF Precede
    <2> QED BY <1>1, <1>3, <2>1, <2>2
<1>4. ASSUME NEW i \in DOMAIN written', written'[i].line # NoEntry
      PROVE  written'[i].file = written'[i].line.day
    <2>1. CASE i <= Len(written)
        BY <1>0, <1>1, <1>4, <2>1 DEF OrderedPerThread
    <2>2. CASE i = Len(written) + 1
        BY <1>1, <1>4, <2>2
    <2> QED BY <1>1, <1>4, <2>1, <2>2
<1> QED BY <1>3, <1>4 DEF OrderedPerThread

(* Every step keeps the file in order.                                      *)
LEMMA OrderedStep ==
    ASSUME IInv, [Next]_vars
    PROVE  OrderedPerThread'
<1>1. CASE UNCHANGED written
    BY <1>1 DEF IInv, OrderedPerThread
<1>2. CASE WorkerWrite
    <2> DEFINE w == [file |-> Head(pending).day, line |-> Head(pending)]
    <2>1. pending # <<>> /\ written' = Append(written, w)
        BY <1>2, OpenDay DEF WorkerWrite
    <2>2. Head(pending) \in Entries /\ Head(pending) \in Range(pending)
        BY <2>1, RangeTail DEF IInv, TypeOK
    <2>3. w \in WLine /\ w.file = w.line.day /\ w.line \in Range(pending)
        BY <2>2 DEF WLine, Entries
    <2> HIDE DEF w
    <2> QED BY <2>1, <2>3, FileStep
<1>3. CASE WorkerNotice
    <2>1. CASE in_hand > 0
        <3> DEFINE w == [file |-> today, line |-> NoEntry]
        <3>1. w \in WLine /\ w.line = NoEntry
            BY DEF WLine, IInv, TypeOK
        <3>2. written' = Append(written, w)
            BY <1>3, <2>1 DEF WorkerNotice
        <3> HIDE DEF w
        <3> QED BY <3>1, <3>2, FileStep
    <2>2. CASE ~(in_hand > 0)
        BY <1>1, <1>3, <2>2 DEF WorkerNotice, fileVars, diskVars
    <2> QED BY <2>1, <2>2
<1>4. ASSUME NEW c \in Callers, LogEnter(c) \/ LogLock(c) \/ LogNotify(c)
      PROVE  UNCHANGED written
    BY <1>4 DEF LogEnter, LogLock, LogNotify, fileVars, diskVars
<1>5. CASE \/ UNCHANGED vars \/ Midnight \/ WorkerCheck \/ WorkerSleep \/ WorkerWoken
           \/ WorkerTake \/ WorkerTimeout
           \/ WorkerCollect \/ WorkerFlush \/ WorkerLastFlush \/ WorkerFails
           \/ DestroyStart \/ DestroyStop \/ DestroyNotify \/ DestroyClose
    BY <1>1, <1>5 DEF vars, Midnight, WorkerCheck, WorkerSleep, WorkerWoken, WorkerTake,
                WorkerTimeout, Swap, WorkerCollect, WorkerFlush, WorkerLastFlush, WorkerFails,
                DestroyStart, DestroyStop, DestroyNotify, DestroyClose, fileVars, diskVars
<1> QED BY <1>1, <1>2, <1>3, <1>4, <1>5 DEF Next, CallerStep, DestructorStep, WorkerStep

-----------------------------------------------------------------------------
(* Urgent lines.                                                            *)

(* A line that was tried stays tried, and the others are the same lines.    *)
LEMMA StillTried ==
    ASSUME IInv, flushed <= flushed', flushed' \in Nat, struck \subseteq struck',
           NEW i \in DOMAIN written, Tried(i)
    PROVE  Tried(i)'
BY LineNumbers DEF Tried

(* Every step keeps the urgent lines on their way to disk.                  *)
LEMMA UrgentStep ==
    ASSUME IInv, [Next]_vars
    PROVE  UrgentInv'
<1>0. /\ UrgentInv /\ PlaceInv /\ WrittenType /\ urgent \in BOOLEAN
      /\ Len(written) \in Nat /\ DOMAIN written = 1..Len(written)
      /\ flushed \in 0..Len(written) /\ struck \subseteq 1..Len(written)
    BY LineNumbers DEF IInv, TypeOK
<1>1. CASE UNCHANGED <<written, flushed, struck, urgent, wpc>>
    <2>1. ASSUME NEW i \in DOMAIN written
          PROVE  Tried(i)' = Tried(i)
        BY <1>1 DEF Tried
    <2> QED BY <1>0, <1>1, <2>1 DEF UrgentInv
<1>2. CASE DestroyClose
    <2>1. /\ UNCHANGED <<written, urgent, wpc>> /\ CloseFile
        BY <1>2 DEF DestroyClose
    <2>2. ASSUME NEW i \in DOMAIN written, Tried(i)
          PROVE  Tried(i)'
        BY <1>0, <2>1, <2>2, DiskFacts, StillTried
    <2> QED BY <1>0, <2>1, <2>2 DEF UrgentInv
<1>3. CASE WorkerCheck \/ WorkerSleep \/ WorkerWoken \/ WorkerTake \/ WorkerTimeout
    <2>1. UNCHANGED <<written, flushed, struck>> /\ wpc \in {"wait", "dozing", "asleep"}
        BY <1>3 DEF WorkerCheck, WorkerSleep, WorkerWoken, WorkerTake, WorkerTimeout, Swap,
                    fileVars, diskVars
    <2>2. ASSUME NEW i \in DOMAIN written
          PROVE  Tried(i)' = Tried(i)
        BY <2>1 DEF Tried
    <2> QED BY <1>0, <2>1, <2>2 DEF UrgentInv
<1>4. CASE WorkerWrite
    <2> DEFINE n == Len(written)
               e == Head(pending)
    <2>1. /\ wpc = "write" /\ wpc' = "write" /\ OpenFor(e.day)
          /\ written' = Append(written, [file |-> active_date', line |-> e])
          /\ urgent' = (urgent \/ e.urgent)
        BY <1>4 DEF WorkerWrite
    <2>2. flushed <= flushed' /\ flushed' \in Nat /\ struck \subseteq struck'
        BY <1>0, <2>1, DiskFacts
    <2>3. ASSUME NEW i \in DOMAIN written
          PROVE  written'[i].line = written[i].line /\ (Tried(i) => Tried(i)')
        BY <1>0, <2>1, <2>2, StillTried DEF WrittenType
    <2>4. /\ DOMAIN written' = DOMAIN written \cup {n + 1}
          /\ written'[n + 1].line = e
        BY <1>0, <2>1 DEF WrittenType
    <2> HIDE DEF n, e
    <2> QED BY <1>0, <2>1, <2>3, <2>4 DEF UrgentInv
<1>5. CASE WorkerCollect
    <2>1. /\ UNCHANGED <<written, flushed, struck, urgent>>
          /\ \/ wpc = "write" /\ wpc' = "notice"
             \/ wpc = "drain" /\ wpc' = "last_notice"
        BY <1>5 DEF WorkerCollect, fileVars, diskVars
    <2>2. ASSUME NEW i \in DOMAIN written
          PROVE  Tried(i)' = Tried(i)
        BY <2>1 DEF Tried
    <2> QED BY <1>0, <2>1, <2>2 DEF UrgentInv
<1>6. CASE WorkerNotice
    <2> DEFINE n == Len(written)
    <2>1. /\ \/ wpc = "notice" /\ wpc' = "flush"
             \/ wpc = "last_notice" /\ wpc' = "last_flush"
          /\ wpc = "notice" /\ urgent => urgent'
        BY <1>6 DEF WorkerNotice
    <2>2. /\ flushed <= flushed' /\ flushed' \in Nat /\ struck \subseteq struck'
          /\ written' = written
             \/ written' = Append(written, [file |-> today, line |-> NoEntry])
        BY <1>0, <1>6, DiskFacts DEF WorkerNotice, fileVars, diskVars
    <2>3. ASSUME NEW i \in DOMAIN written
          PROVE  written'[i].line = written[i].line /\ (Tried(i) => Tried(i)')
        BY <1>0, <2>2, StillTried DEF WrittenType
    <2>4. /\ DOMAIN written' \subseteq DOMAIN written \cup {n + 1}
          /\ n + 1 \in DOMAIN written' => written'[n + 1].line = NoEntry
        BY <1>0, <2>2 DEF WrittenType
    <2>5. ~NoEntry.urgent
        BY DEF NoEntry
    <2> HIDE DEF n
    <2>6. ASSUME NEW i \in DOMAIN written', written'[i].line.urgent
          PROVE  Tried(i)' \/ (urgent' /\ wpc' = "flush")
        <3>1. i \in DOMAIN written /\ written[i].line.urgent
            BY <2>3, <2>4, <2>5, <2>6
        <3> QED BY <1>0, <2>1, <2>3, <3>1 DEF UrgentInv
    <2> QED BY <2>6 DEF UrgentInv
<1>7. CASE WorkerFlush \/ WorkerLastFlush
    <2>1. /\ UNCHANGED <<written, urgent>> /\ wpc \in {"flush", "last_flush"}
          /\ FlushFile \/ (~urgent /\ UNCHANGED <<flushed, struck>>)
        BY <1>7 DEF WorkerFlush, WorkerLastFlush, diskVars
    <2>2. ASSUME NEW i \in DOMAIN written, FlushFile
          PROVE  Tried(i)'
        BY <1>0, <2>2, DiskFacts DEF Tried
    <2>3. ASSUME NEW i \in DOMAIN written, UNCHANGED <<flushed, struck>>
          PROVE  Tried(i)' = Tried(i)
        BY <2>3 DEF Tried
    <2> QED BY <1>0, <2>1, <2>2, <2>3 DEF UrgentInv
<1>8. CASE WorkerFails
    BY <1>8 DEF WorkerFails, UrgentInv
<1>9. CASE UNCHANGED vars \/ Midnight \/ DestroyStart \/ DestroyStop \/ DestroyNotify
    BY <1>1, <1>9 DEF vars, Midnight, DestroyStart, DestroyStop, DestroyNotify, fileVars, diskVars
<1>10. ASSUME NEW c \in Callers, LogEnter(c) \/ LogLock(c) \/ LogNotify(c)
       PROVE  UNCHANGED <<written, flushed, struck, urgent, wpc>>
    BY <1>10 DEF LogEnter, LogLock, LogNotify, fileVars, diskVars
<1> QED BY <1>1, <1>2, <1>3, <1>4, <1>5, <1>6, <1>7, <1>8, <1>9, <1>10
        DEF Next, CallerStep, DestructorStep, WorkerStep

-----------------------------------------------------------------------------
(* The invariant holds at first and after every step.                       *)
THEOREM Inductive == Spec => []IInv
<1>1. Init => IInv
    <2> SUFFICES ASSUME Init PROVE IInv
        OBVIOUS
    <2>1. /\ queue = <<>> /\ pending = <<>> /\ written = <<>> /\ pushed = {}
          /\ cpc = [c \in Callers |-> "idle"]
        BY DEF Init
    <2>2. Range(queue) = {} /\ Range(pending) = {} /\ Lines(written) = {}
        BY <2>1 DEF Range, Lines
    <2>3. TypeOK /\ WrittenType
        <3>1. /\ queue \in Seq(Entries) /\ pending \in Seq(Entries) /\ written \in Seq(WLine)
              /\ Len(queue) = 0 /\ Len(pending) = 0 /\ Len(written) = 0
            BY <2>1
        <3>2. /\ cpc \in [Callers -> {"idle", "lock", "notify"}]
              /\ entry \in [Callers -> Entries \cup {NoEntry}]
            BY DEF Init
        <3>3. /\ active_date \in 0..MaxDay /\ today \in 0..MaxDay /\ calls \in 0..MaxLogs
              /\ flushed \in 0..Len(written) /\ Len(queue) <= Capacity /\ Len(pending) <= Capacity
            BY <3>1, AsyncLoggerAssumption DEF Init
        <3>4. /\ accepting \in BOOLEAN /\ stop \in BOOLEAN /\ notified \in BOOLEAN
              /\ urgent \in BOOLEAN /\ pushed \subseteq Entries
              /\ dropped_pending \in Nat /\ dropped_total \in Nat /\ in_hand \in Nat
              /\ reported \in Nat /\ wpc = "wait" /\ dpc = "alive"
              /\ bad \in BOOLEAN /\ struck \subseteq 1..Len(written)
            BY DEF Init
        <3> QED BY <3>1, <3>2, <3>3, <3>4 DEF TypeOK, WrittenType
    <2>4. PlaceInv /\ DropsAccounted
        BY DEF Init, PlaceInv, Drained, DropsAccounted
    <2>5. NothingLost
        BY <2>1, <2>2 DEF Init, NothingLost
    <2>6. OrderInv /\ OrderedPerThread
        BY <2>1, <2>2 DEF OrderInv, OrderedPerThread, Grows, Precede
    <2>7. UrgentInv
        BY <2>1 DEF UrgentInv
    <2> QED BY <2>3, <2>4, <2>5, <2>6, <2>7 DEF IInv
<1>2. IInv /\ [Next]_vars => IInv'
    BY TypeStep, PlaceStep, LostStep, DropStep, OrderStep, OrderedStep, UrgentStep DEF IInv
<1> QED BY <1>1, <1>2, PTL DEF Spec

(* Every variable keeps its type and the queue its capacity.                *)
THEOREM TypeCorrect == Spec => []TypeOK
<1>1. IInv => TypeOK
    BY DEF IInv
<1> QED BY <1>1, Inductive, PTL

(* Accepted entries stay in the queue, in the worker's hand or in the file,
   and a closed logger has written them all and emptied its stream, unless the
   worker failed: the destructor refuses, stops and joins in this order.           *)
THEOREM NothingLostCorrect == Spec => []NothingLost
<1>1. IInv => NothingLost
    BY DEF IInv
<1> QED BY <1>1, Inductive, PTL

(* An error line is never left in the buffer when the worker waits again: the
   flag that run() keeps over its turn reaches its flush, whatever day changes,
   notices and refused flushes lie between.                                 *)
THEOREM UrgentCorrect == Spec => []UrgentOnDisk
<1>1. IInv => UrgentOnDisk
    BY DEF IInv, UrgentInv, UrgentOnDisk
<1> QED BY <1>1, Inductive, PTL

(* No discarded entry is missing from the notices: log() counts in two
   counters, and run() takes one of them in both of its places.             *)
THEOREM DropsCorrect == Spec => []DropsAccounted
<1>1. IInv => DropsAccounted
    BY DEF IInv
<1> QED BY <1>1, Inductive, PTL

(* The worker writes a thread's lines in the order of its calls, each to the
   file of its day, whatever the other threads, midnight and the queue do.  *)
THEOREM OrderCorrect == Spec => []OrderedPerThread
<1>1. IInv => OrderedPerThread
    BY DEF IInv
<1> QED BY <1>1, Inductive, PTL
==============================================================================
