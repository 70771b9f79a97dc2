----------------------------- MODULE AsyncLogger -----------------------------
(***************************************************************************)
(* AsyncFileLogger (infrastructure/async_file_logger): callers of log()     *)
(* push entries into a bounded queue, one worker thread swaps the queue out  *)
(* and writes it to the file of the day, and the destructor refuses new     *)
(* entries, stops the worker and joins it.  The steps between two uses of   *)
(* mutex_ are separate; a critical section is one step, except that the     *)
(* worker holds mutex_ in "dozing", between the predicate of wait_for and   *)
(* its sleep, because the destructor notifies without the mutex.            *)
(*                                                                         *)
(* An entry is who logged it, its number, its day and whether it is urgent. *)
(*                                                                         *)
(* The code looks at output_ after each write and opening, but never after   *)
(* a flush or a close: one that fails is known to nobody.  The next write to *)
(* the same file then fails, since the stream is bad; another day's file is  *)
(* opened with a good stream again.                                         *)
(***************************************************************************)
EXTENDS Integers, Sequences, Functions

CONSTANTS Callers,   \* threads that log
          Capacity,  \* queue_capacity_
          MaxLogs,   \* bound: calls of log() in all
          MaxDay     \* bound: how often midnight passes

ASSUME AsyncLoggerAssumption ==
    /\ Capacity \in Nat \ {0} /\ MaxLogs \in Nat /\ MaxDay \in Nat
    /\ "nobody" \notin Callers

VARIABLES
    accepting,        \* accepting_
    stop,             \* the stop token of worker_
    queue, pending,   \* queue_ and the worker's local deque
    dropped_pending, dropped_total,
    notified,         \* the sleeping worker was notified
    wpc, dpc,         \* the worker and the destructor
    in_hand,          \* the worker's local dropped count, not yet written
    urgent,           \* the worker's local urgent flag
    active_date,      \* active_date_
    written,          \* lines put into output_, in order, with their file
    flushed,          \* how many of them have left the stream's buffer
    bad,              \* output_ is in a failed state since a flush
    struck,           \* history: lines buffered when a flush or close failed
    reported,         \* sum of the counts in the dropped notices written
    cpc, entry,       \* each caller: place in log() and its entry
    calls,            \* calls of log() made
    pushed,           \* history: entries accepted by the queue
    today             \* the system clock, in days

vars == <<accepting, stop, queue, pending, dropped_pending, dropped_total,
          notified, wpc, dpc, in_hand, urgent, active_date, written, flushed,
          bad, struck, reported, cpc, entry, calls, pushed, today>>

dropVars == <<dropped_pending, dropped_total>>
diskVars == <<flushed, bad, struck>>
fileVars == <<active_date, written, diskVars, reported>>
callerVars == <<cpc, entry, calls, pushed>>

Entries == [from : Callers, n : 1..MaxLogs, day : 0..MaxDay, urgent : BOOLEAN]

NoEntry == [from |-> "nobody", n |-> 0, day |-> 0, urgent |-> FALSE]

Init ==
    /\ accepting = TRUE /\ stop = FALSE
    /\ queue = <<>> /\ pending = <<>>
    /\ dropped_pending = 0 /\ dropped_total = 0
    /\ notified = FALSE /\ wpc = "wait" /\ dpc = "alive"
    /\ in_hand = 0 /\ urgent = FALSE
    /\ active_date = 0 /\ written = <<>> /\ reported = 0
    /\ flushed = 0 /\ bad = FALSE /\ struck = {}
    /\ cpc = [c \in Callers |-> "idle"]
    /\ entry = [c \in Callers |-> NoEntry]
    /\ calls = 0
    /\ pushed = {}
    /\ today = 0

Midnight ==
    /\ today < MaxDay /\ dpc # "closed"
    /\ today' = today + 1
    /\ UNCHANGED <<accepting, stop, queue, pending, dropVars, notified, wpc, dpc,
                   in_hand, urgent, fileVars, callerVars>>

-----------------------------------------------------------------------------
(* log()                                                                    *)

(* One more discarded entry.                                                *)
Drop ==
    /\ dropped_pending' = dropped_pending + 1
    /\ dropped_total' = dropped_total + 1

(* The first check of accepting_, without the mutex; building the entry takes
   the time stamp and may throw.                                            *)
LogEnter(c) ==
    /\ cpc[c] = "idle" /\ dpc # "closed" /\ calls < MaxLogs
    /\ calls' = calls + 1
    /\ \/ /\ ~accepting
          /\ UNCHANGED <<cpc, entry, dropVars>>
       \/ /\ accepting
          /\ \E u \in BOOLEAN :
                entry' = [entry EXCEPT ![c] =
                            [from |-> c, n |-> calls + 1, day |-> today, urgent |-> u]]
          /\ cpc' = [cpc EXCEPT ![c] = "lock"]
          /\ UNCHANGED dropVars
       \/ /\ accepting
          /\ Drop
          /\ UNCHANGED <<cpc, entry>>
    /\ UNCHANGED <<accepting, stop, queue, pending, notified, wpc, dpc, in_hand,
                   urgent, fileVars, pushed, today>>

(* Mutant: accepting_ is not checked again under the mutex.                 *)
LogLockUnchecked(c) ==
    /\ cpc[c] = "lock" /\ wpc # "dozing"
    /\ IF Len(queue) >= Capacity
          THEN Drop /\ cpc' = [cpc EXCEPT ![c] = "idle"] /\ UNCHANGED <<queue, pushed>>
          ELSE /\ queue' = Append(queue, entry[c])
               /\ pushed' = pushed \cup {entry[c]}
               /\ cpc' = [cpc EXCEPT ![c] = "notify"]
               /\ UNCHANGED dropVars
    /\ UNCHANGED <<accepting, stop, pending, notified, wpc, dpc, in_hand, urgent,
                   fileVars, entry, calls, today>>

(* The critical section: refused, discarded when the queue is full, or pushed. *)
LogLock(c) ==
    /\ cpc[c] = "lock" /\ wpc # "dozing"
    /\ \/ /\ ~accepting
          /\ cpc' = [cpc EXCEPT ![c] = "idle"]
          /\ UNCHANGED <<queue, pushed, dropVars>>
       \/ /\ accepting /\ Len(queue) >= Capacity
          /\ Drop
          /\ cpc' = [cpc EXCEPT ![c] = "idle"]
          /\ UNCHANGED <<queue, pushed>>
       \/ /\ accepting /\ Len(queue) < Capacity
          /\ queue' = Append(queue, entry[c])
          /\ pushed' = pushed \cup {entry[c]}
          /\ cpc' = [cpc EXCEPT ![c] = "notify"]
          /\ UNCHANGED dropVars
    /\ UNCHANGED <<accepting, stop, pending, notified, wpc, dpc, in_hand, urgent,
                   fileVars, entry, calls, today>>

(* notify reaches the worker only while it sleeps.                          *)
WakeWorker == notified' = (notified \/ wpc = "asleep")

(* condition_.notify_one()                                                  *)
LogNotify(c) ==
    /\ cpc[c] = "notify"
    /\ WakeWorker
    /\ cpc' = [cpc EXCEPT ![c] = "idle"]
    /\ UNCHANGED <<accepting, stop, queue, pending, dropVars, wpc, dpc, in_hand,
                   urgent, fileVars, entry, calls, pushed, today>>

-----------------------------------------------------------------------------
(* output_                                                                  *)

(* The lines that only the stream has.                                      *)
Buffered == (flushed + 1)..Len(written)

(* output_.flush(): all of the buffer reaches the disk, or the stream turns bad
   and keeps it.  On a bad stream it does nothing.                          *)
FlushFile ==
    \/ /\ ~bad
       /\ flushed' = Len(written) /\ UNCHANGED <<bad, struck>>
    \/ /\ Buffered # {}
       /\ bad' = TRUE /\ struck' = struck \cup Buffered /\ UNCHANGED flushed

(* output_.flush() and output_.close(), which tries the rest once more and
   drops what the disk does not take.                                       *)
CloseFile ==
    /\ flushed' = Len(written)
    /\ struck' \in {struck, struck \cup Buffered}

(* Mutant: the file of an earlier day is never opened again.                *)
OpenForForward(day) ==
    IF day > active_date
       THEN CloseFile /\ active_date' = day /\ bad' = FALSE
       ELSE ~bad /\ UNCHANGED <<active_date, diskVars>>

(* open_for: the file of another day is closed and opening the next one clears
   the stream; a bad stream takes no more lines.                            *)
OpenFor(day) ==
    IF day # active_date
       THEN CloseFile /\ active_date' = day /\ bad' = FALSE
       ELSE ~bad /\ UNCHANGED <<active_date, diskVars>>

(* Opening the file of a day or writing to it fails.                        *)
FailIn(day) ==
    /\ UNCHANGED <<active_date, bad>>
    /\ \/ UNCHANGED <<flushed, struck>>
       \/ day # active_date /\ CloseFile

-----------------------------------------------------------------------------
(* The destructor.                                                          *)

DestroyStart ==
    /\ dpc = "alive"
    /\ accepting' = FALSE /\ dpc' = "refusing"
    /\ UNCHANGED <<stop, queue, pending, dropVars, notified, wpc, in_hand, urgent,
                   fileVars, callerVars, today>>

DestroyStop ==
    /\ dpc = "refusing"
    /\ stop' = TRUE /\ dpc' = "stopping"
    /\ UNCHANGED <<accepting, queue, pending, dropVars, notified, wpc, in_hand,
                   urgent, fileVars, callerVars, today>>

(* condition_.notify_all(), without the mutex.                              *)
DestroyNotify ==
    /\ dpc = "stopping"
    /\ WakeWorker
    /\ dpc' = "joining"
    /\ UNCHANGED <<accepting, stop, queue, pending, dropVars, wpc, in_hand, urgent,
                   fileVars, callerVars, today>>

(* join, flush and close; the members go when the last caller has left.     *)
DestroyClose ==
    /\ dpc = "joining" /\ wpc \in {"done", "failed"}
    /\ \A c \in Callers : cpc[c] = "idle"
    /\ CloseFile
    /\ dpc' = "closed"
    /\ UNCHANGED <<accepting, stop, queue, pending, dropVars, notified, wpc, in_hand,
                   urgent, active_date, bad, written, reported, callerVars, today>>

-----------------------------------------------------------------------------
(* run(): the worker thread.                                                *)

WorkerIdle == ~stop /\ queue = <<>>

(* The predicate of wait_for is false: the worker is about to sleep ...     *)
WorkerCheck ==
    /\ wpc = "wait" /\ WorkerIdle
    /\ wpc' = "dozing"
    /\ UNCHANGED <<accepting, stop, queue, pending, dropVars, notified, dpc,
                   in_hand, urgent, fileVars, callerVars, today>>

(* ... and sleeps, releasing the mutex.                                     *)
WorkerSleep ==
    /\ wpc = "dozing"
    /\ wpc' = "asleep" /\ notified' = FALSE
    /\ UNCHANGED <<accepting, stop, queue, pending, dropVars, dpc, in_hand, urgent,
                   fileVars, callerVars, today>>

WorkerWoken ==
    /\ wpc = "asleep" /\ notified
    /\ wpc' = "wait" /\ notified' = FALSE
    /\ UNCHANGED <<accepting, stop, queue, pending, dropVars, dpc, in_hand, urgent,
                   fileVars, callerVars, today>>

(* wait_for came back: swap the queue out, or leave the loop.               *)
Swap ==
    /\ pending' = queue /\ queue' = <<>>
    /\ wpc' = IF queue = <<>> /\ stop THEN "drain" ELSE "write"
    /\ urgent' = FALSE
    /\ UNCHANGED <<accepting, stop, dropVars, notified, dpc, in_hand, fileVars,
                   callerVars, today>>

WorkerTake == wpc = "wait" /\ ~WorkerIdle /\ Swap

(* Mutant: wait instead of wait_for, so that only a notification wakes.     *)
WorkerTimeoutNever == FALSE /\ Swap

(* The 500 ms are over.                                                     *)
WorkerTimeout == wpc = "asleep" /\ Swap

(* One turn of the loop over the pending entries.                           *)
WorkerWrite ==
    /\ wpc = "write" /\ pending # <<>>
    /\ OpenFor(Head(pending).day)
    /\ written' = Append(written, [file |-> active_date', line |-> Head(pending)])
    /\ urgent' = (urgent \/ Head(pending).urgent)
    /\ pending' = Tail(pending)
    /\ UNCHANGED <<accepting, stop, queue, dropVars, notified, wpc, dpc, in_hand,
                   reported, callerVars, today>>

(* Mutant: the counter is read and reset, after the loop it is only reset.  *)
WorkerCollectForgets ==
    /\ \/ wpc = "write" /\ pending = <<>> /\ wpc' = "notice" /\ in_hand' = dropped_pending
       \/ wpc = "drain" /\ wpc' = "last_notice" /\ in_hand' = 0
    /\ dropped_pending' = 0
    /\ UNCHANGED <<accepting, stop, queue, pending, dropped_total, notified, dpc,
                   urgent, fileVars, callerVars, today>>

(* dropped_pending_.exchange(0), in the loop and after it.                  *)
WorkerCollect ==
    /\ \/ wpc = "write" /\ pending = <<>> /\ wpc' = "notice"
       \/ wpc = "drain" /\ wpc' = "last_notice"
    /\ in_hand' = dropped_pending /\ dropped_pending' = 0
    /\ UNCHANGED <<accepting, stop, queue, pending, dropped_total, notified, dpc,
                   urgent, fileVars, callerVars, today>>

(* write_dropped_notice when something was dropped.                         *)
WorkerNotice ==
    /\ wpc \in {"notice", "last_notice"}
    /\ IF in_hand > 0
          THEN /\ OpenFor(today)
               /\ written' = Append(written, [file |-> today, line |-> NoEntry])
               /\ reported' = reported + in_hand
               /\ urgent' = (urgent \/ wpc = "notice")
          ELSE UNCHANGED <<fileVars, urgent>>
    /\ in_hand' = 0
    /\ wpc' = IF wpc = "notice" THEN "flush" ELSE "last_flush"
    /\ UNCHANGED <<accepting, stop, queue, pending, dropVars, notified, dpc,
                   callerVars, today>>

(* Mutant: nothing but an urgent line or the end flushes.                   *)
WorkerFlushUrgent ==
    /\ wpc = "flush"
    /\ IF urgent \/ stop THEN FlushFile ELSE UNCHANGED diskVars
    /\ wpc' = "wait"
    /\ UNCHANGED <<accepting, stop, queue, pending, dropVars, notified, dpc,
                   in_hand, urgent, active_date, written, reported, callerVars, today>>

(* output_.flush() when urgent, stopping, or a second after the last one.   *)
WorkerFlush ==
    /\ wpc = "flush"
    /\ FlushFile \/ (~urgent /\ ~stop /\ UNCHANGED diskVars)
    /\ wpc' = "wait"
    /\ UNCHANGED <<accepting, stop, queue, pending, dropVars, notified, dpc,
                   in_hand, urgent, active_date, written, reported, callerVars, today>>

WorkerLastFlush ==
    /\ wpc = "last_flush"
    /\ FlushFile
    /\ wpc' = "done"
    /\ UNCHANGED <<accepting, stop, queue, pending, dropVars, notified, dpc,
                   in_hand, urgent, active_date, written, reported, callerVars, today>>

(* Opening or writing the file throws: the worker ends and accepting_ stays
   as it is.                                                                *)
WorkerFails ==
    /\ \/ wpc = "write" /\ pending # <<>> /\ FailIn(Head(pending).day)
       \/ wpc \in {"notice", "last_notice"} /\ in_hand > 0 /\ FailIn(today)
    /\ wpc' = "failed"
    /\ UNCHANGED <<accepting, stop, queue, pending, dropVars, notified, dpc, in_hand,
                   urgent, written, reported, callerVars, today>>

-----------------------------------------------------------------------------
WorkerStep ==
    \/ WorkerCheck \/ WorkerSleep \/ WorkerWoken \/ WorkerTake \/ WorkerTimeout
    \/ WorkerWrite \/ WorkerCollect \/ WorkerNotice \/ WorkerFlush
    \/ WorkerLastFlush \/ WorkerFails

CallerStep(c) == LogLock(c) \/ LogNotify(c)

DestructorStep == DestroyStop \/ DestroyNotify \/ DestroyClose

Next ==
    \/ Midnight
    \/ \E c \in Callers : LogEnter(c) \/ CallerStep(c)
    \/ DestroyStart \/ DestructorStep
    \/ WorkerStep

Spec == Init /\ [][Next]_vars

(* Threads run, and wait_for returns after its timeout.  A worker that keeps
   coming to its flush finds, now and then, that a second has passed.       *)
FairSpec ==
    /\ Spec /\ WF_vars(WorkerStep) /\ WF_vars(DestructorStep)
    /\ SF_vars(WorkerFlush /\ FlushFile)
    /\ \A c \in Callers : SF_vars(LogLock(c)) /\ WF_vars(LogNotify(c))

-----------------------------------------------------------------------------
(* Every variable keeps its type, and the queue its bound (README:418: at
   most 8,192 entries).                                                     *)
TypeOK ==
    /\ accepting \in BOOLEAN /\ stop \in BOOLEAN /\ notified \in BOOLEAN
    /\ urgent \in BOOLEAN
    /\ queue \in Seq(Entries) /\ Len(queue) <= Capacity
    /\ pending \in Seq(Entries) /\ Len(pending) <= Capacity
    /\ dropped_pending \in Nat /\ dropped_total \in Nat /\ in_hand \in Nat
    /\ wpc \in {"wait", "dozing", "asleep", "write", "drain", "notice",
                "last_notice", "flush", "last_flush", "done", "failed"}
    /\ dpc \in {"alive", "refusing", "stopping", "joining", "closed"}
    /\ active_date \in 0..MaxDay /\ today \in 0..MaxDay
    /\ flushed \in 0..Len(written) /\ reported \in Nat
    /\ bad \in BOOLEAN /\ struck \subseteq 1..Len(written)
    /\ cpc \in [Callers -> {"idle", "lock", "notify"}]
    /\ entry \in [Callers -> Entries \cup {NoEntry}] /\ calls \in 0..MaxLogs
    /\ pushed \subseteq Entries

Lines(f) == {f[i].line : i \in DOMAIN f} \ {NoEntry}

(* Every accepted entry is queued, held by the worker, or written; and when
   the logger is closed, written and out of the stream's buffer, unless the
   worker failed.  The second check of accepting_ is what keeps late callers
   from losing one.                                                         *)
NothingLost ==
    /\ pushed = Range(queue) \cup Range(pending) \cup Lines(written)
    /\ dpc = "closed" /\ wpc = "done" =>
          queue = <<>> /\ pending = <<>> /\ flushed = Len(written)

(* Every discarded entry is in a notice or still waits for one.             *)
DropsAccounted == dropped_total = reported + in_hand + dropped_pending

(* A thread's lines are in the order it logged them, once each, each in the
   file of its own day, midnight or not.                                    *)
OrderedPerThread ==
    /\ \A i, j \in DOMAIN written :
          i < j /\ written[i].line # NoEntry
                /\ written[i].line.from = written[j].line.from
             => written[i].line.n < written[j].line.n
    /\ \A i \in DOMAIN written :
          written[i].line # NoEntry => written[i].file = written[i].line.day

(* The destructor returns, even when its notification falls between the
   worker's check and its sleep: the time-out of wait_for ends the sleep.   *)
DestructorReturns == (dpc # "alive") ~> (dpc = "closed")

(* Not waiting in the stream's buffer for a flush that nobody has tried.    *)
Tried(i) == i <= flushed \/ i \in struck

AllTried == \A e \in pushed : \E i \in DOMAIN written : written[i].line = e /\ Tried(i)

(* An urgent line is not in the buffer when the worker waits again: errors are
   on disk before anything else happens, if the disk took them.             *)
UrgentOnDisk ==
    wpc \in {"wait", "dozing", "asleep"} =>
        \A i \in DOMAIN written : written[i].line.urgent => Tried(i)

(* An urgent line goes to disk in the same turn, and any accepted one does in
   the end, even when nothing is logged after it, unless the worker failed or
   the disk refused that very line in a flush or close (which the code does
   not look at).  A failed flush of one day's file does not hold up the lines
   of another day.                                                          *)
EventuallyOnDisk ==
    /\ []UrgentOnDisk
    /\ ~AllTried ~> (AllTried \/ wpc = "failed")
=============================================================================
