---------------------------- MODULE FileTransport ----------------------------
(***************************************************************************)
(* FileTransport (infrastructure/file_transport): each log of a payload     *)
(* becomes a file of its own, named by the time of connect() and an index,  *)
(* in a directory that several processes may share.  The limits on bytes,   *)
(* files and duration are checked once per payload, before its first file.  *)
(*                                                                         *)
(* A payload is how many logs (lines) and how many bytes it has; how the    *)
(* bytes fall on the logs is chosen as they are written.  A file is its     *)
(* name, who wrote it, its size and whether it is whole.  The disk may      *)
(* fail at every call, and a process may die anywhere.                      *)
(***************************************************************************)
EXTENDS Integers, FiniteSets, FiniteSetsExt

CONSTANTS Procs,        \* processes sharing the directory
          Stamps,       \* values of the clock, to the millisecond
          ByteLimits,   \* each process: values of file_max_total_bytes, 0 is no limit
          CountLimits,  \* values of file_max_count, 0 is no limit
          Timed,        \* whether file_max_duration is set
          MaxLogs,      \* bound: logs of a payload
          MaxBytes,     \* bound: bytes of a payload
          MaxConnects,  \* bound: connections of a process
          MaxSends      \* bound: payloads of a connection

ASSUME FileTransportAssumption ==
    /\ ByteLimits \in [Procs -> SUBSET Nat] /\ CountLimits \in [Procs -> SUBSET Nat]
    /\ Timed \in [Procs -> SUBSET BOOLEAN]
    /\ MaxLogs \in [Procs -> Nat] /\ MaxBytes \in [Procs -> Nat]
    /\ MaxConnects \in [Procs -> Nat] /\ MaxSends \in [Procs -> Nat]

VARIABLES
    files,            \* what is in the directory
    pc,               \* each process: its place in send()
    connected,        \* timestamp_ is not empty
    timestamp, next_file_index, file_count, total_size,
    max_total_bytes, max_file_count,
    timed, expired,   \* max_duration_ > 0; it has passed
    left_logs,        \* logs of the payload not yet written
    left_bytes,       \* and their bytes
    result,           \* of the last send()
    left_behind,      \* partial files nobody will remove
    connects, sends   \* bounds

conn == <<connected, timestamp, max_total_bytes, max_file_count, timed>>
counts == <<file_count, total_size>>
payload == <<left_logs, left_bytes>>
bounds == <<connects, sends>>
vars == <<files, pc, conn, next_file_index, counts, expired, payload, result,
          left_behind, bounds>>

Places == {"idle", "create", "write", "cleanup"}

Results == {"none", "Sent", "DurationLimitReached", "TotalBytesLimitReached",
            "FileCountLimitReached", "error"}

(* A directory entry.  run is the connection that made it.                  *)
Files == [stamp : Stamps, index : Nat, by : Procs, run : Nat, size : Nat,
          whole : BOOLEAN]

Init ==
    /\ files = {} /\ left_behind = {}
    /\ pc = [p \in Procs |-> "idle"]
    /\ connected = [p \in Procs |-> FALSE]
    /\ timestamp \in [Procs -> Stamps]
    /\ next_file_index = [p \in Procs |-> 0]
    /\ file_count = [p \in Procs |-> 0]
    /\ total_size = [p \in Procs |-> 0]
    /\ max_total_bytes = [p \in Procs |-> 0]
    /\ max_file_count = [p \in Procs |-> 0]
    /\ timed = [p \in Procs |-> FALSE]
    /\ expired = [p \in Procs |-> FALSE]
    /\ left_logs = [p \in Procs |-> 0]
    /\ left_bytes = [p \in Procs |-> 0]
    /\ result = [p \in Procs |-> "none"]
    /\ connects = [p \in Procs |-> 0]
    /\ sends = [p \in Procs |-> 0]

-----------------------------------------------------------------------------
(* connect(): the directory cannot be made, or everything starts afresh.    *)
ConnectFails(p) ==
    /\ pc[p] = "idle" /\ connects[p] < MaxConnects[p]
    /\ connected' = [connected EXCEPT ![p] = FALSE]
    /\ connects' = [connects EXCEPT ![p] = @ + 1]
    /\ result' = [result EXCEPT ![p] = "error"]
    /\ UNCHANGED <<files, pc, timestamp, max_total_bytes, max_file_count, timed,
                   next_file_index, counts, expired, payload, left_behind, sends>>

(* Mutant: the index of the last connection is kept, its count is not reset. *)
ConnectKeeps(p, stamp, bytes, count, limited) ==
    /\ pc[p] = "idle" /\ connects[p] < MaxConnects[p]
    /\ connected' = [connected EXCEPT ![p] = TRUE]
    /\ timestamp' = [timestamp EXCEPT ![p] = stamp]
    /\ max_total_bytes' = [max_total_bytes EXCEPT ![p] = bytes]
    /\ max_file_count' = [max_file_count EXCEPT ![p] = count]
    /\ timed' = [timed EXCEPT ![p] = limited]
    /\ expired' = [expired EXCEPT ![p] = FALSE]
    /\ total_size' = [total_size EXCEPT ![p] = 0]
    /\ result' = [result EXCEPT ![p] = "none"]
    /\ connects' = [connects EXCEPT ![p] = @ + 1]
    /\ sends' = [sends EXCEPT ![p] = 0]
    /\ UNCHANGED <<files, pc, next_file_index, file_count, payload, left_behind>>

Connect(p, stamp, bytes, count, limited) ==
    /\ pc[p] = "idle" /\ connects[p] < MaxConnects[p]
    /\ connected' = [connected EXCEPT ![p] = TRUE]
    /\ timestamp' = [timestamp EXCEPT ![p] = stamp]
    /\ max_total_bytes' = [max_total_bytes EXCEPT ![p] = bytes]
    /\ max_file_count' = [max_file_count EXCEPT ![p] = count]
    /\ timed' = [timed EXCEPT ![p] = limited]
    /\ expired' = [expired EXCEPT ![p] = FALSE]
    /\ next_file_index' = [next_file_index EXCEPT ![p] = 0]
    /\ file_count' = [file_count EXCEPT ![p] = 0]
    /\ total_size' = [total_size EXCEPT ![p] = 0]
    /\ result' = [result EXCEPT ![p] = "none"]
    /\ connects' = [connects EXCEPT ![p] = @ + 1]
    /\ sends' = [sends EXCEPT ![p] = 0]
    /\ UNCHANGED <<files, pc, payload, left_behind>>

(* max_duration_ has passed since connect().                                *)
TimePasses(p) ==
    /\ timed[p] /\ ~expired[p]
    /\ expired' = [expired EXCEPT ![p] = TRUE]
    /\ UNCHANGED <<files, pc, conn, next_file_index, counts, payload, result,
                   left_behind, bounds>>

-----------------------------------------------------------------------------
(* send(): the checks before the first file.                                *)

(* Mutant: the bytes already written are compared, the payload's are not.   *)
BytesLimitedLate(p, bytes) ==
    max_total_bytes[p] > 0 /\ total_size[p] >= max_total_bytes[p]

BytesLimited(p, bytes) ==
    /\ max_total_bytes[p] > 0
    /\ \/ total_size[p] >= max_total_bytes[p]
       \/ bytes > max_total_bytes[p] - total_size[p]

CountLimited(p, logs) ==
    /\ max_file_count[p] > 0
    /\ \/ file_count[p] >= max_file_count[p]
       \/ logs > max_file_count[p] - file_count[p]

(* What send() answers without writing anything, "none" when it writes.     *)
Answer(p, logs, bytes) ==
    IF ~connected[p] THEN "error"
    ELSE IF bytes = 0 THEN "Sent"
    ELSE IF timed[p] /\ expired[p] THEN "DurationLimitReached"
    ELSE IF BytesLimited(p, bytes) THEN "TotalBytesLimitReached"
    ELSE IF CountLimited(p, logs) THEN "FileCountLimitReached"
    ELSE "none"

(* A payload of logs lines and bytes bytes; every line has a byte at least. *)
Send(p, logs, bytes) ==
    /\ pc[p] = "idle" /\ sends[p] < MaxSends[p]
    /\ logs <= bytes /\ (logs = 0 <=> bytes = 0)
    /\ sends' = [sends EXCEPT ![p] = @ + 1]
    /\ result' = [result EXCEPT ![p] = Answer(p, logs, bytes)]
    /\ IF Answer(p, logs, bytes) = "none"
          THEN /\ pc' = [pc EXCEPT ![p] = "create"]
               /\ left_logs' = [left_logs EXCEPT ![p] = logs]
               /\ left_bytes' = [left_bytes EXCEPT ![p] = bytes]
          ELSE UNCHANGED <<pc, payload>>
    /\ UNCHANGED <<files, conn, next_file_index, counts, expired, left_behind,
                   connects>>

-----------------------------------------------------------------------------
(* send(): the loop over the logs.                                          *)

(* send() ends by an exception.                                             *)
Throw(p) ==
    /\ pc' = [pc EXCEPT ![p] = "idle"]
    /\ result' = [result EXCEPT ![p] = "error"]
    /\ left_logs' = [left_logs EXCEPT ![p] = 0]
    /\ left_bytes' = [left_bytes EXCEPT ![p] = 0]

Taken(stamp, index) == \E f \in files : f.stamp = stamp /\ f.index = index

(* file_path: the file, still empty, that p makes at an index.              *)
FileAt(p, index) ==
    [stamp |-> timestamp[p], index |-> index, by |-> p,
     run |-> connects[p], size |-> 0, whole |-> FALSE]

(* The file that process p has open.                                        *)
Opened(p) == FileAt(p, next_file_index[p] - 1)

(* Mutant: O_TRUNC in the place of O_EXCL.                                  *)
CreateFileTruncates(p) ==
    /\ pc[p] = "create"
    /\ next_file_index' = [next_file_index EXCEPT ![p] = @ + 1]
    /\ files' = {f \in files : ~(f.stamp = timestamp[p] /\ f.index = next_file_index[p])}
                  \cup {FileAt(p, next_file_index[p])}
    /\ pc' = [pc EXCEPT ![p] = "write"]
    /\ UNCHANGED <<conn, counts, expired, payload, result, left_behind, bounds>>

(* Mutant: the index moves on only when the file was made.                  *)
CreateFileRepeats(p) ==
    /\ pc[p] = "create"
    /\ IF Taken(timestamp[p], next_file_index[p])
          THEN UNCHANGED <<files, next_file_index, pc>>
          ELSE /\ next_file_index' = [next_file_index EXCEPT ![p] = @ + 1]
               /\ files' = files \cup {FileAt(p, next_file_index[p])}
               /\ pc' = [pc EXCEPT ![p] = "write"]
    /\ UNCHANGED <<conn, counts, expired, payload, result, left_behind, bounds>>

(* create_exclusive: the next name; a name that exists is passed over.      *)
CreateFile(p) ==
    /\ pc[p] = "create"
    /\ next_file_index' = [next_file_index EXCEPT ![p] = @ + 1]
    /\ IF Taken(timestamp[p], next_file_index[p])
          THEN UNCHANGED <<files, pc>>
          ELSE /\ files' = files \cup {FileAt(p, next_file_index[p])}
               /\ pc' = [pc EXCEPT ![p] = "write"]
    /\ UNCHANGED <<conn, counts, expired, payload, result, left_behind, bounds>>

(* Any other error of the creation leaves send() by an exception.           *)
CreateFails(p) ==
    /\ pc[p] = "create"
    /\ next_file_index' = [next_file_index EXCEPT ![p] = @ + 1]
    /\ Throw(p)
    /\ UNCHANGED <<files, conn, counts, expired, left_behind, bounds>>

(* write_all and close; the last log has the bytes that are left.           *)
WriteFile(p, size) ==
    /\ pc[p] = "write" /\ size >= 1
    /\ IF left_logs[p] = 1 THEN size = left_bytes[p]
                           ELSE size <= left_bytes[p] - (left_logs[p] - 1)
    /\ files' = (files \ {Opened(p)})
                  \cup {[Opened(p) EXCEPT !.size = size, !.whole = TRUE]}
    /\ file_count' = [file_count EXCEPT ![p] = @ + 1]
    /\ total_size' = [total_size EXCEPT ![p] = @ + size]
    /\ left_logs' = [left_logs EXCEPT ![p] = @ - 1]
    /\ left_bytes' = [left_bytes EXCEPT ![p] = @ - size]
    /\ IF left_logs[p] = 1
          THEN /\ pc' = [pc EXCEPT ![p] = "idle"]
               /\ result' = [result EXCEPT ![p] = "Sent"]
          ELSE pc' = [pc EXCEPT ![p] = "create"] /\ UNCHANGED result
    /\ UNCHANGED <<conn, next_file_index, expired, left_behind, bounds>>

WriteFails(p) ==
    /\ pc[p] = "write"
    /\ pc' = [pc EXCEPT ![p] = "cleanup"]
    /\ UNCHANGED <<files, conn, next_file_index, counts, expired, payload, result,
                   left_behind, bounds>>

(* Mutant: the exception passes without the removal.                        *)
CleanupForgets(p) ==
    /\ pc[p] = "cleanup"
    /\ UNCHANGED <<files, left_behind>>
    /\ Throw(p)
    /\ UNCHANGED <<conn, next_file_index, counts, expired, bounds>>

(* The partial file is removed, if the removal works, and send() throws.    *)
Cleanup(p) ==
    /\ pc[p] = "cleanup"
    /\ \/ files' = files \ {Opened(p)} /\ UNCHANGED left_behind
       \/ left_behind' = left_behind \cup {Opened(p)} /\ UNCHANGED files
    /\ Throw(p)
    /\ UNCHANGED <<conn, next_file_index, counts, expired, bounds>>

(* The process dies; the file it has open stays as it is.                   *)
Crash(p) ==
    /\ connected[p]
    /\ left_behind' = left_behind \cup
            (IF pc[p] \in {"write", "cleanup"} THEN {Opened(p)} ELSE {})
    /\ pc' = [pc EXCEPT ![p] = "idle"]
    /\ connected' = [connected EXCEPT ![p] = FALSE]
    /\ max_total_bytes' = [max_total_bytes EXCEPT ![p] = 0]
    /\ max_file_count' = [max_file_count EXCEPT ![p] = 0]
    /\ timed' = [timed EXCEPT ![p] = FALSE]
    /\ expired' = [expired EXCEPT ![p] = FALSE]
    /\ next_file_index' = [next_file_index EXCEPT ![p] = 0]
    /\ file_count' = [file_count EXCEPT ![p] = 0]
    /\ total_size' = [total_size EXCEPT ![p] = 0]
    /\ left_logs' = [left_logs EXCEPT ![p] = 0]
    /\ left_bytes' = [left_bytes EXCEPT ![p] = 0]
    /\ result' = [result EXCEPT ![p] = "none"]
    /\ UNCHANGED <<files, timestamp, bounds>>

-----------------------------------------------------------------------------
SendStep(p) ==
    \/ CreateFile(p) \/ CreateFails(p)
    \/ \E size \in 1..MaxBytes[p] : WriteFile(p, size)
    \/ WriteFails(p) \/ Cleanup(p)

Step(p) ==
    \/ ConnectFails(p)
    \/ \E stamp \in Stamps, bytes \in ByteLimits[p], count \in CountLimits[p],
          limited \in Timed[p] : Connect(p, stamp, bytes, count, limited)
    \/ TimePasses(p)
    \/ \E logs \in 0..MaxLogs[p], bytes \in 0..MaxBytes[p] : Send(p, logs, bytes)
    \/ SendStep(p)
    \/ Crash(p)

Next == \E p \in Procs : Step(p)

Spec == Init /\ [][Next]_vars

(* A call of send() runs on, unless the process dies; no failure is counted on. *)
FairSpec ==
    /\ Spec
    /\ \A p \in Procs :
          /\ WF_vars(CreateFile(p)) /\ WF_vars(Cleanup(p))
          /\ WF_vars(\E size \in 1..MaxBytes[p] : WriteFile(p, size))

-----------------------------------------------------------------------------
(* Every variable keeps its type.                                           *)
TypeOK ==
    /\ files \subseteq Files /\ left_behind \subseteq Files
    /\ pc \in [Procs -> Places]
    /\ connected \in [Procs -> BOOLEAN]
    /\ timestamp \in [Procs -> Stamps]
    /\ next_file_index \in [Procs -> Nat]
    /\ file_count \in [Procs -> Nat] /\ total_size \in [Procs -> Nat]
    /\ max_total_bytes \in [Procs -> Nat] /\ max_file_count \in [Procs -> Nat]
    /\ timed \in [Procs -> BOOLEAN] /\ expired \in [Procs -> BOOLEAN]
    /\ left_logs \in [Procs -> Nat] /\ left_bytes \in [Procs -> Nat]
    /\ result \in [Procs -> Results]
    /\ connects \in [Procs -> Nat] /\ sends \in [Procs -> Nat]

(* The files that the current connection of p has finished.                 *)
Finished(p) == {f \in files : f.by = p /\ f.run = connects[p] /\ f.whole}

Bytes(fileset) == MapThenSumSet(LAMBDA f : f.size, fileset)

(* No two processes ever write to the same name, though their clocks agree:
   a name has one entry, and it belongs to the process that has it open.    *)
NamesUnique ==
    /\ \A f, g \in files : f.stamp = g.stamp /\ f.index = g.index => f = g
    /\ \A p \in Procs : pc[p] \in {"write", "cleanup"} => Opened(p) \in files

(* A finished file stays as it is: no later log of this or another process, and
   no removal after a failure, touches it.                                  *)
WholeFilesStay == [][\A f \in files : f.whole => f \in files']_files

(* file_count_ and total_size_ are what the connection put on the disk, also
   after failed writes: the limits are checked against the truth.           *)
CountsMatchFiles ==
    \A p \in Procs : connected[p] =>
        /\ file_count[p] = Cardinality(Finished(p))
        /\ total_size[p] = Bytes(Finished(p))

(* A limit is never exceeded, also in the middle of a payload: the payload was
   admitted as a whole (README:305: bytes, files and duration are limits).  *)
LimitsHold ==
    \A p \in Procs :
        /\ max_file_count[p] > 0 => file_count[p] <= max_file_count[p]
        /\ max_total_bytes[p] > 0 => total_size[p] <= max_total_bytes[p]

(* A partial file is being written, or its process died or could not remove
   it: an error of the disk leaves nothing else behind.                     *)
PartialsExplained ==
    \A f \in files : ~f.whole =>
        \/ f \in left_behind
        \/ pc[f.by] \in {"write", "cleanup"} /\ f = Opened(f.by)

(* send() returns: every name that is taken is passed over, one after another. *)
SendReturns == \A p \in Procs : (pc[p] # "idle") ~> (pc[p] = "idle")
=============================================================================
