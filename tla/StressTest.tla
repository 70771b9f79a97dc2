------------------------------ MODULE StressTest ------------------------------
(***************************************************************************)
(* The life cycle of StressTestService (application/stress_test_service):  *)
(* one client thread that calls start, request_stop and stop, one          *)
(* supervisor thread per run, and N worker threads that connect, meet at   *)
(* a barrier and then send.  Every read of an atomic that the code uses in *)
(* a later store is a step of its own, because the store may be stale.     *)
(*                                                                         *)
(* Data that no property looks at is left out: rendering, framing, bytes   *)
(* and datagram counters (they move with the message counter).             *)
(***************************************************************************)
EXTENDS Integers, FiniteSets, FiniteSetsExt

CONSTANTS N,              \* worker_count, fixed by start()
          FileProtocol,   \* the endpoint is FILE: one worker, sends may complete
          PublishEvents,  \* statistics_publish_events
          MaxBatch,       \* events in one send: 1..MaxBatch
          MaxEvents,      \* bound: events one worker sends in a run
          MaxStarts       \* bound: runs started

ASSUME StressTestAssumption ==
    /\ N \in Nat \ {0}
    /\ FileProtocol \in BOOLEAN
    /\ FileProtocol => N = 1
    /\ PublishEvents \in Nat \ {0}
    /\ MaxBatch \in Nat \ {0}
    /\ MaxEvents \in Nat
    /\ MaxStarts \in Nat

Workers == 1..N

VARIABLES
    state,           \* state_
    stop_requested,  \* stop_source_.stop_requested()
    joinable,        \* supervisor_.joinable()
    last_error,      \* last_error_ is not empty
    status_message,  \* status_message_ is not empty
    send_errors,     \* send_errors_
    connected,       \* connected_workers_
    started_at,      \* started_at_ is set
    finished_at,     \* finished_at_ is set
    total,           \* total_messages_
    cpc, cop, cseen, \* the client thread: place, call in progress, state it read
    spc, scur, sseen,\* the supervisor: place, loop index, state it read
    wpc, wstop,      \* each worker: place, stop token of its jthread
    wseen,           \* the state publish_completion read
    local,           \* local_messages of each worker
    sent,            \* history: events the worker's transport took in this run
    linked,          \* history: workers whose connect() returned in this run
    starts           \* bound: runs started so far

report == <<last_error, status_message, send_errors>>
progress == <<connected, started_at, finished_at>>
shared == <<state, stop_requested, report, progress, total>>
clientVars == <<joinable, cpc, cop, cseen, starts>>
supervisorVars == <<spc, scur, sseen>>
tally == <<local, sent, linked>>
workerVars == <<wpc, wstop, wseen, tally>>
vars == <<shared, clientVars, supervisorVars, workerVars>>

States == {"Stopped", "Connecting", "Running", "Stopping", "Failed"}

ClientPlaces == {"idle", "store", "signal", "notify", "join", "final", "reset"}

SupervisorPlaces ==
    {"none", "prepare", "check", "spawn", "unwind", "wait", "asleep",
     "stop_workers", "join", "stamp", "load", "store", "leave",
     "err_msg", "err_state", "err_signal", "done"}

WorkerPlaces ==
    {"none", "connect", "stamp", "cas", "spin", "spun", "loop", "send",
     "err_msg", "err_state", "err_signal",
     "cmp_msg", "cmp_load", "cmp_store", "cmp_signal", "notify", "done"}

-----------------------------------------------------------------------------
(* The client holds lifecycle_mutex_ while it is in these places.           *)
LifecycleHeld == cpc \in {"store", "signal", "notify"}

(* Mutant: no stop callback is registered, so nobody wakes the supervisor.  *)
MustNotifyNever == FALSE

(* stop_source_.request_stop(): the first caller runs the stop callback the
   supervisor registered, if it is registered already.                      *)
MustNotify == ~stop_requested /\ spc \in {"wait", "asleep"}

(* The callback is running on some thread; ~stop_callback waits for it.     *)
CallbackRunning == cpc = "notify" \/ \E w \in Workers : wpc[w] = "notify"

(* The callback: notify_all under stop_wait_mutex.                          *)
Notify == spc' = IF spc = "asleep" THEN "wait" ELSE spc

-----------------------------------------------------------------------------
Init ==
    /\ state = "Stopped"
    /\ stop_requested = FALSE
    /\ joinable = FALSE
    /\ last_error = FALSE /\ status_message = FALSE
    /\ send_errors = 0 /\ connected = 0 /\ total = 0
    /\ started_at = FALSE /\ finished_at = FALSE
    /\ cpc = "idle" /\ cop = "stop" /\ cseen = "Stopped"
    /\ spc = "none" /\ scur = 1 /\ sseen = "Stopped"
    /\ wpc = [w \in Workers |-> "none"]
    /\ wstop = [w \in Workers |-> FALSE]
    /\ wseen = [w \in Workers |-> "Stopped"]
    /\ local = [w \in Workers |-> 0]
    /\ sent = [w \in Workers |-> 0]
    /\ linked = {}
    /\ starts = 0

-----------------------------------------------------------------------------
(* The client thread.                                                       *)

(* request_stop() with a joinable supervisor: lock and read state_.  Without
   one the call changes nothing.                                            *)
CallRequestStop ==
    /\ cpc = "idle" /\ joinable
    /\ cop' = "request_stop" /\ cseen' = state /\ cpc' = "store"
    /\ UNCHANGED <<shared, joinable, starts, supervisorVars, workerVars>>

(* stop(), called directly, by the destructor, or as the first thing start()
   does.  Without a supervisor it only stores Stopped.                      *)
CallStop(op) ==
    /\ cpc = "idle"
    /\ op = "start" => starts < MaxStarts
    /\ cop' = op
    /\ \/ /\ joinable
          /\ cseen' = state /\ cpc' = "store" /\ UNCHANGED state
       \/ /\ ~joinable
          /\ state' = "Stopped"
          /\ cpc' = IF op = "start" THEN "reset" ELSE "idle"
          /\ UNCHANGED cseen
    /\ UNCHANGED <<stop_requested, report, progress, total, joinable, starts,
                   supervisorVars, workerVars>>

(* state_.store(Stopping) unless the value read before was Failed.          *)
ClientStore ==
    /\ cpc = "store"
    /\ state' = IF cseen = "Failed" THEN state ELSE "Stopping"
    /\ cpc' = "signal"
    /\ UNCHANGED <<stop_requested, report, progress, total, joinable, cop,
                   cseen, starts, supervisorVars, workerVars>>

(* Leaving the critical section: stop() moves the supervisor out first.     *)
ClientUnlock ==
    /\ cpc' = IF cop = "request_stop" THEN "idle" ELSE "join"
    /\ joinable' = (cop = "request_stop")

ClientSignal ==
    /\ cpc = "signal"
    /\ stop_requested' = TRUE
    /\ IF MustNotify
          THEN cpc' = "notify" /\ UNCHANGED joinable
          ELSE ClientUnlock
    /\ UNCHANGED <<state, report, progress, total, cop, cseen, starts,
                   supervisorVars, workerVars>>

ClientNotify ==
    /\ cpc = "notify"
    /\ Notify
    /\ ClientUnlock
    /\ UNCHANGED <<shared, cop, cseen, starts, scur, sseen, workerVars>>

(* supervisor.join()                                                        *)
ClientJoin ==
    /\ cpc = "join" /\ spc = "done"
    /\ cpc' = "final"
    /\ UNCHANGED <<shared, joinable, cop, cseen, starts, supervisorVars,
                   workerVars>>

(* The unconditional store of Stopped after the join.                       *)
ClientFinal ==
    /\ cpc = "final"
    /\ state' = "Stopped"
    /\ cpc' = IF cop = "start" THEN "reset" ELSE "idle"
    /\ UNCHANGED <<stop_requested, report, progress, total, joinable, cop,
                   cseen, starts, supervisorVars, workerVars>>

(* start() throws on an invalid configuration, after its stop().            *)
StartInvalid ==
    /\ cpc = "reset"
    /\ cpc' = "idle"
    /\ UNCHANGED <<shared, joinable, cop, cseen, starts, supervisorVars,
                   workerVars>>

(* The counters, flags and the stop source of a fresh run.                  *)
ResetRun ==
    /\ state' = "Connecting"
    /\ stop_requested' = FALSE
    /\ last_error' = FALSE /\ status_message' = FALSE
    /\ send_errors' = 0 /\ connected' = 0 /\ total' = 0
    /\ started_at' = FALSE /\ finished_at' = FALSE
    /\ wpc' = [w \in Workers |-> "none"]
    /\ wstop' = [w \in Workers |-> FALSE]
    /\ wseen' = [w \in Workers |-> "Stopped"]
    /\ local' = [w \in Workers |-> 0]
    /\ sent' = [w \in Workers |-> 0]
    /\ linked' = {}
    /\ starts' = starts + 1

(* The critical section of start().  Creating the supervisor thread can fail,
   and then start() throws with state_ = Connecting and no supervisor.      *)
StartRun ==
    /\ cpc = "reset" /\ starts < MaxStarts
    /\ ResetRun
    /\ cpc' = "idle"
    /\ scur' = 1 /\ sseen' = "Stopped"
    /\ \/ spc' = "prepare" /\ joinable' = TRUE
       \/ spc' = "none" /\ joinable' = FALSE
    /\ UNCHANGED <<cop, cseen>>

-----------------------------------------------------------------------------
(* The supervisor thread: run_supervisor.                                   *)

(* preparation_cache_.prepare, which may throw.                             *)
SupervisorPrepare ==
    /\ spc = "prepare"
    /\ spc' \in {"check", "err_msg"}
    /\ UNCHANGED <<shared, clientVars, scur, sseen, workerVars>>

(* A stop requested during preparation ends the run before any worker.      *)
SupervisorCheck ==
    /\ spc = "check"
    /\ IF stop_requested
          THEN state' = "Stopped" /\ spc' = "done"
          ELSE spc' = "spawn" /\ UNCHANGED state
    /\ UNCHANGED <<stop_requested, report, progress, total, clientVars, scur,
                   sseen, workerVars>>

(* workers.emplace_back: a thread starts, or its creation throws.           *)
SupervisorSpawn ==
    /\ spc = "spawn" /\ scur <= N
    /\ \/ /\ wpc' = [wpc EXCEPT ![scur] = "connect"]
          /\ scur' = scur + 1 /\ UNCHANGED spc
       \/ /\ spc' = "unwind" /\ scur' = 1 /\ UNCHANGED wpc
    /\ UNCHANGED <<shared, clientVars, sseen, wstop, wseen, tally>>

(* All workers exist: the stop callback is registered.                      *)
SupervisorSpawned ==
    /\ spc = "spawn" /\ scur > N
    /\ spc' = "wait"
    /\ UNCHANGED <<shared, clientVars, scur, sseen, workerVars>>

(* Unwinding destroys the jthreads made so far, one after the other: each is
   asked to stop and joined.                                                *)
SupervisorUnwind ==
    /\ spc = "unwind"
    /\ IF wpc[scur] = "none"
       THEN spc' = "err_msg" /\ UNCHANGED <<scur, wstop>>
       ELSE \/ /\ ~wstop[scur]
               /\ wstop' = [wstop EXCEPT ![scur] = TRUE]
               /\ UNCHANGED <<spc, scur>>
            \/ /\ wstop[scur] /\ wpc[scur] = "done"
               /\ scur' = scur + 1 /\ UNCHANGED <<spc, wstop>>
    /\ UNCHANGED <<shared, clientVars, sseen, wpc, wseen, tally>>

(* stop_wait_condition.wait: the predicate is evaluated with the mutex held,
   so checking it and going to sleep is one step.                           *)
SupervisorWait ==
    /\ spc = "wait"
    /\ IF stop_requested
          THEN spc' = "stop_workers" /\ scur' = 1
          ELSE spc' = "asleep" /\ UNCHANGED scur
    /\ UNCHANGED <<shared, clientVars, sseen, workerVars>>

(* Mutant: the last worker is never asked to stop.                          *)
SupervisorStopWorkersButLast ==
    /\ spc = "stop_workers"
    /\ IF scur < N
          THEN /\ wstop' = [wstop EXCEPT ![scur] = TRUE]
               /\ scur' = scur + 1 /\ UNCHANGED spc
          ELSE spc' = "join" /\ scur' = 1 /\ UNCHANGED wstop
    /\ UNCHANGED <<shared, clientVars, sseen, wpc, wseen, tally>>

(* worker.request_stop() for each worker in turn.                           *)
SupervisorStopWorkers ==
    /\ spc = "stop_workers"
    /\ IF scur <= N
          THEN /\ wstop' = [wstop EXCEPT ![scur] = TRUE]
               /\ scur' = scur + 1 /\ UNCHANGED spc
          ELSE spc' = "join" /\ scur' = 1 /\ UNCHANGED wstop
    /\ UNCHANGED <<shared, clientVars, sseen, wpc, wseen, tally>>

(* Mutant: the last worker is not joined.                                   *)
SupervisorJoinButLast ==
    /\ spc = "join"
    /\ IF scur < N
          THEN wpc[scur] = "done" /\ scur' = scur + 1 /\ UNCHANGED spc
          ELSE spc' = "stamp" /\ UNCHANGED scur
    /\ UNCHANGED <<shared, clientVars, sseen, workerVars>>

(* worker.join() for each worker in turn.                                   *)
SupervisorJoin ==
    /\ spc = "join"
    /\ IF scur <= N
          THEN wpc[scur] = "done" /\ scur' = scur + 1 /\ UNCHANGED spc
          ELSE spc' = "stamp" /\ UNCHANGED scur
    /\ UNCHANGED <<shared, clientVars, sseen, workerVars>>

(* finished_at_, under lifecycle_mutex_.                                    *)
SupervisorStamp ==
    /\ spc = "stamp" /\ ~LifecycleHeld
    /\ finished_at' = TRUE
    /\ spc' = "load"
    /\ UNCHANGED <<state, stop_requested, report, connected, started_at, total,
                   clientVars, scur, sseen, workerVars>>

SupervisorLoad ==
    /\ spc = "load"
    /\ sseen' = state
    /\ spc' = "store"
    /\ UNCHANGED <<shared, clientVars, scur, workerVars>>

SupervisorStore ==
    /\ spc = "store"
    /\ state' = IF sseen = "Failed" THEN state ELSE "Stopped"
    /\ spc' = "leave"
    /\ UNCHANGED <<stop_requested, report, progress, total, clientVars, scur,
                   sseen, workerVars>>

(* ~stop_callback blocks while the callback runs on another thread.         *)
SupervisorLeave ==
    /\ spc = "leave" /\ ~CallbackRunning
    /\ spc' = "done"
    /\ UNCHANGED <<shared, clientVars, scur, sseen, workerVars>>

(* publish_error on the supervisor: message, state, stop request.           *)
SupervisorErrorMessage ==
    /\ spc = "err_msg"
    /\ last_error' = TRUE
    /\ spc' = "err_state"
    /\ UNCHANGED <<state, stop_requested, status_message, send_errors,
                   progress, total, clientVars, scur, sseen, workerVars>>

SupervisorErrorState ==
    /\ spc = "err_state"
    /\ state' = "Failed"
    /\ spc' = "err_signal"
    /\ UNCHANGED <<stop_requested, report, progress, total, clientVars, scur,
                   sseen, workerVars>>

SupervisorErrorSignal ==
    /\ spc = "err_signal"
    /\ stop_requested' = TRUE
    /\ spc' = "done"
    /\ UNCHANGED <<state, report, progress, total, clientVars, scur, sseen,
                   workerVars>>

-----------------------------------------------------------------------------
(* The worker threads: run_worker.                                          *)

WorkerGoes(w, place) == wpc' = [wpc EXCEPT ![w] = place]

(* flush: the local count joins the published total.                        *)
Flush(w, pending) ==
    /\ total' = total + pending
    /\ local' = [local EXCEPT ![w] = 0]

(* connect() returns and the worker counts itself in; the last one opens the
   barrier, the others wait at it.                                          *)
WorkerConnect(w) ==
    /\ wpc[w] = "connect"
    /\ connected' = connected + 1
    /\ linked' = linked \cup {w}
    /\ WorkerGoes(w, IF connected + 1 = N THEN "stamp" ELSE "spin")
    /\ UNCHANGED <<state, stop_requested, report, started_at, finished_at,
                   total, clientVars, supervisorVars, wstop, wseen, local, sent>>

(* The last worker stamps started_at_ under lifecycle_mutex_ ...            *)
WorkerStamp(w) ==
    /\ wpc[w] = "stamp" /\ ~LifecycleHeld
    /\ started_at' = TRUE
    /\ WorkerGoes(w, "cas")
    /\ UNCHANGED <<state, stop_requested, report, connected, finished_at,
                   total, clientVars, supervisorVars, wstop, wseen, tally>>

(* Mutant: a plain store instead of the compare-exchange.                   *)
WorkerOpenStore(w) ==
    /\ wpc[w] = "cas"
    /\ state' = "Running" /\ WorkerGoes(w, "loop")
    /\ UNCHANGED <<stop_requested, report, progress, total, clientVars,
                   supervisorVars, wstop, wseen, tally>>

(* ... and exchanges Connecting for Running, or returns.                    *)
WorkerOpen(w) ==
    /\ wpc[w] = "cas"
    /\ IF state = "Connecting"
          THEN state' = "Running" /\ WorkerGoes(w, "loop")
          ELSE UNCHANGED state /\ WorkerGoes(w, "done")
    /\ UNCHANGED <<stop_requested, report, progress, total, clientVars,
                   supervisorVars, wstop, wseen, tally>>

(* The spin loop ends ...                                                   *)
WorkerSpin(w) ==
    /\ wpc[w] = "spin"
    /\ wstop[w] \/ state # "Connecting"
    /\ WorkerGoes(w, "spun")
    /\ UNCHANGED <<shared, clientVars, supervisorVars, wstop, wseen, tally>>

(* Mutant: the state is not read again after the spin loop.                 *)
WorkerPassUnchecked(w) ==
    /\ wpc[w] = "spun"
    /\ WorkerGoes(w, "loop")
    /\ UNCHANGED <<shared, clientVars, supervisorVars, wstop, wseen, tally>>

(* ... and the state is read again.                                         *)
WorkerPass(w) ==
    /\ wpc[w] = "spun"
    /\ WorkerGoes(w, IF state = "Running" THEN "loop" ELSE "done")
    /\ UNCHANGED <<shared, clientVars, supervisorVars, wstop, wseen, tally>>

(* A batch was built and paced, and no stop was seen before the send.       *)
WorkerBatch(w) ==
    /\ wpc[w] = "loop" /\ ~wstop[w] /\ sent[w] < MaxEvents
    /\ WorkerGoes(w, "send")
    /\ UNCHANGED <<shared, clientVars, supervisorVars, wstop, wseen, tally>>

(* Mutant: the loop ends without the final flush.                           *)
WorkerStopsUnflushed(w) ==
    /\ wpc[w] = "loop" /\ wstop[w]
    /\ WorkerGoes(w, "done")
    /\ UNCHANGED <<shared, clientVars, supervisorVars, wstop, wseen, tally>>

(* The loop sees the stop, at its head or after the pacer.                  *)
WorkerStops(w) ==
    /\ wpc[w] = "loop" /\ wstop[w]
    /\ Flush(w, local[w])
    /\ WorkerGoes(w, "done")
    /\ UNCHANGED <<state, stop_requested, report, progress, clientVars,
                   supervisorVars, wstop, wseen, sent, linked>>

(* The transport took the batch; the counters are published at the threshold,
   after every batch for FILE.                                              *)
WorkerSent(w) ==
    /\ wpc[w] = "send"
    /\ \E events \in 1..MaxBatch :
          /\ sent[w] + events <= MaxEvents
          /\ sent' = [sent EXCEPT ![w] = @ + events]
          /\ IF FileProtocol \/ local[w] + events >= PublishEvents
                THEN Flush(w, local[w] + events)
                ELSE /\ local' = [local EXCEPT ![w] = @ + events]
                     /\ UNCHANGED total
    /\ WorkerGoes(w, "loop")
    /\ UNCHANGED <<state, stop_requested, report, progress, clientVars,
                   supervisorVars, wstop, wseen, linked>>

(* Mutant: the refused batch is counted.                                    *)
WorkerLimitCounts(w) ==
    /\ wpc[w] = "send" /\ FileProtocol
    /\ Flush(w, local[w] + 1)
    /\ WorkerGoes(w, "cmp_msg")
    /\ UNCHANGED <<state, stop_requested, report, progress, clientVars,
                   supervisorVars, wstop, wseen, sent, linked>>

(* A FILE limit: send returns another result than Sent.                     *)
WorkerLimit(w) ==
    /\ wpc[w] = "send" /\ FileProtocol
    /\ Flush(w, local[w])
    /\ WorkerGoes(w, "cmp_msg")
    /\ UNCHANGED <<state, stop_requested, report, progress, clientVars,
                   supervisorVars, wstop, wseen, sent, linked>>

(* connect, rendering or send throws.  A failing send may have handed a part
   of the batch to the transport.                                           *)
WorkerThrows(w) ==
    /\ wpc[w] \in {"connect", "loop", "send"}
    /\ \/ UNCHANGED sent
       \/ /\ wpc[w] = "send"
          /\ \E events \in 1..(MaxBatch - 1) :
                /\ sent[w] + events <= MaxEvents
                /\ sent' = [sent EXCEPT ![w] = @ + events]
    /\ Flush(w, local[w])
    /\ send_errors' = send_errors + 1
    /\ WorkerGoes(w, "err_msg")
    /\ UNCHANGED <<state, stop_requested, last_error, status_message, progress,
                   clientVars, supervisorVars, wstop, wseen, linked>>

(* publish_error on a worker.                                               *)
WorkerErrorMessage(w) ==
    /\ wpc[w] = "err_msg"
    /\ last_error' = TRUE
    /\ WorkerGoes(w, "err_state")
    /\ UNCHANGED <<state, stop_requested, status_message, send_errors,
                   progress, total, clientVars, supervisorVars, wstop, wseen,
                   tally>>

(* state_.store(Failed)                                                     *)
WorkerErrorState(w) ==
    /\ wpc[w] = "err_state"
    /\ state' = "Failed"
    /\ WorkerGoes(w, "err_signal")
    /\ UNCHANGED <<stop_requested, report, progress, total, clientVars,
                   supervisorVars, wstop, wseen, tally>>

(* publish_completion: message, read of the state, store.                   *)
WorkerLimitMessage(w) ==
    /\ wpc[w] = "cmp_msg"
    /\ status_message' = TRUE
    /\ WorkerGoes(w, "cmp_load")
    /\ UNCHANGED <<state, stop_requested, last_error, send_errors, progress,
                   total, clientVars, supervisorVars, wstop, wseen, tally>>

WorkerLimitLoad(w) ==
    /\ wpc[w] = "cmp_load"
    /\ wseen' = [wseen EXCEPT ![w] = state]
    /\ WorkerGoes(w, "cmp_store")
    /\ UNCHANGED <<shared, clientVars, supervisorVars, wstop, tally>>

(* Stopping is stored unless Failed was read.                               *)
WorkerLimitStore(w) ==
    /\ wpc[w] = "cmp_store"
    /\ state' = IF wseen[w] = "Failed" THEN state ELSE "Stopping"
    /\ WorkerGoes(w, "cmp_signal")
    /\ UNCHANGED <<stop_requested, report, progress, total, clientVars,
                   supervisorVars, wstop, wseen, tally>>

(* stop_source_.request_stop() at the end of both publish functions.        *)
WorkerSignal(w) ==
    /\ wpc[w] \in {"err_signal", "cmp_signal"}
    /\ stop_requested' = TRUE
    /\ WorkerGoes(w, IF MustNotify THEN "notify" ELSE "done")
    /\ UNCHANGED <<state, report, progress, total, clientVars, supervisorVars,
                   wstop, wseen, tally>>

WorkerNotify(w) ==
    /\ wpc[w] = "notify"
    /\ Notify
    /\ WorkerGoes(w, "done")
    /\ UNCHANGED <<shared, clientVars, scur, sseen, wstop, wseen, tally>>

-----------------------------------------------------------------------------
(* The calls are the client's choice; the rest of the client is its code.   *)
ClientCall == CallRequestStop \/ \E op \in {"stop", "start"} : CallStop(op)

ClientStep ==
    \/ ClientStore \/ ClientSignal \/ ClientNotify \/ ClientJoin
    \/ ClientFinal \/ StartInvalid \/ StartRun

SupervisorStep ==
    \/ SupervisorPrepare \/ SupervisorCheck \/ SupervisorSpawn
    \/ SupervisorSpawned \/ SupervisorUnwind \/ SupervisorWait
    \/ SupervisorStopWorkers \/ SupervisorJoin \/ SupervisorStamp
    \/ SupervisorLoad \/ SupervisorStore \/ SupervisorLeave
    \/ SupervisorErrorMessage \/ SupervisorErrorState \/ SupervisorErrorSignal

\* What a worker of any protocol does, and what only a FILE limit leads to.
WorkerSends(w) ==
    \/ WorkerConnect(w) \/ WorkerStamp(w) \/ WorkerOpen(w)
    \/ WorkerSpin(w) \/ WorkerPass(w) \/ WorkerBatch(w) \/ WorkerStops(w)
    \/ WorkerSent(w) \/ WorkerThrows(w)
    \/ WorkerErrorMessage(w) \/ WorkerErrorState(w)
    \/ WorkerSignal(w) \/ WorkerNotify(w)

WorkerCompletes(w) ==
    WorkerLimit(w) \/ WorkerLimitMessage(w) \/ WorkerLimitLoad(w) \/ WorkerLimitStore(w)

WorkerStep(w) == WorkerSends(w) \/ WorkerCompletes(w)

ServiceStep == SupervisorStep \/ \E w \in Workers : WorkerStep(w)

Next == ClientCall \/ ClientStep \/ ServiceStep

Spec == Init /\ [][Next]_vars

(* A step of a worker other than an exception: fairness owes it no failure.
   Nor does it owe a network worker the end of connect(): the TLS handshake
   waits for the peer without a receive time-out
   (schannel_transport.cpp:87, openssl_transport.cpp:81).                   *)
WorkerProceeds(w) ==
    /\ WorkerStep(w) /\ wpc'[w] # "err_msg"
    /\ wpc[w] = "connect" => FileProtocol

(* Threads are scheduled, blocking sends time out, and nobody holds
   lifecycle_mutex_ for good, so a waiter gets it in the end.               *)
ServiceFairness ==
    /\ WF_vars(SupervisorStep) /\ SF_vars(SupervisorStamp)
    /\ \A w \in Workers : WF_vars(WorkerProceeds(w)) /\ SF_vars(WorkerStamp(w))

-----------------------------------------------------------------------------
(* Properties.                                                              *)

(* Every variable keeps its type.                                           *)
TypeOK ==
    /\ state \in States
    /\ stop_requested \in BOOLEAN /\ joinable \in BOOLEAN
    /\ last_error \in BOOLEAN /\ status_message \in BOOLEAN
    /\ started_at \in BOOLEAN /\ finished_at \in BOOLEAN
    /\ send_errors \in Nat /\ connected \in Nat /\ total \in Nat /\ starts \in Nat
    /\ cpc \in ClientPlaces /\ cop \in {"request_stop", "stop", "start"}
    /\ cseen \in States
    /\ spc \in SupervisorPlaces /\ scur \in 1..(N + 1) /\ sseen \in States
    /\ wpc \in [Workers -> WorkerPlaces]
    /\ wstop \in [Workers -> BOOLEAN]
    /\ wseen \in [Workers -> States]
    /\ local \in [Workers -> Nat] /\ sent \in [Workers -> Nat]
    /\ linked \in SUBSET Workers

Sending(w) == wpc[w] \in {"loop", "send"}

(* No event is sent, and Running is never shown, before every worker of the
   run is connected and the start time is stamped (the barrier of
   run_worker: the last fetch_add opens it, the others spin).               *)
BarrierBeforeSend ==
    state = "Running" \/ (\E w \in Workers : Sending(w))
        => linked = Workers /\ started_at

(* Once a stop is requested the service never shows Connecting or Running
   again in that run, whatever worker is just opening the barrier: the
   compare-exchange of run_worker loses to every store of Stopping/Failed.  *)
StopWins == stop_requested => state \notin {"Connecting", "Running"}

ThreadsGone ==
    /\ spc \in {"none", "done"}
    /\ \A w \in Workers : wpc[w] \in {"none", "done"}

(* When stop() is past its join, and whenever the service owns no supervisor,
   no thread of the run is left: start() may reset the shared state.        *)
NoThreadOutlivesStop ==
    cpc \in {"final", "reset"} \/ (cpc = "idle" /\ ~joinable) => ThreadsGone

(* finished_at_ freezes the elapsed time only after the last worker ended, so
   the average rate never misses an event.                                  *)
FinishAfterWorkers == finished_at => \A w \in Workers : wpc[w] = "done"

SumOver(f) == MapThenSumSet(LAMBDA w : f[w], Workers)

(* The published counter never exceeds what the transports took, and is
   exact when the run ended without an error (the test of
   stress_test_service_tests.cpp:206).                                      *)
TotalsMatchTransport ==
    /\ total + SumOver(local) <= SumOver(sent)
    /\ spc = "done" /\ send_errors = 0 => total = SumOver(sent)

(* The supervisor joins a worker whose connect() has not returned.          *)
JoinsConnecting ==
    spc \in {"unwind", "join"} /\ scur \in Workers /\ wpc[scur] = "connect"

(* Every call of start(), request_stop() and stop() returns, but for a join
   behind a worker that never comes back from connect(): nobody waits for the
   barrier, the mutex or a lost wake-up.  Nothing else of a call waits for a
   silent peer.                                                             *)
CallsReturn ==
    (cpc # "idle") ~> (cpc = "idle" \/ [](cpc = "join" /\ JoinsConnecting))

(* A stop request, a failure, a FILE limit and a worker thread that cannot be
   created all end the run, however the other workers fare, unless the
   supervisor joins a worker that never comes back from connect().          *)
RunEnds ==
    (stop_requested \/ last_error \/ status_message \/ spc = "unwind")
        ~> (spc \in {"none", "done"} \/ []JoinsConnecting)

-----------------------------------------------------------------------------
(* The inductive strengthening of the safety properties, in parts.          *)

(* Workers are created in index order, and unwinding meets a worker that was
   never created before it runs off the end.                                *)
SpawnInv ==
    /\ spc \in {"none", "prepare", "check"} =>
          scur = 1 /\ \A w \in Workers : wpc[w] = "none"
    /\ spc = "spawn" => \A w \in Workers : (w >= scur) = (wpc[w] = "none")
    /\ spc = "unwind" => \E w \in Workers : w >= scur /\ wpc[w] = "none"
    /\ \A v, w \in Workers : v <= w /\ wpc[v] = "none" => wpc[w] = "none"

(* What a join has established when the supervisor goes on.                 *)
JoinInv ==
    /\ spc \in {"unwind", "join"} => \A w \in Workers : w < scur => wpc[w] = "done"
    /\ spc \in {"stamp", "load", "store", "leave"} => \A w \in Workers : wpc[w] = "done"
    /\ spc \in {"err_msg", "err_state", "err_signal", "done"} =>
          \A w \in Workers : wpc[w] \in {"none", "done"}

(* Who owns the supervisor while the client is inside a call.               *)
OwnerInv ==
    /\ cpc \in {"store", "signal", "notify"} => joinable
    /\ cpc \in {"join", "final", "reset"} => ~joinable
    /\ cpc \in {"final", "reset"} => spc \in {"none", "done"}
    /\ cpc = "idle" /\ ~joinable => spc \in {"none", "done"}

(* The counter of the barrier counts the connected workers.                 *)
BarrierInv ==
    /\ connected = Cardinality(linked)
    /\ \A w \in Workers : wpc[w] \in {"none", "connect"} => w \notin linked
    /\ \A w \in Workers : wpc[w] \in {"stamp", "cas"} => linked = Workers
    /\ \A w \in Workers : wpc[w] = "cas" => started_at
    /\ BarrierBeforeSend

Quiet == state \notin {"Connecting", "Running"}

(* Whoever is about to request a stop has made the state quiet.             *)
QuietInv ==
    /\ StopWins
    /\ cpc = "signal" => Quiet
    /\ cpc = "store" /\ cseen = "Failed" => Quiet
    /\ spc = "err_signal" => Quiet
    /\ \A w \in Workers :
          /\ wpc[w] \in {"err_signal", "cmp_signal"} => Quiet
          /\ wpc[w] = "cmp_store" /\ wseen[w] = "Failed" => Quiet

(* What is published and what is pending add up to what was sent, until a send
   fails half-way; a worker outside its loop has nothing pending.           *)
CountInv ==
    /\ total + SumOver(local) <= SumOver(sent)
    /\ send_errors = 0 => total + SumOver(local) = SumOver(sent)
    /\ \A w \in Workers : ~Sending(w) => local[w] = 0
=============================================================================
