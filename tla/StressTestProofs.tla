-------------------------- MODULE StressTestProofs --------------------------
(* Theorems about StressTest, and about CliRun which drives it, for every number
   of workers and every bound.                                              *)
EXTENDS CliRun, FiniteSetTheorems, WellFoundedInduction, TLAPS

USE StressTestAssumption DEF report, progress, tally

(* Every action keeps the types, given that unwinding stays in range.        *)
LEMMA TypeStep ==
    ASSUME TypeOK, SpawnInv, [Next]_vars
    PROVE  TypeOK'
<1>1. CASE CallRequestStop
    BY <1>1 DEF CallRequestStop, TypeOK, States, ClientPlaces,
       SupervisorPlaces, WorkerPlaces, Workers, shared, clientVars,
       supervisorVars, workerVars
<1>2. ASSUME NEW op \in {"stop", "start"}, CallStop(op)
     PROVE  TypeOK'
    BY <1>2 DEF CallStop, TypeOK, States, ClientPlaces, SupervisorPlaces,
       WorkerPlaces, Workers, shared, clientVars, supervisorVars, workerVars
<1>3. CASE ClientStore
    BY <1>3 DEF ClientStore, TypeOK, States, ClientPlaces, SupervisorPlaces,
       WorkerPlaces, Workers, shared, clientVars, supervisorVars, workerVars
<1>4. CASE ClientSignal
    <2>1. joinable' \in BOOLEAN
        BY <1>4 DEF ClientSignal, ClientUnlock, TypeOK
    <2>2. cpc' \in ClientPlaces
        BY <1>4 DEF ClientSignal, ClientUnlock, ClientPlaces
    <2> QED
        BY <1>4, <2>1, <2>2 DEF ClientSignal, TypeOK, States, supervisorVars,
           workerVars
<1>5. CASE ClientNotify
    BY <1>5 DEF ClientNotify, Notify, ClientUnlock, TypeOK, States,
       ClientPlaces, SupervisorPlaces, WorkerPlaces, Workers, shared,
       clientVars, supervisorVars, workerVars
<1>6. CASE ClientJoin
    BY <1>6 DEF ClientJoin, TypeOK, States, ClientPlaces, SupervisorPlaces,
       WorkerPlaces, Workers, shared, clientVars, supervisorVars, workerVars
<1>7. CASE ClientFinal
    BY <1>7 DEF ClientFinal, TypeOK, States, ClientPlaces, SupervisorPlaces,
       WorkerPlaces, Workers, shared, clientVars, supervisorVars, workerVars
<1>8. CASE StartInvalid
    BY <1>8 DEF StartInvalid, TypeOK, States, ClientPlaces, SupervisorPlaces,
       WorkerPlaces, Workers, shared, clientVars, supervisorVars, workerVars
<1>9. CASE StartRun
    <2>1. /\ wstop' \in [Workers -> BOOLEAN] /\ joinable' \in BOOLEAN
          /\ started_at' \in BOOLEAN /\ finished_at' \in BOOLEAN
          /\ stop_requested' \in BOOLEAN
          /\ last_error' \in BOOLEAN /\ status_message' \in BOOLEAN
        BY <1>9 DEF StartRun, ResetRun
    <2>2. /\ wpc' \in [Workers -> WorkerPlaces] /\ wseen' \in [Workers -> States]
          /\ local' \in [Workers -> Nat] /\ sent' \in [Workers -> Nat]
          /\ linked' \in SUBSET Workers
        BY <1>9 DEF StartRun, ResetRun, States, WorkerPlaces
    <2>3. /\ send_errors' \in Nat /\ connected' \in Nat /\ total' \in Nat
          /\ starts' \in Nat /\ state' \in States /\ scur' \in 1..(N + 1)
          /\ spc' \in SupervisorPlaces /\ sseen' \in States
          /\ cpc' \in ClientPlaces
        BY <1>9 DEF StartRun, ResetRun, States, SupervisorPlaces, ClientPlaces, TypeOK
    <2> QED
        BY <1>9, <2>1, <2>2, <2>3 DEF StartRun, TypeOK
<1>10. CASE SupervisorPrepare
    BY <1>10 DEF SupervisorPrepare, TypeOK, States, ClientPlaces,
       SupervisorPlaces, WorkerPlaces, Workers, shared, clientVars,
       supervisorVars, workerVars
<1>11. CASE SupervisorCheck
    BY <1>11 DEF SupervisorCheck, TypeOK, States, ClientPlaces,
       SupervisorPlaces, WorkerPlaces, Workers, shared, clientVars,
       supervisorVars, workerVars
<1>12. CASE SupervisorSpawn
    <2>1. CASE wpc' = [wpc EXCEPT ![scur] = "connect"] /\ scur' = scur + 1 /\ UNCHANGED spc
        BY <1>12, <2>1 DEF SupervisorSpawn, TypeOK, States, ClientPlaces,
           SupervisorPlaces, WorkerPlaces, Workers, shared, clientVars,
           supervisorVars, workerVars
    <2>2. CASE spc' = "unwind" /\ scur' = 1 /\ UNCHANGED wpc
        BY <1>12, <2>2 DEF SupervisorSpawn, TypeOK, States, ClientPlaces,
           SupervisorPlaces, WorkerPlaces, Workers, shared, clientVars,
           supervisorVars, workerVars
    <2> QED
        BY <1>12, <2>1, <2>2 DEF SupervisorSpawn
<1>13. CASE SupervisorSpawned
    BY <1>13 DEF SupervisorSpawned, TypeOK, States, ClientPlaces,
       SupervisorPlaces, WorkerPlaces, Workers, shared, clientVars,
       supervisorVars, workerVars
<1>14. CASE SupervisorUnwind
    <2>1. CASE wpc[scur] = "none"
        BY <1>14, <2>1 DEF SupervisorUnwind, TypeOK, States, ClientPlaces,
           SupervisorPlaces, WorkerPlaces, shared, clientVars,
           supervisorVars, workerVars
    <2>2. CASE wpc[scur] # "none" /\ ~wstop[scur]
        <3>1. wstop' \in [Workers -> BOOLEAN]
            BY <1>14, <2>2 DEF SupervisorUnwind, TypeOK
        <3> QED
            BY <1>14, <2>2, <3>1 DEF SupervisorUnwind, TypeOK, States,
               ClientPlaces, SupervisorPlaces, WorkerPlaces, shared,
               clientVars, supervisorVars, workerVars
    <2>3. CASE wpc[scur] # "none" /\ wstop[scur]
        <3>1. PICK v \in Workers : v >= scur /\ wpc[v] = "none"
            BY <1>14 DEF SupervisorUnwind, SpawnInv
        <3>2. scur + 1 \in 1..(N + 1)
            BY <3>1 DEF TypeOK, Workers
        <3> QED
            BY <1>14, <2>3, <3>2 DEF SupervisorUnwind, TypeOK, States,
               ClientPlaces, SupervisorPlaces, WorkerPlaces, Workers, shared,
               clientVars, supervisorVars, workerVars
    <2> QED
        BY <2>1, <2>2, <2>3
<1>15. CASE SupervisorWait
    BY <1>15 DEF SupervisorWait, TypeOK, States, ClientPlaces,
       SupervisorPlaces, WorkerPlaces, Workers, shared, clientVars,
       supervisorVars, workerVars
<1>16. CASE SupervisorStopWorkers
    <2>1. CASE scur <= N
        <3>1. wstop' \in [Workers -> BOOLEAN]
            BY <1>16, <2>1 DEF SupervisorStopWorkers, TypeOK
        <3> QED
            BY <1>16, <2>1, <3>1 DEF SupervisorStopWorkers, TypeOK, States,
               ClientPlaces, SupervisorPlaces, WorkerPlaces, shared,
               clientVars, supervisorVars, workerVars
    <2>2. CASE ~(scur <= N)
        BY <1>16, <2>2 DEF SupervisorStopWorkers, TypeOK, States, ClientPlaces,
           SupervisorPlaces, WorkerPlaces, Workers, shared, clientVars,
           supervisorVars, workerVars
    <2> QED
        BY <2>1, <2>2
<1>17. CASE SupervisorJoin
    BY <1>17 DEF SupervisorJoin, TypeOK, States, ClientPlaces,
       SupervisorPlaces, WorkerPlaces, Workers, shared, clientVars,
       supervisorVars, workerVars
<1>18. CASE SupervisorStamp
    BY <1>18 DEF SupervisorStamp, TypeOK, States, ClientPlaces,
       SupervisorPlaces, WorkerPlaces, Workers, shared, clientVars,
       supervisorVars, workerVars
<1>19. CASE SupervisorLoad
    BY <1>19 DEF SupervisorLoad, TypeOK, States, ClientPlaces,
       SupervisorPlaces, WorkerPlaces, Workers, shared, clientVars,
       supervisorVars, workerVars
<1>20. CASE SupervisorStore
    BY <1>20 DEF SupervisorStore, TypeOK, States, ClientPlaces,
       SupervisorPlaces, WorkerPlaces, Workers, shared, clientVars,
       supervisorVars, workerVars
<1>21. CASE SupervisorLeave
    BY <1>21 DEF SupervisorLeave, TypeOK, States, ClientPlaces,
       SupervisorPlaces, WorkerPlaces, Workers, shared, clientVars,
       supervisorVars, workerVars
<1>22. CASE SupervisorErrorMessage
    BY <1>22 DEF SupervisorErrorMessage, TypeOK, States, ClientPlaces,
       SupervisorPlaces, WorkerPlaces, Workers, shared, clientVars,
       supervisorVars, workerVars
<1>23. CASE SupervisorErrorState
    BY <1>23 DEF SupervisorErrorState, TypeOK, States, ClientPlaces,
       SupervisorPlaces, WorkerPlaces, Workers, shared, clientVars,
       supervisorVars, workerVars
<1>24. CASE SupervisorErrorSignal
    BY <1>24 DEF SupervisorErrorSignal, TypeOK, States, ClientPlaces,
       SupervisorPlaces, WorkerPlaces, Workers, shared, clientVars,
       supervisorVars, workerVars
<1>25. ASSUME NEW w \in Workers, WorkerConnect(w)
     PROVE  TypeOK'
    BY <1>25 DEF WorkerConnect, WorkerGoes, TypeOK, States, ClientPlaces,
       SupervisorPlaces, WorkerPlaces, Workers, shared, clientVars,
       supervisorVars, workerVars
<1>26. ASSUME NEW w \in Workers, WorkerStamp(w)
     PROVE  TypeOK'
    BY <1>26 DEF WorkerStamp, WorkerGoes, TypeOK, States, ClientPlaces,
       SupervisorPlaces, WorkerPlaces, Workers, shared, clientVars,
       supervisorVars, workerVars
<1>27. ASSUME NEW w \in Workers, WorkerOpen(w)
     PROVE  TypeOK'
    <2>1. CASE state = "Connecting"
        BY <1>27, <2>1 DEF WorkerOpen, WorkerGoes, TypeOK, States, ClientPlaces,
           SupervisorPlaces, WorkerPlaces, Workers, shared, clientVars,
           supervisorVars, workerVars
    <2>2. CASE state # "Connecting"
        BY <1>27, <2>2 DEF WorkerOpen, WorkerGoes, TypeOK, States, ClientPlaces,
           SupervisorPlaces, WorkerPlaces, Workers, shared, clientVars,
           supervisorVars, workerVars
    <2> QED
        BY <1>27, <2>1, <2>2 DEF WorkerOpen
<1>28. ASSUME NEW w \in Workers, WorkerSpin(w)
     PROVE  TypeOK'
    BY <1>28 DEF WorkerSpin, WorkerGoes, TypeOK, States, ClientPlaces,
       SupervisorPlaces, WorkerPlaces, Workers, shared, clientVars,
       supervisorVars, workerVars
<1>29. ASSUME NEW w \in Workers, WorkerPass(w)
     PROVE  TypeOK'
    BY <1>29 DEF WorkerPass, WorkerGoes, TypeOK, States, ClientPlaces,
       SupervisorPlaces, WorkerPlaces, Workers, shared, clientVars,
       supervisorVars, workerVars
<1>30. ASSUME NEW w \in Workers, WorkerBatch(w)
     PROVE  TypeOK'
    BY <1>30 DEF WorkerBatch, WorkerGoes, TypeOK, States, ClientPlaces,
       SupervisorPlaces, WorkerPlaces, Workers, shared, clientVars,
       supervisorVars, workerVars
<1>31. ASSUME NEW w \in Workers, WorkerStops(w)
     PROVE  TypeOK'
    BY <1>31 DEF WorkerStops, Flush, WorkerGoes, TypeOK, States, ClientPlaces,
       SupervisorPlaces, WorkerPlaces, Workers, shared, clientVars,
       supervisorVars, workerVars
<1>32. ASSUME NEW w \in Workers, WorkerSent(w)
     PROVE  TypeOK'
    <2>1. PICK events \in 1..MaxBatch :
              /\ sent' = [sent EXCEPT ![w] = @ + events]
              /\ IF FileProtocol \/ local[w] + events >= PublishEvents
                    THEN Flush(w, local[w] + events)
                    ELSE /\ local' = [local EXCEPT ![w] = @ + events]
                         /\ UNCHANGED total
        BY <1>32 DEF WorkerSent
    <2>2. sent' \in [Workers -> Nat]
        BY <2>1 DEF TypeOK
    <2>3. total' \in Nat /\ local' \in [Workers -> Nat]
        <3>1. CASE FileProtocol \/ local[w] + events >= PublishEvents
            BY <2>1, <3>1 DEF TypeOK, Flush
        <3>2. CASE ~(FileProtocol \/ local[w] + events >= PublishEvents)
            BY <2>1, <3>2 DEF TypeOK
        <3> QED
            BY <3>1, <3>2
    <2>4. wpc' \in [Workers -> WorkerPlaces]
        BY <1>32 DEF WorkerSent, WorkerGoes, WorkerPlaces, TypeOK
    <2> QED
        BY <1>32, <2>2, <2>3, <2>4 DEF WorkerSent, TypeOK, clientVars,
           supervisorVars
<1>33. ASSUME NEW w \in Workers, WorkerLimit(w)
     PROVE  TypeOK'
    BY <1>33 DEF WorkerLimit, Flush, WorkerGoes, TypeOK, States, ClientPlaces,
       SupervisorPlaces, WorkerPlaces, Workers, shared, clientVars,
       supervisorVars, workerVars
<1>34. ASSUME NEW w \in Workers, WorkerThrows(w)
     PROVE  TypeOK'
    <2>1. sent' \in [Workers -> Nat]
        <3>1. CASE UNCHANGED sent
            BY <3>1 DEF TypeOK
        <3>2. CASE \E events \in 1..(MaxBatch - 1) :
                     sent' = [sent EXCEPT ![w] = @ + events]
            BY <3>2 DEF TypeOK
        <3> QED
            BY <1>34, <3>1, <3>2 DEF WorkerThrows
    <2> QED
        BY <1>34, <2>1 DEF WorkerThrows, Flush, WorkerGoes, TypeOK, States,
           ClientPlaces, SupervisorPlaces, WorkerPlaces, Workers, shared,
           clientVars, supervisorVars, workerVars
<1>35. ASSUME NEW w \in Workers, WorkerErrorMessage(w)
     PROVE  TypeOK'
    BY <1>35 DEF WorkerErrorMessage, WorkerGoes, TypeOK, States, ClientPlaces,
       SupervisorPlaces, WorkerPlaces, Workers, shared, clientVars,
       supervisorVars, workerVars
<1>36. ASSUME NEW w \in Workers, WorkerErrorState(w)
     PROVE  TypeOK'
    BY <1>36 DEF WorkerErrorState, WorkerGoes, TypeOK, States, ClientPlaces,
       SupervisorPlaces, WorkerPlaces, Workers, shared, clientVars,
       supervisorVars, workerVars
<1>37. ASSUME NEW w \in Workers, WorkerLimitMessage(w)
     PROVE  TypeOK'
    BY <1>37 DEF WorkerLimitMessage, WorkerGoes, TypeOK, States, ClientPlaces,
       SupervisorPlaces, WorkerPlaces, Workers, shared, clientVars,
       supervisorVars, workerVars
<1>38. ASSUME NEW w \in Workers, WorkerLimitLoad(w)
     PROVE  TypeOK'
    BY <1>38 DEF WorkerLimitLoad, WorkerGoes, TypeOK, States, ClientPlaces,
       SupervisorPlaces, WorkerPlaces, Workers, shared, clientVars,
       supervisorVars, workerVars
<1>39. ASSUME NEW w \in Workers, WorkerLimitStore(w)
     PROVE  TypeOK'
    BY <1>39 DEF WorkerLimitStore, WorkerGoes, TypeOK, States, ClientPlaces,
       SupervisorPlaces, WorkerPlaces, Workers, shared, clientVars,
       supervisorVars, workerVars
<1>40. ASSUME NEW w \in Workers, WorkerSignal(w)
     PROVE  TypeOK'
    BY <1>40 DEF WorkerSignal, MustNotify, WorkerGoes, TypeOK, States,
       ClientPlaces, SupervisorPlaces, WorkerPlaces, Workers, shared,
       clientVars, supervisorVars, workerVars
<1>41. ASSUME NEW w \in Workers, WorkerNotify(w)
     PROVE  TypeOK'
    BY <1>41 DEF WorkerNotify, Notify, WorkerGoes, TypeOK, States,
       ClientPlaces, SupervisorPlaces, WorkerPlaces, Workers, shared,
       clientVars, supervisorVars, workerVars
<1>42. CASE UNCHANGED vars
    BY <1>42 DEF vars, TypeOK, States, ClientPlaces, SupervisorPlaces,
       WorkerPlaces, Workers, shared, clientVars, supervisorVars, workerVars
<1> QED
    BY <1>1, <1>2, <1>3, <1>4, <1>5, <1>6, <1>7, <1>8, <1>9, <1>10, <1>11,
       <1>12, <1>13, <1>14, <1>15, <1>16, <1>17, <1>18, <1>19, <1>20, <1>21,
       <1>22, <1>23, <1>24, <1>25, <1>26, <1>27, <1>28, <1>29, <1>30, <1>31,
       <1>32, <1>33, <1>34, <1>35, <1>36, <1>37, <1>38, <1>39, <1>40, <1>41,
       <1>42
    DEF Next, ClientCall, ClientStep, ServiceStep, SupervisorStep, WorkerStep,
        WorkerSends, WorkerCompletes

-----------------------------------------------------------------------------
(* What the rest of the system sees of a step of worker w: a live worker moves
   on, and the supervisor is woken at most.                                 *)
LEMMA WorkerFrame ==
    ASSUME TypeOK, NEW w \in Workers, WorkerStep(w)
    PROVE  /\ wpc[w] \notin {"none", "done"} /\ wpc'[w] # "none"
           /\ \A v \in Workers \ {w} : wpc'[v] = wpc[v]
           /\ UNCHANGED <<joinable, cpc, cop, cseen, scur, sseen, finished_at>>
           /\ spc' = spc \/ (spc = "asleep" /\ spc' = "wait")
<1> USE DEF WorkerGoes, TypeOK, shared, clientVars, supervisorVars
<1>1. CASE WorkerConnect(w)
    BY <1>1 DEF WorkerConnect
<1>2. CASE WorkerStamp(w)
    BY <1>2 DEF WorkerStamp
<1>3. CASE WorkerOpen(w)
    BY <1>3 DEF WorkerOpen
<1>4. CASE WorkerSpin(w)
    BY <1>4 DEF WorkerSpin
<1>5. CASE WorkerPass(w)
    BY <1>5 DEF WorkerPass
<1>6. CASE WorkerBatch(w)
    BY <1>6 DEF WorkerBatch
<1>7. CASE WorkerStops(w)
    BY <1>7 DEF WorkerStops
<1>8. CASE WorkerSent(w)
    BY <1>8 DEF WorkerSent
<1>9. CASE WorkerLimit(w)
    BY <1>9 DEF WorkerLimit
<1>10. CASE WorkerThrows(w)
    BY <1>10 DEF WorkerThrows
<1>11. CASE WorkerErrorMessage(w)
    BY <1>11 DEF WorkerErrorMessage
<1>12. CASE WorkerErrorState(w)
    BY <1>12 DEF WorkerErrorState
<1>13. CASE WorkerLimitMessage(w)
    BY <1>13 DEF WorkerLimitMessage
<1>14. CASE WorkerLimitLoad(w)
    BY <1>14 DEF WorkerLimitLoad
<1>15. CASE WorkerLimitStore(w)
    BY <1>15 DEF WorkerLimitStore
<1>16. CASE WorkerSignal(w)
    BY <1>16 DEF WorkerSignal
<1>17. CASE WorkerNotify(w)
    BY <1>17 DEF WorkerNotify, Notify
<1> QED
    BY WorkerStep(w), <1>1, <1>2, <1>3, <1>4, <1>5, <1>6, <1>7, <1>8, <1>9,
       <1>10, <1>11, <1>12, <1>13, <1>14, <1>15, <1>16, <1>17
    DEF WorkerStep, WorkerSends, WorkerCompletes

(* The same for the client, outside the critical section of start().        *)
LEMMA ClientFrame ==
    ASSUME ClientCall \/ (ClientStep /\ ~StartRun)
    PROVE  /\ UNCHANGED <<wpc, wstop, wseen, linked, connected, started_at, finished_at, scur, sseen>>
           /\ spc' = spc \/ (spc = "asleep" /\ spc' = "wait")
           /\ state' \in {state, "Stopping", "Stopped"}
    BY DEF ClientCall, ClientStep, CallRequestStop, CallStop, ClientStore,
       ClientSignal, ClientNotify, ClientJoin, ClientFinal, StartInvalid,
       Notify, shared, supervisorVars, workerVars

(* Workers exist in index order, and unwinding stays in range.               *)
LEMMA SpawnStep ==
    ASSUME TypeOK, SpawnInv, [Next]_vars
    PROVE  SpawnInv'
<1>1. CASE ClientCall \/ (ClientStep /\ ~StartRun)
    <2>1. /\ wpc' = wpc /\ scur' = scur
          /\ spc' = spc \/ (spc = "asleep" /\ spc' = "wait")
        BY <1>1, ClientFrame
    <2> QED
        BY <2>1 DEF SpawnInv
<1>2. CASE StartRun
    BY <1>2 DEF StartRun, ResetRun, SpawnInv, TypeOK, Workers
<1>3. CASE SupervisorPrepare
    BY <1>3 DEF SupervisorPrepare, SpawnInv, TypeOK, Workers, workerVars,
       clientVars, shared
<1>4. CASE SupervisorCheck
    BY <1>4 DEF SupervisorCheck, SpawnInv, TypeOK, Workers, workerVars,
       clientVars, shared
<1>5. CASE SupervisorSpawn
    <2>1. scur \in Workers /\ wpc[scur] = "none"
        BY <1>5 DEF SupervisorSpawn, SpawnInv, TypeOK, Workers
    <2>2. CASE /\ wpc' = [wpc EXCEPT ![scur] = "connect"]
               /\ scur' = scur + 1 /\ UNCHANGED spc
        BY <1>5, <2>1, <2>2 DEF SupervisorSpawn, SpawnInv, TypeOK, Workers
    <2>3. CASE spc' = "unwind" /\ scur' = 1 /\ UNCHANGED wpc
        BY <1>5, <2>1, <2>3 DEF SupervisorSpawn, SpawnInv, TypeOK, Workers
    <2> QED
        BY <1>5, <2>2, <2>3 DEF SupervisorSpawn
<1>6. CASE SupervisorSpawned
    BY <1>6 DEF SupervisorSpawned, SpawnInv, TypeOK, Workers, workerVars,
       clientVars, shared
<1>7. CASE SupervisorUnwind
    BY <1>7 DEF SupervisorUnwind, SpawnInv, TypeOK, Workers, workerVars,
       clientVars, shared
<1>8. CASE SupervisorWait
    BY <1>8 DEF SupervisorWait, SpawnInv, TypeOK, Workers, workerVars,
       clientVars, shared
<1>9. CASE SupervisorStopWorkers
    BY <1>9 DEF SupervisorStopWorkers, SpawnInv, TypeOK, Workers, workerVars,
       clientVars, shared
<1>10. CASE SupervisorJoin
    BY <1>10 DEF SupervisorJoin, SpawnInv, TypeOK, Workers, workerVars,
       clientVars, shared
<1>11. CASE SupervisorStamp
    BY <1>11 DEF SupervisorStamp, SpawnInv, TypeOK, Workers, workerVars,
       clientVars, shared
<1>12. CASE SupervisorLoad
    BY <1>12 DEF SupervisorLoad, SpawnInv, TypeOK, Workers, workerVars,
       clientVars, shared
<1>13. CASE SupervisorStore
    BY <1>13 DEF SupervisorStore, SpawnInv, TypeOK, Workers, workerVars,
       clientVars, shared
<1>14. CASE SupervisorLeave
    BY <1>14 DEF SupervisorLeave, SpawnInv, TypeOK, Workers, workerVars,
       clientVars, shared
<1>15. CASE SupervisorErrorMessage
    BY <1>15 DEF SupervisorErrorMessage, SpawnInv, TypeOK, Workers, workerVars,
       clientVars, shared
<1>16. CASE SupervisorErrorState
    BY <1>16 DEF SupervisorErrorState, SpawnInv, TypeOK, Workers, workerVars,
       clientVars, shared
<1>17. CASE SupervisorErrorSignal
    BY <1>17 DEF SupervisorErrorSignal, SpawnInv, TypeOK, Workers, workerVars,
       clientVars, shared
<1>18. ASSUME NEW w \in Workers, WorkerStep(w)
     PROVE  SpawnInv'
    <2>1. \A v \in Workers : (wpc'[v] = "none") <=> (wpc[v] = "none")
        BY <1>18, WorkerFrame
    <2>2. UNCHANGED scur /\ (spc' = spc \/ (spc = "asleep" /\ spc' = "wait"))
        BY <1>18, WorkerFrame
    <2> QED
        BY <2>1, <2>2 DEF SpawnInv
<1>19. CASE UNCHANGED vars
    BY <1>19 DEF vars, shared, clientVars, supervisorVars, workerVars, SpawnInv,
       TypeOK, Workers
<1> QED
    BY <1>1, <1>2, <1>3, <1>4, <1>5, <1>6, <1>7, <1>8, <1>9, <1>10, <1>11,
       <1>12, <1>13, <1>14, <1>15, <1>16, <1>17, <1>18, <1>19
    DEF Next, ServiceStep, SupervisorStep

(* The joins, once done, stay done.                                          *)
LEMMA JoinStep ==
    ASSUME TypeOK, SpawnInv, JoinInv, [Next]_vars
    PROVE  JoinInv'
<1>1. CASE ClientCall \/ (ClientStep /\ ~StartRun)
    BY <1>1, ClientFrame DEF SpawnInv, JoinInv, TypeOK, Workers
<1>2. CASE StartRun
    BY <1>2 DEF StartRun, ResetRun, SpawnInv, JoinInv, TypeOK, Workers
<1>3. CASE SupervisorPrepare
    BY <1>3 DEF SupervisorPrepare, SpawnInv, JoinInv, TypeOK, Workers,
       workerVars, clientVars, shared
<1>4. CASE SupervisorCheck
    BY <1>4 DEF SupervisorCheck, SpawnInv, JoinInv, TypeOK, Workers, workerVars,
       clientVars, shared
<1>5. CASE SupervisorSpawn
    BY <1>5 DEF SupervisorSpawn, SpawnInv, JoinInv, TypeOK, Workers, workerVars,
       clientVars, shared
<1>6. CASE SupervisorSpawned
    BY <1>6 DEF SupervisorSpawned, SpawnInv, JoinInv, TypeOK, Workers,
       workerVars, clientVars, shared
<1>7. CASE SupervisorUnwind
    <2>1. UNCHANGED wpc /\ spc = "unwind" /\ \A v \in Workers : v < scur => wpc[v] = "done"
        BY <1>7 DEF SupervisorUnwind, JoinInv
    <2>2. CASE wpc[scur] = "none"
        <3>1. PICK u \in Workers : u >= scur /\ wpc[u] = "none"
            BY <2>1 DEF SpawnInv
        <3>2. scur \in Workers
            BY <3>1 DEF TypeOK, Workers
        <3>3. \A v \in Workers : wpc[v] \in {"none", "done"}
            BY <2>1, <2>2, <3>2 DEF SpawnInv, Workers
        <3> QED
            BY <1>7, <2>1, <2>2, <3>3 DEF SupervisorUnwind, JoinInv
    <2>3. CASE wpc[scur] # "none"
        <3>1. /\ spc' = spc
              /\ scur' = scur \/ (scur' = scur + 1 /\ wpc[scur] = "done")
            BY <1>7, <2>3 DEF SupervisorUnwind
        <3> QED
            BY <2>1, <3>1 DEF JoinInv, TypeOK, Workers
    <2> QED
        BY <2>2, <2>3
<1>8. CASE SupervisorWait
    BY <1>8 DEF SupervisorWait, SpawnInv, JoinInv, TypeOK, Workers, workerVars,
       clientVars, shared
<1>9. CASE SupervisorStopWorkers
    BY <1>9 DEF SupervisorStopWorkers, SpawnInv, JoinInv, TypeOK, Workers,
       workerVars, clientVars, shared
<1>10. CASE SupervisorJoin
    BY <1>10 DEF SupervisorJoin, SpawnInv, JoinInv, TypeOK, Workers, workerVars,
       clientVars, shared
<1>11. CASE SupervisorStamp
    BY <1>11 DEF SupervisorStamp, SpawnInv, JoinInv, TypeOK, Workers, workerVars,
       clientVars, shared
<1>12. CASE SupervisorLoad
    BY <1>12 DEF SupervisorLoad, SpawnInv, JoinInv, TypeOK, Workers, workerVars,
       clientVars, shared
<1>13. CASE SupervisorStore
    BY <1>13 DEF SupervisorStore, SpawnInv, JoinInv, TypeOK, Workers, workerVars,
       clientVars, shared
<1>14. CASE SupervisorLeave
    BY <1>14 DEF SupervisorLeave, SpawnInv, JoinInv, TypeOK, Workers, workerVars,
       clientVars, shared
<1>15. CASE SupervisorErrorMessage
    BY <1>15 DEF SupervisorErrorMessage, SpawnInv, JoinInv, TypeOK, Workers,
       workerVars, clientVars, shared
<1>16. CASE SupervisorErrorState
    BY <1>16 DEF SupervisorErrorState, SpawnInv, JoinInv, TypeOK, Workers,
       workerVars, clientVars, shared
<1>17. CASE SupervisorErrorSignal
    BY <1>17 DEF SupervisorErrorSignal, SpawnInv, JoinInv, TypeOK, Workers,
       workerVars, clientVars, shared
<1>18. ASSUME NEW w \in Workers, WorkerStep(w)
     PROVE  JoinInv'
    <2>1. \A v \in Workers : wpc[v] \in {"none", "done"} => wpc'[v] = wpc[v]
        BY <1>18, WorkerFrame
    <2>2. UNCHANGED scur /\ (spc' = spc \/ (spc = "asleep" /\ spc' = "wait"))
        BY <1>18, WorkerFrame
    <2> QED
        BY <2>1, <2>2 DEF JoinInv
<1>19. CASE UNCHANGED vars
    BY <1>19 DEF vars, shared, clientVars, supervisorVars, workerVars, SpawnInv,
       JoinInv, TypeOK, Workers
<1> QED
    BY <1>1, <1>2, <1>3, <1>4, <1>5, <1>6, <1>7, <1>8, <1>9, <1>10, <1>11,
       <1>12, <1>13, <1>14, <1>15, <1>16, <1>17, <1>18, <1>19
    DEF Next, ServiceStep, SupervisorStep

(* finished_at_ is only set when every worker is joined.                     *)
LEMMA FinishStep ==
    ASSUME TypeOK, JoinInv, FinishAfterWorkers, SpawnInv, [Next]_vars
    PROVE  FinishAfterWorkers'
<1>1. CASE ClientCall \/ (ClientStep /\ ~StartRun)
    BY <1>1, ClientFrame DEF JoinInv, FinishAfterWorkers, SpawnInv, TypeOK,
       Workers
<1>2. CASE StartRun
    BY <1>2 DEF StartRun, ResetRun, JoinInv, FinishAfterWorkers, SpawnInv,
       TypeOK, Workers
<1>3. CASE SupervisorPrepare
    BY <1>3 DEF SupervisorPrepare, JoinInv, FinishAfterWorkers, SpawnInv, TypeOK,
       Workers, workerVars, clientVars, shared
<1>4. CASE SupervisorCheck
    BY <1>4 DEF SupervisorCheck, JoinInv, FinishAfterWorkers, SpawnInv, TypeOK,
       Workers, workerVars, clientVars, shared
<1>5. CASE SupervisorSpawn
    BY <1>5 DEF SupervisorSpawn, JoinInv, FinishAfterWorkers, SpawnInv, TypeOK,
       Workers, workerVars, clientVars, shared
<1>6. CASE SupervisorSpawned
    BY <1>6 DEF SupervisorSpawned, JoinInv, FinishAfterWorkers, SpawnInv, TypeOK,
       Workers, workerVars, clientVars, shared
<1>7. CASE SupervisorUnwind
    BY <1>7 DEF SupervisorUnwind, JoinInv, FinishAfterWorkers, SpawnInv, TypeOK,
       Workers, workerVars, clientVars, shared
<1>8. CASE SupervisorWait
    BY <1>8 DEF SupervisorWait, JoinInv, FinishAfterWorkers, SpawnInv, TypeOK,
       Workers, workerVars, clientVars, shared
<1>9. CASE SupervisorStopWorkers
    BY <1>9 DEF SupervisorStopWorkers, JoinInv, FinishAfterWorkers, SpawnInv,
       TypeOK, Workers, workerVars, clientVars, shared
<1>10. CASE SupervisorJoin
    BY <1>10 DEF SupervisorJoin, JoinInv, FinishAfterWorkers, SpawnInv, TypeOK,
       Workers, workerVars, clientVars, shared
<1>11. CASE SupervisorStamp
    BY <1>11 DEF SupervisorStamp, JoinInv, FinishAfterWorkers, SpawnInv, TypeOK,
       Workers, workerVars, clientVars, shared
<1>12. CASE SupervisorLoad
    BY <1>12 DEF SupervisorLoad, JoinInv, FinishAfterWorkers, SpawnInv, TypeOK,
       Workers, workerVars, clientVars, shared
<1>13. CASE SupervisorStore
    BY <1>13 DEF SupervisorStore, JoinInv, FinishAfterWorkers, SpawnInv, TypeOK,
       Workers, workerVars, clientVars, shared
<1>14. CASE SupervisorLeave
    BY <1>14 DEF SupervisorLeave, JoinInv, FinishAfterWorkers, SpawnInv, TypeOK,
       Workers, workerVars, clientVars, shared
<1>15. CASE SupervisorErrorMessage
    BY <1>15 DEF SupervisorErrorMessage, JoinInv, FinishAfterWorkers, SpawnInv,
       TypeOK, Workers, workerVars, clientVars, shared
<1>16. CASE SupervisorErrorState
    BY <1>16 DEF SupervisorErrorState, JoinInv, FinishAfterWorkers, SpawnInv,
       TypeOK, Workers, workerVars, clientVars, shared
<1>17. CASE SupervisorErrorSignal
    BY <1>17 DEF SupervisorErrorSignal, JoinInv, FinishAfterWorkers, SpawnInv,
       TypeOK, Workers, workerVars, clientVars, shared
<1>18. ASSUME NEW w \in Workers, WorkerStep(w)
     PROVE  FinishAfterWorkers'
    BY <1>18, WorkerFrame DEF JoinInv, FinishAfterWorkers, SpawnInv, TypeOK,
       Workers
<1>19. CASE UNCHANGED vars
    BY <1>19 DEF vars, shared, clientVars, supervisorVars, workerVars, JoinInv,
       FinishAfterWorkers, SpawnInv, TypeOK, Workers
<1> QED
    BY <1>1, <1>2, <1>3, <1>4, <1>5, <1>6, <1>7, <1>8, <1>9, <1>10, <1>11,
       <1>12, <1>13, <1>14, <1>15, <1>16, <1>17, <1>18, <1>19
    DEF Next, ServiceStep, SupervisorStep

(* Whoever is past a join, or owns no supervisor, has no thread to fear.     *)
LEMMA OwnerStep ==
    ASSUME TypeOK, OwnerInv, [Next]_vars
    PROVE  OwnerInv'
<1> USE DEF OwnerInv, TypeOK, shared, clientVars, supervisorVars, workerVars
<1>1. CASE CallRequestStop
    BY <1>1 DEF CallRequestStop
<1>2. ASSUME NEW op \in {"stop", "start"}, CallStop(op)
     PROVE  OwnerInv'
    BY <1>2 DEF CallStop
<1>3. CASE ClientStore
    BY <1>3 DEF ClientStore
<1>4. CASE ClientSignal
    BY <1>4 DEF ClientSignal, ClientUnlock, MustNotify
<1>5. CASE ClientNotify
    BY <1>5 DEF ClientNotify, Notify, ClientUnlock
<1>6. CASE ClientJoin
    BY <1>6 DEF ClientJoin
<1>7. CASE ClientFinal
    BY <1>7 DEF ClientFinal
<1>8. CASE StartInvalid
    BY <1>8 DEF StartInvalid
<1>9. CASE StartRun
    BY <1>9 DEF StartRun, ResetRun
<1>10. CASE SupervisorStep
    <2>1. UNCHANGED <<joinable, cpc>> /\ spc \notin {"none", "done"}
        BY <1>10 DEF SupervisorStep, SupervisorPrepare, SupervisorCheck,
           SupervisorSpawn, SupervisorSpawned, SupervisorUnwind,
           SupervisorWait, SupervisorStopWorkers, SupervisorJoin,
           SupervisorStamp, SupervisorLoad, SupervisorStore, SupervisorLeave,
           SupervisorErrorMessage, SupervisorErrorState, SupervisorErrorSignal
    <2> QED
        BY <2>1
<1>11. ASSUME NEW w \in Workers, WorkerStep(w)
     PROVE  OwnerInv'
    BY <1>11, WorkerFrame
<1>12. CASE UNCHANGED vars
    BY <1>12 DEF vars
<1> QED
    BY <1>1, <1>2, <1>3, <1>4, <1>5, <1>6, <1>7, <1>8, <1>9, <1>10, <1>11,
       <1>12
    DEF Next, ClientCall, ClientStep, ServiceStep

(* What a step of the supervisor leaves alone: it may create a worker, and may
   show Stopped or Failed.                                                  *)
LEMMA SupervisorFrame ==
    ASSUME TypeOK, SpawnInv, SupervisorStep
    PROVE  /\ UNCHANGED <<joinable, cpc, cseen, connected, linked, started_at, wseen>>
           /\ state' \in {state, "Stopped", "Failed"}
           /\ \A w \in Workers : \/ wpc'[w] = wpc[w]
                                 \/ wpc[w] = "none" /\ wpc'[w] = "connect"
<1> USE DEF shared, clientVars, supervisorVars, workerVars
<1>1. CASE SupervisorPrepare
    BY <1>1 DEF SupervisorPrepare
<1>2. CASE SupervisorCheck
    BY <1>2 DEF SupervisorCheck
<1>3. CASE SupervisorSpawn
    BY <1>3 DEF SupervisorSpawn, SpawnInv, TypeOK, Workers
<1>4. CASE SupervisorSpawned
    BY <1>4 DEF SupervisorSpawned
<1>5. CASE SupervisorUnwind
    BY <1>5 DEF SupervisorUnwind
<1>6. CASE SupervisorWait
    BY <1>6 DEF SupervisorWait
<1>7. CASE SupervisorStopWorkers
    BY <1>7 DEF SupervisorStopWorkers
<1>8. CASE SupervisorJoin
    BY <1>8 DEF SupervisorJoin
<1>9. CASE SupervisorStamp
    BY <1>9 DEF SupervisorStamp
<1>10. CASE SupervisorLoad
    BY <1>10 DEF SupervisorLoad
<1>11. CASE SupervisorStore
    BY <1>11 DEF SupervisorStore
<1>12. CASE SupervisorLeave
    BY <1>12 DEF SupervisorLeave
<1>13. CASE SupervisorErrorMessage
    BY <1>13 DEF SupervisorErrorMessage
<1>14. CASE SupervisorErrorState
    BY <1>14 DEF SupervisorErrorState
<1>15. CASE SupervisorErrorSignal
    BY <1>15 DEF SupervisorErrorSignal
<1> QED
    BY SupervisorStep, <1>1, <1>2, <1>3, <1>4, <1>5, <1>6, <1>7, <1>8, <1>9,
       <1>10, <1>11, <1>12, <1>13, <1>14, <1>15 DEF SupervisorStep

(* Every action keeps the barrier: only the last connect opens it.          *)
LEMMA BarrierStep ==
    ASSUME TypeOK, SpawnInv, BarrierInv, [Next]_vars
    PROVE  BarrierInv'
<1>1. CASE ClientCall \/ (ClientStep /\ ~StartRun)
    BY <1>1, ClientFrame DEF BarrierInv, BarrierBeforeSend, Sending, TypeOK
<1>2. CASE StartRun
    BY <1>2, FS_EmptySet DEF StartRun, ResetRun, BarrierInv, BarrierBeforeSend,
       Sending, TypeOK
<1>3. CASE SupervisorStep
    BY <1>3, SupervisorFrame DEF BarrierInv, BarrierBeforeSend, Sending
<1>4. ASSUME NEW w \in Workers, WorkerConnect(w)
     PROVE  BarrierInv'
    <2>1. w \notin linked /\ linked \subseteq Workers /\ linked' = linked \cup {w}
        BY <1>4 DEF WorkerConnect, BarrierInv, TypeOK
    <2>2. IsFiniteSet(Workers) /\ Cardinality(Workers) = N
        BY FS_Interval DEF Workers
    <2>3. IsFiniteSet(linked) /\ Cardinality(linked') = Cardinality(linked) + 1
        BY <2>1, <2>2, FS_Subset, FS_AddElement
    <2>4. connected' = Cardinality(linked')
        BY <1>4, <2>3 DEF WorkerConnect, BarrierInv
    <2>5. connected' = N => linked' = Workers
        BY <2>1, <2>2, <2>4, FS_Subset
    <2>6. linked # Workers
        BY <2>1
    <2> QED
        BY <1>4, <2>1, <2>4, <2>5, <2>6
        DEF WorkerConnect, WorkerGoes, BarrierInv, BarrierBeforeSend, Sending, TypeOK
<1>5. ASSUME NEW w \in Workers, WorkerStamp(w)
     PROVE  BarrierInv'
    BY <1>5 DEF WorkerStamp, WorkerGoes, BarrierInv, BarrierBeforeSend, Sending,
       TypeOK, shared
<1>6. ASSUME NEW w \in Workers, WorkerOpen(w)
     PROVE  BarrierInv'
    BY <1>6 DEF WorkerOpen, WorkerGoes, BarrierInv, BarrierBeforeSend, Sending,
       TypeOK, shared
<1>7. ASSUME NEW w \in Workers, WorkerSpin(w)
     PROVE  BarrierInv'
    BY <1>7 DEF WorkerSpin, WorkerGoes, BarrierInv, BarrierBeforeSend, Sending,
       TypeOK, shared
<1>8. ASSUME NEW w \in Workers, WorkerPass(w)
     PROVE  BarrierInv'
    BY <1>8 DEF WorkerPass, WorkerGoes, BarrierInv, BarrierBeforeSend, Sending,
       TypeOK, shared
<1>9. ASSUME NEW w \in Workers, WorkerBatch(w)
     PROVE  BarrierInv'
    BY <1>9 DEF WorkerBatch, WorkerGoes, BarrierInv, BarrierBeforeSend, Sending,
       TypeOK, shared
<1>10. ASSUME NEW w \in Workers, WorkerStops(w)
     PROVE  BarrierInv'
    BY <1>10 DEF WorkerStops, WorkerGoes, BarrierInv, BarrierBeforeSend, Sending,
       TypeOK, shared
<1>11. ASSUME NEW w \in Workers, WorkerSent(w)
     PROVE  BarrierInv'
    BY <1>11 DEF WorkerSent, WorkerGoes, BarrierInv, BarrierBeforeSend, Sending,
       TypeOK, shared
<1>12. ASSUME NEW w \in Workers, WorkerLimit(w)
     PROVE  BarrierInv'
    BY <1>12 DEF WorkerLimit, WorkerGoes, BarrierInv, BarrierBeforeSend, Sending,
       TypeOK, shared
<1>13. ASSUME NEW w \in Workers, WorkerThrows(w)
     PROVE  BarrierInv'
    BY <1>13 DEF WorkerThrows, WorkerGoes, BarrierInv, BarrierBeforeSend, Sending,
       TypeOK, shared
<1>14. ASSUME NEW w \in Workers, WorkerErrorMessage(w)
     PROVE  BarrierInv'
    BY <1>14 DEF WorkerErrorMessage, WorkerGoes, BarrierInv, BarrierBeforeSend,
       Sending, TypeOK, shared
<1>15. ASSUME NEW w \in Workers, WorkerErrorState(w)
     PROVE  BarrierInv'
    BY <1>15 DEF WorkerErrorState, WorkerGoes, BarrierInv, BarrierBeforeSend,
       Sending, TypeOK, shared
<1>16. ASSUME NEW w \in Workers, WorkerLimitMessage(w)
     PROVE  BarrierInv'
    BY <1>16 DEF WorkerLimitMessage, WorkerGoes, BarrierInv, BarrierBeforeSend,
       Sending, TypeOK, shared
<1>17. ASSUME NEW w \in Workers, WorkerLimitLoad(w)
     PROVE  BarrierInv'
    BY <1>17 DEF WorkerLimitLoad, WorkerGoes, BarrierInv, BarrierBeforeSend,
       Sending, TypeOK, shared
<1>18. ASSUME NEW w \in Workers, WorkerLimitStore(w)
     PROVE  BarrierInv'
    BY <1>18 DEF WorkerLimitStore, WorkerGoes, BarrierInv, BarrierBeforeSend,
       Sending, TypeOK, shared
<1>19. ASSUME NEW w \in Workers, WorkerSignal(w)
     PROVE  BarrierInv'
    BY <1>19 DEF WorkerSignal, WorkerGoes, BarrierInv, BarrierBeforeSend, Sending,
       TypeOK, shared
<1>20. ASSUME NEW w \in Workers, WorkerNotify(w)
     PROVE  BarrierInv'
    BY <1>20 DEF WorkerNotify, WorkerGoes, BarrierInv, BarrierBeforeSend, Sending,
       TypeOK, shared
<1>21. CASE UNCHANGED vars
    BY <1>21 DEF vars, shared, clientVars, supervisorVars, workerVars,
       BarrierInv, BarrierBeforeSend, Sending, TypeOK
<1> QED
    BY <1>1, <1>2, <1>3, <1>4, <1>5, <1>6, <1>7, <1>8, <1>9, <1>10, <1>11,
       <1>12, <1>13, <1>14, <1>15, <1>16, <1>17, <1>18, <1>19, <1>20, <1>21
    DEF Next, ClientCall, ClientStep, ServiceStep, WorkerStep, WorkerSends,
        WorkerCompletes

(* Every action keeps a requested stop ahead of the barrier.                *)
LEMMA QuietStep ==
    ASSUME TypeOK, SpawnInv, QuietInv, [Next]_vars
    PROVE  QuietInv'
<1>1. CASE CallRequestStop
    BY <1>1 DEF CallRequestStop, QuietInv, StopWins, Quiet, TypeOK, shared,
       clientVars, supervisorVars, workerVars
<1>2. ASSUME NEW op \in {"stop", "start"}, CallStop(op)
     PROVE  QuietInv'
    BY <1>2 DEF CallStop, QuietInv, StopWins, Quiet, TypeOK, shared, clientVars,
       supervisorVars, workerVars
<1>3. CASE ClientStore
    BY <1>3 DEF ClientStore, QuietInv, StopWins, Quiet, TypeOK, shared,
       clientVars, supervisorVars, workerVars
<1>4. CASE ClientSignal
    BY <1>4 DEF ClientSignal, ClientUnlock, MustNotify, QuietInv, StopWins,
       Quiet, TypeOK, shared, clientVars, supervisorVars, workerVars
<1>5. CASE ClientNotify
    BY <1>5 DEF ClientNotify, Notify, ClientUnlock, QuietInv, StopWins, Quiet,
       TypeOK, shared, clientVars, supervisorVars, workerVars
<1>6. CASE ClientJoin
    BY <1>6 DEF ClientJoin, QuietInv, StopWins, Quiet, TypeOK, shared,
       clientVars, supervisorVars, workerVars
<1>7. CASE ClientFinal
    BY <1>7 DEF ClientFinal, QuietInv, StopWins, Quiet, TypeOK, shared,
       clientVars, supervisorVars, workerVars
<1>8. CASE StartInvalid
    BY <1>8 DEF StartInvalid, QuietInv, StopWins, Quiet, TypeOK, shared,
       clientVars, supervisorVars, workerVars
<1>9. CASE StartRun
    BY <1>9 DEF StartRun, ResetRun, QuietInv, StopWins, Quiet, TypeOK
<1>10. CASE SupervisorStep
    BY <1>10, SupervisorFrame DEF SupervisorStep, SupervisorPrepare,
       SupervisorCheck, SupervisorSpawn, SupervisorSpawned, SupervisorUnwind,
       SupervisorWait, SupervisorStopWorkers, SupervisorJoin, SupervisorStamp,
       SupervisorLoad, SupervisorStore, SupervisorLeave,
       SupervisorErrorMessage, SupervisorErrorState, SupervisorErrorSignal,
       QuietInv, StopWins, Quiet, TypeOK, shared, clientVars, supervisorVars,
       workerVars
<1>11. ASSUME NEW w \in Workers, WorkerConnect(w)
     PROVE  QuietInv'
    BY <1>11 DEF WorkerConnect, WorkerGoes, QuietInv, StopWins, Quiet, TypeOK,
       clientVars, supervisorVars, shared
<1>12. ASSUME NEW w \in Workers, WorkerStamp(w)
     PROVE  QuietInv'
    BY <1>12 DEF WorkerStamp, WorkerGoes, QuietInv, StopWins, Quiet, TypeOK,
       clientVars, supervisorVars, shared
<1>13. ASSUME NEW w \in Workers, WorkerOpen(w)
     PROVE  QuietInv'
    BY <1>13 DEF WorkerOpen, WorkerGoes, QuietInv, StopWins, Quiet, TypeOK,
       clientVars, supervisorVars, shared
<1>14. ASSUME NEW w \in Workers, WorkerSpin(w)
     PROVE  QuietInv'
    BY <1>14 DEF WorkerSpin, WorkerGoes, QuietInv, StopWins, Quiet, TypeOK,
       clientVars, supervisorVars, shared
<1>15. ASSUME NEW w \in Workers, WorkerPass(w)
     PROVE  QuietInv'
    BY <1>15 DEF WorkerPass, WorkerGoes, QuietInv, StopWins, Quiet, TypeOK,
       clientVars, supervisorVars, shared
<1>16. ASSUME NEW w \in Workers, WorkerBatch(w)
     PROVE  QuietInv'
    BY <1>16 DEF WorkerBatch, WorkerGoes, QuietInv, StopWins, Quiet, TypeOK,
       clientVars, supervisorVars, shared
<1>17. ASSUME NEW w \in Workers, WorkerStops(w)
     PROVE  QuietInv'
    BY <1>17 DEF WorkerStops, WorkerGoes, QuietInv, StopWins, Quiet, TypeOK,
       clientVars, supervisorVars, shared
<1>18. ASSUME NEW w \in Workers, WorkerSent(w)
     PROVE  QuietInv'
    BY <1>18 DEF WorkerSent, WorkerGoes, QuietInv, StopWins, Quiet, TypeOK,
       clientVars, supervisorVars, shared
<1>19. ASSUME NEW w \in Workers, WorkerLimit(w)
     PROVE  QuietInv'
    BY <1>19 DEF WorkerLimit, WorkerGoes, QuietInv, StopWins, Quiet, TypeOK,
       clientVars, supervisorVars, shared
<1>20. ASSUME NEW w \in Workers, WorkerThrows(w)
     PROVE  QuietInv'
    BY <1>20 DEF WorkerThrows, WorkerGoes, QuietInv, StopWins, Quiet, TypeOK,
       clientVars, supervisorVars, shared
<1>21. ASSUME NEW w \in Workers, WorkerErrorMessage(w)
     PROVE  QuietInv'
    BY <1>21 DEF WorkerErrorMessage, WorkerGoes, QuietInv, StopWins, Quiet,
       TypeOK, clientVars, supervisorVars, shared
<1>22. ASSUME NEW w \in Workers, WorkerErrorState(w)
     PROVE  QuietInv'
    BY <1>22 DEF WorkerErrorState, WorkerGoes, QuietInv, StopWins, Quiet, TypeOK,
       clientVars, supervisorVars, shared
<1>23. ASSUME NEW w \in Workers, WorkerLimitMessage(w)
     PROVE  QuietInv'
    BY <1>23 DEF WorkerLimitMessage, WorkerGoes, QuietInv, StopWins, Quiet,
       TypeOK, clientVars, supervisorVars, shared
<1>24. ASSUME NEW w \in Workers, WorkerLimitLoad(w)
     PROVE  QuietInv'
    BY <1>24 DEF WorkerLimitLoad, WorkerGoes, QuietInv, StopWins, Quiet, TypeOK,
       clientVars, supervisorVars, shared
<1>25. ASSUME NEW w \in Workers, WorkerLimitStore(w)
     PROVE  QuietInv'
    BY <1>25 DEF WorkerLimitStore, WorkerGoes, QuietInv, StopWins, Quiet, TypeOK,
       clientVars, supervisorVars, shared
<1>26. ASSUME NEW w \in Workers, WorkerSignal(w)
     PROVE  QuietInv'
    BY <1>26 DEF WorkerSignal, MustNotify, WorkerGoes, QuietInv, StopWins, Quiet,
       TypeOK, clientVars, supervisorVars, shared
<1>27. ASSUME NEW w \in Workers, WorkerNotify(w)
     PROVE  QuietInv'
    BY <1>27 DEF WorkerNotify, Notify, WorkerGoes, QuietInv, StopWins, Quiet,
       TypeOK, clientVars, supervisorVars, shared
<1>28. CASE UNCHANGED vars
    BY <1>28 DEF vars, shared, clientVars, supervisorVars, workerVars,
       QuietInv, StopWins, Quiet, TypeOK
<1> QED
    BY <1>1, <1>2, <1>3, <1>4, <1>5, <1>6, <1>7, <1>8, <1>9, <1>10, <1>11,
       <1>12, <1>13, <1>14, <1>15, <1>16, <1>17, <1>18, <1>19, <1>20, <1>21,
       <1>22, <1>23, <1>24, <1>25, <1>26, <1>27, <1>28
    DEF Next, ClientCall, ClientStep, ServiceStep, WorkerStep, WorkerSends,
        WorkerCompletes

-----------------------------------------------------------------------------
(* Sums over the workers.  A recursive function is a CHOOSE: that one exists is
   shown by induction on the size of the sets it is applied to.             *)

(* A set of natural numbers that is not empty has a least element.          *)
LEMMA Least ==
    ASSUME NEW T \in SUBSET Nat, T # {}
    PROVE  \E m \in T : \A k \in T : ~(k < m)
<1>1. PICK m \in T : \A k \in T : ~(<<k, m>> \in OpToRel(<, Nat))
    BY NatLessThanWellFounded, WFMin
<1>2. \A k \in T : ~(k < m)
    BY <1>1 DEF OpToRel
<1> QED
    BY <1>2

(* What holds of 0 and of each successor holds of every natural number.     *)
LEMMA Induction ==
    ASSUME NEW T, 0 \in T, \A n \in Nat : n \in T => n + 1 \in T
    PROVE  Nat \subseteq T
<1> SUFFICES ASSUME Nat \ T # {} PROVE FALSE
    OBVIOUS
<1>1. PICK m \in Nat \ T : \A k \in Nat \ T : ~(k < m)
    BY Least
<1>2. m # 0 /\ m - 1 \in Nat
    OBVIOUS
<1>3. m - 1 \in T
    BY <1>1, <1>2
<1> QED
    BY <1>2, <1>3

Chosen(s) == CHOOSE x \in s : TRUE

(* The sums of f over the sets of workers, as MapThenSumSet defines them.   *)
SumBody(f, g, s) == IF s = {} THEN 0 ELSE f[Chosen(s)] + g[s \ {Chosen(s)}]
Sums(f) == CHOOSE g : g = [s \in SUBSET Workers |-> SumBody(f, g, s)]

LEMMA SumOverIs ==
    ASSUME NEW f
    PROVE  SumOver(f) = Sums(f)[Workers]
BY DEF SumOver, MapThenSumSet, MapThenFoldSet, Sums, SumBody, Chosen

LEMMA SmallerSet ==
    ASSUME NEW s \in SUBSET Workers, s # {}
    PROVE  /\ Chosen(s) \in s /\ s \ {Chosen(s)} \in SUBSET Workers
           /\ Cardinality(s) \in Nat /\ Cardinality(s) <= N
           /\ Cardinality(s \ {Chosen(s)}) = Cardinality(s) - 1
<1>1. Chosen(s) \in s
    BY DEF Chosen
<1>2. IsFiniteSet(Workers) /\ Cardinality(Workers) = N
    BY FS_Interval, StressTestAssumption DEF Workers
<1>3. IsFiniteSet(s) /\ Cardinality(s) <= N
    BY <1>2, FS_Subset
<1> QED
    BY <1>1, <1>3, FS_RemoveElement, FS_CardinalityType

(* What holds of a set of workers as soon as it holds of the set without its
   chosen worker holds of every set of workers.                             *)
LEMMA SetInduction ==
    ASSUME NEW C,
           \A s \in SUBSET Workers : (s # {} => s \ {Chosen(s)} \in C) => s \in C
    PROVE  SUBSET Workers \subseteq C
<1> DEFINE Sizes == {Cardinality(s) : s \in (SUBSET Workers) \ C}
<1> SUFFICES ASSUME (SUBSET Workers) \ C # {} PROVE FALSE
    OBVIOUS
<1>1. Sizes \in SUBSET Nat /\ Sizes # {}
    <2>1. IsFiniteSet(Workers)
        BY FS_Interval, StressTestAssumption DEF Workers
    <2> QED BY <2>1, FS_Subset, FS_CardinalityType
<1>2. PICK m \in Sizes : \A k \in Sizes : ~(k < m)
    <2> HIDE DEF Sizes
    <2> QED BY <1>1, Least
<1>3. PICK s \in (SUBSET Workers) \ C : m = Cardinality(s)
    BY <1>2
<1>4. s # {} /\ s \ {Chosen(s)} \notin C
    OBVIOUS
<1>5. Cardinality(s \ {Chosen(s)}) \in Sizes /\ Cardinality(s \ {Chosen(s)}) < m
    BY <1>3, <1>4, SmallerSet
<1> QED
    BY <1>2, <1>5

(* These sums exist: by induction on the size of the sets.                  *)
LEMMA SumsDefined ==
    ASSUME NEW f
    PROVE  \A s \in SUBSET Workers : Sums(f)[s] = SumBody(f, Sums(f), s)
<1> DEFINE Good(g, n) == \A s \in SUBSET Workers : Cardinality(s) <= n => g[s] = SumBody(f, g, s)
           Maps == {n \in Nat : \E g : Good(g, n)}
<1>1. 0 \in Maps
    <2> DEFINE g == [s \in SUBSET Workers |-> 0]
    <2>1. \A s \in SUBSET Workers : Cardinality(s) <= 0 => s = {}
        <3> SUFFICES ASSUME NEW s \in SUBSET Workers, Cardinality(s) <= 0, s # {} PROVE FALSE
            OBVIOUS
        <3>1. s \ {Chosen(s)} \in SUBSET Workers
            OBVIOUS
        <3>2. IsFiniteSet(Workers)
            BY FS_Interval, StressTestAssumption DEF Workers
        <3>3. Cardinality(s \ {Chosen(s)}) \in Nat
            BY <3>2, FS_Subset, FS_CardinalityType
        <3> QED
            BY <3>3, SmallerSet
    <2>2. Good(g, 0)
        BY <2>1 DEF SumBody
    <2> QED
        BY <2>2
<1>2. ASSUME NEW n \in Nat, n \in Maps
      PROVE  n + 1 \in Maps
    <2>1. PICK g : Good(g, n)
        BY <1>2
    <2> DEFINE h == [s \in SUBSET Workers |-> SumBody(f, g, s)]
    <2>2. ASSUME NEW s \in SUBSET Workers, Cardinality(s) <= n + 1
          PROVE  h[s] = SumBody(f, h, s)
        <3>1. CASE s = {}
            BY <3>1 DEF SumBody
        <3>2. CASE s # {}
            <4> DEFINE r == s \ {Chosen(s)}
            <4>1. r \in SUBSET Workers /\ Cardinality(r) <= n
                BY <2>2, <3>2, SmallerSet
            <4>2. h[r] = g[r]
                BY <2>1, <4>1
            <4> QED
                BY <3>2, <4>2 DEF SumBody
        <3> QED BY <3>1, <3>2
    <2>3. Good(h, n + 1)
        BY <2>2
    <2> HIDE DEF Good
    <2> QED
        BY <2>3
<1>3. N \in Maps
    BY <1>1, <1>2, Induction, StressTestAssumption
<1>4. PICK g : Good(g, N)
    BY <1>3
<1> DEFINE h == [s \in SUBSET Workers |-> g[s]]
<1>5. h = [s \in SUBSET Workers |-> SumBody(f, h, s)]
    <2>1. ASSUME NEW s \in SUBSET Workers
          PROVE  h[s] = SumBody(f, h, s)
        <3>1. CASE s = {}
            <4>1. Cardinality(s) <= N
                BY <3>1, FS_EmptySet, StressTestAssumption
            <4> QED BY <1>4, <3>1, <4>1 DEF SumBody
        <3>2. CASE s # {}
            BY <1>4, <3>2, SmallerSet DEF SumBody
        <3> QED BY <3>1, <3>2
    <2> QED BY <2>1
<1> HIDE DEF h
<1>6. Sums(f) = [s \in SUBSET Workers |-> SumBody(f, Sums(f), s)]
    BY <1>5 DEF Sums
<1> QED
    BY <1>6

(* The sums of f and h over s differ by what h has more at w.               *)
SumsDiffer(f, h, w, s) ==
    /\ Sums(f)[s] \in Nat
    /\ w \in s => Sums(h)[s] = Sums(f)[s] + h[w] - f[w]
    /\ w \notin s => Sums(h)[s] = Sums(f)[s]

(* Changing f at one worker changes its sums by the difference.             *)
LEMMA SumsUpdate ==
    ASSUME NEW f \in [Workers -> Nat], NEW w \in Workers, NEW n \in Nat,
           NEW h, h = [f EXCEPT ![w] = n]
    PROVE  SumsDiffer(f, h, w, Workers)
<1> DEFINE Good(s) == SumsDiffer(f, h, w, s)
           C == {s \in SUBSET Workers : Good(s)}
<1>0. \A s \in SUBSET Workers : /\ Sums(f)[s] = SumBody(f, Sums(f), s)
                                 /\ Sums(h)[s] = SumBody(h, Sums(h), s)
    BY SumsDefined
<1>1. ASSUME NEW s \in SUBSET Workers, s = {}
      PROVE  Good(s)
    <2>1. w \notin s
        BY <1>1
    <2>2. Sums(f)[s] = 0 /\ Sums(h)[s] = 0
        BY <1>0, <1>1 DEF SumBody
    <2> QED BY <2>1, <2>2 DEF SumsDiffer
<1>2. ASSUME NEW s \in SUBSET Workers, s # {}, Good(s \ {Chosen(s)})
      PROVE  Good(s)
    <2> DEFINE x == Chosen(s)
               r == s \ {x}
    <2>1. x \in s /\ x \in Workers /\ r \in SUBSET Workers
        BY <1>2, SmallerSet
    <2>2. Sums(f)[s] = f[x] + Sums(f)[r] /\ Sums(h)[s] = h[x] + Sums(h)[r]
        BY <1>0, <1>2 DEF SumBody
    <2>3. f[x] \in Nat /\ h[x] \in Nat /\ h[w] \in Nat /\ f[w] \in Nat
          /\ x # w => h[x] = f[x]
        BY <2>1
    <2>4. w \in r <=> w \in s /\ w # x
        OBVIOUS
    <2> HIDE DEF x, r
    <2>5. /\ Sums(f)[r] \in Nat
          /\ w \in r => Sums(h)[r] = Sums(f)[r] + h[w] - f[w]
          /\ w \notin r => Sums(h)[r] = Sums(f)[r]
        BY <1>2 DEF x, r, SumsDiffer
    <2>6. CASE x = w
        BY <2>1, <2>2, <2>3, <2>4, <2>5, <2>6 DEF SumsDiffer
    <2>7. CASE x # w
        BY <2>1, <2>2, <2>3, <2>4, <2>5, <2>7 DEF SumsDiffer
    <2> QED BY <2>6, <2>7
<1>3. SUBSET Workers \subseteq C
    <2>1. \A s \in SUBSET Workers : (s # {} => s \ {Chosen(s)} \in C) => s \in C
        BY <1>1, <1>2
    <2> HIDE DEF C
    <2> QED BY <2>1, SetInduction
<1> QED
    BY <1>3

(* Zero everywhere sums to zero.                                            *)
LEMMA SumOfZeros ==
    ASSUME NEW f, \A w \in Workers : f[w] = 0
    PROVE  SumOver(f) = 0
<1> DEFINE C == {s \in SUBSET Workers : Sums(f)[s] = 0}
<1>1. ASSUME NEW s \in SUBSET Workers, s # {} => s \ {Chosen(s)} \in C
      PROVE  s \in C
    <2>1. Sums(f)[s] = SumBody(f, Sums(f), s)
        BY SumsDefined
    <2>2. s # {} => Chosen(s) \in Workers
        BY SmallerSet
    <2> QED BY <1>1, <2>1, <2>2 DEF SumBody
<1>2. SUBSET Workers \subseteq C
    <2> HIDE DEF C
    <2> QED BY <1>1, SetInduction
<1> QED
    BY <1>2, SumOverIs

(* What an update of one worker does to the sum.                            *)
LEMMA SumUpdate ==
    ASSUME NEW f \in [Workers -> Nat], NEW w \in Workers, NEW n \in Nat
    PROVE  /\ SumOver(f) \in Nat
           /\ SumOver([f EXCEPT ![w] = n]) = SumOver(f) + n - f[w]
<1>1. f[w] \in Nat /\ Workers \in SUBSET Workers
    OBVIOUS
<1> DEFINE h == [f EXCEPT ![w] = n]
<1>2. SumsDiffer(f, h, w, Workers)
    BY SumsUpdate
<1>3. h[w] = n
    OBVIOUS
<1>4. SumOver(f) \in Nat /\ SumOver(h) = SumOver(f) + n - f[w]
    <2> HIDE DEF h
    <2> QED BY <1>1, <1>2, <1>3, SumOverIs DEF SumsDiffer
<1> QED
    BY <1>4

(* Sums of natural numbers are natural numbers.                             *)
LEMMA SumIsNatural ==
    ASSUME NEW f \in [Workers -> Nat]
    PROVE  SumOver(f) \in Nat
<1>1. 1 \in Workers
    BY StressTestAssumption DEF Workers
<1> QED
    BY <1>1, SumUpdate

-----------------------------------------------------------------------------
(* A step of worker w that sends `taken` more events and leaves `kept` pending
   keeps the balance when it publishes the rest.                            *)
LEMMA CountMove ==
    ASSUME TypeOK, CountInv, NEW w \in Workers, NEW taken \in Nat, NEW kept \in Nat,
           NEW published \in Nat,
           sent' = [sent EXCEPT ![w] = @ + taken],
           local' = [local EXCEPT ![w] = kept], total' = total + published,
           published + kept <= local[w] + taken,
           send_errors' = 0 => send_errors = 0 /\ published + kept = local[w] + taken
    PROVE  /\ total' + SumOver(local') <= SumOver(sent')
           /\ send_errors' = 0 => total' + SumOver(local') = SumOver(sent')
<1>1. /\ total \in Nat /\ local \in [Workers -> Nat] /\ sent \in [Workers -> Nat]
      /\ local[w] \in Nat /\ sent[w] \in Nat /\ sent[w] + taken \in Nat
    BY DEF TypeOK
<1>2. SumOver(local) \in Nat /\ SumOver(local') = SumOver(local) + kept - local[w]
    BY <1>1, SumUpdate
<1>3. SumOver(sent) \in Nat /\ SumOver(sent') = SumOver(sent) + taken
    <2>1. SumOver([sent EXCEPT ![w] = sent[w] + taken])
             = SumOver(sent) + (sent[w] + taken) - sent[w]
        BY <1>1, SumUpdate
    <2>2. SumOver(sent) \in Nat
        BY <1>1, SumUpdate
    <2> QED BY <1>1, <2>1, <2>2
<1>4. /\ total + SumOver(local) <= SumOver(sent)
      /\ send_errors = 0 => total + SumOver(local) = SumOver(sent)
    BY DEF CountInv
<1> QED
    BY <1>1, <1>2, <1>3, <1>4

(* A step that leaves the counters alone keeps the balance.                 *)
LEMMA CountFrame ==
    ASSUME CountInv, UNCHANGED <<total, local, sent>>,
           send_errors' = 0 => send_errors = 0,
           \A w \in Workers : Sending(w) => Sending(w)'
    PROVE  CountInv'
BY DEF CountInv

(* Every action keeps the balance of the counters.                          *)
LEMMA CountStep ==
    ASSUME TypeOK, SpawnInv, CountInv, [Next]_vars
    PROVE  CountInv'
<1>1. CASE ClientCall \/ (ClientStep /\ ~StartRun)
    <2>1. UNCHANGED <<total, local, sent, send_errors, wpc>>
        BY <1>1 DEF ClientCall, ClientStep, CallRequestStop, CallStop, ClientStore,
           ClientSignal, ClientNotify, ClientJoin, ClientFinal, StartInvalid,
           shared, workerVars
    <2> QED
        BY <2>1, CountFrame DEF Sending
<1>2. CASE StartRun
    <2>1. /\ total' = 0 /\ \A w \in Workers : local'[w] = 0 /\ sent'[w] = 0
        BY <1>2 DEF StartRun, ResetRun
    <2>2. SumOver(local') = 0 /\ SumOver(sent') = 0
        BY <2>1, SumOfZeros
    <2>3. total' + SumOver(local') = SumOver(sent')
        BY <2>1, <2>2
    <2> QED
        BY <2>1, <2>2, <2>3 DEF CountInv
<1>3. CASE SupervisorStep
    <2>1. UNCHANGED <<total, local, sent, send_errors>>
        BY <1>3 DEF SupervisorStep, SupervisorPrepare,
           SupervisorCheck, SupervisorSpawn, SupervisorSpawned, SupervisorUnwind,
           SupervisorWait, SupervisorStopWorkers, SupervisorJoin, SupervisorStamp,
           SupervisorLoad, SupervisorStore, SupervisorLeave,
           SupervisorErrorMessage, SupervisorErrorState, SupervisorErrorSignal,
           shared, workerVars
    <2>2. \A w \in Workers : Sending(w) => Sending(w)'
        BY <1>3, SupervisorFrame DEF Sending
    <2> QED
        BY <2>1, <2>2, CountFrame
<1>4. ASSUME NEW w \in Workers, WorkerStops(w) \/ WorkerLimit(w)
      PROVE  CountInv'
    <2>1. /\ total' = total + local[w] /\ local' = [local EXCEPT ![w] = 0]
          /\ UNCHANGED <<sent, send_errors>>
          /\ wpc' \in [Workers -> WorkerPlaces]
          /\ \A v \in Workers \ {w} : wpc'[v] = wpc[v]
        BY <1>4 DEF WorkerStops, WorkerLimit, Flush, WorkerGoes, WorkerPlaces, TypeOK
    <2>2. /\ sent' = [sent EXCEPT ![w] = @ + 0] /\ local[w] \in Nat
          /\ local[w] + 0 <= local[w] + 0
          /\ send_errors' = 0 => send_errors = 0 /\ local[w] + 0 = local[w] + 0
        BY <2>1 DEF TypeOK
    <2>3. /\ total' + SumOver(local') <= SumOver(sent')
          /\ send_errors' = 0 => total' + SumOver(local') = SumOver(sent')
        BY <2>1, <2>2, CountMove
    <2>4. \A v \in Workers : ~Sending(v)' => local'[v] = 0
        BY <2>1 DEF CountInv, Sending, TypeOK
    <2> QED
        BY <2>3, <2>4 DEF CountInv
<1>5. ASSUME NEW w \in Workers, WorkerThrows(w)
      PROVE  CountInv'
    <2>1. /\ total' = total + local[w] /\ local' = [local EXCEPT ![w] = 0]
          /\ send_errors' = send_errors + 1
          /\ \A v \in Workers \ {w} : wpc'[v] = wpc[v]
        BY <1>5 DEF WorkerThrows, Flush, WorkerGoes, TypeOK
    <2>2. \E taken \in Nat : sent' = [sent EXCEPT ![w] = @ + taken]
        <3>1. CASE UNCHANGED sent
            <4>1. sent' = [sent EXCEPT ![w] = @ + 0]
                BY <3>1 DEF TypeOK
            <4> QED BY <4>1
        <3>2. CASE ~UNCHANGED sent
            BY <1>5, <3>2 DEF WorkerThrows
        <3> QED BY <3>1, <3>2
    <2>3. PICK taken \in Nat : sent' = [sent EXCEPT ![w] = @ + taken]
        BY <2>2
    <2>4. send_errors' # 0 /\ local[w] \in Nat /\ local[w] + 0 <= local[w] + taken
        BY <2>1, <2>3 DEF TypeOK
    <2>5. /\ total' + SumOver(local') <= SumOver(sent')
          /\ send_errors' = 0 => total' + SumOver(local') = SumOver(sent')
        BY <2>1, <2>3, <2>4, CountMove
    <2>6. \A v \in Workers : ~Sending(v)' => local'[v] = 0
        BY <2>1 DEF CountInv, Sending, TypeOK
    <2> QED
        BY <2>5, <2>6 DEF CountInv
<1>6. ASSUME NEW w \in Workers, WorkerSent(w)
      PROVE  CountInv'
    <2>1. PICK events \in 1..MaxBatch :
              /\ sent' = [sent EXCEPT ![w] = @ + events]
              /\ IF FileProtocol \/ local[w] + events >= PublishEvents
                    THEN Flush(w, local[w] + events)
                    ELSE /\ local' = [local EXCEPT ![w] = @ + events]
                         /\ UNCHANGED total
        BY <1>6 DEF WorkerSent
    <2>2. UNCHANGED send_errors /\ wpc[w] = "send" /\ wpc' = [wpc EXCEPT ![w] = "loop"]
        BY <1>6 DEF WorkerSent, WorkerGoes
    <2>3. total \in Nat /\ local[w] \in Nat /\ events \in Nat
        BY DEF TypeOK
    <2>4. /\ total' + SumOver(local') <= SumOver(sent')
          /\ send_errors' = 0 => total' + SumOver(local') = SumOver(sent')
        <3>1. CASE FileProtocol \/ local[w] + events >= PublishEvents
            <4>1. total' = total + (local[w] + events) /\ local' = [local EXCEPT ![w] = 0]
                BY <2>1, <3>1 DEF Flush
            <4>2. /\ local[w] + events \in Nat
                  /\ (local[w] + events) + 0 <= local[w] + events
                  /\ send_errors' = 0 => /\ send_errors = 0
                                         /\ (local[w] + events) + 0 = local[w] + events
                BY <2>2, <2>3
            <4> QED BY <2>1, <2>3, <4>1, <4>2, CountMove
        <3>2. CASE ~(FileProtocol \/ local[w] + events >= PublishEvents)
            <4>1. total' = total + 0 /\ local' = [local EXCEPT ![w] = local[w] + events]
                BY <2>1, <2>3, <3>2
            <4>2. /\ local[w] + events \in Nat
                  /\ 0 + (local[w] + events) <= local[w] + events
                  /\ send_errors' = 0 => /\ send_errors = 0
                                         /\ 0 + (local[w] + events) = local[w] + events
                BY <2>2, <2>3
            <4> QED BY <2>1, <2>3, <4>1, <4>2, CountMove
        <3> QED BY <3>1, <3>2
    <2>5. \A v \in Workers : ~Sending(v)' => local'[v] = 0
        BY <2>1, <2>2 DEF Flush, CountInv, Sending, TypeOK
    <2> QED
        BY <2>4, <2>5 DEF CountInv
<1>7. ASSUME NEW w \in Workers, WorkerStep(w),
             ~(WorkerStops(w) \/ WorkerLimit(w) \/ WorkerThrows(w) \/ WorkerSent(w))
      PROVE  CountInv'
    <2>1. UNCHANGED <<total, local, sent, send_errors>>
        BY <1>7 DEF WorkerStep, WorkerSends, WorkerCompletes, WorkerConnect,
           WorkerStamp, WorkerOpen, WorkerSpin, WorkerPass, WorkerBatch,
           WorkerErrorMessage, WorkerErrorState, WorkerLimitMessage,
           WorkerLimitLoad, WorkerLimitStore, WorkerSignal, WorkerNotify, shared
    <2>2. \A v \in Workers : Sending(v) => Sending(v)'
        <3>1. \A v \in Workers \ {w} : wpc'[v] = wpc[v]
            BY <1>7, WorkerFrame
        <3>2. Sending(w) => wpc'[w] = "send"
            BY <1>7 DEF WorkerStep, WorkerSends, WorkerCompletes, WorkerConnect,
               WorkerStamp, WorkerOpen, WorkerSpin, WorkerPass, WorkerBatch,
               WorkerErrorMessage, WorkerErrorState, WorkerLimitMessage,
               WorkerLimitLoad, WorkerLimitStore, WorkerSignal, WorkerNotify,
               WorkerGoes, Sending, TypeOK
        <3> QED BY <3>1, <3>2 DEF Sending
    <2> QED
        BY <2>1, <2>2, CountFrame
<1>8. CASE UNCHANGED vars
    <2>1. UNCHANGED <<total, local, sent, send_errors, wpc>>
        BY <1>8 DEF vars, shared, workerVars
    <2> QED
        BY <2>1, CountFrame DEF Sending
<1> QED
    BY <1>1, <1>2, <1>3, <1>4, <1>5, <1>6, <1>7, <1>8 DEF Next, ClientStep, ServiceStep

-----------------------------------------------------------------------------
(* The inductive invariant: the types and all the parts.                    *)
IInv ==
    /\ TypeOK /\ SpawnInv /\ JoinInv /\ OwnerInv /\ FinishAfterWorkers
    /\ BarrierInv /\ QuietInv /\ CountInv

(* The invariant holds before the first start().                            *)
LEMMA InitIInv == Init => IInv
<1> SUFFICES ASSUME Init PROVE IInv
    OBVIOUS
<1>1. TypeOK
    <2>1. /\ wstop \in [Workers -> BOOLEAN] /\ joinable \in BOOLEAN
          /\ started_at \in BOOLEAN /\ finished_at \in BOOLEAN
          /\ stop_requested \in BOOLEAN
          /\ last_error \in BOOLEAN /\ status_message \in BOOLEAN
        BY DEF Init
    <2>2. /\ wpc \in [Workers -> WorkerPlaces] /\ wseen \in [Workers -> States]
          /\ local \in [Workers -> Nat] /\ sent \in [Workers -> Nat]
          /\ linked \in SUBSET Workers
        BY DEF Init, WorkerPlaces, States
    <2>3. /\ state \in States /\ cseen \in States /\ sseen \in States
          /\ cpc \in ClientPlaces /\ spc \in SupervisorPlaces
          /\ cop \in {"request_stop", "stop", "start"} /\ scur \in 1..(N + 1)
          /\ send_errors \in Nat /\ connected \in Nat
          /\ total \in Nat /\ starts \in Nat
        BY DEF Init, States, ClientPlaces, SupervisorPlaces
    <2> QED
        BY <2>1, <2>2, <2>3 DEF TypeOK
<1>2. SpawnInv /\ JoinInv /\ OwnerInv /\ FinishAfterWorkers
    BY DEF Init, SpawnInv, JoinInv, OwnerInv, FinishAfterWorkers
<1>3. BarrierInv
    BY FS_EmptySet DEF Init, BarrierInv, BarrierBeforeSend, Sending
<1>4. QuietInv
    BY DEF Init, QuietInv, StopWins, Quiet
<1>5. CountInv
    <2>1. SumOver(local) = 0 /\ SumOver(sent) = 0
        BY SumOfZeros DEF Init
    <2> QED
        BY <2>1 DEF Init, CountInv
<1> QED
    BY <1>1, <1>2, <1>3, <1>4, <1>5 DEF IInv

(* Every step of the service keeps the invariant.                           *)
LEMMA InductiveStep ==
    ASSUME IInv, [Next]_vars
    PROVE  IInv'
BY TypeStep, SpawnStep, JoinStep, OwnerStep, FinishStep, BarrierStep, QuietStep,
   CountStep DEF IInv

(* Every reachable state of the service satisfies the inductive invariant.  *)
THEOREM Inductive == Spec => []IInv
<1>1. IInv /\ [Next]_vars => IInv'
    BY InductiveStep
<1> QED
    BY InitIInv, <1>1, PTL DEF Spec

(* The types of all variables, whatever the number of workers.              *)
THEOREM TypeCorrect == Spec => []TypeOK
<1>1. IInv => TypeOK
    BY DEF IInv
<1> QED
    BY Inductive, <1>1, PTL

(* No event leaves, and Running is never shown, before every worker is
   connected and the start is stamped.                                      *)
THEOREM BarrierCorrect == Spec => []BarrierBeforeSend
<1>1. IInv => BarrierBeforeSend
    BY DEF IInv, BarrierInv
<1> QED
    BY Inductive, <1>1, PTL

(* A requested stop is never overtaken by a worker that opens the barrier.  *)
THEOREM StopWinsCorrect == Spec => []StopWins
<1>1. IInv => StopWins
    BY DEF IInv, QuietInv
<1> QED
    BY Inductive, <1>1, PTL

(* After the join of stop(), and whenever no supervisor is owned, every thread
   of the run has ended.                                                    *)
THEOREM NoThreadLeft == Spec => []NoThreadOutlivesStop
<1>1. IInv => NoThreadOutlivesStop
    BY DEF IInv, NoThreadOutlivesStop, ThreadsGone, OwnerInv, SpawnInv, JoinInv
<1> QED
    BY Inductive, <1>1, PTL

(* The elapsed time is frozen after the last worker, never before.          *)
THEOREM FinishCorrect == Spec => []FinishAfterWorkers
<1>1. IInv => FinishAfterWorkers
    BY DEF IInv
<1> QED
    BY Inductive, <1>1, PTL

(* The published counter never runs ahead of the transports, and is what they
   took when a run without send errors is over.                             *)
THEOREM TotalsCorrect == Spec => []TotalsMatchTransport
<1>1. IInv => TotalsMatchTransport
    <2> SUFFICES ASSUME IInv PROVE TotalsMatchTransport
        OBVIOUS
    <2>1. SumOver(local) \in Nat /\ SumOver(sent) \in Nat /\ total \in Nat
        BY SumIsNatural DEF IInv, TypeOK
    <2>2. total + SumOver(local) <= SumOver(sent)
        BY DEF IInv, CountInv
    <2>3. ASSUME spc = "done", send_errors = 0
          PROVE  total = SumOver(sent)
        <3>1. \A w \in Workers : local[w] = 0
            BY <2>3 DEF IInv, JoinInv, CountInv, Sending
        <3>2. SumOver(local) = 0
            BY <3>1, SumOfZeros
        <3>3. total + SumOver(local) = SumOver(sent)
            BY <2>3 DEF IInv, CountInv
        <3> QED BY <2>1, <3>2, <3>3
    <2> QED
        BY <2>2, <2>3 DEF TotalsMatchTransport
<1> QED
    BY Inductive, <1>1, PTL

-----------------------------------------------------------------------------
(* The command line.                                                        *)

(* Every step that the CLI drives is a step of the service or leaves it alone. *)
LEMMA CliDrives ==
    ASSUME [CliNext]_cliAll
    PROVE  [Next]_vars
BY DEF CliNext, CliStep, cliAll, Interrupt, CliStart, CliStarted, SnapshotState,
   SnapshotMessages, CliBreak, CliAsk, CliSleep, CliStop, CliExit, Next, ClientCall

(* Failed is stored after its message, in every step of the service.        *)
LEMMA FailStep ==
    ASSUME TypeOK, SpawnInv, FailInv, [Next]_vars
    PROVE  FailInv'
<1>1. CASE ClientCall \/ (ClientStep /\ ~StartRun)
    <2>1. UNCHANGED last_error
        BY <1>1 DEF ClientCall, ClientStep, CallRequestStop, CallStop, ClientStore,
           ClientSignal, ClientNotify, ClientJoin, ClientFinal, StartInvalid, shared
    <2> QED
        BY <1>1, <2>1, ClientFrame DEF FailInv
<1>2. CASE StartRun
    BY <1>2 DEF StartRun, ResetRun, FailInv
<1>3. CASE SupervisorErrorMessage
    BY <1>3 DEF SupervisorErrorMessage, FailInv
<1>4. CASE SupervisorStep /\ ~SupervisorErrorMessage
    <2>1. /\ UNCHANGED last_error /\ spc' # "err_state"
          /\ state' = "Failed" => state = "Failed" \/ spc = "err_state"
        BY <1>4 DEF SupervisorStep, SupervisorPrepare,
           SupervisorCheck, SupervisorSpawn, SupervisorSpawned, SupervisorUnwind,
           SupervisorWait, SupervisorStopWorkers, SupervisorJoin, SupervisorStamp,
           SupervisorLoad, SupervisorStore, SupervisorLeave,
           SupervisorErrorState, SupervisorErrorSignal, shared
    <2> QED
        BY <1>4, <2>1, SupervisorFrame DEF FailInv
<1>5. ASSUME NEW w \in Workers, WorkerErrorMessage(w)
      PROVE  FailInv'
    BY <1>5 DEF WorkerErrorMessage, FailInv
<1>6. ASSUME NEW w \in Workers, WorkerStep(w), ~WorkerErrorMessage(w)
      PROVE  FailInv'
    <2>1. /\ UNCHANGED last_error /\ wpc'[w] # "err_state"
          /\ state' = "Failed" => state = "Failed" \/ wpc[w] = "err_state"
        BY <1>6 DEF WorkerStep, WorkerSends, WorkerCompletes, WorkerConnect,
           WorkerStamp, WorkerOpen, WorkerSpin, WorkerPass, WorkerBatch, WorkerStops,
           WorkerSent, WorkerLimit, WorkerThrows, WorkerErrorState, WorkerLimitMessage,
           WorkerLimitLoad, WorkerLimitStore, WorkerSignal, WorkerNotify,
           WorkerGoes, TypeOK, shared
    <2> QED
        BY <1>6, <2>1, WorkerFrame DEF FailInv
<1>7. CASE UNCHANGED vars
    BY <1>7 DEF vars, shared, supervisorVars, workerVars, FailInv
<1> QED
    BY <1>1, <1>2, <1>3, <1>4, <1>5, <1>6, <1>7 DEF Next, ClientStep, ServiceStep

(* A FILE limit and an exception exclude each other, in every step.         *)
LEMMA LimitStep ==
    ASSUME TypeOK, SpawnInv, LimitInv, [Next]_vars
    PROVE  LimitInv'
<1>0. 1 \in Workers /\ (FileProtocol => Workers = {1})
    BY DEF Workers
<1>1. CASE ClientCall \/ (ClientStep /\ ~StartRun)
    <2>1. UNCHANGED <<send_errors, status_message, wpc>>
        BY <1>1 DEF ClientCall, ClientStep, CallRequestStop, CallStop, ClientStore,
           ClientSignal, ClientNotify, ClientJoin, ClientFinal, StartInvalid, shared,
           workerVars
    <2> QED
        BY <2>1 DEF LimitInv
<1>2. CASE StartRun
    BY <1>0, <1>2 DEF StartRun, ResetRun, LimitInv
<1>3. CASE SupervisorStep
    <2>1. UNCHANGED <<send_errors, status_message>>
        BY <1>3 DEF SupervisorStep, SupervisorPrepare,
           SupervisorCheck, SupervisorSpawn, SupervisorSpawned, SupervisorUnwind,
           SupervisorWait, SupervisorStopWorkers, SupervisorJoin, SupervisorStamp,
           SupervisorLoad, SupervisorStore, SupervisorLeave, SupervisorErrorMessage,
           SupervisorErrorState, SupervisorErrorSignal, shared
    <2> QED
        BY <1>0, <1>3, <2>1, SupervisorFrame DEF LimitInv
<1>4. ASSUME NEW w \in Workers, WorkerThrows(w)
      PROVE  LimitInv'
    <2>1. /\ wpc[w] \in {"connect", "loop", "send"} /\ wpc' = [wpc EXCEPT ![w] = "err_msg"]
          /\ UNCHANGED status_message
        BY <1>4 DEF WorkerThrows, WorkerGoes
    <2>2. FileProtocol => w = 1
        BY <1>0
    <2> QED
        BY <1>0, <2>1, <2>2 DEF LimitInv, TypeOK
<1>5. ASSUME NEW w \in Workers, WorkerLimitMessage(w)
      PROVE  LimitInv'
    <2>1. /\ wpc[w] = "cmp_msg" /\ wpc' = [wpc EXCEPT ![w] = "cmp_load"]
          /\ UNCHANGED send_errors /\ send_errors \in Nat
        BY <1>5 DEF WorkerLimitMessage, WorkerGoes, TypeOK
    <2>2. FileProtocol /\ w = 1
        BY <1>0, <2>1 DEF LimitInv
    <2> QED
        BY <1>0, <2>1, <2>2 DEF LimitInv, TypeOK
<1>6. ASSUME NEW w \in Workers, WorkerStep(w), ~WorkerThrows(w), ~WorkerLimitMessage(w)
      PROVE  LimitInv'
    <2>1. UNCHANGED <<send_errors, status_message>>
        BY <1>6 DEF WorkerStep, WorkerSends, WorkerCompletes, WorkerConnect,
           WorkerStamp, WorkerOpen, WorkerSpin, WorkerPass, WorkerBatch, WorkerStops,
           WorkerSent, WorkerLimit, WorkerErrorMessage, WorkerErrorState,
           WorkerLimitLoad, WorkerLimitStore, WorkerSignal, WorkerNotify, shared
    <2>2. /\ wpc'[w] \in {"cmp_msg", "cmp_load", "cmp_store", "cmp_signal"} =>
                FileProtocol \/ wpc[w] \in {"cmp_msg", "cmp_load", "cmp_store", "cmp_signal"}
          /\ wpc[w] \in {"err_msg", "err_state", "err_signal", "notify", "done"} =>
                wpc'[w] \in {"err_msg", "err_state", "err_signal", "notify", "done"}
          /\ wpc[w] \in {"cmp_load", "cmp_store", "cmp_signal", "notify", "done"} =>
                wpc'[w] \in {"cmp_load", "cmp_store", "cmp_signal", "notify", "done"}
        BY <1>6 DEF WorkerStep, WorkerSends, WorkerCompletes, WorkerConnect,
           WorkerStamp, WorkerOpen, WorkerSpin, WorkerPass, WorkerBatch, WorkerStops,
           WorkerSent, WorkerLimit, WorkerErrorMessage, WorkerErrorState,
           WorkerLimitLoad, WorkerLimitStore, WorkerSignal, WorkerNotify,
           WorkerGoes, TypeOK
    <2>3. \A v \in Workers \ {w} : wpc'[v] = wpc[v]
        BY <1>6, WorkerFrame
    <2> QED
        BY <1>0, <2>1, <2>2, <2>3 DEF LimitInv
<1>7. CASE UNCHANGED vars
    BY <1>7 DEF vars, shared, workerVars, LimitInv
<1> QED
    BY <1>1, <1>2, <1>3, <1>4, <1>5, <1>6, <1>7 DEF Next, ClientStep, ServiceStep

(* What a step of the service's own threads leaves to run_generator.        *)
LEMMA ServiceFrame ==
    ASSUME TypeOK, SpawnInv, ServiceStep
    PROVE  /\ UNCHANGED <<cpc, cop, cseen, joinable, starts>>
           /\ last_error => last_error'
           /\ status_message => status_message'
           /\ spc = "none" => spc' = "none" /\ UNCHANGED send_errors
<1>1. CASE SupervisorStep
    BY <1>1 DEF SupervisorStep, SupervisorPrepare,
       SupervisorCheck, SupervisorSpawn, SupervisorSpawned, SupervisorUnwind,
       SupervisorWait, SupervisorStopWorkers, SupervisorJoin, SupervisorStamp,
       SupervisorLoad, SupervisorStore, SupervisorLeave, SupervisorErrorMessage,
       SupervisorErrorState, SupervisorErrorSignal, shared, clientVars
<1>2. ASSUME NEW w \in Workers, WorkerStep(w)
      PROVE  /\ UNCHANGED <<cpc, cop, cseen, joinable, starts>>
             /\ last_error => last_error'
             /\ status_message => status_message'
             /\ spc # "none"
    <2>1. spc # "none"
        BY <1>2, WorkerFrame DEF SpawnInv
    <2>2. /\ UNCHANGED <<cpc, cop, cseen, joinable, starts>>
          /\ last_error => last_error'
          /\ status_message => status_message'
        BY <1>2 DEF WorkerStep, WorkerSends, WorkerCompletes, WorkerConnect,
           WorkerStamp, WorkerOpen, WorkerSpin, WorkerPass, WorkerBatch, WorkerStops,
           WorkerSent, WorkerThrows, WorkerLimit, WorkerErrorMessage, WorkerErrorState,
           WorkerLimitMessage, WorkerLimitLoad, WorkerLimitStore, WorkerSignal,
           WorkerNotify, shared, clientVars
    <2> QED BY <2>1, <2>2
<1> QED
    BY <1>1, <1>2 DEF ServiceStep

(* Every step of the command line keeps the calls in their places.          *)
LEMMA CallStep ==
    ASSUME TypeOK, SpawnInv, OwnerInv, CallInv, [CliNext]_cliAll
    PROVE  CallInv'
<1>1. CASE Interrupt \/ CliStarted \/ SnapshotState \/ SnapshotMessages \/ CliBreak
           \/ CliSleep \/ CliExit
    BY <1>1 DEF Interrupt, CliStarted, SnapshotState, SnapshotMessages, CliBreak,
       CliSleep, CliExit, CallInv, CliPlaces, vars, shared, report, clientVars,
       supervisorVars
<1>2. CASE CliStart
    BY <1>2 DEF CliStart, CallStop, CallInv, CliPlaces, report, supervisorVars
<1>3. CASE CliAsk
    BY <1>3 DEF CliAsk, CallRequestStop, CallInv, CliPlaces, shared, report, supervisorVars
<1>4. CASE CliStop
    BY <1>4 DEF CliStop, CallStop, CallInv, CliPlaces, report, supervisorVars
<1>5. CASE ClientStep /\ ~StartRun /\ UNCHANGED cliVars
    BY <1>5 DEF ClientStep, ClientStore, ClientSignal, ClientNotify, ClientJoin,
       ClientFinal, StartInvalid, ClientUnlock, Notify, CallInv, OwnerInv, cliVars, shared,
       report, supervisorVars
<1>6. CASE StartRun /\ UNCHANGED cliVars
    BY <1>6 DEF StartRun, ResetRun, CallInv, cliVars, TypeOK
<1>7. CASE ServiceStep /\ UNCHANGED cliVars
    BY <1>7, ServiceFrame DEF CallInv, cliVars
<1>8. CASE UNCHANGED cliAll
    BY <1>8 DEF cliAll, cliVars, vars, shared, report, clientVars, supervisorVars, CallInv
<1> QED
    BY <1>1, <1>2, <1>3, <1>4, <1>5, <1>6, <1>7, <1>8 DEF CliNext, CliStep, ClientStep

(* Every step keeps what run_generator has seen true.                       *)
LEMMA SeenStep ==
    ASSUME TypeOK, SpawnInv, OwnerInv, FailInv, CallInv, SeenInv, [CliNext]_cliAll
    PROVE  SeenInv'
<1>1. CASE Interrupt \/ SnapshotState \/ SnapshotMessages \/ CliSleep \/ CliExit
    BY <1>1 DEF Interrupt, SnapshotState, SnapshotMessages, CliSleep, CliExit,
       SeenInv, FailInv, vars, shared, report, clientVars, supervisorVars
<1>2. CASE CliBreak
    BY <1>2 DEF CliBreak, CliDone, SeenInv, vars, shared, report, clientVars, supervisorVars
<1>3. CASE CliStarted
    BY <1>3 DEF CliStarted, SeenInv, CallInv, vars, shared, report, clientVars, supervisorVars
<1>4. CASE CliStart
    BY <1>4 DEF CliStart, CallStop, SeenInv, report, supervisorVars
<1>5. CASE CliAsk
    BY <1>5 DEF CliAsk, CallRequestStop, SeenInv, shared, report, supervisorVars
<1>6. CASE CliStop
    BY <1>6 DEF CliStop, CallStop, SeenInv, report, supervisorVars
<1>7. CASE ClientStep /\ ~StartRun /\ UNCHANGED cliVars
    <2>1. /\ UNCHANGED <<last_error, status_message, starts>>
          /\ ~joinable => ~joinable'
          /\ spc = "none" => spc' = "none"
        BY <1>7 DEF ClientStep, ClientStore, ClientSignal, ClientNotify, ClientJoin,
           ClientFinal, StartInvalid, ClientUnlock, Notify, OwnerInv, shared, report,
           supervisorVars
    <2> QED
        BY <1>7, <2>1 DEF SeenInv, cliVars
<1>8. CASE StartRun /\ UNCHANGED cliVars
    <2>1. lpc = "starting"
        BY <1>8 DEF StartRun, CallInv
    <2> QED
        BY <1>8, <2>1 DEF SeenInv, cliVars
<1>9. CASE ServiceStep /\ UNCHANGED cliVars
    BY <1>9, ServiceFrame DEF SeenInv, cliVars
<1>10. CASE UNCHANGED cliAll
    BY <1>10 DEF cliAll, cliVars, vars, shared, report, clientVars, supervisorVars, SeenInv
<1> QED
    BY <1>1, <1>2, <1>3, <1>4, <1>5, <1>6, <1>7, <1>8, <1>9, <1>10
    DEF CliNext, CliStep, ClientStep

(* The inductive invariant of the command line over that of the service.    *)
CliInv == IInv /\ FailInv /\ LimitInv /\ CallInv /\ SeenInv

(* Every reachable state of the command line satisfies it.                  *)
THEOREM CliInductive == CliSpec => []CliInv
<1>1. CliInit => CliInv
    <2> SUFFICES ASSUME CliInit PROVE CliInv
        OBVIOUS
    <2>1. IInv
        BY InitIInv DEF CliInit
    <2>2. 1 \in Workers
        BY DEF Workers
    <2>3. FailInv /\ LimitInv
        BY <2>2 DEF CliInit, Init, FailInv, LimitInv
    <2>4. CallInv /\ SeenInv
        BY DEF CliInit, Init, CallInv, SeenInv, CliPlaces
    <2> QED
        BY <2>1, <2>3, <2>4 DEF CliInv
<1>2. CliInv /\ [CliNext]_cliAll => CliInv'
    <2> SUFFICES ASSUME CliInv, [CliNext]_cliAll PROVE CliInv'
        OBVIOUS
    <2>1. [Next]_vars
        BY CliDrives
    <2>2. IInv'
        BY <2>1, InductiveStep DEF CliInv
    <2>3. FailInv' /\ LimitInv'
        BY <2>1, FailStep, LimitStep DEF CliInv, IInv
    <2>4. CallInv' /\ SeenInv'
        BY CallStep, SeenStep DEF CliInv, IInv
    <2> QED
        BY <2>2, <2>3, <2>4 DEF CliInv
<1> QED
    BY <1>1, <1>2, PTL DEF CliSpec

(* Exit code 1 has a reason, and a run that nobody interrupts hides no send
   error behind 0.                                                          *)
THEOREM ExitCodeCorrect == CliSpec => []ExitCodeHasReason
<1>1. CliInv => ExitCodeHasReason
    <2> SUFFICES ASSUME CliInv PROVE ExitCodeHasReason
        OBVIOUS
    <2>1. result = 1 => last_error \/ spc = "none"
        BY DEF CliInv, SeenInv
    <2>2. lpc = "exited" /\ send_errors > 0 /\ ~interrupt => result = 1
        BY DEF CliInv, SeenInv, CallInv, LimitInv
    <2> QED
        BY <2>1, <2>2 DEF ExitCodeHasReason
<1> QED
    BY CliInductive, <1>1, PTL
=============================================================================
