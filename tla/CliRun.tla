-------------------------------- MODULE CliRun --------------------------------
(***************************************************************************)
(* CliApp::run_generator driving StressTestService: start the run, poll     *)
(* snapshot() every 50 ms, ask for a stop on Ctrl+C or when --duration is   *)
(* over, leave the loop on Failed or Stopped, stop the service, exit.  The  *)
(* CLI's main thread is the client thread of StressTest, so its own steps   *)
(* are taken only while no service call is in progress (cpc = "idle").      *)
(***************************************************************************)
EXTENDS StressTest

CONSTANT AllowInterrupt  \* whether Ctrl+C or the end of --duration may come

ASSUME CliRunAssumption == AllowInterrupt \in BOOLEAN

VARIABLES
    lpc,          \* place of run_generator
    interrupt,    \* signal_stop_requested, or the duration is over
    asked,        \* the local stop_requested
    seen_state,   \* stats.state of the last snapshot
    seen_status,  \* stats.status_message of the last snapshot is not empty
    result        \* the exit code

cliVars == <<lpc, interrupt, asked, seen_state, seen_status, result>>
cliAll == <<vars, cliVars>>

CliPlaces == {"start", "starting", "poll", "snapshot", "decide", "stop", "stopping", "exited"}

CliInit ==
    /\ Init
    /\ lpc = "start" /\ interrupt = FALSE /\ asked = FALSE
    /\ seen_state = "Stopped" /\ seen_status = FALSE /\ result = 0

-----------------------------------------------------------------------------
(* The signal handler, or the clock.                                        *)
Interrupt ==
    /\ AllowInterrupt /\ ~interrupt /\ lpc \notin {"start", "exited"}
    /\ interrupt' = TRUE
    /\ UNCHANGED <<vars, lpc, asked, seen_state, seen_status, result>>

CliStart ==
    /\ lpc = "start"
    /\ CallStop("start")
    /\ lpc' = "starting"
    /\ UNCHANGED <<interrupt, asked, seen_state, seen_status, result>>

(* start() returned, or threw: CliApp::run reports it and exits with 2 for an
   invalid configuration, else with 1, and the destructor of the service
   stops what there is.                                                     *)
CliStarted ==
    /\ lpc = "starting" /\ cpc = "idle"
    /\ IF joinable THEN lpc' = "poll" /\ UNCHANGED result
                   ELSE lpc' = "stop" /\ result' = IF starts = 0 THEN 2 ELSE 1
    /\ UNCHANGED <<vars, interrupt, asked, seen_state, seen_status>>

(* snapshot() reads state_ first ...                                        *)
SnapshotState ==
    /\ lpc = "poll" /\ cpc = "idle"
    /\ seen_state' = state
    /\ lpc' = "snapshot"
    /\ UNCHANGED <<vars, interrupt, asked, seen_status, result>>

(* ... and the messages last.                                               *)
SnapshotMessages ==
    /\ lpc = "snapshot"
    /\ seen_status' = status_message
    /\ lpc' = "decide"
    /\ UNCHANGED <<vars, interrupt, asked, seen_state, result>>

(* Mutant: reaching a limit is not looked at.                               *)
CliDoneIgnoresStatus == seen_state = "Failed" \/ (seen_state = "Stopped" /\ asked)

(* The three ways out of the loop.                                          *)
CliDone ==
    \/ seen_state = "Failed"
    \/ seen_state = "Stopped" /\ asked
    \/ seen_status /\ seen_state = "Stopped"

(* Mutant: the failure does not reach the exit code.                        *)
CliBreakZero ==
    /\ lpc = "decide" /\ CliDone
    /\ lpc' = "stop"
    /\ UNCHANGED <<vars, interrupt, asked, seen_state, seen_status, result>>

(* break, with result = 1 for Failed.                                       *)
CliBreak ==
    /\ lpc = "decide" /\ CliDone
    /\ result' = IF seen_state = "Failed" THEN 1 ELSE result
    /\ lpc' = "stop"
    /\ UNCHANGED <<vars, interrupt, asked, seen_state, seen_status>>

(* The first poll that sees the interrupt calls request_stop(), once.       *)
CliAsk ==
    /\ lpc = "decide" /\ ~CliDone /\ ~asked /\ interrupt
    /\ CallRequestStop
    /\ asked' = TRUE
    /\ lpc' = "poll"
    /\ UNCHANGED <<interrupt, seen_state, seen_status, result>>

CliSleep ==
    /\ lpc = "decide" /\ ~CliDone /\ (asked \/ ~interrupt)
    /\ lpc' = "poll"
    /\ UNCHANGED <<vars, interrupt, asked, seen_state, seen_status, result>>

(* stress_service_.stop(), or the destructor's after an exception.          *)
CliStop ==
    /\ lpc = "stop"
    /\ CallStop("stop")
    /\ lpc' = "stopping"
    /\ UNCHANGED <<interrupt, asked, seen_state, seen_status, result>>

CliExit ==
    /\ lpc = "stopping" /\ cpc = "idle"
    /\ lpc' = "exited"
    /\ UNCHANGED <<vars, interrupt, asked, seen_state, seen_status, result>>

CliStep ==
    \/ CliStart \/ CliStarted \/ SnapshotState \/ SnapshotMessages
    \/ CliBreak \/ CliAsk \/ CliSleep \/ CliStop \/ CliExit

CliNext ==
    \/ Interrupt
    \/ CliStep
    \/ (ClientStep \/ ServiceStep) /\ UNCHANGED cliVars

CliSpec ==
    /\ CliInit /\ [][CliNext]_cliAll
    /\ WF_cliAll(CliStep) /\ WF_vars(ClientStep) /\ ServiceFairness

-----------------------------------------------------------------------------
(* Exit code 1 always has a reason, an error message or a supervisor thread
   that could not be created, and a run nobody interrupts never hides a send
   error behind 0 (README:307: local send errors are reported as failures).
   After Ctrl+C it may: request_stop() can overwrite Failed.                *)
ExitCodeHasReason ==
    /\ result = 1 => last_error \/ spc = "none"
    /\ lpc = "exited" /\ send_errors > 0 /\ ~interrupt => result = 1

(* A FILE limit or a failure ends the process that nobody interrupts, and
   Ctrl+C or the end of --duration ends it when neither meets it.           *)
RunComesToExit ==
    /\ (status_message \/ last_error) ~> (lpc = "exited" \/ interrupt)
    /\ interrupt ~> (lpc = "exited" \/ status_message \/ last_error)

(* The process runs until Ctrl+C or until a FILE limit is reached
   (README:401): reaching the limit ends it, interrupted or not.            *)
ExitsOnLimit == status_message ~> (lpc = "exited")

-----------------------------------------------------------------------------
(* The inductive strengthening of ExitCodeHasReason, in parts.              *)

(* The service calls that are in progress are the ones run_generator made: a
   new run begins only inside its start().                                  *)
CallInv ==
    /\ lpc \in CliPlaces
    /\ cpc = "reset" => cop = "start"
    /\ cpc # "idle" /\ cop = "start" => lpc = "starting"
    /\ lpc = "start" => cpc = "idle"
    /\ lpc = "starting" => cpc \in {"idle", "reset"}
    /\ lpc \in {"start", "starting"} /\ (cpc = "reset" \/ ~joinable) => ~joinable /\ spc = "none"
    /\ lpc = "start" => ~joinable
    /\ starts = 0 => send_errors = 0 /\ spc = "none"

(* Failed is stored after its message.                                      *)
FailInv ==
    /\ state = "Failed" \/ spc = "err_state" => last_error
    /\ \A w \in Workers : wpc[w] = "err_state" => last_error

(* A FILE limit and an exception exclude each other: FILE has one worker.   *)
LimitInv ==
    /\ \A w \in Workers :
          wpc[w] \in {"cmp_msg", "cmp_load", "cmp_store", "cmp_signal"} => FileProtocol
    /\ FileProtocol /\ send_errors > 0 =>
          wpc[1] \in {"err_msg", "err_state", "err_signal", "notify", "done"}
    /\ status_message =>
          /\ FileProtocol /\ send_errors = 0
          /\ wpc[1] \in {"cmp_load", "cmp_store", "cmp_signal", "notify", "done"}

(* What run_generator has seen is so, and why it left its loop.             *)
SeenInv ==
    /\ asked => interrupt
    /\ lpc \in {"start", "starting"} =>
          seen_state = "Stopped" /\ ~seen_status /\ ~asked /\ result = 0
    /\ seen_state = "Failed" => last_error
    /\ seen_status => status_message
    /\ result = 1 => last_error \/ (spc = "none" /\ ~joinable)
    /\ lpc \in {"stop", "stopping", "exited"} =>
          result = 1 \/ starts = 0 \/ status_message \/ asked
=============================================================================
