---------------------------- MODULE MCStressTest ----------------------------
(* StressTest for TLC on runs over the network: only a FILE transport returns
   a limit from send(), so that no worker completes the run there.  The runs
   that a FILE limit completes are checked with the CLI, in MCCliRun.        *)
EXTENDS StressTest

ASSUME NetworkAssumption == ~FileProtocol

NetworkNext ==
    \/ ClientCall \/ ClientStep \/ SupervisorStep
    \/ \E w \in Workers : WorkerSends(w)

NetworkSpec ==
    /\ Init /\ [][NetworkNext]_vars
    /\ WF_vars(ClientStep) /\ ServiceFairness
=============================================================================
