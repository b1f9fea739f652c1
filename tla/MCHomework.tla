------------------------------- MODULE MCHomework -----------------------------
(***************************************************************************)
(* Every program but the licence system: those of MCPrograms and the three *)
(* that run threads.  A behaviour is a run of one of them; the others are  *)
(* not started.                                                            *)
(***************************************************************************)
EXTENDS MCPrograms, CsmaCd, StopAndWait, SlidingWindow

threadVars == <<csmaVars, stopWaitVars, windowVars>>
homeworkVars == <<allVars, threadVars>>

(* A behaviour of MCPrograms, or one with threads. *)
HomeworkInit ==
  /\ \/ Init
     \/ program \in {"csma", "stop_and_wait", "sliding_window"} /\ ProgramsInit
  /\ CsmaInit /\ StopWaitInit /\ WindowInit

Alone(Step) == Step /\ UNCHANGED threadVars
CsmaRuns(Step) == program = "csma" /\ Step
  /\ UNCHANGED <<allVars, stopWaitVars, windowVars>>
StopWaitRuns(Step) == program = "stop_and_wait" /\ Step
  /\ UNCHANGED <<allVars, csmaVars, windowVars>>
WindowRuns(Step) == program = "sliding_window" /\ Step
  /\ UNCHANGED <<allVars, csmaVars, stopWaitVars>>

HomeworkNext ==
  \/ Alone(Next)
  \/ CsmaRuns(CsmaNext) \/ StopWaitRuns(StopWaitNext) \/ WindowRuns(WindowNext)

(* Each program has the fairness of its own specification. *)
HomeworkSpec ==
  /\ HomeworkInit /\ [][HomeworkNext]_homeworkVars
  /\ WF_homeworkVars(Alone(PingRuns(PingMoves)))
  /\ WF_homeworkVars(Alone(DijkstraRuns(Compute)))
  /\ \A s \in CsmaStation : WF_homeworkVars(CsmaRuns(StationStep(s)))
  /\ WF_homeworkVars(StopWaitRuns(SenderStep))
  /\ WF_homeworkVars(StopWaitRuns(ReceiverStep))
  /\ WF_homeworkVars(WindowRuns(SenderSection))
  /\ WF_homeworkVars(WindowRuns(ReceivesBase))
  /\ WF_homeworkVars(WindowRuns(Join))

(* All stations get through their frames: nobody waits forever.            *)
StationsGetThrough == program = "csma" => AllGetThrough

(* The sender gets to the end of its packets, however many are lost.       *)
SenderComesToEnd == program = "stop_and_wait" => SenderEnds

(* All packets of the sliding window arrive, both threads end, and main    *)
(* stops the monitor.                                                      *)
WindowsEnd == program = "sliding_window" => AllArrive
=============================================================================
