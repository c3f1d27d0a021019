------------------------------- MODULE MCParts -------------------------------
(***************************************************************************)
(* Parts of the system that stand alone, on small instances, one of them to*)
(* a behaviour: a back-test engine, the replayed pipeline, the table of    *)
(* live back-tests, the process manager, the paper account.                *)
(***************************************************************************)
EXTENDS Backtest, MCReplayPipeline, BacktestJobs, ProcessManager, PaperDesk

VARIABLE part   \* what this behaviour is about

partVars == <<part, btVars, replayVars, tableVars, managerVars, deskVars>>

MCSentiments == {-5, 0, 5, 10}

RichSignal(action, size, stop) ==
  [action |-> action, size |-> size, stop |-> stop, take |-> 0]
MCSignals == {RichSignal(1, 10, 0), RichSignal(1, 5, 10), RichSignal(0, 10, 0),
              RichSignal(-1, 10, 0)}

Engine(name, nextOpen, short, trailing) ==
  [engine |-> name, nextOpen |-> nextOpen, short |-> short, trailing |-> trailing]
MCConfigs == {Engine("strategy", TRUE, FALSE, FALSE), Engine("strategy", TRUE, TRUE, FALSE),
              Engine("strategy", FALSE, FALSE, FALSE), Engine("portfolio", FALSE, FALSE, FALSE),
              Engine("portfolio", FALSE, FALSE, TRUE), Engine("sentiment", FALSE, FALSE, FALSE)}

MCServices == <<"trader", "api">>
MCLayouts == {{"single"}, {"trader", "monitor"}}

PartsInit ==
  /\ part \in {"engine", "replay", "jobs", "manager", "desk"}
  /\ Init /\ ReplayInit /\ JobsInit /\ ManagerInit /\ DeskInit
  /\ part # "engine" => conf = Engine("strategy", TRUE, FALSE, FALSE) /\ universe = {"s1"}
  /\ part # "replay" => driver = "api" /\ \A e \in Events : fresh[e]
  /\ part # "desk" => deployed = {"single"}

EngineStep ==
  part = "engine" /\ Next /\ UNCHANGED <<part, replayVars, tableVars, managerVars, deskVars>>
ReplayStep ==
  part = "replay" /\ ReplayNext /\ UNCHANGED <<part, btVars, tableVars, managerVars, deskVars>>
JobsStep ==
  part = "jobs" /\ JobsNext /\ UNCHANGED <<part, btVars, replayVars, managerVars, deskVars>>

(* Two bounds: tangled commands, and desks that overwrite one another, are *)
(* reached and not followed further; what is checked promises nothing then.*)
ManagerStep ==
  /\ part = "manager" /\ ~tangled
  /\ ManagerNext /\ UNCHANGED <<part, btVars, replayVars, tableVars, deskVars>>
DeskPartStep ==
  /\ part = "desk" /\ OneWriter
  /\ DeskNext /\ UNCHANGED <<part, btVars, replayVars, tableVars, managerVars>>

PartsNext == EngineStep \/ ReplayStep \/ JobsStep \/ ManagerStep \/ DeskPartStep

(* The fairness of the parts, each in the behaviours that are about it.    *)
Fairly(act) ==
  part = "replay" /\ act /\ UNCHANGED <<part, btVars, tableVars, managerVars, deskVars>>
JobFairly(act) ==
  part = "jobs" /\ act /\ UNCHANGED <<part, btVars, replayVars, managerVars, deskVars>>

PartsSpec ==
  /\ PartsInit /\ [][PartsNext]_partVars
  /\ WF_partVars(Fairly(EventLoop))
  /\ WF_partVars(JobFairly(LoopWork))
  /\ \A c \in Clients : WF_partVars(JobFairly(Poll(c)))

(* Every part stays within its types.                                      *)
TypesOK == TypeOK /\ ReplayTypeOK /\ JobsTypeOK /\ ManagerTypeOK /\ DeskTypeOK
=============================================================================
