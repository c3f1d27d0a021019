---------------------------- MODULE ProcessManager ----------------------------
(***************************************************************************)
(* run.py and scripts/distributed.py: commands that start, stop, restart   *)
(* and list the services of the distributed deployment, one process each.  *)
(* What a command knows of them are pid files, which nothing locks, which  *)
(* outlive the processes, and whose pids the system gives to others.       *)
(*                                                                         *)
(* Two commands may run at once (an operator's and a colleague's, or one   *)
(* and its hasty repetition), and one may be interrupted anywhere.         *)
(***************************************************************************)
EXTENDS Naturals, Sequences

CONSTANTS
  Services,     \* sequence of service names: COMPONENTS, "api", "logtail"
  Pids,
  Operators,
  Free,         \* process of a pid in no use
  Stranger,     \* a process this project did not start
  NoPid         \* no pid file

ServiceNames == {Services[i] : i \in 1..Len(Services)}

ASSUME ProcessAssumption ==
  /\ Services \in Seq(STRING)
  /\ Len(Services) > 0
  /\ Free \notin ServiceNames /\ Stranger \notin ServiceNames /\ Free # Stranger
  /\ NoPid \notin Pids

VARIABLES
  process,    \* process[p]: what runs under a pid
  pidFile,    \* pidFile[s]: content of a service's pid file
  command,    \* command[o]: what an operator's command is doing
  step,       \* step[o]: where it is with the current service
  turn,       \* turn[o]: which service that is
  noted,      \* noted[o]: the pid it is busy with
  tangled     \* a command ran into one that starts services, or was cut short between
              \* starting a process and writing its pid

progress    == <<command, step, turn, noted>>
managerVars == <<process, pidFile, progress, tangled>>

ManagerTypeOK ==
  /\ process \in [Pids -> ServiceNames \cup {Free, Stranger}]
  /\ pidFile \in [ServiceNames -> Pids \cup {NoPid}]
  /\ command \in [Operators -> {"none", "start", "stop", "status", "restart"}]
  /\ step \in [Operators -> {"look", "spawn", "record", "await", "forget"}]
  /\ turn \in [Operators -> 1..(Len(Services) + 1)]
  /\ noted \in [Operators -> Pids \cup {NoPid}]
  /\ tangled \in BOOLEAN

ManagerInit ==
  /\ process = [p \in Pids |-> Free]
  /\ pidFile = [s \in ServiceNames |-> NoPid]
  /\ command = [o \in Operators |-> "none"]
  /\ step = [o \in Operators |-> "look"]
  /\ turn = [o \in Operators |-> 1]
  /\ noted = [o \in Operators |-> NoPid]
  /\ tangled = FALSE

-----------------------------------------------------------------------------
(* What the steps share.                                                   *)

(* A signal 0 to a stranger may be refused, which counts as a dead process.*)
Answers(p) == {alive \in BOOLEAN : IF alive THEN process[p] # Free
                                            ELSE process[p] \notin ServiceNames}

(* What the pid file of a service says of it: it runs, or not.             *)
Verdicts(s) == IF pidFile[s] = NoPid THEN {FALSE} ELSE Answers(pidFile[s])

Service(o) == Services[turn[o]]

At(o, commands, where) ==
  /\ command[o] \in commands
  /\ turn[o] <= Len(Services)
  /\ step[o] = where

GoesTo(o, where) ==
  /\ step' = [step EXCEPT ![o] = where]
  /\ UNCHANGED <<command, turn>>

NextService(o) ==
  /\ step' = [step EXCEPT ![o] = "look"]
  /\ turn' = [turn EXCEPT ![o] = @ + 1]
  /\ noted' = [noted EXCEPT ![o] = NoPid]
  /\ UNCHANGED command

Starting(c) == c \in {"start", "restart"}

-----------------------------------------------------------------------------
(* Commands.                                                               *)

Begin(o) ==
  /\ command[o] = "none"
  /\ \E c \in {"start", "stop", "status", "restart"} :
       /\ command' = [command EXCEPT ![o] = c]
       /\ tangled' = (tangled \/ \E other \in Operators \ {o} :
                        /\ command[other] # "none"
                        /\ Starting(c) \/ Starting(command[other]))
  /\ UNCHANGED <<process, pidFile, step, turn, noted>>

(* stop_all is over; restart_all goes on to start_all.                     *)
EndCommand(o) ==
  /\ command[o] # "none"
  /\ turn[o] > Len(Services)
  /\ command' = [command EXCEPT ![o] = IF @ = "restart" THEN "start" ELSE "none"]
  /\ turn' = [turn EXCEPT ![o] = 1]
  /\ UNCHANGED <<process, pidFile, step, noted, tangled>>

(* The operator interrupts it, or a program to start or a file fails it.   *)
Interrupt(o) ==
  /\ command[o] # "none"
  /\ command' = [command EXCEPT ![o] = "none"]
  /\ step' = [step EXCEPT ![o] = "look"]
  /\ turn' = [turn EXCEPT ![o] = 1]
  /\ noted' = [noted EXCEPT ![o] = NoPid]
  /\ tangled' = (tangled \/ step[o] = "record")
  /\ UNCHANGED <<process, pidFile>>

-----------------------------------------------------------------------------
(* start: _start_component, _start_api, _start_logtail.                    *)

(* Slip: nobody asks whether it runs already.                              *)
StartBlindly(o) ==
  /\ At(o, {"start"}, "look")
  /\ GoesTo(o, "spawn") /\ UNCHANGED noted
  /\ UNCHANGED <<process, pidFile, tangled>>

(* Already running, or to be started.                                      *)
StartLooks(o) ==
  /\ At(o, {"start"}, "look")
  /\ \E runs \in Verdicts(Service(o)) :
       IF runs THEN NextService(o) ELSE GoesTo(o, "spawn") /\ UNCHANGED noted
  /\ UNCHANGED <<process, pidFile, tangled>>

Spawn(o) ==
  /\ At(o, {"start"}, "spawn")
  /\ \E p \in Pids :
       /\ process[p] = Free
       /\ process' = [process EXCEPT ![p] = Service(o)]
       /\ noted' = [noted EXCEPT ![o] = p]
  /\ GoesTo(o, "record")
  /\ UNCHANGED <<pidFile, tangled>>

Record(o) ==
  /\ At(o, {"start"}, "record")
  /\ pidFile' = [pidFile EXCEPT ![Service(o)] = noted[o]]
  /\ NextService(o)
  /\ UNCHANGED <<process, tangled>>

-----------------------------------------------------------------------------
(* stop, and the first half of restart: _stop_process.                     *)

Stopping == {"stop", "restart"}

NothingToStop(o) ==
  /\ At(o, Stopping, "look")
  /\ pidFile[Service(o)] = NoPid
  /\ NextService(o)
  /\ UNCHANGED <<process, pidFile, tangled>>

(* A running process group is asked to terminate.                          *)
AskToStop(o) ==
  /\ At(o, Stopping, "look")
  /\ pidFile[Service(o)] # NoPid
  /\ \E runs \in Verdicts(Service(o)) : GoesTo(o, IF runs THEN "await" ELSE "forget")
  /\ noted' = [noted EXCEPT ![o] = pidFile[Service(o)]]
  /\ UNCHANGED <<process, pidFile, tangled>>

(* It is gone within three seconds.                                        *)
SeeItGone(o) ==
  /\ At(o, Stopping, "await")
  /\ FALSE \in Answers(noted[o])
  /\ GoesTo(o, "forget")
  /\ UNCHANGED <<process, pidFile, noted, tangled>>

(* Slip: the grace of three seconds, but no kill after it.                 *)
LetItRun(o) ==
  /\ At(o, Stopping, "await")
  /\ GoesTo(o, "forget")
  /\ UNCHANGED <<process, pidFile, noted, tangled>>

(* It is not, and is killed, whatever runs under the pid by now.           *)
Kill(o) ==
  /\ At(o, Stopping, "await")
  /\ process' = [process EXCEPT ![noted[o]] = Free]
  /\ GoesTo(o, "forget")
  /\ UNCHANGED <<pidFile, noted, tangled>>

-----------------------------------------------------------------------------
(* status_all removes the pid files of what does not run.                  *)

StatusLooks(o) ==
  /\ At(o, {"status"}, "look")
  /\ \E runs \in Verdicts(Service(o)) :
       IF runs THEN NextService(o) ELSE GoesTo(o, "forget") /\ UNCHANGED noted
  /\ UNCHANGED <<process, pidFile, tangled>>

(* _remove_pid, whatever is in the file by now.                            *)
Forget(o) ==
  /\ At(o, Stopping \cup {"status"}, "forget")
  /\ pidFile' = [pidFile EXCEPT ![Service(o)] = NoPid]
  /\ NextService(o)
  /\ UNCHANGED <<process, tangled>>

-----------------------------------------------------------------------------
(* The machine: a process ends (SIGTERM, a crash, a reboot), and another   *)
(* program takes a pid.                                                    *)

Die(p) ==
  /\ process[p] # Free
  /\ process' = [process EXCEPT ![p] = Free]
  /\ UNCHANGED <<pidFile, progress, tangled>>

TakePid(p) ==
  /\ process[p] = Free
  /\ process' = [process EXCEPT ![p] = Stranger]
  /\ UNCHANGED <<pidFile, progress, tangled>>

OperatorStep(o) ==
  \/ Begin(o) \/ EndCommand(o) \/ Interrupt(o)
  \/ StartLooks(o) \/ Spawn(o) \/ Record(o)
  \/ NothingToStop(o) \/ AskToStop(o) \/ SeeItGone(o) \/ Kill(o)
  \/ StatusLooks(o) \/ Forget(o)

ManagerNext ==
  \/ \E o \in Operators : OperatorStep(o)
  \/ \E p \in Pids : Die(p) \/ TakePid(p)

ManagerSpec == ManagerInit /\ [][ManagerNext]_managerVars

-----------------------------------------------------------------------------
(* Unless commands got tangled, every running service is the one its pid   *)
(* file names, or is about to be: none runs twice (two traders would each  *)
(* have a dedup memory of their own, two watchers publish everything twice)*)
(* and stop finds them all.                                                *)
(* (distributed.py: _start_component, _stop_process, status_all.)          *)
BeingRecorded(p) == \E o \in Operators : At(o, {"start"}, "record") /\ noted[o] = p

EveryProcessIsKnown ==
  tangled \/ \A p \in Pids : process[p] \in ServiceNames =>
    /\ pidFile[process[p]] = p \/ BeingRecorded(p)
    /\ \A q \in Pids : process[q] = process[p] => q = p

(* Unless commands got tangled, a stop that ran to its end has left no     *)
(* service running, whatever died, was listed or took a pid meanwhile.     *)
(* (distributed.py: stop_all.)                                             *)
StopLeavesNothing ==
  [][\A o \in Operators : EndCommand(o) /\ command[o] \in Stopping =>
       tangled \/ \A p \in Pids : process[p] \notin ServiceNames]_managerVars
=============================================================================
