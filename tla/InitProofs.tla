----------------------------- MODULE InitProofs -----------------------------
(***************************************************************************)
(* init, for any rc file, any number of services and properties, and any   *)
(* timing: first its services (InitService), then its actions and its      *)
(* properties (InitActions).                                               *)
(*                                                                         *)
(* For services the invariant has three parts.  SvcInv is about one        *)
(* service at a time and is kept by every service_start and                *)
(* service_stop_or_reset, whoever calls them; LoopInv is about the main    *)
(* loop: which child is still to be reaped, and which service is between   *)
(* its exit and its notification.  SInv adds the clock: how the crash      *)
(* count relates to the exits that were counted, and the deadline of the   *)
(* poll to the restarts that wait.                                         *)
(*                                                                         *)
(* For actions, AInv says that the queue holds each action once, in a well *)
(* formed list (Sound), that the triggers are enabled only when all is     *)
(* parsed, and that a stored value is the current one once /data was read. *)
(* Sound is stated of an area, the part of the state property_set works    *)
(* on, so that it is shown once of property_set and follows for the files, *)
(* commands and messages that call it any number of times.                 *)
(***************************************************************************)
EXTENDS InitService, InitActions, ListTheorems, TLAPS, SequenceTheorems,
        WellFoundedInduction, NaturalsInduction

Left == {"alive", "doomed"}
Reports == {"unset", "running", "stopping", "stopped", "restarting"}
SvcTypes ==
  /\ flags \in [Services -> SUBSET SVC]
  /\ proc \in [Services -> Procs]
  /\ orphans \in [Services -> SUBSET Left]
  /\ svcprop \in [Services -> Reports]

\* What holds of every service, whatever init is doing.
SvcInv == SvcTypes /\ OneProcess /\ RestartingAlone /\ GroupSignalled

\* A step leaves the services outside S alone, keeps init.svc.<name> right
\* where it was right, and reaps and kills nobody for good.
Touches(S) ==
  \A s \in Services :
    /\ s \notin S => flags'[s] = flags[s] /\ svcprop'[s] = svcprop[s]
    /\ (Running(s) <=> svcprop[s] \in {"running", "stopping"}) =>
         (("RUNNING" \in flags'[s]) <=> svcprop'[s] \in {"running", "stopping"})
    /\ proc'[s] = "zombie" <=> proc[s] = "zombie"

-----------------------------------------------------------------------------
(* service_start and service_stop_or_reset *)

\* service_start keeps what holds of every service: it forks only for a service
\* that has no process, whose old process group was killed.
LEMMA Start_Keeps ==
  ASSUME SvcInv, NEW S \in SUBSET Services, NEW o, service_start(S, o)
  PROVE  SvcInv' /\ Touches(S)
<1> DEFINE up  == {s \in {t \in S : ~Running(t)} : o[s] = "forked"}
           off == {s \in {t \in S : ~Running(t)} : o[s] = "disabled"}
           new(s) == IF s \notin S THEN flags[s]
              ELSE (flags[s] \ {"DISABLED", "RESTARTING", "RESET", "RESTART"})
                     \cup {f \in {"RUNNING"} : s \in up}
                     \cup {f \in {"DISABLED"} : s \in off}
<1>2. /\ flags' = [s \in Services |-> new(s)]
      /\ proc' = [s \in Services |-> IF s \in up THEN "forked" ELSE proc[s]]
      /\ svcprop' = [s \in Services |-> IF s \in up THEN "running" ELSE svcprop[s]]
      /\ orphans' = orphans
  BY DEF service_start
<1>3. SvcTypes'
  <2>1. \A s \in Services : new(s) \in SUBSET SVC
    BY DEF SvcInv, SvcTypes, SVC
  <2> QED BY <1>2, <2>1 DEF SvcInv, SvcTypes, Procs, Reports
<1>4. OneProcess'
  BY <1>2 DEF SvcInv, SvcTypes, OneProcess, Running
<1>5. RestartingAlone'
  BY <1>2 DEF SvcInv, SvcTypes, RestartingAlone
<1>6. GroupSignalled'
  BY <1>2 DEF SvcInv, SvcTypes, OneProcess, GroupSignalled, Running, Procs
<1>7. Touches(S)
  <2>1. \A s \in up : proc[s] = "none"
    BY DEF SvcInv, SvcTypes, OneProcess, Running
  <2> QED BY <1>2, <2>1 DEF Touches, Running, SvcInv, SvcTypes
<1> QED BY <1>3, <1>4, <1>5, <1>6, <1>7 DEF SvcInv

\* service_stop_or_reset: a service that was told to stop no longer waits to be
\* restarted.
LEMMA Stop_Keeps ==
  ASSUME SvcInv, NEW S \in SUBSET Services,
         NEW how \in {"DISABLED", "RESET", "RESTART"},
         service_stop_or_reset(S, how)
  PROVE  SvcInv' /\ Touches(S)
<1> DEFINE hit == {s \in S : Running(s)}
           new(s) == IF s \notin S THEN flags[s]
              ELSE (flags[s] \ {"RESTARTING"}) \cup
                   {IF how = "RESET" /\ s \in RcDisabled THEN "DISABLED" ELSE how}
<1>2. /\ flags' = [s \in Services |-> new(s)]
      /\ proc' = [s \in Services |->
                    IF s \in hit /\ proc[s] = "up" THEN "killed" ELSE proc[s]]
      /\ orphans' = [s \in Services |-> IF s \in hit THEN Doomed(orphans[s]) ELSE orphans[s]]
      /\ svcprop' = [s \in Services |-> IF s \in hit THEN "stopping"
                       ELSE IF s \in S THEN "stopped" ELSE svcprop[s]]
  BY DEF service_stop_or_reset
<1>3. SvcTypes'
  <2>1. \A s \in Services : new(s) \in SUBSET SVC
    BY DEF SvcInv, SvcTypes, SVC
  <2>3. orphans' \in [Services -> SUBSET Left]
    BY <1>2 DEF SvcInv, SvcTypes, Doomed, Left
  <2> QED BY <1>2, <2>1, <2>3 DEF SvcInv, SvcTypes, Procs, Reports
<1>4. OneProcess'
  BY <1>2 DEF SvcInv, SvcTypes, OneProcess, Running
<1>5. RestartingAlone'
  BY <1>2 DEF SvcInv, SvcTypes, RestartingAlone
<1>6. GroupSignalled'
  BY <1>2 DEF SvcInv, SvcTypes, GroupSignalled, Procs, Doomed
<1>7. Touches(S)
  BY <1>2 DEF Touches, Running, SvcInv, SvcTypes
<1> QED BY <1>3, <1>4, <1>5, <1>6, <1>7 DEF SvcInv

\* A service that nobody touches.
LEMMA Same_Keeps ==
  ASSUME SvcInv, UNCHANGED svcvars
  PROVE  SvcInv' /\ Touches({})
BY DEF SvcInv, SvcTypes, OneProcess, RestartingAlone, GroupSignalled, Running,
       Touches, svcvars

\* Fewer services touched is more said.
LEMMA Touches_Larger ==
  ASSUME NEW S, NEW T, S \subseteq T, Touches(S)
  PROVE  Touches(T)
BY DEF Touches

\* A command on one service: start, stop, restart, however it arrives.
LEMMA SvcCommand_Keeps ==
  ASSUME SvcInv, NEW c \in SvcOps \X Services, svc_command(c)
  PROVE  SvcInv' /\ Touches({c[2]})
<1>1. c[2] \in Services /\ {c[2]} \in SUBSET Services
  OBVIOUS
<1>2. CASE start({c[2]})
  BY <1>1, <1>2, Start_Keeps DEF start
<1>3. CASE service_start({c[2]}, [s \in {c[2]} |-> "disabled"])
  BY <1>1, <1>3, Start_Keeps
<1>4. CASE c[1] = "stop" /\ service_stop_or_reset({c[2]}, "DISABLED")
  BY <1>1, <1>4, Stop_Keeps
<1>5. CASE c[1] = "restart" /\ service_restart(c[2])
  <2>1. CASE service_stop_or_reset({c[2]}, "RESTART")
    BY <1>1, <2>1, Stop_Keeps
  <2>2. CASE start({c[2]})
    BY <1>2, <2>2
  <2>3. CASE UNCHANGED svcvars
    <3>1. SvcInv' /\ Touches({})
      BY <2>3, Same_Keeps
    <3> QED BY <3>1, Touches_Larger
  <2> QED BY <1>5, <2>1, <2>2, <2>3 DEF service_restart
<1> QED BY <1>2, <1>3, <1>4, <1>5 DEF svc_command

\* A command on a class.
LEMMA ClassCommand_Keeps ==
  ASSUME SvcInv, NEW c, class_command(c)
  PROVE  SvcInv' /\ Touches(Services)
<1> DEFINE S == service_for_each_class(c[2])
<1>1. S \in SUBSET Services /\ {s \in S : "DISABLED" \notin flags[s]} \in SUBSET Services
  BY DEF service_for_each_class
<1>2. CASE start({s \in S : "DISABLED" \notin flags[s]})
  <2> DEFINE E == {s \in S : "DISABLED" \notin flags[s]}
  <2>1. PICK o : service_start(E, o)
    BY <1>2 DEF start
  <2>2. SvcInv' /\ Touches(E)
    BY <1>1, <2>1, Start_Keeps
  <2> QED BY <1>1, <2>2, Touches_Larger
<1>3. CASE service_stop_or_reset(S, "DISABLED") \/ service_stop_or_reset(S, "RESET")
  <2>1. SvcInv' /\ Touches(S)
    BY <1>1, <1>3, Stop_Keeps
  <2> QED BY <1>1, <2>1, Touches_Larger
<1> QED BY <1>2, <1>3 DEF class_command

-----------------------------------------------------------------------------
(* The main loop *)

\* An onrestart command of a service does not name the service itself.
OnRestartNamesOthers ==
  \A s \in Services : \A i \in 1..Len(OnRestart[s]) : OnRestart[s][i][2] # s

\* The service being dealt with after its exit: it has no process, and none of
\* its onrestart commands that are left names it.
Reaping ==
  /\ todo \in Seq(SvcOps \X Services) /\ reaped \in SUBSET Services
  /\ loop # "onrestart" => reaped = {}
  /\ OnRestartNamesOthers =>
       /\ \A s \in reaped : ~Running(s)
       /\ \A i \in 1..Len(todo) : todo[i][2] \notin reaped
SigTypes == sigfd \in BOOLEAN /\ sigbyte \in BOOLEAN
Reported == OnRestartNamesOthers => StateReported
LoopInv == SigTypes /\ NoLostChild /\ Reaping /\ Reported
CommandTypes == queue \in Seq(Commands) /\ back \in {"cmd", "restart"}

IInv == SvcInv /\ LoopInv /\ CommandTypes

\* What a step of the main loop outside the reaping has to do to keep LoopInv:
\* touch services properly, lose no zombie's byte.
LEMMA Loop_Keeps ==
  ASSUME IInv, Touches(Services), SvcInv',
         loop \notin {"reap", "onrestart"}, loop' # "onrestart",
         UNCHANGED <<todo, reaped>>, SigTypes',
         sigbyte' = sigbyte \/ loop' = "reap",
         sigfd' = sigfd \/ loop' = "reap"
  PROVE  LoopInv'
<1>1. NoLostChild'
  <2> SUFFICES ASSUME NEW s \in Services, sigfd', proc'[s] = "zombie", loop' # "reap"
               PROVE  sigbyte'
    BY DEF NoLostChild
  <2>1. proc[s] = "zombie"
    BY DEF Touches
  <2>2. sigfd /\ sigbyte' = sigbyte
    BY Zenon
  <2>3. sigbyte
    BY <2>1, <2>2, Zenon DEF IInv, LoopInv, NoLostChild
  <2> QED BY <2>2, <2>3
<1>2. reaped = {}
  BY DEF IInv, LoopInv, Reaping
<1>3. Reaping'
  BY <1>2 DEF IInv, LoopInv, Reaping
<1>4. Reported'
  BY <1>2 DEF IInv, LoopInv, StateReported, Reported, Touches, Running
<1> QED BY <1>1, <1>3, <1>4 DEF LoopInv

\* At boot no service runs and nothing is queued but the boot commands.
LEMMA Init_IInv ==
  ASSUME Init PROVE IInv
<1> USE ServiceAssumption
<1>1. SvcTypes
  BY DEF Init, SvcTypes, SVC, Procs, Reports
<1>2. OneProcess /\ RestartingAlone /\ GroupSignalled
  BY DEF Init, OneProcess, RestartingAlone, GroupSignalled, Running
<1>3. Reaping
  BY DEF Init, Reaping
<1>4. Reported /\ NoLostChild /\ SigTypes
  BY DEF Init, StateReported, Reported, NoLostChild, SigTypes, Running
<1> QED BY <1>1, <1>2, <1>3, <1>4 DEF Init, IInv, SvcInv, LoopInv, CommandTypes

\* One command of the queue; signal_init goes straight into the reaping loop.
LEMMA execute_service_command_IInv ==
  ASSUME IInv, execute_service_command
  PROVE  IInv'
<1> DEFINE c == Head(queue)
<1>1. CASE queue = <<>> /\ Goto("restart") /\ UNCHANGED <<svcvars, sigvars, queue>>
  <2>1. SvcInv' /\ Touches(Services)
    BY <1>1, Same_Keeps, Touches_Larger DEF IInv
  <2>2. LoopInv'
    BY <1>1, <2>1, Loop_Keeps DEF execute_service_command, Goto, sigvars, IInv, LoopInv, SigTypes
  <2> QED BY <1>1, <2>1, <2>2 DEF IInv, CommandTypes, Goto
<1>2. CASE queue # <<>> /\ queue' = Tail(queue)
  <2>1. c \in Commands /\ queue' \in Seq(Commands)
    BY <1>2 DEF IInv, CommandTypes
  <2>2. CASE c[1] \in SvcOps \cup ClassOps /\ (svc_command(c) \/ class_command(c))
               /\ Goto("restart") /\ UNCHANGED sigvars
    <3>1. svc_command(c) => c \in SvcOps \X Services
      BY <2>1 DEF svc_command, Commands, SvcOps, ClassOps
    <3>2. SvcInv' /\ Touches(Services)
      <4>1. CASE svc_command(c)
        <5>1. SvcInv' /\ Touches({c[2]})
          BY <3>1, <4>1, SvcCommand_Keeps DEF IInv
        <5>2. {c[2]} \subseteq Services
          BY <3>1, <4>1
        <5> QED BY <5>1, <5>2, Touches_Larger
      <4>2. CASE class_command(c)
        BY <4>2, ClassCommand_Keeps DEF IInv
      <4> QED BY <2>2, <4>1, <4>2
    <3>3. LoopInv'
      BY <2>2, <3>2, Loop_Keeps DEF execute_service_command, Goto, sigvars, IInv, LoopInv, SigTypes
    <3> QED BY <2>1, <2>2, <3>2, <3>3 DEF IInv, CommandTypes, Goto
  <2>3. CASE c[1] = "property_service_init" /\ propfd' = TRUE /\ Goto("restart")
               /\ UNCHANGED <<svcvars, sigfd, sigbyte>>
    <3>1. SvcInv' /\ Touches(Services)
      BY <2>3, Same_Keeps, Touches_Larger DEF IInv
    <3>2. LoopInv'
      BY <2>3, <3>1, Loop_Keeps DEF execute_service_command, Goto, IInv, LoopInv, SigTypes
    <3> QED BY <2>1, <2>3, <3>1, <3>2 DEF IInv, CommandTypes, Goto
  <2>4. CASE c[1] = "signal_init" /\ sigfd' = TRUE /\ loop' = "reap" /\ back' = "restart"
               /\ UNCHANGED <<svcvars, propfd, sigbyte, ready, todo, reaped>>
    <3>1. SvcInv' /\ Touches(Services)
      BY <2>4, Same_Keeps, Touches_Larger DEF IInv
    <3>2. LoopInv'
      BY <2>4, <3>1, Loop_Keeps DEF execute_service_command, IInv, LoopInv, SigTypes
    <3> QED BY <2>1, <2>4, <3>1, <3>2 DEF IInv, CommandTypes
  <2> QED BY <1>2, <2>2, <2>3, <2>4 DEF execute_service_command, signal_init
<1> QED BY <1>1, <1>2 DEF execute_service_command

\* restart_processes starts services, and nothing else.
LEMMA restart_processes_IInv ==
  ASSUME IInv, restart_processes
  PROVE  IInv'
<1> DEFINE D == {s \in {t \in Services : "RESTARTING" \in flags[t]} :
                   started[s] >= RestartDelay}
<1>1. PICK o : service_start(D, o)
  BY DEF restart_processes, start
<1>2. SvcInv' /\ Touches(D)
  BY <1>1, Start_Keeps DEF IInv
<1>3. Touches(Services)
  BY <1>2, Touches_Larger
<1>4. LoopInv'
  BY <1>2, <1>3, Loop_Keeps DEF restart_processes, Goto, sigvars, IInv, LoopInv, SigTypes
<1> QED BY <1>2, <1>4 DEF IInv, restart_processes, CommandTypes, Goto

\* Waking up changes nothing but the place in the loop.
LEMMA poll_fds_IInv ==
  ASSUME IInv, NEW r, poll_fds(r)
  PROVE  IInv'
<1>1. SvcInv' /\ Touches(Services)
  BY Same_Keeps, Touches_Larger DEF IInv, poll_fds
<1>2. LoopInv'
  BY <1>1, Loop_Keeps DEF poll_fds, Dispatch, sigvars, IInv, LoopInv, SigTypes
<1> QED BY <1>1, <1>2 DEF IInv, poll_fds, CommandTypes

\* A keychord starts at most one service.
LEMMA handle_keychord_IInv ==
  ASSUME IInv, handle_keychord
  PROVE  IInv'
<1>1. SvcInv' /\ Touches(Services)
  <2>1. CASE \E s \in Keychord : start({s})
    <3>0. PICK s \in Keychord : start({s})
      BY <2>1
    <3>1. PICK o : service_start({s}, o)
      BY <3>0 DEF start
    <3>2. {s} \in SUBSET Services
      BY <3>0, ServiceAssumption
    <3>3. SvcInv' /\ Touches({s})
      BY <3>1, <3>2, Start_Keeps DEF IInv
    <3> QED BY <3>2, <3>3, Touches_Larger
  <2>2. CASE UNCHANGED svcvars
    BY <2>2, Same_Keeps, Touches_Larger DEF IInv
  <2> QED BY <2>1, <2>2 DEF handle_keychord
<1>2. LoopInv'
  BY <1>1, Loop_Keeps DEF handle_keychord, Dispatch, sigvars, IInv, LoopInv, SigTypes
<1> QED BY <1>1, <1>2 DEF IInv, handle_keychord, CommandTypes

\* A ctl.* message is a command on one service; a trigger queues one.
LEMMA handle_control_fd_IInv ==
  ASSUME IInv, handle_control_fd
  PROVE  IInv'
<1>1. SvcInv' /\ Touches(Services)
  <2>1. CASE \E c \in Ctl : svc_command(c)
    <3>1. PICK c \in SvcOps \X Services : svc_command(c)
      BY <2>1 DEF Ctl
    <3>2. SvcInv' /\ Touches({c[2]})
      BY <3>1, SvcCommand_Keeps DEF IInv
    <3> QED BY <3>1, <3>2, Touches_Larger
  <2>2. CASE UNCHANGED svcvars
    BY <2>2, Same_Keeps, Touches_Larger DEF IInv
  <2> QED BY <2>1, <2>2 DEF handle_control_fd
<1>2. LoopInv'
  BY <1>1, Loop_Keeps
     DEF handle_control_fd, Dispatch, sigvars, IInv, LoopInv, SigTypes
<1>3. CommandTypes'
  <2>1. queue' \in Seq(Commands)
    <3>1. CASE \E c \in TriggerCommands : queue' = Append(queue, c)
      <4>1. PICK c \in Commands : queue' = Append(queue, c)
        BY <3>1, ServiceAssumption
      <4> QED BY <4>1 DEF IInv, CommandTypes
    <3>2. CASE queue' = queue
      BY <3>2 DEF IInv, CommandTypes
    <3> QED BY <3>1, <3>2 DEF handle_control_fd
  <2> QED BY <2>1 DEF handle_control_fd, CommandTypes, IInv
<1> QED BY <1>1, <1>2, <1>3 DEF IInv

\* The byte is read before the children are reaped.
LEMMA handle_signal_IInv ==
  ASSUME IInv, handle_signal
  PROVE  IInv'
<1>1. SvcInv' /\ Touches(Services)
  BY Same_Keeps, Touches_Larger DEF IInv, handle_signal
<1>2. SigTypes'
  BY DEF handle_signal, IInv, LoopInv, SigTypes
<1>3. LoopInv'
  BY <1>1, <1>2, Loop_Keeps DEF handle_signal
<1> QED BY <1>1, <1>3 DEF IInv, handle_signal, CommandTypes

-----------------------------------------------------------------------------
(* Reaping *)

\* The exit of s: its group is killed, then it is stopped or waits for restart.
LEMMA wait_for_one_process_IInv ==
  ASSUME IInv, NEW s \in Services, wait_for_one_process(s)
  PROVE  IInv'
<1>1. /\ proc[s] = "zombie" /\ loop = "reap" /\ reaped = {}
      /\ proc' = [proc EXCEPT ![s] = "none"]
      /\ orphans' = [orphans EXCEPT ![s] = IF KillsGroup(s) THEN Doomed(@) ELSE @]
      /\ UNCHANGED <<sigvars, queue, back>>
  BY DEF wait_for_one_process, IInv, LoopInv, Reaping
<1>2. "RUNNING" \notin ExitFlags(s) /\ ExitFlags(s) \in SUBSET SVC
  BY DEF ExitFlags, IInv, SvcInv, SvcTypes, SVC
<1>3. "RESTARTING" \notin ExitFlags(s)
  <2>1. Running(s)
    BY <1>1 DEF IInv, SvcInv, OneProcess
  <2> QED BY <2>1 DEF ExitFlags, Running, IInv, SvcInv, RestartingAlone
<1> DEFINE stopped == /\ ExitFlags(s) \cap {"DISABLED", "RESET"} # {}
                      /\ flags' = [flags EXCEPT ![s] = ExitFlags(s)]
                      /\ svcprop' = [svcprop EXCEPT ![s] = "stopped"]
                      /\ UNCHANGED <<loop, todo, reaped>>
           again == /\ ExitFlags(s) \cap {"DISABLED", "RESET"} = {}
                    /\ \/ flags' = [flags EXCEPT ![s] = ExitFlags(s)]
                       \/ flags' = [flags EXCEPT ![s] =
                            (ExitFlags(s) \ {"RESTART"}) \cup {"RESTARTING"}]
                    /\ loop' = "onrestart" /\ todo' = OnRestart[s] /\ reaped' = {s}
                    /\ UNCHANGED svcprop
<1>4. stopped \/ again
  BY DEF wait_for_one_process
<1>5. SvcInv'
  <2>1. orphans' \in [Services -> SUBSET Left]
    BY <1>1 DEF IInv, SvcInv, SvcTypes, Doomed, Left
  <2>2. SvcTypes'
    BY <1>1, <1>2, <1>4, <2>1 DEF IInv, SvcInv, SvcTypes, Procs, Reports, SVC
  <2>3. OneProcess'
    BY <1>1, <1>2, <1>4 DEF IInv, SvcInv, SvcTypes, OneProcess, Running
  <2>4. RestartingAlone'
    <3>1. again => (ExitFlags(s) \ {"RESTART"}) \cup {"RESTARTING"} = {"RESTARTING"}
      BY <1>2 DEF SVC
    <3> QED BY <1>3, <1>4, <3>1 DEF IInv, SvcInv, SvcTypes, RestartingAlone
  <2>5. GroupSignalled'
    <3> SUFFICES ASSUME NEW t \in Services \ Oneshot, proc'[t] \in {"none", "forked"}
                 PROVE  "alive" \notin orphans'[t]
      BY DEF GroupSignalled
    <3>1. CASE t = s
      BY <1>1, <3>1 DEF KillsGroup, Doomed, IInv, SvcInv, SvcTypes
    <3>2. CASE t # s
      BY <1>1, <3>2 DEF IInv, SvcInv, SvcTypes, GroupSignalled
    <3> QED BY <3>1, <3>2
  <2> QED BY <2>2, <2>3, <2>4, <2>5 DEF SvcInv
<1>6. LoopInv'
  <2>1. NoLostChild' /\ SigTypes'
    BY <1>1, <1>4 DEF NoLostChild, SigTypes, sigvars, IInv, LoopInv
  <2>2. Reaping'
    <3>1. CASE stopped
      BY <1>1, <3>1 DEF IInv, LoopInv, Reaping
    <3>2. CASE again
      <4>1. OnRestart[s] \in Seq(SvcOps \X Services)
        BY ServiceAssumption
      <4>2. "RUNNING" \notin flags'[s]
        BY <1>2, <3>2 DEF IInv, SvcInv, SvcTypes
      <4>3. OnRestartNamesOthers => \A i \in 1..Len(todo') : todo'[i][2] \notin reaped'
        BY <3>2 DEF OnRestartNamesOthers
      <4> QED BY <3>2, <4>1, <4>2, <4>3 DEF Reaping, Running
    <3> QED BY <1>4, <3>1, <3>2
  <2>3. Reported'
    BY <1>1, <1>2, <1>4 DEF IInv, LoopInv, SvcInv, SvcTypes, StateReported, Reported, Running
  <2> QED BY <2>1, <2>2, <2>3 DEF LoopInv
<1> QED BY <1>1, <1>5, <1>6 DEF IInv, CommandTypes

\* The onrestart commands, and the notification after the last of them.
LEMMA onrestart_IInv ==
  ASSUME IInv, onrestart
  PROVE  IInv'
<1>1. CASE /\ todo # <<>> /\ svc_command(Head(todo)) /\ todo' = Tail(todo)
           /\ UNCHANGED <<loop, reaped>>
  <2> DEFINE c == Head(todo)
  <2>1. c \in SvcOps \X Services /\ (OnRestartNamesOthers => c[2] \notin reaped)
    BY <1>1 DEF IInv, LoopInv, Reaping
  <2>2. SvcInv' /\ Touches({c[2]})
    BY <1>1, <2>1, SvcCommand_Keeps DEF IInv
  <2>3. /\ todo' \in Seq(SvcOps \X Services)
        /\ \A i \in 1..Len(todo') : i + 1 \in 1..Len(todo) /\ todo'[i] = todo[i + 1]
    BY <1>1 DEF IInv, LoopInv, Reaping
  <2>4. Reaping'
    <3>1. OnRestartNamesOthers => \A s \in reaped : "RUNNING" \notin flags'[s]
      BY <2>1, <2>2 DEF Touches, Running, IInv, LoopInv, Reaping
    <3> QED BY <1>1, <2>3, <3>1 DEF IInv, LoopInv, Reaping, Running
  <2>5. Reported'
    BY <1>1, <2>2 DEF IInv, LoopInv, StateReported, Reported, Touches, Running
  <2>6. NoLostChild' /\ SigTypes'
    BY <1>1 DEF onrestart, NoLostChild, SigTypes, sigvars, IInv, LoopInv
  <2> QED BY <2>2, <2>4, <2>5, <2>6 DEF IInv, LoopInv, onrestart, CommandTypes
<1>2. CASE /\ todo = <<>>
           /\ svcprop' = [s \in Services |->
                             IF s \in reaped THEN "restarting" ELSE svcprop[s]]
           /\ loop' = "reap" /\ reaped' = {}
           /\ UNCHANGED <<flags, started, proc, orphans, todo>>
  <2>1. SvcInv'
    BY <1>2 DEF IInv, SvcInv, SvcTypes, OneProcess, RestartingAlone, GroupSignalled,
                Running, Reports
  <2>2. Reaping'
    BY <1>2 DEF IInv, LoopInv, Reaping
  <2>3. Reported'
    BY <1>2 DEF IInv, LoopInv, StateReported, Reported, Reaping, Running
  <2>4. NoLostChild' /\ SigTypes'
    BY <1>2 DEF onrestart, NoLostChild, SigTypes, sigvars, IInv, LoopInv
  <2> QED BY <2>1, <2>2, <2>3, <2>4 DEF IInv, LoopInv, onrestart, CommandTypes
<1> QED BY <1>1, <1>2 DEF onrestart

\* handle_signal goes on until waitpid has no zombie left.
LEMMA reap_done_IInv ==
  ASSUME IInv, reap_done
  PROVE  IInv'
<1>1. SvcInv'
  BY Same_Keeps DEF IInv, reap_done
<1>2. NoLostChild' /\ SigTypes'
  BY DEF reap_done, CommandTypes, svcvars, sigvars, NoLostChild, SigTypes, IInv, LoopInv
<1>3. Reaping' /\ Reported'
  BY DEF reap_done, CommandTypes, svcvars, Reaping, StateReported, Reported, Running, IInv, LoopInv
<1> QED BY <1>1, <1>2, <1>3 DEF IInv, LoopInv, reap_done, CommandTypes

-----------------------------------------------------------------------------
(* The children and the clock *)

\* A child that moves from one place to another, none of them "none", and
\* announces it if it is a zombie now.
LEMMA Child_Keeps ==
  ASSUME IInv, NEW s \in Services, NEW from \in SUBSET (Procs \ {"none"}),
         NEW to \in {"up", "zombie"}, Child(s, from, to),
         orphans' \in [Services -> SUBSET Left],
         \A t \in Services : t = s \/ orphans'[t] = orphans[t],
         SigTypes', sigfd' = sigfd, sigbyte => sigbyte',
         to = "zombie" => sigbyte' \/ ~sigfd
  PROVE  IInv'
<1>1. /\ proc[s] \in from /\ proc' = [proc EXCEPT ![s] = to]
      /\ UNCHANGED <<flags, svcprop, loopvars>>
  BY DEF Child
<1>2. SvcInv'
  <2>1. SvcTypes'
    BY <1>1 DEF IInv, SvcInv, SvcTypes, Procs
  <2>2. OneProcess'
    BY <1>1 DEF IInv, SvcInv, SvcTypes, OneProcess, Running
  <2>3. RestartingAlone'
    BY <1>1 DEF IInv, SvcInv, RestartingAlone
  <2>4. GroupSignalled'
    BY <1>1 DEF IInv, SvcInv, SvcTypes, GroupSignalled
  <2> QED BY <2>1, <2>2, <2>3, <2>4 DEF SvcInv
<1>3. NoLostChild'
  <2> SUFFICES ASSUME NEW t \in Services, sigfd', proc'[t] = "zombie"
               PROVE  sigbyte' \/ loop' \in {"reap", "onrestart"}
    BY DEF NoLostChild
  <2>1. CASE t = s
    <3>1. to = "zombie"
      BY <1>1, <2>1 DEF IInv, SvcInv, SvcTypes
    <3> QED BY <3>1, Zenon
  <2>2. CASE t # s
    <3>1. proc[t] = "zombie" /\ loop' = loop
      BY <1>1, <2>2 DEF IInv, SvcInv, SvcTypes, loopvars
    <3>2. sigbyte \/ loop \in {"reap", "onrestart"}
      BY <3>1, Zenon DEF IInv, LoopInv, NoLostChild
    <3> QED BY <3>1, <3>2, Zenon
  <2> QED BY <2>1, <2>2
<1>4. Reaping' /\ Reported' /\ CommandTypes'
  BY <1>1 DEF loopvars, Reaping, StateReported, Reported, CommandTypes, Running,
              IInv, LoopInv
<1> QED BY <1>2, <1>3, <1>4 DEF IInv, LoopInv

\* What children do by themselves.
LEMMA Children_IInv ==
  ASSUME IInv, NEW s \in Services,
         child_setpgid(s) \/ child_forks(s) \/ child_exits(s) \/ child_dies(s) \/ group_dies(s)
  PROVE  IInv'
<1> USE DEF Procs
<1>0. SigTypes /\ orphans \in [Services -> SUBSET Left]
  BY DEF IInv, LoopInv, SvcInv, SvcTypes
<1>1. CASE child_setpgid(s)
  BY <1>0, <1>1, Child_Keeps DEF child_setpgid, sigvars, SigTypes
<1>2. CASE child_forks(s)
  <2>1. Child(s, {"up"}, "up") /\ UNCHANGED sigvars
    BY <1>2 DEF child_forks
  <2>2. orphans' = [orphans EXCEPT ![s] = @ \cup {"alive"}]
    BY <1>2 DEF child_forks
  <2>3. /\ orphans' \in [Services -> SUBSET Left]
        /\ \A t \in Services : t = s \/ orphans'[t] = orphans[t]
    BY <1>0, <2>2 DEF Left
  <2> QED BY <1>0, <2>1, <2>3, Child_Keeps DEF sigvars, SigTypes
<1>3. CASE child_exits(s) \/ child_dies(s)
  <2>1. /\ Child(s, {"forked", "up"}, "zombie") \/ Child(s, {"killed"}, "zombie")
        /\ orphans' = orphans /\ sigfd' = sigfd /\ sigbyte' = (sigbyte \/ sigfd)
    BY <1>3 DEF child_exits, child_dies, sigchld_handler
  <2>2. SigTypes' /\ (sigbyte' \/ ~sigfd)
    BY <1>0, <2>1, Zenon DEF SigTypes
  <2>3. PICK from \in SUBSET (Procs \ {"none"}) : Child(s, from, "zombie")
    BY <2>1
  <2> QED BY <1>0, <2>1, <2>2, <2>3, Child_Keeps
<1>4. CASE group_dies(s)
  <2>1. /\ proc' = proc /\ UNCHANGED <<flags, svcprop, sigvars, loopvars>>
        /\ orphans' = [orphans EXCEPT ![s] = @ \ {"doomed"}]
    BY <1>4 DEF group_dies, Child, IInv, SvcInv, SvcTypes
  <2>2. SvcInv'
    BY <2>1 DEF IInv, SvcInv, SvcTypes, OneProcess, RestartingAlone, GroupSignalled, Running
  <2>3. LoopInv' /\ CommandTypes'
    BY <2>1 DEF IInv, LoopInv, SigTypes, NoLostChild, Reaping, StateReported, Reported,
                CommandTypes, Running, sigvars, loopvars
  <2> QED BY <2>2, <2>3 DEF IInv
<1> QED BY <1>1, <1>2, <1>3, <1>4

\* Time changes none of it.
LEMMA Tick_IInv ==
  ASSUME IInv, Tick
  PROVE  IInv'
BY DEF Tick, IInv, SvcInv, SvcTypes, OneProcess, RestartingAlone, GroupSignalled,
       LoopInv, SigTypes, NoLostChild, Reaping, StateReported, Reported, CommandTypes,
       Running, sigvars

\* Neither does a stuttering step, nor a machine that is rebooting.
LEMMA Stutter_IInv ==
  ASSUME IInv, UNCHANGED vars
  PROVE  IInv'
BY DEF vars, svcvars, sigvars, loopvars, IInv, SvcInv, SvcTypes, OneProcess,
       RestartingAlone, GroupSignalled, LoopInv, SigTypes, NoLostChild, Reaping,
       StateReported, Reported, CommandTypes, Running

\* Every step of the system keeps the invariant.
LEMMA Next_IInv ==
  ASSUME IInv, [Next]_vars
  PROVE  IInv'
<1>1. CASE InitStep
  <2>1. CASE poll_wakes
    BY <2>1, poll_fds_IInv DEF poll_wakes
  <2>2. CASE \E s \in Services : wait_for_one_process(s)
    BY <2>2, wait_for_one_process_IInv
  <2> QED BY <1>1, <2>1, <2>2, execute_service_command_IInv, restart_processes_IInv,
             handle_keychord_IInv, handle_control_fd_IInv, handle_signal_IInv,
             onrestart_IInv, reap_done_IInv DEF InitStep
<1>2. CASE poll_client
  BY <1>2, poll_fds_IInv DEF poll_client
<1>3. CASE Tick
  BY <1>3, Tick_IInv
<1>4. CASE \E s \in Services : child_setpgid(s) \/ child_forks(s) \/ child_exits(s)
                                 \/ child_dies(s) \/ group_dies(s)
  BY <1>4, Children_IInv
<1>5. CASE Rebooted \/ UNCHANGED vars
  BY <1>5, Stutter_IInv DEF Rebooted
<1> QED BY <1>1, <1>2, <1>3, <1>4, <1>5 DEF Next

\* The invariant holds always.
LEMMA IInv_Always ==
  Spec => []IInv
<1>1. IInv /\ [Next]_vars => IInv'
  BY Next_IInv
<1> QED BY <1>1, Init_IInv, PTL DEF Spec

\* A disabled service that nobody names does not start: neither its class nor
\* the restarting of services touches it.
LEMMA DisabledStays ==
  ASSUME IInv, [Next]_vars, NEW s \in Services,
         "DISABLED" \in flags[s], ~Running(s), Running(s)'
  PROVE  \/ loop = "cmd" /\ Head(queue) \in Named(s)
         \/ loop = "onrestart" /\ Head(todo) \in Named(s)
         \/ loop = "prop" /\ \E c \in Named(s) : svc_command(c)
         \/ loop = "key" /\ s \in Keychord /\ start({s})
<1>0. ASSUME NEW c \in SvcOps \X Services, svc_command(c)
      PROVE  c \in Named(s)
  <2>1. Touches({c[2]})
    BY <1>0, SvcCommand_Keeps DEF IInv
  <2>2. c[2] = s
    BY <2>1 DEF Touches, Running
  <2> QED BY <2>2 DEF Named
<1>1. flags'[s] # flags[s] /\ "RUNNING" \in flags'[s]
  BY DEF Running
<1>2. CASE execute_service_command
  <2>1. Head(queue)[1] \in SvcOps \cup ClassOps
        /\ (svc_command(Head(queue)) \/ class_command(Head(queue)))
    BY <1>1, <1>2 DEF execute_service_command, signal_init, svcvars
  <2>2. ~class_command(Head(queue))
    <3> SUFFICES ASSUME class_command(Head(queue)) PROVE FALSE
      OBVIOUS
    <3> DEFINE S == service_for_each_class(Head(queue)[2])
               E == {t \in S : "DISABLED" \notin flags[t]}
    <3>1. CASE start(E)
      <4>1. PICK o : service_start(E, o)
        BY <3>1 DEF start
      <4>2. E \in SUBSET Services /\ s \notin E
        BY DEF service_for_each_class
      <4>3. Touches(E)
        BY <4>1, <4>2, Start_Keeps DEF IInv
      <4> QED BY <1>1, <4>2, <4>3 DEF Touches
    <3>2. CASE service_stop_or_reset(S, "DISABLED") \/ service_stop_or_reset(S, "RESET")
      BY <1>1, <3>2 DEF service_stop_or_reset, Running
    <3> QED BY <3>1, <3>2 DEF class_command
  <2>3. Head(queue) \in SvcOps \X Services
    <3>1. Head(queue)[1] \in SvcOps /\ queue # <<>>
      BY <1>1, <1>2, <2>1, <2>2 DEF svc_command, SvcOps, execute_service_command, svcvars
    <3>2. Head(queue) \in Commands
      BY <3>1 DEF IInv, CommandTypes
    <3> QED BY <3>1, <3>2 DEF Commands, SvcOps, ClassOps
  <2> QED BY <1>0, <1>2, <2>1, <2>2, <2>3 DEF execute_service_command
<1>3. ~restart_processes
  <2> SUFFICES ASSUME restart_processes PROVE FALSE
    OBVIOUS
  <2> DEFINE D == {t \in {u \in Services : "RESTARTING" \in flags[u]} :
                     started[t] >= RestartDelay}
  <2>1. PICK o : service_start(D, o)
    BY DEF restart_processes, start
  <2>2. s \notin D
    BY DEF IInv, SvcInv, RestartingAlone
  <2>3. Touches(D)
    BY <2>1, Start_Keeps DEF IInv
  <2> QED BY <1>1, <2>2, <2>3 DEF Touches
<1>4. \A t \in Services : ~wait_for_one_process(t)
  <2> SUFFICES ASSUME NEW t \in Services, wait_for_one_process(t) PROVE FALSE
    OBVIOUS
  <2>1. t = s
    BY <1>1 DEF wait_for_one_process, IInv, SvcInv, SvcTypes
  <2>2. "RUNNING" \notin flags'[s]
    BY <2>1 DEF wait_for_one_process, ExitFlags, IInv, SvcInv, SvcTypes
  <2> QED BY <1>1, <2>2
<1>5. /\ ~handle_signal /\ ~reap_done /\ ~Tick /\ ~Rebooted /\ ~UNCHANGED vars
      /\ ~poll_wakes /\ ~poll_client
      /\ \A t \in Services : ~child_setpgid(t) /\ ~child_forks(t)
                               /\ ~child_exits(t) /\ ~child_dies(t) /\ ~group_dies(t)
  BY <1>1 DEF handle_signal, reap_done, Tick, Rebooted, poll_wakes, poll_client,
              poll_fds, child_setpgid, child_forks, child_exits, child_dies, group_dies,
              Child, vars, svcvars
<1>6. CASE handle_keychord
  <2>1. PICK t \in Keychord : start({t})
    BY <1>1, <1>6 DEF handle_keychord, svcvars
  <2>2. PICK o : service_start({t}, o)
    BY <2>1 DEF start
  <2>3. Touches({t})
    BY <2>2, Start_Keeps, ServiceAssumption DEF IInv
  <2>4. t = s
    BY <1>1, <2>3 DEF Touches
  <2> QED BY <1>6, <2>1, <2>4 DEF handle_keychord
<1>7. CASE handle_control_fd
  <2>1. PICK c \in SvcOps \X Services : svc_command(c)
    BY <1>1, <1>7 DEF handle_control_fd, Ctl, svcvars
  <2> QED BY <1>0, <1>7, <2>1 DEF handle_control_fd
<1>8. CASE onrestart
  <2>1. todo # <<>> /\ svc_command(Head(todo))
    BY <1>1, <1>8 DEF onrestart
  <2>2. Head(todo) \in SvcOps \X Services
    BY <2>1 DEF IInv, LoopInv, Reaping
  <2> QED BY <1>0, <1>8, <2>1, <2>2 DEF onrestart
<1> QED BY <1>2, <1>3, <1>4, <1>5, <1>6, <1>7, <1>8 DEF Next, InitStep

-----------------------------------------------------------------------------
(* The clock: crash counts, and the deadline of the poll *)

\* The rest of the types: times, counts, and the place of main.
ClockTypes ==
  /\ started \in [Services -> 0..RestartDelay]
  /\ crashed \in [Services -> 0..CrashWindow + 1]
  /\ nr_crashed \in [Services -> Nat]
  /\ propfd \in BOOLEAN /\ recovery \in BOOLEAN
  /\ loop \in Loops /\ ready \subseteq {"key", "prop", "sig"}
  /\ needs_restart \in {Never} \cup 0..RestartDelay
  /\ uptime \in 0..MaxAge

\* nr_crashed counts exits that really happened: the last nr_crashed[s] of
\* them, none of them before time_crashed.  It passes the threshold only in
\* the step that reboots.
Counts(s) ==
  /\ exits[s] \in Seq(0..CrashWindow + 1)
  /\ Len(exits[s]) <= CrashThreshold + 1
  /\ nr_crashed[s] <= Len(exits[s])
  /\ \A i \in 1..Len(exits[s]) :
       i > Len(exits[s]) - nr_crashed[s] => exits[s][i] <= crashed[s]
  /\ ~recovery => nr_crashed[s] <= CrashThreshold
Crashes == /\ exits = [s \in Services |-> exits[s]]
           /\ \A s \in Services : Counts(s)

SInv == ClockTypes /\ Crashes /\ DeadlineCovers /\ RebootJustified

\* The least of a set of numbers of seconds exists: what restart_processes
\* looks for.
LEMMA NextDue_Least ==
  ASSUME NEW left \in SUBSET Nat, left # {}
  PROVE  NextDue(left) \in left /\ \A e \in left : NextDue(left) <= e
<1>1. PICK x \in left : \A y \in left : ~(<<y, x>> \in OpToRel(<, Nat))
  BY NatLessThanWellFounded, WFMin, Zenon
<1>2. \A y \in Nat : y < x => <<y, x>> \in OpToRel(<, Nat)
  BY Zenon DEF OpToRel
<1>3. \A y \in left : ~(y < x)
  BY <1>1, <1>2, Zenon
<1>4. \A y \in left : x <= y
  BY <1>3
<1> QED BY <1>4, Zenon DEF NextDue

\* The history keeps the new exit at its end, and as many of the old ones as
\* decide whether to reboot.
LEMMA LastExits_Append ==
  ASSUME NEW A, NEW q \in Seq(A), 0 \in A, Len(q) <= CrashThreshold + 1,
         NEW r, r = LastExits(Append(q, 0))
  PROVE  /\ r \in Seq(A) /\ Len(r) <= CrashThreshold + 1
         /\ Len(r) = Len(q) + 1 \/ (Len(r) = CrashThreshold + 1 /\ Len(q) = Len(r))
         /\ r[Len(r)] = 0
         /\ \A i \in 1..Len(r) : i # Len(r) =>
              /\ i + Len(q) - Len(r) + 1 \in 1..Len(q)
              /\ r[i] = q[i + Len(q) - Len(r) + 1]
<1>0. CrashThreshold \in Nat \ {0}
  BY ServiceAssumption
<1> USE <1>0
<1> DEFINE a == Append(q, 0)
<1>1. /\ a \in Seq(A) /\ Len(a) = Len(q) + 1 /\ a[Len(q) + 1] = 0 /\ Len(q) \in Nat
      /\ \A i \in 1..Len(q) : a[i] = q[i]
  OBVIOUS
<1> HIDE DEF a
<1>2. r = IF Len(a) > CrashThreshold + 1 THEN Tail(a) ELSE a
  BY DEF LastExits, a
<1>3. CASE Len(a) > CrashThreshold + 1
  <2>1. r = Tail(a) /\ Len(q) = CrashThreshold + 1
    BY <1>1, <1>2, <1>3
  <2>2. /\ r \in Seq(A) /\ Len(r) = Len(a) - 1
        /\ \A i \in 1..Len(r) : r[i] = a[i + 1]
    <3>1. a # <<>>
      BY <1>1
    <3>2. a \in Seq(A)
      BY <1>1
    <3>3. /\ Tail(a) \in Seq(A) /\ Len(Tail(a)) = Len(a) - 1
          /\ \A i \in 1..Len(Tail(a)) : Tail(a)[i] = a[i + 1]
      BY <3>1, <3>2, HeadTailProperties
    <3> QED BY <2>1, <3>3, Zenon
  <2>3. r[Len(r)] = 0
    BY <1>1, <2>1, <2>2
  <2>4. \A i \in 1..Len(r) : i # Len(r) => r[i] = q[i + 1] /\ i + 1 \in 1..Len(q)
    BY <1>1, <2>1, <2>2
  <2>5. Len(q) = Len(r)
    BY <1>1, <2>2
  <2>6. \A i \in 1..Len(r) : i + Len(q) - Len(r) + 1 = i + 1
    BY <1>1, <2>5
  <2> QED BY <1>1, <2>1, <2>2, <2>3, <2>4, <2>5, <2>6
<1>4. CASE ~(Len(a) > CrashThreshold + 1)
  <2>1. r = a
    BY <1>2, <1>4, Zenon
  <2>2. Len(a) <= CrashThreshold + 1
    BY <1>1, <1>4
  <2>3. \A i \in 1..Len(r) : i # Len(r) =>
          /\ i + Len(q) - Len(r) + 1 \in 1..Len(q)
          /\ r[i] = q[i + Len(q) - Len(r) + 1]
    <3> SUFFICES ASSUME NEW i \in 1..Len(a), i # Len(a)
                 PROVE  i + Len(q) - Len(a) + 1 \in 1..Len(q)
                          /\ a[i] = q[i + Len(q) - Len(a) + 1]
      BY <2>1
    <3>1. i + Len(q) - Len(a) + 1 = i /\ i \in 1..Len(q)
      BY <1>1
    <3> QED BY <1>1, <3>1
  <2>4. r \in Seq(A) /\ Len(r) <= CrashThreshold + 1 /\ Len(r) = Len(q) + 1
    BY <1>1, <2>1, <2>2
  <2>5. r[Len(r)] = 0
    BY <1>1, <2>1
  <2> QED BY <2>3, <2>4, <2>5
<1> QED BY <1>3, <1>4

\* service_start sets time_started of the services it is called for, no other.
LEMMA Start_Clock ==
  ASSUME ClockTypes, NEW S, NEW o, service_start(S, o)
  PROVE  /\ started' \in [Services -> 0..RestartDelay]
         /\ \A s \in Services : s \notin S =>
              started'[s] = started[s] /\ flags'[s] = flags[s]
         /\ \A s \in Services : s \in S => "RESTARTING" \notin flags'[s]
<1> USE ServiceAssumption
<1>1. Boot(RestartDelay) \in 0..RestartDelay
  <2>1. uptime \in Nat
    BY DEF ClockTypes, MaxAge
  <2> QED BY <2>1 DEF Boot
<1>2. PICK up \in SUBSET S :
        started' = [s \in Services |-> IF s \in up THEN 0
                       ELSE IF s \in S THEN Boot(RestartDelay) ELSE started[s]]
  BY DEF service_start
<1>3. started' \in [Services -> 0..RestartDelay]
  BY <1>1, <1>2 DEF ClockTypes
<1>4. \A s \in Services : s \notin S => started'[s] = started[s]
  BY <1>2
<1>5. \A s \in Services : s \notin S => flags'[s] = flags[s]
  BY DEF service_start
<1>6. \A s \in Services : s \in S => "RESTARTING" \notin flags'[s]
  BY DEF service_start
<1> QED BY <1>3, <1>4, <1>5, <1>6

\* So does every command.
LEMMA Command_Clock ==
  ASSUME ClockTypes, NEW c, svc_command(c) \/ class_command(c)
  PROVE  started' \in [Services -> 0..RestartDelay]
<1>1. CASE \E S, o : service_start(S, o)
  BY <1>1, Start_Clock
<1>2. CASE started' = started
  BY <1>2 DEF ClockTypes
<1>3. (\E S : start(S)) => \E S, o : service_start(S, o)
  BY DEF start
<1>4. (\E s : service_restart(s)) => (\E S : start(S)) \/ started' = started
  BY DEF service_restart, service_stop_or_reset, svcvars
<1>5. (\E S : start(S)) \/ (\E S, o : service_start(S, o)) \/ started' = started
  <2>1. CASE svc_command(c)
    BY <1>4, <2>1 DEF svc_command, service_stop_or_reset
  <2>2. CASE class_command(c)
    BY <2>2 DEF class_command, service_stop_or_reset
  <2> QED BY <2>1, <2>2
<1> QED BY <1>1, <1>2, <1>3, <1>5

\* A step of the main loop that counts no exit and does not go to sleep.
LEMMA Awake_Keeps ==
  ASSUME SInv, UNCHANGED <<crashvars, needs_restart, uptime, recovery>>,
         started' \in [Services -> 0..RestartDelay], propfd' \in BOOLEAN,
         loop' \in Loops, loop' # "poll", ready' \subseteq {"key", "prop", "sig"}
  PROVE  SInv'
<1>1. ClockTypes'
  BY DEF SInv, ClockTypes, crashvars
<1>2. Crashes'
  BY DEF SInv, Crashes, Counts, crashvars
<1>3. DeadlineCovers'
  BY DEF DeadlineCovers
<1>4. RebootJustified'
  BY DEF SInv, RebootJustified, crashvars
<1> QED BY <1>1, <1>2, <1>3, <1>4 DEF SInv

\* Nothing has crashed at boot, and nobody waits.
LEMMA Init_SInv ==
  ASSUME Init PROVE SInv
<1> USE ServiceAssumption
<1>0. uptime \in Nat /\ uptime \in 0..MaxAge
  BY DEF Init, MaxAge
<1>1. Boot(RestartDelay) \in 0..RestartDelay /\ Boot(CrashWindow + 1) \in 0..CrashWindow + 1
  BY <1>0 DEF Boot
<1>2. ClockTypes
  BY <1>0, <1>1 DEF Init, ClockTypes, Loops
<1>3. Crashes
  <2> SUFFICES ASSUME NEW s \in Services PROVE Counts(s)
    BY DEF Crashes, Init
  <2>1. exits[s] = <<>> /\ nr_crashed[s] = 0
    BY DEF Init
  <2> QED BY <2>1 DEF Counts
<1>4. DeadlineCovers /\ RebootJustified
  BY DEF Init, DeadlineCovers, RebootJustified
<1> QED BY <1>2, <1>3, <1>4 DEF SInv

LEMMA execute_service_command_SInv ==
  ASSUME SInv, execute_service_command
  PROVE  SInv'
<1>1. started' \in [Services -> 0..RestartDelay]
  <2>1. CASE UNCHANGED svcvars
    BY <2>1 DEF SInv, ClockTypes, svcvars
  <2>2. CASE svc_command(Head(queue)) \/ class_command(Head(queue))
    BY <2>2, Command_Clock DEF SInv
  <2> QED BY <2>1, <2>2 DEF execute_service_command
<1>2. /\ propfd' \in BOOLEAN /\ loop' \in {"restart", "reap"} /\ ready' = ready
      /\ UNCHANGED <<crashvars, needs_restart, uptime, recovery>>
  BY DEF execute_service_command, signal_init, Goto, SInv, ClockTypes, sigvars
<1> QED BY <1>1, <1>2, Awake_Keeps DEF Loops, SInv, ClockTypes

\* The deadline is the earliest restart that is left.
LEMMA restart_processes_SInv ==
  ASSUME SInv, restart_processes
  PROVE  SInv'
<1> USE ServiceAssumption
<1> DEFINE waiting == {s \in Services : "RESTARTING" \in flags[s]}
           due     == {s \in waiting : started[s] >= RestartDelay}
           left    == {RestartDelay - started[s] : s \in waiting \ due}
<1>1. PICK o : service_start(due, o)
  BY DEF restart_processes, start
<1>2. /\ needs_restart' = NextDue(left) /\ loop' = "poll" /\ ready' = ready
      /\ UNCHANGED <<crashvars, sigvars, uptime, recovery>>
  BY DEF restart_processes, Goto
<1>3. /\ started' \in [Services -> 0..RestartDelay]
      /\ \A s \in Services : s \notin due =>
           started'[s] = started[s] /\ flags'[s] = flags[s]
      /\ \A s \in Services : s \in due => "RESTARTING" \notin flags'[s]
  <2> HIDE DEF due
  <2> QED BY <1>1, Start_Clock DEF SInv
<1>4. \A d \in left : d \in 0..RestartDelay
  <2> SUFFICES ASSUME NEW s \in waiting \ due PROVE RestartDelay - started[s] \in 0..RestartDelay
    OBVIOUS
  <2>1. started[s] \in 0..RestartDelay
    BY DEF SInv, ClockTypes
  <2> QED BY <2>1
<1>5. left # {} => NextDue(left) \in left /\ \A e \in left : NextDue(left) <= e
  <2>1. left \in SUBSET Nat
    BY <1>4
  <2> HIDE DEF left
  <2> QED BY <2>1, NextDue_Least
<1>6. needs_restart' \in {Never} \cup 0..RestartDelay
  <2> HIDE DEF left
  <2>1. CASE left = {}
    BY <1>2, <2>1 DEF NextDue
  <2>2. CASE left # {}
    BY <1>2, <1>4, <1>5, <2>2
  <2> QED BY <2>1, <2>2
<1>7. ClockTypes'
  BY <1>2, <1>3, <1>6 DEF SInv, ClockTypes, crashvars, sigvars, Loops
<1>8. Crashes' /\ RebootJustified'
  BY <1>2 DEF SInv, Crashes, Counts, RebootJustified, crashvars
<1>9. DeadlineCovers'
  <2> SUFFICES ASSUME NEW s \in Services, "RESTARTING" \in flags'[s]
               PROVE  needs_restart' # Never
                        /\ needs_restart' <= RestartDelay - started'[s]
    BY DEF DeadlineCovers
  <2>1. s \notin due
    BY <1>3
  <2>2. started'[s] = started[s] /\ flags'[s] = flags[s]
    BY <1>3, <2>1
  <2>3. s \in waiting \ due
    BY <2>1, <2>2
  <2>4. RestartDelay - started[s] \in left
    BY <2>3
  <2>5. NextDue(left) \in 0..RestartDelay /\ NextDue(left) <= RestartDelay - started[s]
    <3> HIDE DEF left
    <3> QED BY <1>4, <1>5, <2>4
  <2> HIDE DEF left
  <2> QED BY <1>2, <2>2, <2>5 DEF Never
<1> QED BY <1>7, <1>8, <1>9 DEF SInv

\* Waking up, and handling what is readable.
LEMMA Dispatch_Awake ==
  ASSUME NEW r \in SUBSET {"key", "prop", "sig"}, Dispatch(r)
  PROVE  loop' \in Loops /\ loop' # "poll" /\ ready' \subseteq {"key", "prop", "sig"}
BY DEF Dispatch, Loops

LEMMA poll_fds_SInv ==
  ASSUME SInv, NEW r \in SUBSET {"key", "prop", "sig"}, poll_fds(r)
  PROVE  SInv'
<1>1. /\ UNCHANGED <<crashvars, needs_restart, uptime, recovery>>
      /\ started' = started /\ propfd' = propfd /\ Dispatch(r)
  BY DEF poll_fds, svcvars, sigvars
<1> QED BY <1>1, Dispatch_Awake, Awake_Keeps DEF SInv, ClockTypes

LEMMA handle_keychord_SInv ==
  ASSUME SInv, handle_keychord
  PROVE  SInv'
<1>1. /\ UNCHANGED <<crashvars, needs_restart, uptime, recovery>>
      /\ propfd' = propfd /\ Dispatch(ready \ {"key"})
  BY DEF handle_keychord, sigvars
<1>2. started' \in [Services -> 0..RestartDelay]
  <2>1. CASE UNCHANGED svcvars
    BY <2>1 DEF SInv, ClockTypes, svcvars
  <2>2. CASE \E S, o : service_start(S, o)
    BY <2>2, Start_Clock DEF SInv
  <2> QED BY <2>1, <2>2 DEF handle_keychord, start
<1>3. ready \ {"key"} \in SUBSET {"key", "prop", "sig"}
  BY DEF SInv, ClockTypes
<1>4. loop' \in Loops /\ loop' # "poll" /\ ready' \subseteq {"key", "prop", "sig"}
  BY <1>1, <1>3, Dispatch_Awake
<1> QED BY <1>1, <1>2, <1>4, Awake_Keeps DEF SInv, ClockTypes

LEMMA handle_control_fd_SInv ==
  ASSUME SInv, handle_control_fd
  PROVE  SInv'
<1>1. /\ UNCHANGED <<crashvars, needs_restart, uptime, recovery>>
      /\ propfd' = propfd /\ Dispatch(ready \ {"prop"})
  BY DEF handle_control_fd, sigvars
<1>2. started' \in [Services -> 0..RestartDelay]
  <2>1. CASE UNCHANGED svcvars
    BY <2>1 DEF SInv, ClockTypes, svcvars
  <2>2. CASE \E c \in Ctl : svc_command(c)
    BY <2>2, Command_Clock DEF SInv
  <2> QED BY <2>1, <2>2 DEF handle_control_fd
<1>3. ready \ {"prop"} \in SUBSET {"key", "prop", "sig"}
  BY DEF SInv, ClockTypes
<1>4. loop' \in Loops /\ loop' # "poll" /\ ready' \subseteq {"key", "prop", "sig"}
  BY <1>1, <1>3, Dispatch_Awake
<1> QED BY <1>1, <1>2, <1>4, Awake_Keeps DEF SInv, ClockTypes

LEMMA handle_signal_SInv ==
  ASSUME SInv, handle_signal
  PROVE  SInv'
<1>1. /\ UNCHANGED <<crashvars, needs_restart, uptime, recovery>>
      /\ propfd' = propfd /\ started' = started /\ loop' = "reap"
      /\ ready' = ready \ {"sig"}
  BY DEF handle_signal, svcvars
<1>2. ready' \subseteq {"key", "prop", "sig"}
  BY <1>1 DEF SInv, ClockTypes
<1> QED BY <1>1, <1>2, Awake_Keeps DEF SInv, ClockTypes, Loops

LEMMA onrestart_SInv ==
  ASSUME SInv, onrestart
  PROVE  SInv'
<1>1. /\ UNCHANGED <<crashvars, needs_restart, uptime, recovery>>
      /\ propfd' = propfd /\ loop' \in {"onrestart", "reap"} /\ ready' = ready
  BY DEF onrestart, sigvars
<1>2. started' \in [Services -> 0..RestartDelay]
  BY Command_Clock DEF onrestart, SInv, ClockTypes
<1> QED BY <1>1, <1>2, Awake_Keeps DEF SInv, ClockTypes, Loops

LEMMA reap_done_SInv ==
  ASSUME IInv, SInv, reap_done
  PROVE  SInv'
<1>1. /\ UNCHANGED <<crashvars, needs_restart, uptime, recovery>>
      /\ propfd' = propfd /\ started' = started /\ loop' \in {"cmd", "restart"}
      /\ ready' = ready
  BY DEF reap_done, svcvars, sigvars, IInv, CommandTypes
<1> QED BY <1>1, Awake_Keeps DEF SInv, ClockTypes, Loops

\* The exit of a critical service: the count starts again outside the window,
\* and inside it every exit counted is one of the last in the history.
LEMMA wait_for_one_process_SInv ==
  ASSUME SInv, NEW s \in Services, wait_for_one_process(s)
  PROVE  SInv'
<1> USE ServiceAssumption
<1>0. /\ loop = "reap" /\ ~recovery /\ started' = started /\ propfd' = propfd
      /\ UNCHANGED <<ready, needs_restart, uptime>>
  BY DEF wait_for_one_process, sigvars
<1>1. CASE UNCHANGED <<crashvars, loop, recovery>>
  BY <1>0, <1>1, Awake_Keeps DEF SInv, ClockTypes, Loops
<1>2. CASE /\ exits' = [exits EXCEPT ![s] =
                 IF Counted(s) THEN LastExits(Append(@, 0)) ELSE @]
           /\ nr_crashed' = [nr_crashed EXCEPT ![s] =
                 IF Counted(s) THEN IF InWindow(s) THEN @ + 1 ELSE 1 ELSE @]
           /\ crashed' = [crashed EXCEPT ![s] =
                 IF Counted(s) /\ ~InWindow(s) THEN 0 ELSE @]
           /\ recovery' = Reboots(s) /\ loop' = "onrestart"
  <2>1. CASE ~Counted(s)
    <3>1. ~Reboots(s)
      BY <2>1 DEF Reboots
    <3>2. recovery' = recovery
      <4>1. recovery' = FALSE /\ recovery = FALSE
        BY <1>0, <1>2, <3>1, Zenon DEF SInv, ClockTypes, Reboots
      <4> QED BY <4>1
    <3>3. /\ exits' = [exits EXCEPT ![s] = @]
          /\ nr_crashed' = [nr_crashed EXCEPT ![s] = @]
          /\ crashed' = [crashed EXCEPT ![s] = @]
      BY <1>2, <2>1, Zenon
    <3>4. exits' = exits
      <4>1. exits = [t \in Services |-> exits[t]]
        BY DEF SInv, Crashes
      <4> QED BY <3>3, <4>1
    <3>5. nr_crashed' = nr_crashed /\ crashed' = crashed
      BY <3>3 DEF SInv, ClockTypes
    <3> QED BY <1>0, <1>2, <3>2, <3>4, <3>5, Awake_Keeps DEF SInv, ClockTypes, Loops, crashvars
  <2>2. CASE Counted(s)
    <3> DEFINE q == exits[s]
               r == LastExits(Append(q, 0))
               A == 0..CrashWindow + 1
    <3>1. Counts(s) /\ crashed[s] \in A /\ nr_crashed[s] \in Nat
      BY DEF SInv, Crashes, ClockTypes
    <3>2. q \in Seq(A) /\ Len(q) <= CrashThreshold + 1 /\ 0 \in A /\ Len(q) \in Nat
      BY <3>1 DEF Counts
    <3>3. PICK R : R = r
      OBVIOUS
    <3>4. /\ R \in Seq(A) /\ Len(R) <= CrashThreshold + 1 /\ Len(R) \in Nat
          /\ Len(R) = Len(q) + 1 \/ (Len(R) = CrashThreshold + 1 /\ Len(q) = Len(R))
          /\ R[Len(R)] = 0
          /\ \A i \in 1..Len(R) : i # Len(R) =>
               i + Len(q) - Len(R) + 1 \in 1..Len(q) /\ R[i] = q[i + Len(q) - Len(R) + 1]
      <4> HIDE DEF q, A
      <4>1. /\ R \in Seq(A) /\ Len(R) <= CrashThreshold + 1
            /\ Len(R) = Len(q) + 1 \/ (Len(R) = CrashThreshold + 1 /\ Len(q) = Len(R))
            /\ R[Len(R)] = 0
            /\ \A i \in 1..Len(R) : i # Len(R) =>
                 /\ i + Len(q) - Len(R) + 1 \in 1..Len(q)
                 /\ R[i] = q[i + Len(q) - Len(R) + 1]
        <5> HIDE DEF r
        <5>1. R = LastExits(Append(q, 0))
          BY <3>3 DEF r
        <5>2. q \in Seq(A) /\ 0 \in A /\ Len(q) <= CrashThreshold + 1
          BY <3>2
        <5> HIDE ServiceAssumption
        <5> QED BY <5>1, <5>2, LastExits_Append
      <4>2. Len(R) \in Nat
        BY <4>1
      <4> QED BY <4>1, <4>2, Zenon
    <3>5. /\ exits'[s] = R /\ exits' = [t \in Services |-> exits'[t]]
          /\ nr_crashed'[s] = IF InWindow(s) THEN nr_crashed[s] + 1 ELSE 1
          /\ crashed'[s] = IF InWindow(s) THEN crashed[s] ELSE 0
          /\ \A t \in Services : t # s => /\ exits'[t] = exits[t]
                                          /\ nr_crashed'[t] = nr_crashed[t]
                                          /\ crashed'[t] = crashed[t]
      BY <1>2, <2>2, <3>3 DEF SInv, Crashes, ClockTypes
    <3>6. nr_crashed[s] <= CrashThreshold /\ nr_crashed[s] <= Len(q)
      BY <1>0, <3>1 DEF Counts
    <3>7. recovery' <=> InWindow(s) /\ nr_crashed[s] + 1 > CrashThreshold
      BY <1>2, <2>2 DEF Reboots
    <3>8. ClockTypes'
      <4>1. nr_crashed' \in [Services -> Nat]
        BY <1>2, <3>1 DEF SInv, ClockTypes
      <4>2. crashed' \in [Services -> 0..CrashWindow + 1]
        BY <1>2 DEF SInv, ClockTypes
      <4>3. recovery' \in BOOLEAN
        BY <1>2, Zenon DEF Reboots
      <4> QED BY <1>0, <1>2, <4>1, <4>2, <4>3 DEF SInv, ClockTypes, Loops
    <3>9. ASSUME NEW i \in 1..Len(R), i > Len(R) - nr_crashed'[s]
          PROVE  R[i] <= crashed'[s]
      <4>1. CASE i = Len(R)
        BY <3>1, <3>4, <3>5, <4>1
      <4>2. CASE i # Len(R)
        <5>1. InWindow(s)
          <6>1. ~InWindow(s) => nr_crashed'[s] = 1
            BY <3>5
          <6>2. nr_crashed'[s] # 1
            BY <3>4, <3>9, <4>2
          <6> QED BY <6>1, <6>2
        <5>2. PICK j \in 1..Len(q) : j = i + Len(q) - Len(R) + 1 /\ R[i] = q[j]
          BY <3>4, <4>2
        <5>3. j > Len(q) - nr_crashed[s]
          <6>1. nr_crashed'[s] = nr_crashed[s] + 1
            BY <3>5, <5>1
          <6>2. PICK m \in Nat, n \in Nat, k \in Nat :
                  m = Len(R) /\ n = Len(q) /\ k = nr_crashed[s]
            BY <3>1, <3>2, <3>4
          <6>3. i > m - (k + 1) /\ j = i + n - m + 1 /\ i \in Int
            BY <3>9, <5>2, <6>1, <6>2
          <6>4. j > n - k
            BY <6>3
          <6> QED BY <6>2, <6>4
        <5>4. q[j] <= crashed[s]
          BY <3>1, <5>2, <5>3 DEF Counts
        <5> QED BY <3>5, <5>1, <5>2, <5>4
      <4> QED BY <4>1, <4>2
    <3>10. nr_crashed'[s] <= Len(R)
      <4>1. PICK m \in Nat, n \in Nat, k \in Nat :
              m = Len(R) /\ n = Len(q) /\ k = nr_crashed[s]
        BY <3>1, <3>2, <3>4
      <4>2. k <= n /\ k <= CrashThreshold /\ (m = n + 1 \/ (m = CrashThreshold + 1 /\ n = m))
        BY <3>4, <3>6, <4>1
      <4>3. k + 1 <= m /\ 1 <= m
        BY <4>2
      <4> QED BY <3>5, <4>1, <4>3
    <3>11. ~recovery' => nr_crashed'[s] <= CrashThreshold
      BY <3>1, <3>5, <3>7
    <3>12. Crashes'
      <4> SUFFICES ASSUME NEW t \in Services PROVE Counts(t)'
        BY <3>5 DEF Crashes
      <4>1. CASE t = s
        BY <3>4, <3>5, <3>9, <3>10, <3>11, <4>1 DEF Counts
      <4>2. CASE t # s
        BY <1>0, <3>5, <4>2 DEF SInv, Crashes, Counts
      <4> QED BY <4>1, <4>2
    <3>13. DeadlineCovers'
      BY <1>2 DEF DeadlineCovers
    <3>14. RebootJustified'
      <4> SUFFICES ASSUME recovery'
                   PROVE  /\ s \in Critical /\ Len(exits'[s]) = CrashThreshold + 1
                          /\ \A i \in DOMAIN exits'[s] : exits'[s][i] <= CrashWindow
        BY DEF RebootJustified
      <4>1. InWindow(s) /\ nr_crashed'[s] = CrashThreshold + 1
        BY <3>1, <3>5, <3>6, <3>7
      <4>2. Len(R) = CrashThreshold + 1
        BY <3>4, <3>10, <4>1
      <4>3. crashed'[s] \in Int /\ crashed'[s] <= CrashWindow
        BY <3>1, <3>5, <4>1 DEF InWindow
      <4>4. \A i \in 1..Len(R) : R[i] <= CrashWindow
        <5> SUFFICES ASSUME NEW i \in 1..Len(R) PROVE R[i] <= CrashWindow
          OBVIOUS
        <5>1. R[i] <= crashed'[s]
          BY <3>9, <4>1, <4>2
        <5>2. R[i] \in Int
          BY <3>4
        <5> QED BY <4>3, <5>1, <5>2
      <4>5. DOMAIN R = 1..Len(R)
        BY <3>4
      <4> QED BY <2>2, <3>5, <4>2, <4>4, <4>5 DEF Counted
    <3> QED BY <3>8, <3>12, <3>13, <3>14 DEF SInv
  <2> QED BY <2>1, <2>2
<1> QED BY <1>1, <1>2 DEF wait_for_one_process, crashvars

\* A second passes: a deadline comes as much closer as the restart it is for.
LEMMA Tick_SInv ==
  ASSUME SInv, Tick
  PROVE  SInv'
<1> USE ServiceAssumption
<1> DEFINE W == CrashWindow + 1
<1>0. W \in Nat /\ uptime \in 0..MaxAge /\ MaxAge \in Nat
  BY DEF SInv, ClockTypes, MaxAge
<1>1. \A a, cap \in Nat : a <= cap =>
        SatOne(a, cap) \in 0..cap /\ SatOne(a, cap) = IF a < cap THEN a + 1 ELSE cap
  BY DEF SatOne
<1>2. /\ started' = [s \in Services |-> SatOne(started[s], RestartDelay)]
      /\ crashed' = [s \in Services |-> SatOne(crashed[s], W)]
      /\ exits' = [s \in Services |-> [i \in DOMAIN exits[s] |-> SatOne(exits[s][i], W)]]
      /\ uptime' = SatOne(uptime, MaxAge)
      /\ needs_restart' = IF needs_restart > 0 THEN needs_restart - 1 ELSE needs_restart
      /\ UNCHANGED <<flags, nr_crashed, sigvars, loop, ready, recovery>> /\ ~recovery
  BY DEF Tick
<1>3. \A s \in Services : started[s] \in 0..RestartDelay /\ crashed[s] \in 0..W
  BY DEF SInv, ClockTypes
<1> HIDE DEF W
<1>4. ClockTypes'
  <2>0. \A cap \in Nat : \A a \in 0..cap : SatOne(a, cap) \in 0..cap
    BY DEF SatOne
  <2>1. started' \in [Services -> 0..RestartDelay]
    <3>1. \A s \in Services : SatOne(started[s], RestartDelay) \in 0..RestartDelay
      BY <1>3, <2>0
    <3> QED BY <1>2, <3>1
  <2>2. crashed' \in [Services -> 0..W]
    <3>1. \A s \in Services : SatOne(crashed[s], W) \in 0..W
      BY <1>0, <1>3, <2>0
    <3> QED BY <1>2, <3>1
  <2>3. uptime' \in 0..MaxAge
    BY <1>0, <1>2, <2>0
  <2>4. needs_restart' \in {Never} \cup 0..RestartDelay
    BY <1>2 DEF SInv, ClockTypes, Never
  <2> QED BY <1>2, <2>1, <2>2, <2>3, <2>4 DEF SInv, ClockTypes, sigvars, W
<1>5. Crashes'
  <2> SUFFICES ASSUME NEW s \in Services PROVE Counts(s)'
    BY <1>2 DEF Crashes
  <2>1. Counts(s) /\ crashed[s] \in 0..W /\ nr_crashed[s] \in Nat
    BY <1>3 DEF SInv, Crashes, ClockTypes
  <2> DEFINE q == exits[s]
             n == Len(q)
             r == [i \in 1..n |-> SatOne(q[i], W)]
  <2>2. q \in Seq(0..W) /\ n \in Nat /\ DOMAIN q = 1..n
    BY <2>1 DEF Counts, W
  <2>3. \A i \in 1..n : q[i] \in 0..W
    <3> HIDE DEF q
    <3> QED BY <2>2, ElementOfSeq
  <2>4. \A i \in 1..n : SatOne(q[i], W) \in 0..W
    <3>1. \A a \in 0..W : SatOne(a, W) \in 0..W
      BY <1>0 DEF SatOne
    <3> QED BY <2>3, <3>1
  <2>5. r \in [1..n -> 0..W]
    BY <2>4
  <2>6. r \in Seq(0..W) /\ Len(r) = n
    <3> HIDE DEF r, n
    <3>1. r \in Seq(0..W)
      <4>1. r \in UNION {[1..m -> 0..W] : m \in Nat}
        BY <2>2, <2>5, Zenon
      <4> QED BY <4>1, SeqDef, Zenon
    <3> QED BY <2>2, <2>5, <3>1, LenProperties
  <2>7. exits'[s] = r
    BY <1>2, <2>2
  <2>8. crashed'[s] = SatOne(crashed[s], W) /\ nr_crashed' = nr_crashed
    BY <1>2
  <2>9. ASSUME NEW i \in 1..n, i > n - nr_crashed[s] PROVE r[i] <= crashed'[s]
    <3>1. q[i] <= crashed[s] /\ r[i] = SatOne(q[i], W)
      BY <2>1, <2>9 DEF Counts
    <3>2. PICK a \in 0..W, b \in 0..W : a = q[i] /\ b = crashed[s]
      BY <2>1, <2>3
    <3>3. SatOne(a, W) <= SatOne(b, W)
      <4>1. a <= b
        BY <3>1, <3>2
      <4> QED BY <1>0, <4>1 DEF SatOne
    <3> QED BY <2>8, <3>1, <3>2, <3>3, Zenon
  <2> HIDE DEF r
  <2> QED BY <1>2, <2>1, <2>6, <2>7, <2>8, <2>9 DEF Counts, W
<1>6. DeadlineCovers'
  <2> SUFFICES ASSUME loop' = "poll", NEW s \in Services, "RESTARTING" \in flags'[s]
               PROVE  needs_restart' # Never
                        /\ needs_restart' <= RestartDelay - started'[s]
    BY DEF DeadlineCovers
  <2>1. needs_restart # Never /\ needs_restart <= RestartDelay - started[s]
    BY <1>2 DEF SInv, DeadlineCovers
  <2>2. PICK d \in 0..RestartDelay, a \in 0..RestartDelay : d = needs_restart /\ a = started[s]
    BY <1>3, <2>1 DEF SInv, ClockTypes
  <2>3. started'[s] = SatOne(a, RestartDelay)
    BY <1>2, <2>2
  <2> QED BY <1>2, <2>1, <2>2, <2>3 DEF SatOne, Never
<1>7. RebootJustified'
  BY <1>2 DEF RebootJustified
<1> QED BY <1>4, <1>5, <1>6, <1>7 DEF SInv

\* What children do, and a step that changes nothing.
LEMMA Children_SInv ==
  ASSUME SInv, UNCHANGED <<flags, started, crashvars, propfd, loop, ready,
                           needs_restart, uptime, recovery>>
  PROVE  SInv'
BY DEF SInv, ClockTypes, Crashes, Counts, DeadlineCovers, RebootJustified, crashvars

\* Every step of the system keeps the invariant.
LEMMA Next_SInv ==
  ASSUME IInv, SInv, [Next]_vars
  PROVE  SInv'
<1>1. CASE InitStep
  <2>1. CASE poll_wakes
    BY <2>1, poll_fds_SInv DEF poll_wakes, SigReady
  <2>2. CASE \E s \in Services : wait_for_one_process(s)
    BY <2>2, wait_for_one_process_SInv
  <2> QED BY <1>1, <2>1, <2>2, execute_service_command_SInv, restart_processes_SInv,
             handle_keychord_SInv, handle_control_fd_SInv, handle_signal_SInv,
             onrestart_SInv, reap_done_SInv DEF InitStep
<1>2. CASE poll_client
  <2>1. PICK r \in SUBSET {"key", "prop"} : poll_fds(r \cup SigReady)
    BY <1>2 DEF poll_client
  <2>2. r \cup SigReady \in SUBSET {"key", "prop", "sig"}
    BY DEF SigReady
  <2> QED BY <2>1, <2>2, poll_fds_SInv
<1>3. CASE Tick
  BY <1>3, Tick_SInv
<1>4. CASE \E s \in Services : child_setpgid(s) \/ child_forks(s) \/ child_exits(s)
                                 \/ child_dies(s) \/ group_dies(s)
  <2>1. UNCHANGED <<flags, started, crashvars, propfd, loop, ready, needs_restart,
                    uptime, recovery>>
    BY <1>4 DEF child_setpgid, child_forks, child_exits, child_dies, group_dies, Child,
                loopvars, sigvars, sigchld_handler
  <2> QED BY <2>1, Children_SInv
<1>5. CASE Rebooted \/ UNCHANGED vars
  BY <1>5, Children_SInv DEF Rebooted, vars, svcvars, sigvars, loopvars
<1> QED BY <1>1, <1>2, <1>3, <1>4, <1>5 DEF Next

-----------------------------------------------------------------------------
(* The theorems *)

\* A service has a process exactly while it is SVC_RUNNING: whatever commands,
\* exits and restarts interleave, service_start never forks a second one and
\* wait_for_one_process never forgets one.
THEOREM ServiceHasOneProcess == Spec => []OneProcess
<1>1. IInv => OneProcess
  BY DEF IInv, SvcInv
<1> QED BY <1>1, IInv_Always, PTL

\* A service that waits to be restarted has been told nothing else: stop, reset
\* and restart take SVC_RESTARTING away, and only an exit sets it.
THEOREM RestartingIsAlone == Spec => []RestartingAlone
<1>1. IInv => RestartingAlone
  BY DEF IInv, SvcInv
<1> QED BY <1>1, IInv_Always, PTL

\* No exited child is forgotten: the byte written by sigchld_handler, or the
\* loop of handle_signal, still stands for it.
THEOREM NoChildIsLost == Spec => []NoLostChild
<1>1. IInv => NoLostChild
  BY DEF IInv, LoopInv
<1> QED BY <1>1, IInv_Always, PTL

\* init.svc.<name> tells whether the service has a process, except between its
\* exit and the end of its onrestart commands.
THEOREM StateIsReported == OnRestartNamesOthers /\ Spec => []StateReported
<1> SUFFICES ASSUME OnRestartNamesOthers PROVE Spec => []StateReported
  OBVIOUS
<1>1. IInv => StateReported
  BY DEF IInv, LoopInv, Reported
<1> QED BY <1>1, IInv_Always, PTL

\* A disabled service starts only by a command that names it, or by its own
\* keychord.
THEOREM DisabledIsRespected == Spec => DisabledNeedsCommand
<1> DEFINE A == \A s \in Services :
       "DISABLED" \in flags[s] /\ ~Running(s) /\ Running(s)' =>
         \/ loop = "cmd" /\ Head(queue) \in Named(s)
         \/ loop = "onrestart" /\ Head(todo) \in Named(s)
         \/ loop = "prop" /\ \E c \in Named(s) : svc_command(c)
         \/ loop = "key" /\ s \in Keychord /\ start({s})
<1>1. IInv /\ [Next]_vars => [A]_vars
  BY DisabledStays
<1>2. Spec => []IInv
  BY IInv_Always
<1> QED BY <1>1, <1>2, PTL DEF Spec, DisabledNeedsCommand

\* Supervision as a whole, for every rc file and every timing: main never
\* sleeps past a pending restart, and init reboots into recovery only after
\* more than CrashThreshold exits of a critical service within one window.
THEOREM SupervisionIsSound == Spec => []SupervisionInv
<1>1. Init => IInv /\ SInv
  BY Init_IInv, Init_SInv
<1>2. (IInv /\ SInv) /\ [Next]_vars => (IInv /\ SInv)'
  BY Next_IInv, Next_SInv
<1>3. IInv /\ SInv => SupervisionInv
  <2> SUFFICES ASSUME IInv, SInv PROVE SupervisionInv
    OBVIOUS
  <2>1. nr_crashed \in [Services -> 0..CrashThreshold + 1]
    <3> SUFFICES ASSUME NEW s \in Services PROVE nr_crashed[s] \in 0..CrashThreshold + 1
      BY DEF SInv, ClockTypes
    <3>1. nr_crashed[s] \in Nat /\ Counts(s)
      BY DEF SInv, ClockTypes, Crashes
    <3>2. Len(exits[s]) \in Nat
      BY <3>1 DEF Counts
    <3> QED BY <3>1, <3>2, ServiceAssumption DEF Counts
  <2>2. TypeOK
    BY <2>1 DEF TypeOK, IInv, SvcInv, SvcTypes, Reports, LoopInv, SigTypes, Reaping,
                CommandTypes, SInv, ClockTypes, Left
  <2> QED BY <2>2 DEF SupervisionInv, IInv, SvcInv, SInv
<1> QED BY <1>1, <1>2, <1>3, PTL DEF Spec

-----------------------------------------------------------------------------
(* The property area *)

PropTypes == [Props -> Values \cup Net \cup {Absent}]
FileTypes == [value : Values \cup {Absent}, stale : BOOLEAN]
DiskTypes == [Persist -> FileTypes]

\* The states a handler works on.
Areas == [props : PropTypes, disk : DiskTypes, queue : Seq(DOMAIN action_list),
          ran : [Ids -> BOOLEAN]]
AreaOf(p, d, q, r) == [props |-> p, disk |-> d, queue |-> q, ran |-> r]

\* An area is its four parts.
LEMMA AreaParts ==
  ASSUME NEW st \in Areas
  PROVE  /\ st = AreaOf(st.props, st.disk, st.queue, st.ran)
         /\ st.props \in PropTypes /\ st.disk \in DiskTypes
         /\ st.queue \in Seq(DOMAIN action_list) /\ st.ran \in [Ids -> BOOLEAN]
  BY DEF Areas, AreaOf

\* An area with another queue.
OtherQueue(w, i) == [w EXCEPT !.queue = i]
LEMMA OtherQueueArea ==
  ASSUME NEW p, NEW d, NEW q, NEW r, NEW i
  PROVE  OtherQueue(AreaOf(p, d, q, r), i) = AreaOf(p, d, i, r)
<1> DEFINE F == {"props", "disk", "queue", "ran"}
<1>1. DOMAIN AreaOf(p, d, q, r) = F
  BY DEF AreaOf
<1>2. OtherQueue(AreaOf(p, d, q, r), i)
        = [x \in F |-> IF x = "queue" THEN i ELSE AreaOf(p, d, q, r)[x]]
  BY <1>1 DEF OtherQueue
<1>3. AreaOf(p, d, i, r) = [x \in F |-> AreaOf(p, d, i, r)[x]]
  BY DEF AreaOf
<1>4. \A x \in F : (IF x = "queue" THEN i ELSE AreaOf(p, d, q, r)[x]) = AreaOf(p, d, i, r)[x]
  BY DEF AreaOf
<1> QED
  BY <1>2, <1>3, <1>4, Zenon

\* An area with another queue and another record of what ran.
Requeued(w, i, j) == [w EXCEPT !.queue = i, !.ran = j]
LEMMA RequeuedArea ==
  ASSUME NEW p, NEW d, NEW q, NEW r, NEW i, NEW j
  PROVE  Requeued(AreaOf(p, d, q, r), i, j) = AreaOf(p, d, i, j)
<1> DEFINE w == AreaOf(p, d, q, r)
           v == OtherQueue(w, i)
<1>1. Requeued(w, i, j) = [v EXCEPT !.ran = j]
  BY DEF Requeued, OtherQueue
<1>2. [AreaOf(p, d, i, r) EXCEPT !.ran = j] = AreaOf(p, d, i, j)
  BY DEF AreaOf
<1>3. v = AreaOf(p, d, i, r)
  BY OtherQueueArea
<1> HIDE DEF v
<1> QED
  BY <1>1, <1>2, <1>3

\* The actions that setting property n to v triggers.
Triggered(n, v) == {a \in PropertyActions : Matches(a, n, v)}
NewProps(st, n, v) ==
  IF n \in Net /\ n # NetChange THEN [[st.props EXCEPT ![n] = v] EXCEPT ![NetChange] = n]
  ELSE [st.props EXCEPT ![n] = v]
NewDisk(st, n, v) ==
  IF Saves(st, n) THEN [st.disk EXCEPT ![n] = Written(st.disk[n], n, v)] ELSE st.disk
NewQueue(st, n, v) ==
  IF property_triggers_enabled /\ n # NetChange
  THEN action_add_queue_tail(st.queue, Triggered(n, v)) ELSE st.queue
NewRan(st, n, v) ==
  IF n = NetChange THEN st.ran ELSE [a \in Ids |-> st.ran[a] /\ a \notin Triggered(n, v)]

\* What property_set does to each part.
LEMMA SetParts ==
  ASSUME NEW st \in Areas, NEW n \in Props, NEW v, ~ReadOnly(st, n)
  PROVE  property_set(st, n, v) =
           AreaOf(NewProps(st, n, v), NewDisk(st, n, v), NewQueue(st, n, v), NewRan(st, n, v))
<1>0. PICK p, d, q, r : st = AreaOf(p, d, q, r)
  BY AreaParts
<1>1. /\ st.props = p /\ st.disk = d /\ st.queue = q /\ st.ran = r
  BY <1>0 DEF AreaOf
<1> DEFINE set == [st EXCEPT !.props[n] = v]
           noted == [set EXCEPT !.props[NetChange] = n]
<1>2. set = AreaOf([p EXCEPT ![n] = v], d, q, r)
  BY <1>0 DEF AreaOf
<1>3. noted = AreaOf([[p EXCEPT ![n] = v] EXCEPT ![NetChange] = n], d, q, r)
  <2>1. \A x : [AreaOf(x, d, q, r) EXCEPT !.props[NetChange] = n]
                 = AreaOf([x EXCEPT ![NetChange] = n], d, q, r)
    BY DEF AreaOf
  <2> HIDE DEF set
  <2> QED
    BY <1>2, <2>1, Zenon
<1>4. write_persistent_property(set, n, v) =
        AreaOf([p EXCEPT ![n] = v], [d EXCEPT ![n] = Written(d[n], n, v)], q, r)
  <2>1. \A x, w : [AreaOf(x, d, q, r) EXCEPT !.disk[n] = w] = AreaOf(x, [d EXCEPT ![n] = w], q, r)
    BY DEF AreaOf
  <2>2. \A x : AreaOf(x, d, q, r).disk = d
    BY DEF AreaOf
  <2>3. set.disk = d
    BY <1>2, <2>2, Zenon
  <2> HIDE DEF set
  <2> QED
    BY <1>2, <2>1, <2>3 DEF write_persistent_property
<1>5. \A x, y : property_changed(AreaOf(x, y, q, r), n, v) =
        AreaOf(x, y, IF property_triggers_enabled
                     THEN action_add_queue_tail(q, Triggered(n, v)) ELSE q,
               [a \in Ids |-> r[a] /\ a \notin Triggered(n, v)])
  <2> TAKE x, y
  <2> DEFINE w == AreaOf(x, y, q, r)
             f == [a \in Ids |-> r[a] /\ a \notin Triggered(n, v)]
             g == IF property_triggers_enabled
                  THEN action_add_queue_tail(q, Triggered(n, v)) ELSE q
  <2>1. w.queue = q /\ w.ran = r
    BY DEF AreaOf
  <2>2. property_changed(w, n, v) =
          [w EXCEPT
            !.queue = IF property_triggers_enabled
                      THEN action_add_queue_tail(w.queue, Triggered(n, v)) ELSE w.queue,
            !.ran = [a \in Ids |-> w.ran[a] /\ a \notin Triggered(n, v)]]
    BY Zenon DEF property_changed, Triggered
  <2>3. property_changed(w, n, v) = [w EXCEPT !.queue = g, !.ran = f]
    BY <2>1, <2>2, Zenon
  <2>4. property_changed(w, n, v) = Requeued(w, g, f)
    BY <2>3, Zenon DEF Requeued
  <2> HIDE DEF f, g
  <2>5. property_changed(w, n, v) = AreaOf(x, y, g, f)
    BY <2>4, RequeuedArea
  <2> QED
    BY <2>5, Zenon DEF f, g
<1>6. CASE n = NetChange
  <2>1. property_set(st, n, v) = set
    BY <1>6 DEF property_set
  <2>2. ~Saves(st, n)
    BY <1>6, ActionsAssumption DEF Saves
  <2> QED
    BY <1>1, <1>2, <1>6, <2>1, <2>2 DEF NewProps, NewDisk, NewQueue, NewRan
<1>7. CASE n # NetChange /\ n \in Net
  <2>1. property_set(st, n, v) = property_changed(noted, n, v)
    BY <1>7 DEF property_set
  <2>2. ~Saves(st, n)
    BY <1>7, ActionsAssumption DEF Saves
  <2> QED
    BY <1>1, <1>3, <1>5, <1>7, <2>1, <2>2 DEF NewProps, NewDisk, NewQueue, NewRan
<1>8. CASE n # NetChange /\ n \notin Net
  <2>1. property_set(st, n, v) = property_changed(
          IF Saves(st, n) THEN write_persistent_property(set, n, v) ELSE set, n, v)
    BY <1>8 DEF property_set
  <2> QED
    BY <1>1, <1>2, <1>4, <1>5, <1>8, <2>1 DEF NewProps, NewDisk, NewQueue, NewRan
<1> QED
  BY <1>6, <1>7, <1>8

\* ro.* properties that are set are left alone.
LEMMA SetReadOnly ==
  ASSUME NEW st, NEW n, NEW v, ReadOnly(st, n)
  PROVE  property_set(st, n, v) = st
  BY DEF property_set

-----------------------------------------------------------------------------
(* The queue *)

\* Queueing the actions of S: each is on the queue afterwards, once.
LEMMA QueueTailFacts ==
  ASSUME DOMAIN action_list = 1..Len(action_list), Len(action_list) \in Nat,
         NEW q \in Seq(DOMAIN action_list), NEW S, S \subseteq DOMAIN action_list
  PROVE  /\ action_add_queue_tail(q, S) \in Seq(DOMAIN action_list)
         /\ Elements(action_add_queue_tail(q, S)) = Elements(q) \cup S
         /\ Distinct(q) => Distinct(action_add_queue_tail(q, S))
<1> DEFINE D == DOMAIN action_list
           k == Kept(InList, S \ Elements(q))
<1>1. InList \in Seq(D) /\ Elements(InList) = D /\ Distinct(InList)
  <2>1. InList = [i \in 1..Len(action_list) |-> i]
    BY DEF InList
  <2>2. InList \in [1..Len(action_list) -> D]
    BY <2>1
  <2>3. InList \in Seq(D)
    BY <2>2, SeqDef
  <2> QED
    BY <2>1, <2>3 DEF Elements, Distinct
<1>2. k \in Seq(D) /\ Elements(k) = D \cap (S \ Elements(q)) /\ Distinct(k)
  BY <1>1, KeptFacts
<1>3. action_add_queue_tail(q, S) = q \o k
  BY DEF action_add_queue_tail
<1>4. /\ q \o k \in Seq(D) /\ Elements(q \o k) = Elements(q) \cup Elements(k)
      /\ Distinct(q) /\ Distinct(k) /\ Elements(q) \cap Elements(k) = {} => Distinct(q \o k)
  BY <1>2, ConcatFacts
<1> HIDE DEF k
<1> QED
  BY <1>2, <1>3, <1>4

-----------------------------------------------------------------------------
(* What a step may rely on *)

\* The sections of the rc files and the builtin actions.
Sections == Elements(RcSections) \cup {Builtin(e) : e \in Builtins}
ListOK ==
  /\ action_list \in Seq(Sections)
  /\ rc \in Seq(Elements(RcSections)) /\ boot \in Seq(Elements(BootQueue))
  /\ Len(action_list) + Len(rc) + Len(boot) <= MaxActions

\* Every action has commands that can be executed, and a trigger that names a
\* property if it is a property trigger.
LEMMA SectionFacts ==
  ASSUME NEW s \in Sections
  PROVE  /\ s.do \in Seq(Elements(s.do)) /\ \A j \in DOMAIN s.do : IsCommand(s.do[j])
         /\ s.on[1] = "property" => s.on[2] \in Props
<1>1. CASE s \in Elements(RcSections)
  <2>1. PICK i \in DOMAIN RcSections : s = RcSections[i]
    BY <1>1 DEF Elements
  <2> QED
    BY <2>1, ActionsAssumption
<1>2. ASSUME NEW e \in Builtins, s = Builtin(e) PROVE
         /\ s.do \in Seq(Elements(s.do)) /\ \A j \in DOMAIN s.do : IsCommand(s.do[j])
         /\ s.on[1] = "property" => s.on[2] \in Props
  <2>1. s.do = <<e>> /\ s.on = e /\ e[1] # "setprop" /\ e[1] # "property"
    BY <1>2 DEF Builtin, Builtins
  <2>2. <<e>> \in Seq({e}) /\ Elements(<<e>>) = {e} /\ \A j \in DOMAIN <<e>> : <<e>>[j] = e
    BY DEF Elements
  <2> QED
    BY <2>1, <2>2, Zenon DEF IsCommand
<1> QED
  BY <1>1, <1>2 DEF Sections

\* The places of the actions.
LEMMA ListFacts ==
  ASSUME ListOK
  PROVE  /\ Len(action_list) \in Nat /\ DOMAIN action_list = 1..Len(action_list)
         /\ DOMAIN action_list \subseteq Ids
         /\ \A a \in DOMAIN action_list : action_list[a] \in Sections
         /\ PropertyActions \subseteq DOMAIN action_list
         /\ \A a \in PropertyActions : action_list[a].on[2] \in Props
<1>1. MaxActions \in Nat /\ Len(rc) \in Nat /\ Len(boot) \in Nat
  BY ActionsAssumption DEF ListOK, MaxActions
<1>2. Len(action_list) \in Nat /\ DOMAIN action_list = 1..Len(action_list)
      /\ \A a \in DOMAIN action_list : action_list[a] \in Sections
  BY DEF ListOK
<1>3. Len(action_list) <= MaxActions
  BY <1>1, <1>2 DEF ListOK
<1>4. \A a \in PropertyActions : action_list[a].on[2] \in Props
  BY <1>2, SectionFacts DEF PropertyActions
<1> QED
  BY <1>1, <1>2, <1>3, <1>4 DEF Ids, PropertyActions

\* No trigger is missed: the actions whose property has their value have run
\* or are queued.
Heard(st) ==
  \A a \in PropertyActions :
    LET n == action_list[a].on[2]
    IN  n # NetChange /\ st.props[n] # Absent /\ Matches(a, n, st.props[n]) =>
          st.ran[a] \/ a \in Elements(st.queue)
Sound(enabled) == {st \in Areas : Distinct(st.queue) /\ (enabled => Heard(st))}

\* What a file holds after a write, failed or not: if it is not stale, the value.
LEMMA WrittenFacts ==
  ASSUME NEW f \in FileTypes, NEW n, NEW v \in Values
  PROVE  /\ Written(f, n, v) \in FileTypes
         /\ ~Written(f, n, v).stale => Written(f, n, v).value = v
  BY ActionsAssumption DEF Written, File, FileTypes

\* The types survive a property_set.
LEMMA SetTyped ==
  ASSUME ListOK, NEW st \in Areas, NEW n \in Props, NEW v \in Values
  PROVE  property_set(st, n, v) \in Areas
<1> DEFINE p == NewProps(st, n, v)
           d == NewDisk(st, n, v)
           q == NewQueue(st, n, v)
           r == NewRan(st, n, v)
<1>1. CASE ReadOnly(st, n)
  BY <1>1, SetReadOnly
<1>2. CASE ~ReadOnly(st, n)
  <2>1. p \in PropTypes
    BY AreaParts, ActionsAssumption DEF PropTypes, NewProps
  <2>2. d \in DiskTypes
    <3>1. st.disk \in DiskTypes
      BY AreaParts
    <3>2. CASE Saves(st, n)
      <4>1. n \in Persist
        BY <3>2 DEF Saves
      <4>2. Written(st.disk[n], n, v) \in FileTypes
        BY <3>1, <4>1, WrittenFacts DEF DiskTypes
      <4> QED
        BY <3>1, <4>1, <4>2 DEF DiskTypes, NewDisk
    <3> QED
      BY <3>1, <3>2 DEF NewDisk
  <2>3. Triggered(n, v) \subseteq DOMAIN action_list
    BY ListFacts DEF Triggered
  <2>4. q \in Seq(DOMAIN action_list)
    BY <2>3, AreaParts, ListFacts, QueueTailFacts DEF NewQueue
  <2>5. r \in [Ids -> BOOLEAN]
    BY AreaParts DEF NewRan
  <2>6. property_set(st, n, v) = AreaOf(p, d, q, r)
    BY <1>2, SetParts
  <2> HIDE DEF p, d, q, r
  <2> QED
    BY <2>1, <2>2, <2>4, <2>5, <2>6 DEF Areas, AreaOf
<1> QED
  BY <1>1, <1>2

\* No property_set loses a trigger, whichever action is being executed.
LEMMA SetSound ==
  ASSUME ListOK, NEW st \in Sound(property_triggers_enabled), NEW n \in Props, NEW v \in Values
  PROVE  property_set(st, n, v) \in Sound(property_triggers_enabled)
<1>0. st \in Areas /\ Distinct(st.queue) /\ (property_triggers_enabled => Heard(st))
  BY DEF Sound
<1>1. CASE ReadOnly(st, n)
  BY <1>1, SetReadOnly
<1>2. CASE ~ReadOnly(st, n)
  <2> DEFINE p == NewProps(st, n, v)
             d == NewDisk(st, n, v)
             q == NewQueue(st, n, v)
             r == NewRan(st, n, v)
  <2>1. property_set(st, n, v) = AreaOf(p, d, q, r) /\ property_set(st, n, v) \in Areas
    BY <1>0, <1>2, SetParts, SetTyped
  <2>2. st.queue \in Seq(DOMAIN action_list) /\ Triggered(n, v) \subseteq DOMAIN action_list
    BY <1>0, AreaParts, ListFacts DEF Triggered
  <2>3. Distinct(q) /\ Elements(q) = IF property_triggers_enabled /\ n # NetChange
                         THEN Elements(st.queue) \cup Triggered(n, v) ELSE Elements(st.queue)
    BY <1>0, <2>2, ListFacts, QueueTailFacts DEF NewQueue
  <2>4. ASSUME property_triggers_enabled, NEW a \in PropertyActions,
               action_list[a].on[2] # NetChange, p[action_list[a].on[2]] # Absent,
               Matches(a, action_list[a].on[2], p[action_list[a].on[2]])
        PROVE  r[a] \/ a \in Elements(q)
    <3> DEFINE m == action_list[a].on[2]
    <3>1. m \in Props /\ a \in Ids
      BY ListFacts
    <3>2. CASE m = n
      <4>1. p[m] = v
        BY <1>0, <2>4, <3>1, <3>2, AreaParts DEF NewProps, PropTypes
      <4>2. a \in Triggered(n, v)
        BY <2>4, <3>2, <4>1 DEF Triggered
      <4> QED
        BY <2>3, <2>4, <3>2, <4>2
    <3>3. CASE m # n
      <4>1. p[m] = st.props[m]
        BY <1>0, <2>4, <3>1, <3>3, AreaParts DEF NewProps, PropTypes
      <4>2. st.ran[a] \/ a \in Elements(st.queue)
        BY <1>0, <2>4, <4>1 DEF Heard
      <4>3. a \notin Triggered(n, v)
        BY <3>3 DEF Triggered, Matches
      <4> QED
        BY <2>3, <3>1, <4>2, <4>3 DEF NewRan
    <3> QED
      BY <3>2, <3>3
  <2> HIDE DEF p, d, q, r
  <2>5. property_triggers_enabled => Heard(AreaOf(p, d, q, r))
    BY <2>4 DEF Heard, AreaOf
  <2>6. AreaOf(p, d, q, r).queue = q
    BY DEF AreaOf
  <2> QED
    BY <2>1, <2>3, <2>5, <2>6 DEF Sound
<1> QED
  BY <1>1, <1>2

-----------------------------------------------------------------------------
(* Property files *)

\* The function load_properties reads its result from: the area after i lines.
After(f, st, file, i) ==
  IF i = 0 THEN st ELSE property_set(f[i - 1], file[i][1], file[i][2])
IsLoad(f, n, st, file) == f = [i \in 0..n |-> After(f, st, file, i)]

\* It exists for every number of lines.
LEMMA LoadExists ==
  ASSUME NEW st, NEW file, NEW n \in Nat
  PROVE  \E f : IsLoad(f, n, st, file)
<1> DEFINE N == {m \in Nat : \E f : IsLoad(f, m, st, file)}
<1>1. 0 \in N
  <2> DEFINE f == [i \in 0..0 |-> st]
  <2>1. IsLoad(f, 0, st, file)
    BY DEF IsLoad, After
  <2> QED
    BY <2>1
<1>2. ASSUME NEW m \in N PROVE m + 1 \in N
  <2>1. PICK f : IsLoad(f, m, st, file)
    OBVIOUS
  <2> DEFINE g == [i \in 0..(m + 1) |->
                      IF i <= m THEN f[i]
                      ELSE property_set(f[m], file[i][1], file[i][2])]
  <2>2. ASSUME NEW i \in 0..(m + 1)
        PROVE  g[i] = After(g, st, file, i)
    <3>1. CASE i = 0
      BY <2>1, <3>1 DEF IsLoad, After
    <3>2. CASE i # 0
      <4>1. i - 1 \in 0..m /\ i - 1 \in 0..(m + 1)
        BY <3>2
      <4>2. g[i - 1] = f[i - 1]
        BY <4>1
      <4>3. CASE i <= m
        <5>1. i \in 0..m /\ g[i] = f[i]
          BY <4>3
        <5>2. f[i] = property_set(f[i - 1], file[i][1], file[i][2])
          BY <2>1, <5>1, <3>2 DEF IsLoad, After
        <5> HIDE DEF g
        <5> QED
          BY <4>2, <3>2, <5>1, <5>2 DEF After
      <4>4. CASE i = m + 1
        <5>1. g[i] = property_set(f[m], file[i][1], file[i][2]) /\ i - 1 = m
          BY <4>4
        <5> HIDE DEF g
        <5> QED
          BY <4>2, <3>2, <5>1 DEF After
      <4> QED
        BY <4>3, <4>4
    <3> QED
      BY <3>1, <3>2
  <2>3. IsLoad(g, m + 1, st, file)
    <3>1. g = [i \in 0..(m + 1) |-> g[i]]
      OBVIOUS
    <3> HIDE DEF g
    <3> QED
      BY <2>2, <3>1, Zenon DEF IsLoad
  <2> QED
    BY <2>3
<1> QED
  BY <1>1, <1>2, NatSet

\* The areas a file is loaded through: each line is a property_set.
LEMMA LoadSteps ==
  ASSUME NEW P, NEW file \in Seq(P), NEW st
  PROVE  \E f : /\ f[0] = st /\ load_properties(st, file) = f[Len(file)]
                /\ \A i \in 1..Len(file) :
                     f[i] = property_set(f[i - 1], file[i][1], file[i][2])
<1> DEFINE f == CHOOSE f : IsLoad(f, Len(file), st, file)
<1>1. IsLoad(f, Len(file), st, file)
  BY LoadExists
<1>2. load_properties(st, file) = f[Len(file)]
  BY Zenon DEF load_properties, IsLoad, After
<1> HIDE DEF f
<1>3. f[0] = st /\ \A i \in 1..Len(file) :
                     f[i] = property_set(f[i - 1], file[i][1], file[i][2])
  <2>1. \A i \in 0..Len(file) : f[i] = After(f, st, file, i)
    BY <1>1 DEF IsLoad
  <2>2. 0 \in 0..Len(file) /\ \A i \in 1..Len(file) : i \in 0..Len(file) /\ i # 0
    OBVIOUS
  <2> QED
    BY <2>1, <2>2 DEF After
<1> QED
  BY <1>2, <1>3

\* What every property_set of a line in P keeps, loading the file keeps.
LEMMA LoadKeeps ==
  ASSUME NEW P, NEW file \in Seq(P), NEW G, NEW st \in G,
         \A s \in G, p \in P : property_set(s, p[1], p[2]) \in G
  PROVE  load_properties(st, file) \in G
<1>1. PICK f : /\ f[0] = st /\ load_properties(st, file) = f[Len(file)]
               /\ \A i \in 1..Len(file) :
                     f[i] = property_set(f[i - 1], file[i][1], file[i][2])
  BY LoadSteps
<1> DEFINE N == {n \in Nat : n <= Len(file) => f[n] \in G}
<1>2. 0 \in N
  BY <1>1
<1>3. ASSUME NEW n \in N, n + 1 <= Len(file) PROVE f[n + 1] \in G
  <2>1. n + 1 \in 1..Len(file) /\ file[n + 1] \in P /\ n <= Len(file) /\ (n + 1) - 1 = n
    BY <1>3
  <2>2. f[n] \in G /\ f[n + 1] = property_set(f[n], file[n + 1][1], file[n + 1][2])
    BY <1>1, <2>1
  <2> QED
    BY <2>1, <2>2
<1>4. N = Nat
  <2>1. \A n \in N : n + 1 \in N
    BY <1>3
  <2>2. N \in SUBSET Nat
    OBVIOUS
  <2> HIDE DEF N
  <2> QED
    BY <1>2, <2>1, <2>2, NatSet
<1> QED
  BY <1>1, <1>4

\* The files of /data/property that can be read, in some order: each is loaded
\* once.
StoredFile(st, o) == [i \in DOMAIN o |-> <<o[i], st.disk[o[i]].value>>]
Stored(st) == {<<n, st.disk[n].value>> : n \in Files(st)}
LEMMA OrderFacts ==
  ASSUME NEW st \in Areas, NEW F \in SUBSET Files(st), NEW o \in Orders(F)
  PROVE  /\ StoredFile(st, o) \in Seq(Stored(st))
         /\ Len(StoredFile(st, o)) = Cardinality(F)
         /\ Cardinality(F) \in Nat
         /\ \A i \in 1..Cardinality(F) :
              o[i] \in F /\ StoredFile(st, o)[i] = <<o[i], st.disk[o[i]].value>>
         /\ \A n \in F : \E i \in 1..Cardinality(F) : o[i] = n
         /\ \A i, j \in 1..Cardinality(F) : o[i] = o[j] => i = j
<1> DEFINE c == Cardinality(F)
<1>1. F \subseteq Persist
  BY DEF Files
<1>2. IsFiniteSet(F) /\ c \in Nat
  BY <1>1, ActionsAssumption, FS_Subset, FS_CardinalityType
<1>3. o \in [1..c -> F] /\ \A i, j \in 1..c : o[i] = o[j] => i = j
  BY DEF Orders, Distinct
<1>4. \A n \in F : \E i \in 1..c : o[i] = n
  <2>1. o \in Injection(1..c, F)
    BY <1>3 DEF Injection, IsInjective
  <2>2. Cardinality(1..c) = c
    BY <1>2, FS_Interval
  <2>3. o \in Surjection(1..c, F)
    BY <1>2, <2>1, <2>2, FS_Injection
  <2> QED
    BY <2>3 DEF Surjection
<1>5. /\ StoredFile(st, o) \in [1..c -> Stored(st)]
      /\ \A i \in 1..c : StoredFile(st, o)[i] = <<o[i], st.disk[o[i]].value>>
  BY <1>3 DEF StoredFile, Stored
<1>6. StoredFile(st, o) \in Seq(Stored(st)) /\ Len(StoredFile(st, o)) = c
  BY <1>2, <1>5, SeqDef
<1> QED
  BY <1>2, <1>3, <1>4, <1>5, <1>6

\* The files are opened: those that are skipped are marked.
Marked(st, F) == [n \in Persist |-> IF n \in Files(st) THEN File(st.disk[n].value, n \notin F)
                                    ELSE st.disk[n]]
LEMMA ReadingParts ==
  ASSUME NEW st \in Areas, NEW F
  PROVE  /\ Reading(st, F) = AreaOf(st.props, Marked(st, F), st.queue, st.ran)
         /\ Reading(st, F) \in Areas
         /\ Reading(st, F).disk = Marked(st, F) /\ Reading(st, F).props = st.props
         /\ Marked(st, F) \in DiskTypes
<1>1. PICK p, d, q, r : st = AreaOf(p, d, q, r)
  BY AreaParts
<1>2. /\ st.props = p /\ st.disk = d /\ st.queue = q /\ st.ran = r
  BY <1>1 DEF AreaOf
<1>3. Reading(st, F) = [st EXCEPT !.disk = Marked(st, F)]
  <2>1. Reading(st, F) = [st EXCEPT !.disk = [n \in Persist |->
          IF n \in Files(st) THEN File(st.disk[n].value, n \notin F) ELSE st.disk[n]]]
    BY Zenon DEF Reading
  <2> QED
    BY <2>1, Zenon DEF Marked
<1>4. \A x : [AreaOf(p, d, q, r) EXCEPT !.disk = x] = AreaOf(p, x, q, r)
  BY DEF AreaOf
<1>5. Marked(st, F) \in DiskTypes
  <2>1. st.disk \in DiskTypes
    BY AreaParts
  <2>2. \A n \in Persist : File(st.disk[n].value, n \notin F) \in FileTypes
    <3> SUFFICES ASSUME NEW n \in Persist PROVE File(st.disk[n].value, n \notin F) \in FileTypes
      OBVIOUS
    <3>1. st.disk[n].value \in Values \cup {Absent}
      BY <2>1 DEF DiskTypes, FileTypes
    <3>2. (n \notin F) \in BOOLEAN
      BY Zenon
    <3>3. PICK b \in BOOLEAN : b = (n \notin F)
      BY <3>2, Zenon
    <3>4. File(st.disk[n].value, b) \in FileTypes
      BY <3>1 DEF File, FileTypes
    <3> QED
      BY <3>3, <3>4, Zenon
  <2> QED
    BY <2>1, <2>2 DEF DiskTypes, Marked
<1>6. Reading(st, F) = AreaOf(p, Marked(st, F), q, r)
  BY <1>1, <1>3, <1>4, Zenon
<1>7. \A x : AreaOf(p, x, q, r).disk = x /\ AreaOf(p, x, q, r).props = p
  BY DEF AreaOf
<1>8. AreaOf(p, Marked(st, F), q, r) \in Areas
  BY <1>2, <1>5, AreaParts DEF Areas, AreaOf
<1> QED
  BY <1>2, <1>5, <1>6, <1>7, <1>8

\* What opening the files, and every setting to a stored value, keeps, loading
\* the files keeps.
LEMMA StoredKeeps ==
  ASSUME NEW st \in Areas, NEW s \in load_persistent_properties(st), NEW G,
         \A F \in SUBSET Files(st) : Reading(st, F) \in G,
         \A x \in G, n \in Files(st) : property_set(x, n, st.disk[n].value) \in G
  PROVE  s \in G
<1>1. PICK F \in SUBSET Files(st) : \E o \in Orders(F) :
        s = load_properties(Reading(st, F), StoredFile(st, o))
  BY DEF load_persistent_properties, StoredFile
<1>2. PICK o \in Orders(F) : s = load_properties(Reading(st, F), StoredFile(st, o))
  BY <1>1
<1>3. \A x \in G, p \in Stored(st) : property_set(x, p[1], p[2]) \in G
  BY DEF Stored
<1>4. StoredFile(st, o) \in Seq(Stored(st)) /\ Reading(st, F) \in G
  BY OrderFacts
<1> QED
  BY <1>2, <1>3, <1>4, LoadKeeps

-----------------------------------------------------------------------------
(* The stored properties *)

\* A stored value is the value of the property, unless writing or loading it
\* failed.
Current(f, v) == f.value # Absent /\ ~f.stale => v = f.value
Agrees(st, n) == Current(st.disk[n], st.props[n])
Agree(st) == \A n \in Persist : Agrees(st, n)

\* Setting a persist.* property: it has no early return.
LEMMA SetPersist ==
  ASSUME ListOK, NEW st \in Areas, NEW n \in Persist, NEW v \in Values
  PROVE  /\ property_set(st, n, v) \in Areas
         /\ property_set(st, n, v).props = [st.props EXCEPT ![n] = v]
         /\ property_set(st, n, v).disk = NewDisk(st, n, v)
<1>1. n \in Props /\ n \notin Ro /\ n \notin Net /\ ~ReadOnly(st, n)
  BY ActionsAssumption DEF ReadOnly
<1>2. property_set(st, n, v) =
        AreaOf(NewProps(st, n, v), NewDisk(st, n, v), NewQueue(st, n, v), NewRan(st, n, v))
  BY <1>1, SetParts
<1>3. NewProps(st, n, v) = [st.props EXCEPT ![n] = v]
  BY <1>1 DEF NewProps
<1>4. \A p, d, q, r : AreaOf(p, d, q, r).props = p /\ AreaOf(p, d, q, r).disk = d
  BY DEF AreaOf
<1> QED
  BY <1>1, <1>2, <1>3, <1>4, SetTyped

\* Setting another property: the persist.* ones are as before.
LEMMA SetOther ==
  ASSUME ListOK, NEW st \in Areas, NEW n \in Props \ Persist, NEW v \in Values
  PROVE  /\ property_set(st, n, v).disk = st.disk
         /\ \A m \in Persist : property_set(st, n, v).props[m] = st.props[m]
<1>1. CASE ReadOnly(st, n)
  BY <1>1, SetReadOnly
<1>2. CASE ~ReadOnly(st, n)
  <2>1. property_set(st, n, v) =
        AreaOf(NewProps(st, n, v), NewDisk(st, n, v), NewQueue(st, n, v), NewRan(st, n, v))
    BY <1>2, SetParts
  <2>2. \A p, d, q, r : AreaOf(p, d, q, r).props = p /\ AreaOf(p, d, q, r).disk = d
    BY DEF AreaOf
  <2>3. NewDisk(st, n, v) = st.disk
    BY DEF NewDisk, Saves
  <2>4. \A m \in Persist : NewProps(st, n, v)[m] = st.props[m]
    BY AreaParts, ActionsAssumption DEF NewProps, PropTypes
  <2> QED
    BY <2>1, <2>2, <2>3, <2>4
<1> QED
  BY <1>1, <1>2

\* One property is set: it agrees if it is saved, or was read from its file, and
\* the others do as before.
LEMMA SetAgreesOn ==
  ASSUME ListOK, NEW st \in Areas, NEW n \in Persist, NEW v \in Values,
         persistent_properties_loaded \/ st.disk[n].value = v
  PROVE  /\ property_set(st, n, v) \in Areas
         /\ Agrees(property_set(st, n, v), n)
         /\ \A m \in Persist : m # n /\ Agrees(st, m) => Agrees(property_set(st, n, v), m)
         /\ ~persistent_properties_loaded => property_set(st, n, v).disk = st.disk
<1>0. st.props \in [Props -> Values \cup Net \cup {Absent}] /\ st.disk \in [Persist -> FileTypes]
      /\ Persist \subseteq Props
  BY AreaParts, ActionsAssumption DEF PropTypes, DiskTypes
<1>1. PICK p, d : /\ p = [st.props EXCEPT ![n] = v] /\ d = NewDisk(st, n, v)
                  /\ property_set(st, n, v).props = p /\ property_set(st, n, v).disk = d
                  /\ property_set(st, n, v) \in Areas
  <2>1. /\ property_set(st, n, v) \in Areas
        /\ property_set(st, n, v).props = [st.props EXCEPT ![n] = v]
        /\ property_set(st, n, v).disk = NewDisk(st, n, v)
    BY SetPersist
  <2> QED
    BY <2>1, Zenon
<1>2. \A m \in Persist : p[m] = IF m = n THEN v ELSE st.props[m]
  BY <1>0, <1>1
<1>3. CASE persistent_properties_loaded
  <2>1. d = [st.disk EXCEPT ![n] = Written(st.disk[n], n, v)]
    BY <1>1, <1>3 DEF NewDisk, Saves
  <2>2. ~Written(st.disk[n], n, v).stale => Written(st.disk[n], n, v).value = v
    BY <1>0, WrittenFacts
  <2>3. \A m \in Persist : d[m] = IF m = n THEN Written(st.disk[n], n, v) ELSE st.disk[m]
    BY <1>0, <2>1
  <2>4. Current(Written(st.disk[n], n, v), v)
    BY <2>2 DEF Current
  <2>5. Agrees(property_set(st, n, v), n)
    BY <1>1, <1>2, <2>3, <2>4 DEF Agrees
  <2>6. \A m \in Persist : m # n /\ Agrees(st, m) => Agrees(property_set(st, n, v), m)
    BY <1>1, <1>2, <2>3 DEF Agrees
  <2> QED
    BY <1>1, <1>3, <2>5, <2>6
<1>4. CASE ~persistent_properties_loaded
  <2>1. d = st.disk
    BY <1>1, <1>4 DEF NewDisk, Saves
  <2>2. Current(st.disk[n], v)
    BY <1>4 DEF Current
  <2>3. Agrees(property_set(st, n, v), n)
    BY <1>1, <1>2, <2>1, <2>2 DEF Agrees
  <2>4. \A m \in Persist : m # n /\ Agrees(st, m) => Agrees(property_set(st, n, v), m)
    BY <1>1, <1>2, <2>1 DEF Agrees
  <2> QED
    BY <1>1, <2>1, <2>3, <2>4
<1> QED
  BY <1>3, <1>4

\* While the properties are saved, property_set keeps the stored values and the
\* properties in agreement, also when saving fails.
LEMMA SetAgrees ==
  ASSUME ListOK, persistent_properties_loaded,
         NEW st \in Areas, Agree(st), NEW n \in Props, NEW v \in Values
  PROVE  Agree(property_set(st, n, v))
<1>1. CASE n \in Persist
  BY <1>1, SetAgreesOn DEF Agree
<1>2. CASE n \notin Persist
  BY <1>2, SetOther DEF Agree, Agrees
<1> QED
  BY <1>1, <1>2

\* Loading the files of /data/property gives every stored property its value,
\* except those that are skipped or whose file cannot be written again.
LEMMA StoredAgrees ==
  ASSUME ListOK, mounted, NEW st \in Areas, NEW s \in load_persistent_properties(st)
  PROVE  s \in Areas /\ Agree(s)
<1>0. st.disk \in [Persist -> FileTypes] /\ Persist \subseteq Props
      /\ Files(st) = {n \in Persist : st.disk[n].value # Absent}
  BY AreaParts, ActionsAssumption DEF DiskTypes, Files
<1>1. PICK F \in SUBSET Files(st) : \E o \in Orders(F) :
        s = load_properties(Reading(st, F), StoredFile(st, o))
  BY DEF load_persistent_properties, StoredFile
<1>2. PICK o \in Orders(F) : s = load_properties(Reading(st, F), StoredFile(st, o))
  BY <1>1
<1> DEFINE c == Cardinality(F)
           file == StoredFile(st, o)
           w == Reading(st, F)
           Value(n) == st.disk[n].value
<1>3. /\ file \in Seq(Stored(st)) /\ Len(file) = c /\ c \in Nat
      /\ \A i \in 1..c : o[i] \in F /\ file[i] = <<o[i], st.disk[o[i]].value>>
      /\ \A n \in F : \E i \in 1..c : o[i] = n
      /\ \A i, j \in 1..c : o[i] = o[j] => i = j
  BY OrderFacts
<1>4. \A n \in F : n \in Persist /\ Value(n) \in Values
  BY <1>0 DEF FileTypes
<1>5. w \in Areas /\ w.disk = Marked(st, F)
  BY ReadingParts
<1>6. \A n \in F : w.disk[n].value = Value(n)
  BY <1>0, <1>5 DEF Marked, File
<1>7. \A n \in Persist \ F : Agrees(w, n)
  <2> SUFFICES ASSUME NEW n \in Persist \ F PROVE Agrees(w, n)
    OBVIOUS
  <2>1. CASE n \in Files(st)
    <3>1. w.disk[n] = File(Value(n), TRUE)
      BY <1>5, <2>1 DEF Marked
    <3>2. \A x : File(x, TRUE).stale = TRUE
      BY DEF File
    <3>3. w.disk[n].stale
      BY <3>1, <3>2
    <3> QED
      BY <3>3 DEF Agrees, Current
  <2>2. CASE n \notin Files(st)
    <3>1. w.disk[n] = st.disk[n] /\ st.disk[n].value = Absent
      BY <1>0, <1>5, <2>2 DEF Marked
    <3> QED
      BY <3>1 DEF Agrees, Current
  <2> QED
    BY <2>1, <2>2
<1> HIDE DEF w
<1>8. PICK f : /\ f[0] = w /\ s = f[c]
               /\ \A i \in 1..c : f[i] = property_set(f[i - 1], file[i][1], file[i][2])
  BY <1>2, <1>3, LoadSteps DEF w
<1> HIDE DEF file, c, Value
<1>9. \A i \in 1..c : f[i] = property_set(f[i - 1], o[i], Value(o[i]))
  BY <1>3, <1>8 DEF Value
\* After k files: the others are still to be read.
<1> DEFINE Unread(x) == persistent_properties_loaded \/ x.disk = w.disk
           Loaded(k) == /\ f[k] \in Areas /\ Unread(f[k])
                        /\ \A n \in Persist : Agrees(f[k], n) \/ \E j \in 1..c : j > k /\ o[j] = n
           N == {k \in Nat : k <= c => Loaded(k)}
<1>10. 0 \in N
  <2>1. \A n \in F : \E j \in 1..c : j > 0 /\ o[j] = n
    BY <1>3
  <2>2. Loaded(0)
    BY <1>5, <1>7, <1>8, <2>1
  <2> HIDE DEF Loaded
  <2> QED
    BY <2>2
<1>11. ASSUME NEW k \in N, k + 1 <= c PROVE k + 1 \in N
  <2>1. k + 1 \in 1..c /\ (k + 1) - 1 = k /\ k <= c /\ k \in Nat
    BY <1>3, <1>11
  <2>2. PICK x, m, v : x = f[k] /\ m = o[k + 1] /\ v = Value(m)
    OBVIOUS
  <2>3. /\ x \in Areas /\ Unread(x)
        /\ \A n \in Persist : Agrees(x, n) \/ \E j \in 1..c : j > k /\ o[j] = n
    BY <2>1, <2>2
  <2>4. f[k + 1] = property_set(x, m, v) /\ m \in F /\ m \in Persist /\ v \in Values
    BY <1>3, <1>4, <1>9, <2>1, <2>2
  <2>5. persistent_properties_loaded \/ x.disk[m].value = v
    BY <1>6, <2>2, <2>3, <2>4
  <2>6. PICK y : y = property_set(x, m, v)
    OBVIOUS
  <2>7. /\ y \in Areas /\ Agrees(y, m)
        /\ \A n \in Persist : n # m /\ Agrees(x, n) => Agrees(y, n)
        /\ ~persistent_properties_loaded => y.disk = x.disk
    BY <2>3, <2>4, <2>5, <2>6, SetAgreesOn
  <2>8. Unread(y)
    BY <2>3, <2>7
  <2>9. ASSUME NEW n \in Persist, ~Agrees(y, n)
        PROVE  \E j \in 1..c : j > k + 1 /\ o[j] = n
    <3>1. n # m /\ ~Agrees(x, n)
      BY <2>7, <2>9
    <3>2. PICK j \in 1..c : j > k /\ o[j] = n
      BY <2>3, <3>1
    <3>3. j # k + 1
      BY <2>2, <3>1, <3>2
    <3> QED
      BY <1>3, <2>1, <3>2, <3>3
  <2>10. Loaded(k + 1)
    BY <2>4, <2>6, <2>7, <2>8, <2>9
  <2> HIDE DEF Loaded
  <2> QED
    BY <2>1, <2>10
<1>12. N = Nat
  <2>1. \A k \in N : k + 1 \in N
    BY <1>3, <1>11
  <2>2. N \in SUBSET Nat
    OBVIOUS
  <2> HIDE DEF N
  <2> QED
    BY <1>10, <2>1, <2>2, NatSet
<1>13. Loaded(c)
  BY <1>3, <1>12
<1>14. \A n \in Persist : Agrees(s, n)
  BY <1>3, <1>8, <1>13
<1> QED
  BY <1>8, <1>13, <1>14 DEF Agree

-----------------------------------------------------------------------------
(* Commands *)

\* The area with the actions of S queued.
Queued(st, S) == [st EXCEPT !.queue = action_add_queue_tail(@, S)]
LEMMA QueuedParts ==
  ASSUME NEW st \in Areas, NEW S
  PROVE  Queued(st, S) =
           AreaOf(st.props, st.disk, action_add_queue_tail(st.queue, S), st.ran)
<1>1. PICK p, d, q, r : st = AreaOf(p, d, q, r)
  BY AreaParts
<1>2. /\ st.props = p /\ st.disk = d /\ st.queue = q /\ st.ran = r
  BY <1>1 DEF AreaOf
<1>3. Queued(st, S) = OtherQueue(st, action_add_queue_tail(st.queue, S))
  BY Zenon DEF Queued, OtherQueue
<1> QED
  BY <1>1, <1>2, <1>3, OtherQueueArea

\* A set of areas that neither a property_set, nor queueing actions of Q, nor
\* loading the stored properties leads out of.
ClosedIn(G, Q) ==
  /\ G \subseteq Areas
  /\ \A x \in G, n \in Props, v \in Values : property_set(x, n, v) \in G
  /\ \A x \in G, S \in SUBSET Q : Queued(x, S) \in G
  /\ \A x \in G : load_persistent_properties(x) \subseteq G
Closed(G) == ClosedIn(G, DOMAIN action_list)

\* The last of these, where the files do not matter.
AnyDisk(G) == \A x \in G, d \in DiskTypes : AreaOf(x.props, d, x.queue, x.ran) \in G
LEMMA AnyDiskLoads ==
  ASSUME NEW G, G \subseteq Areas, AnyDisk(G),
         \A x \in G, n \in Props, v \in Values : property_set(x, n, v) \in G
  PROVE  \A x \in G : load_persistent_properties(x) \subseteq G
<1> SUFFICES ASSUME NEW x \in G, NEW s \in load_persistent_properties(x) PROVE s \in G
  OBVIOUS
<1>1. x \in Areas /\ \A n \in Files(x) : n \in Props /\ x.disk[n].value \in Values
  BY AreaParts, ActionsAssumption DEF Files, DiskTypes, FileTypes
<1>2. \A F \in SUBSET Files(x) : Reading(x, F) \in G
  BY <1>1, ReadingParts DEF AnyDisk
<1>3. \A y \in G, n \in Files(x) : property_set(y, n, x.disk[n].value) \in G
  BY <1>1
<1> QED
  BY <1>1, <1>2, <1>3, StoredKeeps

\* The files of a boot do not lead out of it.
LEMMA LoadsClosed ==
  ASSUME ListOK, NEW G, NEW Q, ClosedIn(G, Q), NEW st \in G,
         NEW s \in load_persistent_properties(load_override_properties(st))
  PROVE  load_override_properties(st) \in G /\ s \in G
<1>1. \A x \in G, p \in Props \X Values : property_set(x, p[1], p[2]) \in G
  BY DEF ClosedIn
<1>2. load_override_properties(st) \in G
  BY <1>1, ActionsAssumption, LoadKeeps DEF load_override_properties
<1>3. s \in G
  BY <1>2 DEF ClosedIn
<1> QED
  BY <1>2, <1>3

\* No command leads out of it, if the actions it triggers are of Q.
LEMMA CommandClosedIn ==
  ASSUME ListOK, NEW G, NEW Q, ClosedIn(G, Q), PropertyActions \subseteq Q,
         NEW st \in G, NEW c, IsCommand(c), command(c, st),
         c[1] = "trigger" => {a \in DOMAIN action_list : action_list[a].on = c[2]} \subseteq Q
  PROVE  \E s \in G : Become(s)
<1>1. CASE c[1] = "setprop" /\ Become(property_set(st, c[2], c[3]))
  BY <1>1 DEF IsCommand, ClosedIn
<1>2. CASE c[1] = "trigger" /\ Become(action_for_each_trigger(st, c[2]))
  <2> DEFINE S == {a \in DOMAIN action_list : action_list[a].on = c[2]}
  <2>1. action_for_each_trigger(st, c[2]) = Queued(st, S)
    BY Zenon DEF action_for_each_trigger, Queued
  <2> QED
    BY <1>2, <2>1 DEF ClosedIn
<1>3. CASE Become(st)
  BY <1>3
<1>4. CASE LoadsPersistent(st)
  BY <1>4, LoadsClosed DEF LoadsPersistent
<1>5. CASE LoadsPersistent(load_properties(st, SystemProps))
  <2>1. \A x \in G, p \in Props \X Values : property_set(x, p[1], p[2]) \in G
    BY DEF ClosedIn
  <2>2. load_properties(st, SystemProps) \in G
    BY <2>1, ActionsAssumption, LoadKeeps
  <2> QED
    BY <1>5, <2>2, LoadsClosed DEF LoadsPersistent
<1>6. CASE Become(queue_all_property_triggers(st))
  <2> DEFINE S == {a \in PropertyActions :
                     Matches(a, action_list[a].on[2], property_get(st, action_list[a].on[2]))}
  <2>1. queue_all_property_triggers(st) = Queued(st, S)
    BY Zenon DEF queue_all_property_triggers, Queued
  <2>2. S \subseteq Q
    OBVIOUS
  <2> QED
    BY <1>6, <2>1, <2>2 DEF ClosedIn
<1> QED
  BY <1>1, <1>2, <1>3, <1>4, <1>5, <1>6 DEF command

LEMMA CommandClosed ==
  ASSUME ListOK, NEW G, Closed(G), NEW st \in G, NEW c, IsCommand(c), command(c, st)
  PROVE  \E s \in G : Become(s)
<1>1. PropertyActions \subseteq DOMAIN action_list
  BY ListFacts
<1>2. {a \in DOMAIN action_list : action_list[a].on = c[2]} \subseteq DOMAIN action_list
  OBVIOUS
<1> QED
  BY <1>1, <1>2, CommandClosedIn DEF Closed

\* An area is what the variables become.
LEMMA BecomeArea ==
  ASSUME NEW s \in Areas, Become(s)
  PROVE  Area' = s /\ props' = s.props /\ disk' = s.disk
         /\ action_queue' = s.queue /\ ran' = s.ran
<1>1. s = AreaOf(s.props, s.disk, s.queue, s.ran)
  BY AreaParts
<1>2. Area' = AreaOf(props', disk', action_queue', ran')
  BY DEF Area, AreaOf
<1> QED
  BY <1>1, <1>2, Zenon DEF Become

\* Queueing loses no trigger, and queueing all of them finds every one.
LEMMA SoundClosed ==
  ASSUME ListOK
  PROVE  Closed(Sound(property_triggers_enabled))
<1> DEFINE G == Sound(property_triggers_enabled)
<1>1. G \subseteq Areas
  BY DEF Sound
<1>2. \A x \in G, n \in Props, v \in Values : property_set(x, n, v) \in G
  BY SetSound
<1>3. ASSUME NEW x \in G, NEW S \in SUBSET DOMAIN action_list
      PROVE  Queued(x, S) \in G
  <2> DEFINE q == action_add_queue_tail(x.queue, S)
  <2>1. /\ x \in Areas /\ Distinct(x.queue) /\ (property_triggers_enabled => Heard(x))
        /\ x.queue \in Seq(DOMAIN action_list)
    BY <1>3, AreaParts DEF Sound
  <2>2. /\ q \in Seq(DOMAIN action_list) /\ Elements(q) = Elements(x.queue) \cup S
        /\ Distinct(q)
    BY <2>1, ListFacts, QueueTailFacts
  <2>3. Queued(x, S) = AreaOf(x.props, x.disk, q, x.ran)
    BY <2>1, QueuedParts
  <2> HIDE DEF q
  <2>4. AreaOf(x.props, x.disk, q, x.ran) \in Areas
    BY <2>1, <2>2, AreaParts DEF Areas, AreaOf
  <2>5. Heard(x) => Heard(AreaOf(x.props, x.disk, q, x.ran))
    BY <2>2 DEF Heard, AreaOf
  <2>6. AreaOf(x.props, x.disk, q, x.ran).queue = q
    BY DEF AreaOf
  <2> QED
    BY <2>1, <2>2, <2>3, <2>4, <2>5, <2>6 DEF Sound
<1>4. AnyDisk(G)
  <2> SUFFICES ASSUME NEW x \in G, NEW d \in DiskTypes
               PROVE  AreaOf(x.props, d, x.queue, x.ran) \in G
    BY DEF AnyDisk
  <2>1. x \in Areas /\ Distinct(x.queue) /\ (property_triggers_enabled => Heard(x))
    BY DEF Sound
  <2>2. AreaOf(x.props, d, x.queue, x.ran) \in Areas
    BY <2>1, AreaParts DEF Areas, AreaOf
  <2>3. Heard(x) => Heard(AreaOf(x.props, d, x.queue, x.ran))
    BY DEF Heard, AreaOf
  <2>4. AreaOf(x.props, d, x.queue, x.ran).queue = x.queue
    BY DEF AreaOf
  <2> QED
    BY <2>1, <2>2, <2>3, <2>4 DEF Sound
<1>5. \A x \in G : load_persistent_properties(x) \subseteq G
  BY <1>1, <1>2, <1>4, AnyDiskLoads
<1> QED
  BY <1>1, <1>2, <1>3, <1>5 DEF Closed, ClosedIn

\* Enabling the triggers queues all the actions whose property has its value.
LEMMA EnableSound ==
  ASSUME ListOK, NEW e, NEW st \in Sound(e)
  PROVE  queue_all_property_triggers(st) \in Sound(TRUE)
<1> DEFINE S == {a \in PropertyActions :
                   Matches(a, action_list[a].on[2], property_get(st, action_list[a].on[2]))}
           q == action_add_queue_tail(st.queue, S)
<1>1. /\ st \in Areas /\ Distinct(st.queue) /\ st.queue \in Seq(DOMAIN action_list)
      /\ S \subseteq DOMAIN action_list
  BY AreaParts, ListFacts DEF Sound
<1>2. queue_all_property_triggers(st) = Queued(st, S)
  BY Zenon DEF queue_all_property_triggers, Queued
<1>3. queue_all_property_triggers(st) = AreaOf(st.props, st.disk, q, st.ran)
  BY <1>1, <1>2, QueuedParts
<1>4. /\ q \in Seq(DOMAIN action_list) /\ Elements(q) = Elements(st.queue) \cup S
      /\ Distinct(q)
  BY <1>1, ListFacts, QueueTailFacts
<1>5. \A a \in PropertyActions :
        LET n == action_list[a].on[2]
        IN  st.props[n] # Absent /\ Matches(a, n, st.props[n]) => a \in S
  BY DEF property_get
<1> HIDE DEF q, S
<1>6. Heard(AreaOf(st.props, st.disk, q, st.ran))
  BY <1>4, <1>5 DEF Heard, AreaOf
<1>7. AreaOf(st.props, st.disk, q, st.ran) \in Areas
  BY <1>1, <1>4, AreaParts DEF Areas, AreaOf
<1>8. AreaOf(st.props, st.disk, q, st.ran).queue = q
  BY DEF AreaOf
<1> QED
  BY <1>3, <1>4, <1>6, <1>7, <1>8 DEF Sound

\* Every command, the one that enables the triggers included.
LEMMA CommandSound ==
  ASSUME ListOK, NEW st \in Sound(property_triggers_enabled), NEW c, IsCommand(c),
         command(c, st)
  PROVE  \E s \in Sound(property_triggers_enabled') : Become(s)
<1>1. CASE property_triggers_enabled' = property_triggers_enabled
  BY <1>1, SoundClosed, CommandClosed
<1>2. CASE property_triggers_enabled' # property_triggers_enabled
  <2>1. Become(queue_all_property_triggers(st)) /\ property_triggers_enabled' = TRUE
    BY <1>2 DEF command, LoadsPersistent, flagvars
  <2> QED
    BY <2>1, EnableSound
<1> QED
  BY <1>1, <1>2

-----------------------------------------------------------------------------
(* The invariant *)

\* The triggers are enabled by a command, when everything is parsed and queued.
BootFirst == property_triggers_enabled => rc = <<>> /\ boot = <<>>
CurrentOK ==
  /\ cur_action \in {0} \cup DOMAIN action_list
  /\ cur_command \in IF cur_action = 0 THEN {0} ELSE 0..Len(CommandsOf(cur_action))
QueueSound == Area \in Sound(property_triggers_enabled)
Synced == synced => persistent_properties_loaded /\ mounted /\ Agree(Area)
AInv == ListOK /\ BootFirst /\ CurrentOK /\ turn \in {"cmd", "poll"} /\ QueueSound /\ Synced

\* Its parts, for the variables.
LEMMA AreaFacts ==
  ASSUME QueueSound
  PROVE  /\ Area \in Areas /\ Area.props = props /\ Area.disk = disk
         /\ Area.queue = action_queue /\ Area.ran = ran
         /\ Distinct(action_queue) /\ action_queue \in Seq(DOMAIN action_list)
         /\ props \in PropTypes /\ disk \in DiskTypes /\ ran \in [Ids -> BOOLEAN]
         /\ (property_triggers_enabled => Heard(Area))
<1>1. Area \in Areas /\ Distinct(Area.queue) /\ (property_triggers_enabled => Heard(Area))
  BY DEF QueueSound, Sound
<1>2. /\ Area.props = props /\ Area.disk = disk
      /\ Area.queue = action_queue /\ Area.ran = ran
  BY DEF Area
<1> QED
  BY <1>1, <1>2, AreaParts

\* The result of a handler is sound for the actions there are.
LEMMA NewArea ==
  ASSUME UNCHANGED action_list, NEW s \in Sound(property_triggers_enabled'), Become(s)
  PROVE  QueueSound' /\ Area' = s
<1>1. Area' = s
  BY BecomeArea DEF Sound
<1>2. Sound(property_triggers_enabled)' = Sound(property_triggers_enabled')
  BY DEF Sound, Areas, Heard, PropertyActions, Matches
<1> QED
  BY <1>1, <1>2 DEF QueueSound

\* Nothing is parsed, queued or executed yet.
LEMMA InitSound == ActionsInit => AInv
<1> SUFFICES ASSUME ActionsInit PROVE AInv
  OBVIOUS
<1> USE DEF ActionsInit
<1>1. ListOK
  <2>1. Len(action_list) = 0 /\ action_list \in Seq(Sections)
    OBVIOUS
  <2>2. Len(rc) \in Nat /\ Len(boot) \in Nat
    BY ActionsAssumption
  <2> QED
    BY <2>1, <2>2, ActionsAssumption DEF ListOK, MaxActions
<1>2. BootFirst /\ CurrentOK /\ turn \in {"cmd", "poll"} /\ Synced
  BY DEF BootFirst, CurrentOK, Synced
<1>3. Area = AreaOf(props, disk, <<>>, ran)
  BY DEF Area, AreaOf
<1>4. /\ props \in PropTypes /\ disk \in DiskTypes /\ ran \in [Ids -> BOOLEAN]
      /\ <<>> \in Seq(DOMAIN action_list) /\ Distinct(<<>>)
  <2>1. {File(v, FALSE) : v \in Values \cup {Absent}} \subseteq FileTypes
    <3>1. \A v \in Values \cup {Absent} : File(v, FALSE) \in FileTypes
      BY DEF File, FileTypes
    <3> QED
      BY <3>1, Zenon
  <2>2. disk \in DiskTypes
    BY <2>1 DEF DiskTypes
  <2> QED
    BY <2>2 DEF PropTypes, Distinct
<1>5. AreaOf(props, disk, <<>>, ran) \in Sound(FALSE)
  BY <1>4 DEF Sound, Areas, AreaOf
<1> QED
  BY <1>1, <1>2, <1>3, <1>5 DEF AInv, QueueSound

\* Every command that init executes is one, in both places.
LEMMA CommandsFacts ==
  ASSUME ListOK, NEW a \in DOMAIN action_list
  PROVE  /\ Len(CommandsOf(a)) \in Nat
         /\ CommandsOf(a) = <<>> <=> Len(CommandsOf(a)) = 0
         /\ \A j \in 1..Len(CommandsOf(a)) : IsCommand(CommandsOf(a)[j])
<1>1. action_list[a] \in Sections
  BY ListFacts
<1>2. PICK D : D = CommandsOf(a) /\ D \in Seq(Elements(D)) /\ \A j \in DOMAIN D : IsCommand(D[j])
  BY <1>1, SectionFacts DEF CommandsOf
<1> QED
  BY <1>2

\* Whatever the command, what was synchronised stays so, and reading the files
\* synchronises.
LEMMA CommandSynced ==
  ASSUME ListOK, UNCHANGED <<action_list, mounted>>, NEW st \in Areas, NEW c, IsCommand(c),
         command(c, st), synced => persistent_properties_loaded /\ mounted /\ Agree(st)
  PROVE  Synced'
<1> DEFINE G == {x \in Areas : Agree(x)}
<1>0. persistent_properties_loaded' = persistent_properties_loaded
      \/ persistent_properties_loaded' = TRUE
  BY DEF command, LoadsPersistent, flagvars
<1>1. CASE synced
  <2>1. Closed(G)
    <3>1. ASSUME NEW x \in G, NEW n \in Props, NEW v \in Values PROVE property_set(x, n, v) \in G
      BY <1>1, SetTyped, SetAgrees
    <3>2. ASSUME NEW x \in G, NEW S \in SUBSET DOMAIN action_list PROVE Queued(x, S) \in G
      <4> DEFINE q == action_add_queue_tail(x.queue, S)
      <4>1. x \in Areas /\ q \in Seq(DOMAIN action_list)
        BY AreaParts, ListFacts, QueueTailFacts
      <4>2. Queued(x, S) = AreaOf(x.props, x.disk, q, x.ran)
        BY <4>1, QueuedParts
      <4> HIDE DEF q
      <4>3. AreaOf(x.props, x.disk, q, x.ran) \in Areas
        BY <4>1, AreaParts DEF Areas, AreaOf
      <4>4. Agree(AreaOf(x.props, x.disk, q, x.ran))
        BY DEF Agree, Agrees, AreaOf
      <4> QED
        BY <4>2, <4>3, <4>4
    <3>3. \A x \in G : load_persistent_properties(x) \subseteq G
      BY <1>1, StoredAgrees
    <3> QED
      BY <3>1, <3>2, <3>3 DEF Closed, ClosedIn
  <2>2. PICK s \in G : Become(s)
    BY <1>1, <2>1, CommandClosed
  <2>3. Area' = s /\ Agree(s)
    BY <2>2, BecomeArea
  <2> QED
    BY <1>0, <1>1, <2>3 DEF Synced, Agree, Agrees
<1>2. CASE ~synced /\ synced'
  <2>1. /\ mounted /\ persistent_properties_loaded' = TRUE
        /\ LoadsPersistent(st) \/ LoadsPersistent(load_properties(st, SystemProps))
    BY <1>2 DEF command, LoadsPersistent, flagvars
  <2>2. \A x \in Areas, p \in Props \X Values : property_set(x, p[1], p[2]) \in Areas
    BY SetTyped
  <2>3. PICK w \in Areas : LoadsPersistent(w)
    BY <2>1, <2>2, ActionsAssumption, LoadKeeps
  <2>4. load_override_properties(w) \in Areas
    BY <2>2, ActionsAssumption, LoadKeeps DEF load_override_properties
  <2>5. PICK s \in load_persistent_properties(load_override_properties(w)) : Become(s)
    BY <2>3 DEF LoadsPersistent
  <2>6. s \in Areas /\ Agree(s)
    BY <2>1, <2>4, StoredAgrees
  <2>7. Area' = s
    BY <2>5, <2>6, BecomeArea
  <2> QED
    BY <2>1, <2>6, <2>7 DEF Synced, Agree, Agrees
<1>3. CASE ~synced'
  BY <1>3 DEF Synced
<1> QED
  BY <1>1, <1>2, <1>3

\* The action at the head of the queue is taken off, and counts as run: the
\* settings it reacts to were made before.
LEMMA DequeuedSound ==
  ASSUME ListOK, QueueSound, action_queue # <<>>
  PROVE  /\ Head(action_queue) \in DOMAIN action_list
         /\ Dequeued \in Sound(property_triggers_enabled)
         /\ Dequeued.props = props /\ Dequeued.disk = disk
<1> DEFINE h == Head(action_queue)
           q == Tail(action_queue)
           r == [ran EXCEPT ![h] = TRUE]
<1>1. /\ h \in DOMAIN action_list /\ q \in Seq(DOMAIN action_list) /\ Distinct(q)
      /\ Elements(action_queue) = {h} \cup Elements(q)
  BY AreaFacts, TailFacts
<1>2. Area = AreaOf(props, disk, action_queue, ran)
  BY DEF Area, AreaOf
<1>3. Dequeued = Requeued(Area, q, r)
  <2>1. Area.queue = action_queue /\ Area.ran = ran
    BY AreaFacts
  <2>2. Dequeued = [Area EXCEPT !.queue = Tail(Area.queue), !.ran = [Area.ran EXCEPT ![h] = TRUE]]
    BY Zenon DEF Dequeued
  <2> QED
    BY <2>1, <2>2, Zenon DEF Requeued
<1>4. r \in [Ids -> BOOLEAN] /\ r[h] = TRUE /\ \A a \in Ids : ran[a] => r[a]
  BY <1>1, AreaFacts, ListFacts
<1> HIDE DEF q, r
<1>5. Dequeued = AreaOf(props, disk, q, r)
  BY <1>2, <1>3, RequeuedArea
<1>6. AreaOf(props, disk, q, r) \in Areas
  BY <1>1, <1>4, AreaFacts DEF Areas, AreaOf
<1>7. ASSUME property_triggers_enabled PROVE Heard(AreaOf(props, disk, q, r))
  <2>1. \A a \in PropertyActions : ran[a] \/ a \in Elements(action_queue) =>
          r[a] \/ a \in Elements(q)
    BY <1>1, <1>4, ListFacts
  <2>2. Heard(AreaOf(props, disk, action_queue, ran))
    BY <1>2, <1>7, AreaFacts
  <2> QED
    BY <2>1, <2>2 DEF Heard, AreaOf
<1>8. /\ AreaOf(props, disk, q, r).queue = q
      /\ AreaOf(props, disk, q, r).props = props /\ AreaOf(props, disk, q, r).disk = disk
  BY DEF AreaOf
<1> QED
  BY <1>1, <1>5, <1>6, <1>7, <1>8 DEF Sound

\* A new section: the triggers are not enabled yet, and the actions there were
\* keep their places.
LEMMA GrowSound ==
  ASSUME ListOK, BootFirst, CurrentOK, QueueSound, Synced, ~property_triggers_enabled,
         NEW s \in Sections, action_list' = Append(action_list, s),
         action_queue' \in {action_queue, Append(action_queue, Len(action_list) + 1)},
         UNCHANGED <<props, disk, ran, flagvars, cur_action, cur_command, mounted>>
  PROVE  BootFirst' /\ CurrentOK' /\ QueueSound' /\ Synced'
<1> DEFINE D == DOMAIN action_list
           k == Len(action_list)
<1>1. /\ k \in Nat /\ D = 1..k /\ action_list' \in Seq(Sections)
      /\ DOMAIN action_list' = 1..(k + 1)
      /\ \A a \in D : action_list'[a] = action_list[a]
  BY ListFacts DEF ListOK
<1>2. D \subseteq 1..(k + 1) /\ k + 1 \in 1..(k + 1) /\ k + 1 \notin D
  BY <1>1
<1>3. action_queue' \in Seq(1..(k + 1)) /\ Distinct(action_queue')
  <2>1. action_queue \in Seq(D) /\ Distinct(action_queue) /\ Elements(action_queue) \subseteq D
    BY AreaFacts, ElementsType
  <2>2. action_queue \in Seq(1..(k + 1))
    BY <1>2, <2>1
  <2>3. Distinct(Append(action_queue, k + 1)) /\ Append(action_queue, k + 1) \in Seq(1..(k + 1))
    BY <1>2, <2>1, <2>2, AppendFacts
  <2> QED
    BY <2>1, <2>2, <2>3
<1>4. Area' = AreaOf(props, disk, action_queue', ran)
  BY DEF Area, AreaOf
<1>5. QueueSound'
  <2>1. AreaOf(props, disk, action_queue', ran) \in Areas'
    BY <1>1, <1>3, AreaFacts DEF Areas, AreaOf
  <2>2. AreaOf(props, disk, action_queue', ran).queue = action_queue'
    BY DEF AreaOf
  <2>3. ~property_triggers_enabled'
    BY DEF flagvars
  <2>4. QueueSound' <=> Area' \in {st \in Areas' : Distinct(st.queue) /\ (property_triggers_enabled' => Heard(st)')}
    BY DEF QueueSound, Sound
  <2> QED
    BY <1>3, <1>4, <2>1, <2>2, <2>3, <2>4
<1>6. BootFirst'
  BY DEF BootFirst, flagvars
<1>7. CurrentOK'
  BY <1>1, <1>2 DEF CurrentOK, CommandsOf
<1>8. Synced'
  BY <1>4 DEF Synced, Agree, Agrees, flagvars, Area, AreaOf
<1> QED
  BY <1>5, <1>6, <1>7, <1>8

\* parse_action
LEMMA parse_action_Sound == AInv /\ parse_action => AInv'
<1> SUFFICES ASSUME AInv, parse_action PROVE AInv'
  OBVIOUS
<1> USE DEF AInv, parse_action
<1>1. /\ Head(rc) \in Elements(RcSections) /\ Tail(rc) \in Seq(Elements(RcSections))
      /\ Len(Tail(rc)) = Len(rc) - 1 /\ Len(rc) \in Nat
  BY TailFacts DEF ListOK
<1>2. Head(rc) \in Sections /\ ~property_triggers_enabled
  BY <1>1 DEF Sections, BootFirst
<1>3. BootFirst' /\ CurrentOK' /\ QueueSound' /\ Synced'
  BY <1>2, GrowSound DEF areavars, storevars
<1>4. ListOK'
  BY <1>1, <1>2, AppendFacts DEF ListOK
<1> QED
  BY <1>3, <1>4

\* boot_queue
LEMMA boot_queue_Sound == AInv /\ boot_queue => AInv'
<1> SUFFICES ASSUME AInv, boot_queue PROVE AInv'
  OBVIOUS
<1> USE DEF AInv, boot_queue
<1>1. /\ Tail(boot) \in Seq(Elements(BootQueue))
      /\ Len(Tail(boot)) = Len(boot) - 1 /\ Len(boot) \in Nat
  BY TailFacts DEF ListOK
<1>2. /\ ~property_triggers_enabled /\ boot' = Tail(boot) /\ rc' = rc
      /\ action_list \in Seq(Sections) /\ rc \in Seq(Elements(RcSections))
      /\ Len(action_list) + Len(rc) + Len(boot) <= MaxActions
      /\ MaxActions \in Nat
  BY ActionsAssumption DEF BootFirst, ListOK, MaxActions
<1>3. CASE Head(boot) \in Builtins
  <2>1. Builtin(Head(boot)) \in Sections
    BY <1>3 DEF Sections
  <2>2. BootFirst' /\ CurrentOK' /\ QueueSound' /\ Synced'
    BY <1>2, <1>3, <2>1, GrowSound DEF storevars
  <2>3. action_list' = Append(action_list, Builtin(Head(boot)))
    BY <1>3
  <2>4. ListOK'
    <3> HIDE DEF AInv, boot_queue
    <3>1. /\ action_list' \in Seq(Sections) /\ Len(action_list') = Len(action_list) + 1
          /\ Len(action_list) \in Nat /\ Len(rc) \in Nat
      BY <1>2, <2>1, <2>3, AppendFacts
    <3> QED
      BY <1>1, <1>2, <3>1 DEF ListOK
  <2> QED
    BY <2>2, <2>4
<1>4. CASE Head(boot) \notin Builtins
  <2> DEFINE S == {a \in DOMAIN action_list : action_list[a].on = Head(boot)}
             s == Queued(Area, S)
  <2>1. Become(s)
    BY <1>4, Zenon DEF action_for_each_trigger, Queued
  <2>2. s \in Sound(property_triggers_enabled)
    BY SoundClosed DEF Closed, ClosedIn, QueueSound
  <2>3. UNCHANGED <<action_list, property_triggers_enabled, persistent_properties_loaded, synced>>
    BY <1>4 DEF flagvars
  <2>4. s.props = props /\ s.disk = disk
    <3>1. \A p, d, q, r : AreaOf(p, d, q, r).props = p /\ AreaOf(p, d, q, r).disk = d
      BY DEF AreaOf
    <3> QED
      BY <3>1, AreaFacts, QueuedParts
  <2> HIDE DEF s
  <2>5. QueueSound' /\ Area' = s
    BY <2>1, <2>2, <2>3, NewArea
  <2>6. Synced'
    BY <2>3, <2>4, <2>5, AreaFacts DEF Synced, Agree, Agrees, storevars
  <2>7. BootFirst' /\ CurrentOK'
    BY <1>2, <2>3 DEF BootFirst, CurrentOK, CommandsOf
  <2>8. ListOK'
    <3> HIDE DEF AInv, boot_queue
    <3>1. Len(action_list) \in Nat /\ Len(rc) \in Nat
      BY <1>2
    <3> QED
      BY <1>1, <1>2, <2>3, <3>1 DEF ListOK
  <2> QED
    BY <2>5, <2>6, <2>7, <2>8
<1> QED
  BY <1>3, <1>4

\* execute_one_command: the command works on the area there is, or on the one
\* from which the next action was taken.
LEMMA execute_one_command_Sound == AInv /\ execute_one_command => AInv'
<1> SUFFICES ASSUME AInv, execute_one_command PROVE AInv'
  OBVIOUS
<1> USE DEF AInv
<1>0. /\ UNCHANGED <<rc, boot, action_list, mounted>> /\ turn' = "poll"
      /\ rc = <<>> /\ boot = <<>>
  BY DEF execute_one_command, parsevars, storevars
<1>1. ListOK' /\ BootFirst' /\ turn' \in {"cmd", "poll"}
  BY <1>0 DEF ListOK, BootFirst
<1>2. ASSUME NEW st \in Sound(property_triggers_enabled), NEW c, IsCommand(c), command(c, st),
             st.props = props, st.disk = disk
      PROVE  QueueSound' /\ Synced'
  <2>1. PICK s \in Sound(property_triggers_enabled') : Become(s)
    BY <1>2, CommandSound
  <2>2. QueueSound'
    BY <1>0, <2>1, NewArea
  <2>3. st \in Areas /\ (synced => persistent_properties_loaded /\ mounted /\ Agree(st))
    BY <1>2, AreaFacts DEF Sound, Synced, Agree, Agrees
  <2> QED
    BY <1>0, <1>2, <2>2, <2>3, CommandSynced
<1>3. CASE /\ ~Done
           /\ cur_command' = cur_command + 1 /\ UNCHANGED cur_action
           /\ command(CommandsOf(cur_action)[cur_command + 1], Area)
  <2>1. /\ cur_action \in DOMAIN action_list /\ cur_action # 0
        /\ cur_command \in 0..Len(CommandsOf(cur_action))
        /\ cur_command # Len(CommandsOf(cur_action))
    BY <1>3 DEF Done, CurrentOK
  <2>2. cur_command + 1 \in 1..Len(CommandsOf(cur_action)) /\ Len(CommandsOf(cur_action)) \in Nat
    BY <2>1, CommandsFacts
  <2>3. IsCommand(CommandsOf(cur_action)[cur_command + 1])
    BY <2>1, <2>2, CommandsFacts
  <2>4. CurrentOK'
    BY <1>0, <1>3, <2>1, <2>2 DEF CurrentOK, CommandsOf
  <2>5. QueueSound' /\ Synced'
    BY <1>2, <1>3, <2>3, AreaFacts DEF QueueSound
  <2> QED
    BY <1>1, <2>4, <2>5
<1>4. CASE /\ action_queue # <<>> /\ cur_action' = Head(action_queue)
           /\ CommandsOf(Head(action_queue)) = <<>>
           /\ cur_command' = 0 /\ Become(Dequeued) /\ UNCHANGED flagvars
  <2>1. /\ Head(action_queue) \in DOMAIN action_list
        /\ Dequeued \in Sound(property_triggers_enabled)
        /\ Dequeued.props = props /\ Dequeued.disk = disk
    BY <1>4, DequeuedSound
  <2>2. QueueSound' /\ Area' = Dequeued
    BY <1>0, <1>4, <2>1, NewArea DEF flagvars
  <2>3. Synced'
    BY <1>0, <1>4, <2>1, <2>2, AreaFacts DEF Synced, Agree, Agrees, flagvars
  <2>4. CurrentOK'
    <3>1. Len(CommandsOf(Head(action_queue))) \in Nat
      BY <2>1, CommandsFacts
    <3> QED
      BY <1>0, <1>4, <2>1, <3>1 DEF CurrentOK, CommandsOf
  <2> QED
    BY <1>1, <2>2, <2>3, <2>4
<1>5. CASE /\ action_queue # <<>> /\ cur_action' = Head(action_queue)
           /\ CommandsOf(Head(action_queue)) # <<>>
           /\ cur_command' = 1 /\ command(CommandsOf(Head(action_queue))[1], Dequeued)
  <2>1. /\ Head(action_queue) \in DOMAIN action_list
        /\ Dequeued \in Sound(property_triggers_enabled)
        /\ Dequeued.props = props /\ Dequeued.disk = disk
    BY <1>5, DequeuedSound
  <2>2. /\ Len(CommandsOf(Head(action_queue))) \in Nat \ {0}
        /\ IsCommand(CommandsOf(Head(action_queue))[1])
    BY <1>5, <2>1, CommandsFacts
  <2>3. QueueSound' /\ Synced'
    BY <1>2, <1>5, <2>1, <2>2
  <2>4. CurrentOK'
    BY <1>0, <1>5, <2>1, <2>2, ListFacts DEF CurrentOK, CommandsOf
  <2> QED
    BY <1>1, <2>3, <2>4
<1>6. CASE cur_action' = 0 /\ cur_command' = 0 /\ UNCHANGED <<areavars, flagvars>>
  <2>1. Become(Area) /\ Area \in Sound(property_triggers_enabled')
    BY <1>6, AreaFacts DEF Become, areavars, flagvars, QueueSound
  <2>2. QueueSound' /\ Area' = Area
    BY <1>0, <2>1, NewArea
  <2>3. Synced'
    BY <1>0, <1>6, <2>2 DEF Synced, Agree, Agrees, flagvars
  <2>4. CurrentOK'
    BY <1>6 DEF CurrentOK
  <2> QED
    BY <1>1, <2>2, <2>3, <2>4
<1> QED
  BY <1>3, <1>4, <1>5, <1>6 DEF execute_one_command

\* A client or the supervision sets a property, between two commands.
LEMMA SetStep ==
  ASSUME AInv, NEW p \in Props \X Values, Become(property_set(Area, p[1], p[2])),
         UNCHANGED <<parsevars, flagvars, cur_action, cur_command, mounted>>,
         turn' \in {"cmd", "poll"}
  PROVE  AInv'
<1> DEFINE s == property_set(Area, p[1], p[2])
<1>1. s \in Sound(property_triggers_enabled)
  BY SetSound DEF AInv, QueueSound
<1>2. synced => Agree(s)
  BY AreaFacts, SetAgrees DEF AInv, Synced
<1> HIDE DEF s
<1>3. QueueSound' /\ Area' = s
  BY <1>1, NewArea DEF s, parsevars, flagvars
<1>4. Synced'
  BY <1>2, <1>3 DEF AInv, Synced, Agree, Agrees, flagvars
<1>5. ListOK' /\ BootFirst' /\ CurrentOK'
  BY DEF AInv, ListOK, BootFirst, CurrentOK, CommandsOf, parsevars, flagvars
<1> QED
  BY <1>3, <1>4, <1>5 DEF AInv

\* Steps that change neither the area nor the actions.
LEMMA QuietStep ==
  ASSUME AInv, UNCHANGED <<parsevars, areavars, flagvars, cur_action, cur_command>>,
         mounted => mounted', turn' \in {"cmd", "poll"}
  PROVE  AInv'
<1>1. Become(Area) /\ Area \in Sound(property_triggers_enabled')
  BY AreaFacts DEF AInv, Become, areavars, flagvars, QueueSound
<1>2. QueueSound' /\ Area' = Area
  BY <1>1, NewArea DEF parsevars
<1>3. Synced'
  BY <1>2 DEF AInv, Synced, Agree, Agrees, flagvars
<1>4. ListOK' /\ BootFirst' /\ CurrentOK'
  BY DEF AInv, ListOK, BootFirst, CurrentOK, CommandsOf, parsevars, flagvars
<1> QED
  BY <1>2, <1>3, <1>4 DEF AInv

\* Every step keeps the invariant.
LEMMA NextSound == AInv /\ [ActionsNext]_actionsVars => AInv'
<1> SUFFICES ASSUME AInv, [ActionsNext]_actionsVars PROVE AInv'
  OBVIOUS
<1>1. CASE poll \/ Mount \/ StorageChanges \/ UNCHANGED actionsVars
  <2>1. turn \in {"cmd", "poll"}
    BY DEF AInv
  <2> QED
    BY <1>1, <2>1, QuietStep DEF poll, Mount, StorageChanges, actionsVars, storevars
<1>2. CASE handle_property_set_fd \/ notify_service_state
  <2>1. turn \in {"cmd", "poll"} /\ ClientSets \subseteq Props \X Values
        /\ SvcSets \subseteq Props \X Values
    BY ActionsAssumption DEF AInv
  <2> QED
    BY <1>2, <2>1, SetStep DEF handle_property_set_fd, notify_service_state, storevars
<1> QED
  BY <1>1, <1>2, parse_action_Sound, boot_queue_Sound, execute_one_command_Sound
     DEF ActionsNext, ActionsStep

\* The invariant holds always.
LEMMA AlwaysSound == ActionsSpec => []AInv
  BY InitSound, NextSound, PTL DEF ActionsSpec

\* No setting of a property is lost, whichever sections an rc file has, whatever
\* its commands and the clients set, and whenever: the queue holds an action at
\* most once (list_empty in action_add_queue_tail), and yet an action whose
\* property has its value has run since, or is on the queue.
THEOREM NoTriggerIsMissed == ActionsSpec => []QueueInv
<1>1. AInv => QueueInv
  <2> SUFFICES ASSUME AInv PROVE QueueInv
    OBVIOUS
  <2>1. ActionsTypeOK
    BY AreaFacts, ListFacts DEF AInv, ActionsTypeOK, CurrentOK, PropTypes, DiskTypes, FileTypes
  <2>2. NoMissedTrigger
    BY AreaFacts DEF AInv, NoMissedTrigger, Heard
  <2> QED
    BY <2>1, <2>2 DEF QueueInv
<1> QED
  BY <1>1, AlwaysSound, PTL

\* Once the files of /data/property were read, write_persistent_property keeps
\* them equal to the properties, so that what is stored is what comes back:
\* except for a property whose last write failed or whose file was skipped.
THEOREM StoredAreCurrent == ActionsSpec => []PersistAgrees
<1>1. AInv => PersistAgrees
  BY AreaFacts DEF AInv, Synced, Agree, Agrees, Current, PersistAgrees
<1> QED
  BY <1>1, AlwaysSound, PTL

-----------------------------------------------------------------------------
(* What a step never does *)

\* The areas in which the ro.* properties that are set have their value.
RoKept == {st \in Areas : \A n \in Ro : props[n] # Absent => st.props[n] = props[n]}
LEMMA RoClosed ==
  ASSUME ListOK
  PROVE  Closed(RoKept)
<1>1. ASSUME NEW x \in RoKept, NEW n \in Props, NEW v \in Values
      PROVE  property_set(x, n, v) \in RoKept
  <2>1. x \in Areas /\ property_set(x, n, v) \in Areas
    BY SetTyped DEF RoKept
  <2>2. CASE ReadOnly(x, n)
    BY <2>2, SetReadOnly
  <2>3. ASSUME ~ReadOnly(x, n), NEW m \in Ro, props[m] # Absent
        PROVE  property_set(x, n, v).props[m] = props[m]
    <3>1. x.props \in PropTypes /\ x.props[m] = props[m] /\ m # n /\ m \in Props /\ m # NetChange
      BY <2>1, <2>3, AreaParts, ActionsAssumption DEF RoKept, ReadOnly
    <3>2. property_set(x, n, v).props = NewProps(x, n, v)
      <4>1. property_set(x, n, v) =
              AreaOf(NewProps(x, n, v), NewDisk(x, n, v), NewQueue(x, n, v), NewRan(x, n, v))
        BY <2>1, <2>3, SetParts
      <4>2. \A p, d, q, r : AreaOf(p, d, q, r).props = p
        BY DEF AreaOf
      <4> QED
        BY <4>1, <4>2
    <3> QED
      BY <3>1, <3>2 DEF NewProps, PropTypes
  <2> QED
    BY <2>1, <2>2, <2>3 DEF RoKept
<1>2. ASSUME NEW x \in RoKept, NEW S \in SUBSET DOMAIN action_list
      PROVE  Queued(x, S) \in RoKept
  <2> DEFINE q == action_add_queue_tail(x.queue, S)
  <2>1. x \in Areas /\ x.queue \in Seq(DOMAIN action_list)
    BY AreaParts DEF RoKept
  <2>2. q \in Seq(DOMAIN action_list)
    BY <2>1, ListFacts, QueueTailFacts
  <2>3. Queued(x, S) = AreaOf(x.props, x.disk, q, x.ran)
    BY <2>1, QueuedParts
  <2> HIDE DEF q
  <2>4. AreaOf(x.props, x.disk, q, x.ran) \in Areas /\ AreaOf(x.props, x.disk, q, x.ran).props = x.props
    BY <2>1, <2>2, AreaParts DEF Areas, AreaOf
  <2> QED
    BY <2>3, <2>4 DEF RoKept
<1>3. AnyDisk(RoKept)
  <2> SUFFICES ASSUME NEW x \in RoKept, NEW d \in DiskTypes
               PROVE  AreaOf(x.props, d, x.queue, x.ran) \in RoKept
    BY DEF AnyDisk
  <2>1. x \in Areas
    BY DEF RoKept
  <2>2. AreaOf(x.props, d, x.queue, x.ran) \in Areas
        /\ AreaOf(x.props, d, x.queue, x.ran).props = x.props
    BY <2>1, AreaParts DEF Areas, AreaOf
  <2> QED
    BY <2>2 DEF RoKept
<1>4. RoKept \subseteq Areas
  BY DEF RoKept
<1>5. \A x \in RoKept : load_persistent_properties(x) \subseteq RoKept
  BY <1>1, <1>3, <1>4, AnyDiskLoads
<1> QED
  BY <1>1, <1>2, <1>4, <1>5 DEF Closed, ClosedIn

\* No step modifies a ro.* property that is set.
LEMMA RoStep ==
  ASSUME AInv, [ActionsNext]_actionsVars, NEW n \in Ro, props[n] # Absent
  PROVE  props'[n] = props[n]
<1>0. ListOK /\ QueueSound /\ Area \in RoKept
  BY AreaFacts DEF AInv, RoKept
<1>1. ASSUME NEW s \in RoKept, Become(s) PROVE props'[n] = props[n]
  BY <1>1 DEF RoKept, Become
<1>2. CASE parse_action \/ poll \/ Mount \/ StorageChanges \/ UNCHANGED actionsVars
  BY <1>2 DEF parse_action, poll, Mount, StorageChanges, actionsVars, areavars
<1>3. CASE handle_property_set_fd \/ notify_service_state
  <2>1. PICK p \in Props \X Values : Become(property_set(Area, p[1], p[2]))
    BY <1>3, ActionsAssumption DEF handle_property_set_fd, notify_service_state
  <2> QED
    BY <1>0, <1>1, <2>1, RoClosed DEF Closed, ClosedIn
<1>4. CASE boot_queue
  <2>1. CASE UNCHANGED props
    BY <2>1
  <2>2. CASE Become(action_for_each_trigger(Area, Head(boot)))
    <3> DEFINE S == {a \in DOMAIN action_list : action_list[a].on = Head(boot)}
    <3>1. action_for_each_trigger(Area, Head(boot)) = Queued(Area, S)
      BY Zenon DEF action_for_each_trigger, Queued
    <3> QED
      BY <1>0, <1>1, <2>2, <3>1, RoClosed DEF Closed, ClosedIn
  <2> QED
    BY <1>4, <2>1, <2>2 DEF boot_queue
<1>5. CASE execute_one_command
  <2>1. ASSUME NEW st \in RoKept, NEW c, IsCommand(c), command(c, st)
        PROVE  props'[n] = props[n]
    BY <1>0, <1>1, <2>1, RoClosed, CommandClosed
  <2>2. CASE /\ ~Done /\ command(CommandsOf(cur_action)[cur_command + 1], Area)
    <3>1. /\ cur_action \in DOMAIN action_list
          /\ cur_command \in 0..Len(CommandsOf(cur_action))
          /\ cur_command # Len(CommandsOf(cur_action))
      BY <2>2 DEF AInv, Done, CurrentOK
    <3>2. cur_command + 1 \in 1..Len(CommandsOf(cur_action))
      BY <1>0, <3>1, CommandsFacts
    <3> QED
      BY <1>0, <2>1, <2>2, <3>1, <3>2, CommandsFacts
  <2>3. CASE action_queue # <<>> /\ Become(Dequeued)
    BY <1>0, <2>3, DequeuedSound DEF Become
  <2>4. CASE /\ action_queue # <<>> /\ CommandsOf(Head(action_queue)) # <<>>
             /\ command(CommandsOf(Head(action_queue))[1], Dequeued)
    <3>1. Head(action_queue) \in DOMAIN action_list /\ Dequeued \in RoKept
      BY <1>0, <2>4, DequeuedSound DEF Sound, RoKept
    <3>2. IsCommand(CommandsOf(Head(action_queue))[1])
      BY <1>0, <2>4, <3>1, CommandsFacts
    <3> QED
      BY <2>1, <2>4, <3>1, <3>2
  <2>5. CASE UNCHANGED areavars
    BY <2>5 DEF areavars
  <2> QED
    BY <1>5, <2>2, <2>3, <2>4, <2>5 DEF execute_one_command
<1> QED
  BY <1>2, <1>3, <1>4, <1>5 DEF ActionsNext, ActionsStep

\* No override in /data/local.prop is for a stored property.
NoStoredDefaults == \A i \in DOMAIN LocalProps : LocalProps[i][1] \notin Persist

-----------------------------------------------------------------------------
(* The order of a boot *)

ReadDefaults == <<"property_service_init">>
\* property_service_init is queued once.  A section cannot contain or trigger a
\* builtin action, and asks for the stored properties only when a property was
\* set (init.rc: vold.decrypt).
BootOrder ==
  /\ \A i \in DOMAIN RcSections : \A j \in DOMAIN RcSections[i].do :
       LET c == RcSections[i].do[j]
       IN  /\ <<c[1]>> \notin Builtins
           /\ c[1] = "load_persist_props" => RcSections[i].on[1] = "property"
           /\ c[1] = "trigger" => c[2] \notin Builtins
  /\ \A i \in DOMAIN BootQueue : BootQueue[i][1] # "property"
  /\ \A i, j \in DOMAIN BootQueue :
       BootQueue[i] = ReadDefaults /\ BootQueue[j] = ReadDefaults => i = j

\* The action that reads the defaults is on the queue before the ones that may
\* read the stored properties; those are queued when triggers are enabled,
\* which a command does, when the whole boot queue is there.
DefaultActions == {a \in DOMAIN action_list : action_list[a] = Builtin(ReadDefaults)}
Ordered(q) ==
  \A i, j \in DOMAIN q :
    q[i] \in DefaultActions /\ q[j] \in PropertyActions \cup DefaultActions => i <= j
Free(q) == Elements(q) \cap DefaultActions = {}

BootOnce ==
  \A i, j \in DOMAIN boot : boot[i] = ReadDefaults /\ boot[j] = ReadDefaults => i = j
BootPending ==
  ReadDefaults \in Elements(boot) =>
    Elements(action_queue) \cap (PropertyActions \cup DefaultActions) = {}
BootAlone ==
  rc # <<>> \/ boot # <<>> => cur_action = 0 /\ ~persistent_properties_loaded /\ turn = "cmd"
Executed ==
  persistent_properties_loaded \/ cur_action \in PropertyActions => Free(action_queue)
BInv == BootOnce /\ BootPending /\ BootAlone /\ Ordered(action_queue) /\ Executed

\* Queueing at the end keeps the order.
LEMMA TailOrdered ==
  ASSUME ListOK, NEW q \in Seq(DOMAIN action_list), NEW S, S \subseteq DOMAIN action_list,
         S \cap DefaultActions = {}
  PROVE  /\ Ordered(q) => Ordered(action_add_queue_tail(q, S))
         /\ Free(q) => Free(action_add_queue_tail(q, S))
<1> DEFINE k == Kept(InList, S \ Elements(q))
           D == DOMAIN action_list
           c == q \o k
           m == Len(q)
           n == Len(k)
<1>1. InList \in Seq(D)
  <2>1. DOMAIN action_list = 1..Len(action_list) /\ Len(action_list) \in Nat
    BY ListFacts
  <2>2. InList \in [1..Len(action_list) -> D]
    BY <2>1 DEF InList
  <2> QED
    BY <2>1, <2>2, SeqDef
<1>2. k \in Seq(D) /\ Elements(k) \subseteq S
  BY <1>1, KeptFacts
<1>3. action_add_queue_tail(q, S) = c
  BY DEF action_add_queue_tail
<1>4. /\ m \in Nat /\ n \in Nat /\ DOMAIN q = 1..m /\ DOMAIN k = 1..n /\ DOMAIN c = 1..(m + n)
      /\ \A i \in 1..(m + n) : c[i] = IF i <= m THEN q[i] ELSE k[i - m]
  BY <1>2, ConcatProperties
<1> HIDE DEF c, k, m, n
<1>5. \A i \in 1..(m + n) : i > m => c[i] \notin DefaultActions
  <2> SUFFICES ASSUME NEW i \in 1..(m + n), i > m PROVE c[i] \in S
    OBVIOUS
  <2>1. i - m \in 1..n /\ c[i] = k[i - m]
    BY <1>4
  <2> QED
    BY <1>2, <1>4, <2>1 DEF Elements
<1>6. Ordered(q) => Ordered(c)
  BY <1>4, <1>5 DEF Ordered
<1>7. Elements(c) = Elements(q) \cup S
  BY <1>3, ListFacts, QueueTailFacts
<1> QED
  BY <1>3, <1>6, <1>7 DEF Free

\* Neither property_set nor queueing anything but the default action spoils it.
OrderedAreas == {x \in Areas : Ordered(x.queue)}
FreeAreas == {x \in Areas : Free(x.queue)}
LEMMA OrderClosed ==
  ASSUME ListOK
  PROVE  /\ ClosedIn(OrderedAreas, DOMAIN action_list \ DefaultActions)
         /\ ClosedIn(FreeAreas, DOMAIN action_list \ DefaultActions)
         /\ PropertyActions \subseteq DOMAIN action_list \ DefaultActions
<1> DEFINE Q == DOMAIN action_list \ DefaultActions
<1>1. PropertyActions \subseteq Q
  <2>1. Builtin(ReadDefaults).on[1] # "property"
    BY DEF Builtin, ReadDefaults
  <2> QED
    BY <2>1 DEF PropertyActions, DefaultActions
<1>2. ASSUME NEW x \in Areas, NEW S \in SUBSET Q
      PROVE  /\ Queued(x, S) \in Areas
             /\ Ordered(x.queue) => Ordered(Queued(x, S).queue)
             /\ Free(x.queue) => Free(Queued(x, S).queue)
  <2> DEFINE q == action_add_queue_tail(x.queue, S)
  <2>1. /\ x.queue \in Seq(DOMAIN action_list) /\ x.props \in PropTypes
        /\ x.disk \in DiskTypes /\ x.ran \in [Ids -> BOOLEAN]
    BY AreaParts
  <2>2. q \in Seq(DOMAIN action_list)
    BY <2>1, ListFacts, QueueTailFacts
  <2>3. (Ordered(x.queue) => Ordered(q)) /\ (Free(x.queue) => Free(q))
    BY <2>1, TailOrdered
  <2>4. Queued(x, S) = AreaOf(x.props, x.disk, q, x.ran)
    BY QueuedParts
  <2> HIDE DEF q
  <2>5. AreaOf(x.props, x.disk, q, x.ran) \in Areas /\ AreaOf(x.props, x.disk, q, x.ran).queue = q
    BY <2>1, <2>2 DEF Areas, AreaOf
  <2> QED
    BY <2>3, <2>4, <2>5
<1>3. ASSUME NEW x \in Areas, NEW n \in Props, NEW v \in Values
      PROVE  /\ property_set(x, n, v) \in Areas
             /\ Ordered(x.queue) => Ordered(property_set(x, n, v).queue)
             /\ Free(x.queue) => Free(property_set(x, n, v).queue)
  <2>1. property_set(x, n, v) \in Areas
    BY SetTyped
  <2>2. CASE ReadOnly(x, n)
    BY <2>1, <2>2, SetReadOnly
  <2>3. CASE ~ReadOnly(x, n)
    <3> DEFINE q == NewQueue(x, n, v)
    <3>1. property_set(x, n, v) = AreaOf(NewProps(x, n, v), NewDisk(x, n, v), q, NewRan(x, n, v))
      BY <2>3, SetParts
    <3>2. \A p, d, i, r : AreaOf(p, d, i, r).queue = i
      BY DEF AreaOf
    <3>3. property_set(x, n, v).queue = q
      BY <3>1, <3>2
    <3>4. Triggered(n, v) \subseteq Q
      BY <1>1 DEF Triggered
    <3>5. x.queue \in Seq(DOMAIN action_list)
      BY AreaParts
    <3>6. LET t == action_add_queue_tail(x.queue, Triggered(n, v))
          IN  (Ordered(x.queue) => Ordered(t)) /\ (Free(x.queue) => Free(t))
      BY <3>4, <3>5, TailOrdered
    <3> QED
      BY <2>1, <3>3, <3>6 DEF NewQueue
  <2> QED
    BY <2>2, <2>3
<1>0. ASSUME NEW x \in Areas, NEW d \in DiskTypes
      PROVE  /\ AreaOf(x.props, d, x.queue, x.ran) \in Areas
             /\ AreaOf(x.props, d, x.queue, x.ran).queue = x.queue
  BY AreaParts DEF Areas, AreaOf
<1>4. ClosedIn(OrderedAreas, Q)
  <2>1. OrderedAreas \subseteq Areas /\ AnyDisk(OrderedAreas)
    BY <1>0 DEF OrderedAreas, AnyDisk
  <2>2. \A x \in OrderedAreas, n \in Props, v \in Values : property_set(x, n, v) \in OrderedAreas
    BY <1>3 DEF OrderedAreas
  <2>3. \A x \in OrderedAreas, S \in SUBSET Q : Queued(x, S) \in OrderedAreas
    BY <1>2 DEF OrderedAreas
  <2> QED
    BY <2>1, <2>2, <2>3, AnyDiskLoads DEF ClosedIn
<1>5. ClosedIn(FreeAreas, Q)
  <2>1. FreeAreas \subseteq Areas /\ AnyDisk(FreeAreas)
    BY <1>0 DEF FreeAreas, AnyDisk
  <2>2. \A x \in FreeAreas, n \in Props, v \in Values : property_set(x, n, v) \in FreeAreas
    BY <1>3 DEF FreeAreas
  <2>3. \A x \in FreeAreas, S \in SUBSET Q : Queued(x, S) \in FreeAreas
    BY <1>2 DEF FreeAreas
  <2> QED
    BY <2>1, <2>2, <2>3, AnyDiskLoads DEF ClosedIn
<1> QED
  BY <1>1, <1>4, <1>5

\* What the commands of an action may be.
LEMMA CommandKinds ==
  ASSUME ListOK, BootOrder, NEW a \in DOMAIN action_list,
         NEW j \in 1..Len(CommandsOf(a)), NEW c, c = CommandsOf(a)[j]
  PROVE  /\ c[1] = "property_service_init" => a \in DefaultActions /\ Len(CommandsOf(a)) = 1
         /\ c[1] = "load_persist_props" => a \in PropertyActions
         /\ c[1] = "trigger" => {b \in DOMAIN action_list : action_list[b].on = c[2]}
                                  \subseteq DOMAIN action_list \ DefaultActions
<1>1. CASE action_list[a] \in Elements(RcSections)
  <2>1. PICK i \in DOMAIN RcSections : action_list[a] = RcSections[i]
    BY <1>1 DEF Elements
  <2>2. CommandsOf(a) = RcSections[i].do /\ j \in DOMAIN RcSections[i].do /\ c = RcSections[i].do[j]
    <3>1. CommandsOf(a) = RcSections[i].do
      BY <2>1 DEF CommandsOf
    <3>2. PICK D : D = RcSections[i].do /\ D \in Seq(Elements(D))
      BY ActionsAssumption
    <3>3. DOMAIN D = 1..Len(D)
      BY <3>2
    <3> QED
      BY <3>1, <3>2, <3>3
  <2>3. /\ <<c[1]>> \notin Builtins
        /\ c[1] = "load_persist_props" => RcSections[i].on[1] = "property"
        /\ c[1] = "trigger" => c[2] \notin Builtins
    BY <2>2 DEF BootOrder
  <2>4. c[1] # "property_service_init"
    BY <2>3 DEF Builtins
  <2>5. \A b \in DefaultActions : action_list[b].on \in Builtins
    BY DEF DefaultActions, Builtin, Builtins, ReadDefaults
  <2> QED
    BY <2>1, <2>3, <2>4, <2>5 DEF PropertyActions
<1>2. ASSUME NEW e \in Builtins, action_list[a] = Builtin(e)
      PROVE  /\ c[1] = "property_service_init" => a \in DefaultActions /\ Len(CommandsOf(a)) = 1
             /\ c[1] # "load_persist_props" /\ c[1] # "trigger"
  <2>1. CommandsOf(a) = <<e>> /\ Len(<<e>>) = 1 /\ <<e>>[1] = e
    BY <1>2 DEF CommandsOf, Builtin
  <2>2. j = 1 /\ c = e
    BY <2>1
  <2>3. e[1] = "property_service_init" => e = ReadDefaults
    BY DEF Builtins, ReadDefaults
  <2>4. e[1] # "load_persist_props" /\ e[1] # "trigger"
    BY DEF Builtins
  <2> QED
    BY <1>2, <2>1, <2>2, <2>3, <2>4 DEF DefaultActions
<1>3. action_list[a] \in Sections
  BY ListFacts
<1> QED
  BY <1>1, <1>2, <1>3 DEF Sections

\* A command keeps the order of the queue, and the two that read the stored
\* properties come when the action that reads the defaults is not on it.
LEMMA CommandOrdered ==
  ASSUME ListOK, BootOrder, UNCHANGED action_list, NEW a \in DOMAIN action_list,
         NEW j \in 1..Len(CommandsOf(a)), NEW c, c = CommandsOf(a)[j],
         NEW st \in OrderedAreas, command(c, st),
         persistent_properties_loaded \/ a \in PropertyActions \cup DefaultActions => st \in FreeAreas
  PROVE  /\ Ordered(action_queue)'
         /\ persistent_properties_loaded' \/ a \in PropertyActions => Free(action_queue)'
<1> DEFINE Q == DOMAIN action_list \ DefaultActions
<1>1. IsCommand(c)
  BY CommandsFacts
<1>2. c[1] = "trigger" => {b \in DOMAIN action_list : action_list[b].on = c[2]} \subseteq Q
  BY CommandKinds
<1>3. /\ ClosedIn(OrderedAreas, Q) /\ ClosedIn(FreeAreas, Q) /\ PropertyActions \subseteq Q
  BY OrderClosed
<1>4. PICK s \in OrderedAreas : Become(s)
  <2> HIDE DEF Q
  <2> QED
    BY <1>1, <1>2, <1>3, CommandClosedIn
<1>5. DefaultActions' = DefaultActions /\ PropertyActions' = PropertyActions
  BY DEF DefaultActions, PropertyActions
<1>6. \A q : Ordered(q)' = Ordered(q) /\ Free(q)' = Free(q)
  BY <1>5 DEF Ordered, Free
<1>7. Ordered(action_queue')
  BY <1>4 DEF OrderedAreas, Become
<1>8. persistent_properties_loaded' = TRUE =>
        persistent_properties_loaded \/ a \in PropertyActions \cup DefaultActions
  BY CommandKinds DEF command, flagvars
<1>9. ASSUME persistent_properties_loaded' \/ a \in PropertyActions PROVE Free(action_queue')
  <2>1. st \in FreeAreas
    BY <1>8, <1>9
  <2>2. PICK t \in FreeAreas : Become(t)
    <3> HIDE DEF Q
    <3> QED
      BY <1>1, <1>2, <1>3, <2>1, CommandClosedIn
  <2> QED
    BY <2>2 DEF FreeAreas, Become
<1> QED
  BY <1>5, <1>7, <1>9 DEF Ordered, Free

\* Taking the first action off leaves the order, and when it is one that the
\* order is about, the action that reads the defaults is gone.
LEMMA HeadOrdered ==
  ASSUME ListOK, QueueSound, action_queue # <<>>, Ordered(action_queue)
  PROVE  /\ Dequeued \in OrderedAreas /\ Dequeued.queue = Tail(action_queue)
         /\ Free(action_queue) => Dequeued \in FreeAreas
         /\ Head(action_queue) \in PropertyActions \cup DefaultActions => Dequeued \in FreeAreas
<1> DEFINE q == action_queue
           t == Tail(q)
<1>1. /\ q \in Seq(DOMAIN action_list) /\ t \in Seq(DOMAIN action_list) /\ Len(q) \in Nat \ {0}
      /\ DOMAIN q = 1..Len(q) /\ DOMAIN t = 1..(Len(q) - 1) /\ Head(q) = q[1]
      /\ \A i \in 1..(Len(q) - 1) : t[i] = q[i + 1]
  BY AreaFacts, HeadTailProperties, EmptySeq
<1>2. Dequeued \in Areas /\ Dequeued.queue = t
  <2>1. Dequeued \in Areas
    BY DequeuedSound DEF Sound
  <2> DEFINE r == [ran EXCEPT ![Head(q)] = TRUE]
  <2>2. Dequeued = Requeued(Area, t, r)
    <3>1. Area.queue = action_queue /\ Area.ran = ran
      BY AreaFacts
    <3>2. Dequeued = [Area EXCEPT !.queue = Tail(Area.queue),
                                  !.ran = [Area.ran EXCEPT ![Head(q)] = TRUE]]
      BY Zenon DEF Dequeued
    <3> QED
      BY <3>1, <3>2, Zenon DEF Requeued
  <2>3. Area = AreaOf(props, disk, action_queue, ran)
    BY DEF Area, AreaOf
  <2> HIDE DEF r, t
  <2>4. Dequeued = AreaOf(props, disk, t, r)
    BY <2>2, <2>3, RequeuedArea
  <2>5. AreaOf(props, disk, t, r).queue = t
    BY DEF AreaOf
  <2> QED
    BY <2>1, <2>4, <2>5
<1> HIDE DEF t
<1>3. \A i \in 1..(Len(q) - 1) : i + 1 \in 1..Len(q) /\ 1 \in 1..Len(q)
  BY <1>1
<1>4. Ordered(t)
  BY <1>1, <1>3 DEF Ordered
<1>5. Free(q) => Free(t)
  BY <1>1, <1>3 DEF Free, Elements
<1>6. Head(q) \in PropertyActions \cup DefaultActions => Free(t)
  <2> SUFFICES ASSUME Head(q) \in PropertyActions \cup DefaultActions,
                      NEW i \in 1..(Len(q) - 1), t[i] \in DefaultActions
               PROVE  FALSE
    BY <1>1 DEF Free, Elements
  <2>1. q[i + 1] \in DefaultActions /\ i + 1 \in DOMAIN q /\ 1 \in DOMAIN q
        /\ q[1] \in PropertyActions \cup DefaultActions
    BY <1>1, <1>3
  <2>2. i + 1 <= 1
    BY <2>1 DEF Ordered
  <2> QED
    BY <1>1, <2>2
<1> QED
  BY <1>2, <1>4, <1>5, <1>6 DEF OrderedAreas, FreeAreas, t

\* What an execution of the command that reads the defaults finds.
DefaultsFirst == Executes({"property_service_init"}) => ~persistent_properties_loaded

\* execute_one_command
LEMMA execute_one_command_Ordered ==
  ASSUME AInv, BootOrder, BInv, execute_one_command
  PROVE  BInv' /\ DefaultsFirst
<1>0. /\ ListOK /\ CurrentOK /\ QueueSound /\ Ordered(action_queue) /\ Executed
      /\ rc = <<>> /\ boot = <<>> /\ UNCHANGED <<rc, boot, action_list>>
  BY DEF AInv, BInv, execute_one_command, parsevars
<1>1. /\ BootOnce' /\ BootPending' /\ BootAlone'
  <2>1. boot' = <<>> /\ rc' = <<>> /\ Elements(<<>>) = {}
    BY <1>0 DEF Elements
  <2> QED
    BY <2>1 DEF BootOnce, BootPending, BootAlone
<1>2. PropertyActions' = PropertyActions /\ DefaultActions' = DefaultActions
  BY <1>0 DEF PropertyActions, DefaultActions
<1>3. \A x \in {0} : x \notin PropertyActions
  BY <1>0, ListFacts
<1>4. CASE /\ ~Done
           /\ cur_command' = cur_command + 1 /\ UNCHANGED cur_action
           /\ command(CommandsOf(cur_action)[cur_command + 1], Area)
  <2>1. /\ cur_action \in DOMAIN action_list
        /\ cur_command + 1 \in 1..Len(CommandsOf(cur_action)) /\ cur_command + 1 # 1
    <3>1. /\ cur_action \in DOMAIN action_list /\ cur_action # 0
          /\ cur_command \in 0..Len(CommandsOf(cur_action)) /\ cur_command # 0
          /\ cur_command # Len(CommandsOf(cur_action))
      BY <1>0, <1>4 DEF Done, CurrentOK
    <3>2. Len(CommandsOf(cur_action)) \in Nat
      BY <1>0, <3>1, CommandsFacts
    <3> QED
      BY <3>1, <3>2
  <2>2. cur_action \notin DefaultActions
    <3>1. Len(CommandsOf(cur_action)) \in Nat
      BY <1>0, <2>1, CommandsFacts
    <3>2. cur_action \in DefaultActions => CommandsOf(cur_action) = <<ReadDefaults>>
      BY DEF DefaultActions, CommandsOf, Builtin
    <3>3. Len(<<ReadDefaults>>) = 1
      OBVIOUS
    <3>4. cur_action \in DefaultActions => Len(CommandsOf(cur_action)) = 1
      BY <3>2, <3>3, Zenon
    <3>5. Len(CommandsOf(cur_action)) # 1
      <4>1. PICK m : m = Len(CommandsOf(cur_action))
        OBVIOUS
      <4>2. PICK k : k = cur_command + 1
        OBVIOUS
      <4>3. k \in 1..m /\ k # 1
        BY <2>1, <4>1, <4>2
      <4>4. m # 1
        BY <4>3
      <4> QED
        BY <4>1, <4>4
    <3> QED
      BY <3>4, <3>5
  <2>3. Area \in OrderedAreas /\ (Free(action_queue) => Area \in FreeAreas)
    BY <1>0, AreaFacts DEF OrderedAreas, FreeAreas
  <2>4. persistent_properties_loaded \/ cur_action \in PropertyActions \cup DefaultActions
          => Area \in FreeAreas
    BY <1>0, <2>2, <2>3 DEF Executed
  <2>5. PICK c : c = CommandsOf(cur_action)[cur_command + 1]
    OBVIOUS
  <2>6. /\ Ordered(action_queue)'
        /\ persistent_properties_loaded' \/ cur_action \in PropertyActions => Free(action_queue)'
    BY <1>0, <1>4, <2>1, <2>3, <2>4, <2>5, CommandOrdered
  <2>7. c[1] # "property_service_init"
    BY <1>0, <2>1, <2>2, <2>5, CommandKinds
  <2>8. DefaultsFirst
    BY <1>4, <2>5, <2>7 DEF DefaultsFirst, Executes
  <2> QED
    BY <1>1, <1>2, <1>4, <2>6, <2>8 DEF BInv, Executed
<1>5. CASE action_queue # <<>> /\ cur_action' = Head(action_queue)
           /\ CommandsOf(Head(action_queue)) = <<>>
           /\ cur_command' = 0 /\ Become(Dequeued) /\ UNCHANGED flagvars
  <2>1. /\ Dequeued \in OrderedAreas /\ (Free(action_queue) => Dequeued \in FreeAreas)
        /\ Head(action_queue) \in PropertyActions => Dequeued \in FreeAreas
    BY <1>0, <1>5, HeadOrdered
  <2>2. /\ Ordered(action_queue') /\ (Dequeued \in FreeAreas => Free(action_queue'))
        /\ persistent_properties_loaded' = persistent_properties_loaded
    BY <1>5, <2>1 DEF Become, OrderedAreas, FreeAreas, flagvars
  <2>3. Ordered(action_queue)' /\ Executed'
    BY <1>0, <1>2, <1>5, <2>1, <2>2 DEF Executed, Ordered, Free
  <2>4. DefaultsFirst
    BY <1>5 DEF DefaultsFirst, Executes
  <2> QED
    BY <1>1, <2>3, <2>4 DEF BInv
<1>6. CASE action_queue # <<>> /\ cur_action' = Head(action_queue)
           /\ CommandsOf(Head(action_queue)) # <<>>
           /\ cur_command' = 1 /\ command(CommandsOf(Head(action_queue))[1], Dequeued)
  <2>1. PICK a, c : a = Head(action_queue) /\ c = CommandsOf(a)[1]
    OBVIOUS
  <2>2. a \in DOMAIN action_list /\ 1 \in 1..Len(CommandsOf(a))
    <3>1. a \in DOMAIN action_list
      BY <1>0, <1>6, <2>1, DequeuedSound
    <3>2. Len(CommandsOf(a)) \in Nat /\ Len(CommandsOf(a)) # 0
      BY <1>0, <1>6, <2>1, <3>1, CommandsFacts
    <3> QED
      BY <3>1, <3>2
  <2>3. /\ Dequeued \in OrderedAreas /\ (Free(action_queue) => Dequeued \in FreeAreas)
        /\ a \in PropertyActions \cup DefaultActions => Dequeued \in FreeAreas
    BY <1>0, <1>6, <2>1, HeadOrdered
  <2>4. persistent_properties_loaded \/ a \in PropertyActions \cup DefaultActions
          => Dequeued \in FreeAreas
    BY <1>0, <2>3 DEF Executed
  <2>5. command(c, Dequeued)
    BY <1>6, <2>1
  <2>6. /\ Ordered(action_queue)'
        /\ persistent_properties_loaded' \/ a \in PropertyActions => Free(action_queue)'
    BY <1>0, <2>1, <2>2, <2>3, <2>4, <2>5, CommandOrdered
  <2>7. c[1] = "property_service_init" => ~persistent_properties_loaded
    <3>1. c[1] = "property_service_init" => a \in DefaultActions
      BY <1>0, <2>1, <2>2, CommandKinds
    <3>2. a \in Elements(action_queue)
      BY <1>0, <1>6, <2>1, AreaFacts, TailFacts
    <3> QED
      BY <1>0, <3>1, <3>2 DEF Executed, Free
  <2>8. DefaultsFirst
    BY <1>6, <2>1, <2>7 DEF DefaultsFirst, Executes
  <2> QED
    BY <1>1, <1>2, <1>6, <2>1, <2>6, <2>8 DEF BInv, Executed
<1>7. CASE cur_action' = 0 /\ cur_command' = 0 /\ UNCHANGED <<areavars, flagvars>>
  <2>1. action_queue' = action_queue /\ persistent_properties_loaded' = persistent_properties_loaded
    BY <1>7 DEF areavars, flagvars
  <2>2. Ordered(action_queue)' /\ Executed'
    BY <1>0, <1>2, <1>3, <1>7, <2>1 DEF Executed, Ordered, Free
  <2>3. DefaultsFirst
    BY <1>7 DEF DefaultsFirst, Executes
  <2> QED
    BY <1>1, <2>2, <2>3 DEF BInv
<1> QED
  BY <1>4, <1>5, <1>6, <1>7 DEF execute_one_command

\* The sections that are parsed leave their places to the actions there are.
LEMMA GrowFacts ==
  ASSUME ListOK, NEW s, action_list' = Append(action_list, s), NEW k, k = Len(action_list) + 1
  PROVE  /\ \A a \in DOMAIN action_list : /\ a \in PropertyActions' <=> a \in PropertyActions
                                          /\ a \in DefaultActions' <=> a \in DefaultActions
         /\ k \in DefaultActions' <=> s = Builtin(ReadDefaults)
         /\ k \in PropertyActions' <=> s.on[1] = "property"
         /\ k \notin DOMAIN action_list /\ 0 \notin PropertyActions'
<1> DEFINE n == Len(action_list)
           T == Sections \cup {s}
<1>1. action_list \in Seq(T) /\ s \in T
  BY DEF ListOK
<1> HIDE DEF T
<1>2. /\ n \in Nat /\ DOMAIN action_list = 1..n /\ DOMAIN action_list' = 1..(n + 1)
      /\ action_list'[n + 1] = s /\ \A a \in 1..n : action_list'[a] = action_list[a]
  BY <1>1
<1>3. k \in 1..(n + 1) /\ k \notin 1..n /\ 0 \notin 1..(n + 1) /\ \A a \in 1..n : a \in 1..(n + 1)
  BY <1>2
<1>4. DefaultActions' = {a \in 1..(n + 1) : action_list'[a] = Builtin(ReadDefaults)}
  BY <1>2 DEF DefaultActions, Builtin, ReadDefaults
<1>5. PropertyActions' = {a \in 1..(n + 1) : action_list'[a].on[1] = "property"}
  BY <1>2 DEF PropertyActions
<1> HIDE DEF n
<1> QED
  BY <1>2, <1>3, <1>4, <1>5 DEF DefaultActions, PropertyActions, n

\* What is left of the boot queue holds its one ReadDefaults at most once.
LEMMA BootTail ==
  ASSUME ListOK, BootOnce, boot # <<>>
  PROVE  /\ \A i, j \in DOMAIN Tail(boot) :
              Tail(boot)[i] = ReadDefaults /\ Tail(boot)[j] = ReadDefaults => i = j
         /\ Elements(Tail(boot)) \subseteq Elements(boot) /\ Head(boot) \in Elements(BootQueue)
         /\ Head(boot) = ReadDefaults => ReadDefaults \notin Elements(Tail(boot))
<1> DEFINE t == Tail(boot)
           n == Len(boot)
<1>1. /\ n \in Nat \ {0} /\ DOMAIN boot = 1..n /\ DOMAIN t = 1..(n - 1) /\ Head(boot) = boot[1]
      /\ \A i \in 1..(n - 1) : t[i] = boot[i + 1]
  BY HeadTailProperties, EmptySeq DEF ListOK
<1>2. Elements(boot) = {Head(boot)} \cup Elements(t) /\ Head(boot) \in Elements(BootQueue)
  BY TailFacts DEF ListOK
<1> HIDE DEF t, n
<1>3. \A i \in 1..(n - 1) : i + 1 \in 1..n /\ 1 \in 1..n /\ i + 1 # 1
  BY <1>1
<1>4. \A i, j \in 1..(n - 1) : i + 1 = j + 1 => i = j
  BY <1>1
<1>5. \A i, j \in DOMAIN t : t[i] = ReadDefaults /\ t[j] = ReadDefaults => i = j
  BY <1>1, <1>3, <1>4 DEF BootOnce
<1>6. Head(boot) = ReadDefaults => ReadDefaults \notin Elements(t)
  BY <1>1, <1>3 DEF BootOnce, Elements
<1> QED
  BY <1>2, <1>5, <1>6 DEF t

\* Nothing is queued yet.
LEMMA InitOrdered ==
  ASSUME BootOrder, ActionsInit
  PROVE  BInv
<1>1. action_queue = <<>> /\ DOMAIN <<>> = {} /\ Elements(<<>>) = {}
  BY DEF ActionsInit, Elements
<1>2. BootOnce /\ BootPending /\ BootAlone
  BY <1>1 DEF BootOnce, BootPending, BootAlone, BootOrder, ActionsInit
<1>3. Ordered(action_queue) /\ Executed
  BY <1>1 DEF Ordered, Executed, Free
<1> QED
  BY <1>2, <1>3 DEF BInv

\* parse_action
LEMMA parse_action_Ordered ==
  ASSUME AInv, BootOrder, BInv, parse_action
  PROVE  BInv'
<1>0. /\ ListOK /\ QueueSound /\ rc # <<>> /\ action_list' = Append(action_list, Head(rc))
      /\ UNCHANGED <<boot, action_queue, persistent_properties_loaded, cur_action, turn>>
  BY DEF AInv, parse_action, areavars, flagvars
<1>1. cur_action = 0 /\ ~persistent_properties_loaded /\ turn = "cmd"
  BY <1>0 DEF BInv, BootAlone
<1>2. /\ \A a \in DOMAIN action_list : /\ a \in PropertyActions' <=> a \in PropertyActions
                                       /\ a \in DefaultActions' <=> a \in DefaultActions
      /\ 0 \notin PropertyActions'
  BY <1>0, GrowFacts
<1>3. /\ Elements(action_queue) \subseteq DOMAIN action_list
      /\ \A i \in DOMAIN action_queue : action_queue[i] \in DOMAIN action_list
  BY <1>0, AreaFacts, ElementsType
<1>4. BootOnce' /\ BootAlone' /\ Executed'
  BY <1>0, <1>1, <1>2 DEF BInv, BootOnce, BootAlone, Executed
<1>5. BootPending' /\ Ordered(action_queue)'
  BY <1>0, <1>2, <1>3 DEF BInv, BootPending, Ordered
<1> QED
  BY <1>4, <1>5 DEF BInv

\* boot_queue
LEMMA boot_queue_Ordered ==
  ASSUME AInv, BootOrder, BInv, boot_queue
  PROVE  BInv'
<1>0. /\ ListOK /\ QueueSound /\ boot # <<>> /\ boot' = Tail(boot)
      /\ UNCHANGED <<rc, persistent_properties_loaded, cur_action, turn>>
      /\ BootOnce /\ BootPending /\ BootAlone /\ Ordered(action_queue)
  BY DEF AInv, BInv, boot_queue, flagvars
<1>1. cur_action = 0 /\ ~persistent_properties_loaded /\ turn = "cmd"
  BY <1>0 DEF BootAlone
<1>2. /\ Elements(Tail(boot)) \subseteq Elements(boot) /\ Head(boot) \in Elements(BootQueue)
      /\ Head(boot) \in Elements(boot)
      /\ Head(boot) = ReadDefaults => ReadDefaults \notin Elements(Tail(boot))
      /\ BootOnce'
  BY <1>0, BootTail, TailFacts DEF BootOnce, ListOK
<1>3. BootAlone'
  BY <1>0, <1>1 DEF BootAlone
<1>4. Head(boot)[1] # "property"
  BY <1>2 DEF BootOrder, Elements
<1>5. action_queue \in Seq(DOMAIN action_list) /\ Elements(action_queue) \subseteq DOMAIN action_list
  BY <1>0, AreaFacts, ElementsType
<1>6. CASE Head(boot) \in Builtins
  <2> DEFINE m == Len(action_queue)
             q == action_queue
  <2>1. PICK k : k = Len(action_list) + 1
    OBVIOUS
  <2>2. action_list' = Append(action_list, Builtin(Head(boot))) /\ action_queue' = Append(q, k)
    BY <1>6, <2>1 DEF boot_queue
  <2>3. /\ \A a \in DOMAIN action_list : /\ a \in PropertyActions' <=> a \in PropertyActions
                                         /\ a \in DefaultActions' <=> a \in DefaultActions
        /\ k \in DefaultActions' <=> Builtin(Head(boot)) = Builtin(ReadDefaults)
        /\ k \in PropertyActions' <=> Builtin(Head(boot)).on[1] = "property"
        /\ k \notin DOMAIN action_list /\ 0 \notin PropertyActions'
    BY <1>0, <2>1, <2>2, GrowFacts
  <2>4. Builtin(Head(boot)).on = Head(boot) /\ Builtin(ReadDefaults).on = ReadDefaults
    BY DEF Builtin
  <2>5. k \notin PropertyActions' /\ (k \in DefaultActions' => Head(boot) = ReadDefaults)
    BY <1>4, <2>3, <2>4
  <2>6. Executed'
    BY <1>0, <1>1, <2>3 DEF Executed
  <2>7. /\ m \in Nat /\ DOMAIN q = 1..m /\ DOMAIN action_queue' = 1..(m + 1)
        /\ action_queue'[m + 1] = k /\ \A i \in 1..m : action_queue'[i] = q[i] /\ q[i] \in DOMAIN action_list
    <3>1. q \in Seq(DOMAIN action_list \cup {k})
      BY <1>5
    <3> QED
      BY <1>5, <2>2, <3>1
  <2>8. Elements(action_queue') = Elements(q) \cup {k}
    <3>1. q \in Seq(DOMAIN action_list \cup {k})
      BY <1>5
    <3> QED
      BY <2>2, <3>1, AppendFacts
  <2>9. BootPending'
    <3> SUFFICES ASSUME ReadDefaults \in Elements(Tail(boot))
                 PROVE  (Elements(action_queue) \cap (PropertyActions \cup DefaultActions) = {})'
      BY <1>0 DEF BootPending, ReadDefaults, Elements
    <3>1. Elements(q) \cap (PropertyActions \cup DefaultActions) = {}
      BY <1>0, <1>2 DEF BootPending
    <3>2. k \notin PropertyActions' \cup DefaultActions'
      BY <1>2, <2>5
    <3>3. Elements(action_queue') \cap (PropertyActions' \cup DefaultActions') = {}
      BY <1>5, <2>3, <2>8, <3>1, <3>2
    <3> QED
      BY <3>3 DEF Elements
  <2>10. Ordered(action_queue)'
    <3> DEFINE r == action_queue'
    <3>1. SUFFICES ASSUME NEW i \in 1..(m + 1), NEW j \in 1..(m + 1), r[i] \in DefaultActions',
                          r[j] \in PropertyActions' \cup DefaultActions'
                   PROVE  i <= j
      BY <2>7 DEF Ordered
    <3>2. CASE j \in 1..m
      <4>1. q[j] \in Elements(q) /\ r[j] = q[j] /\ q[j] \in PropertyActions \cup DefaultActions
        BY <2>3, <2>7, <3>1, <3>2 DEF Elements
      <4>2. Head(boot) # ReadDefaults
        BY <1>0, <1>2, <4>1 DEF BootPending
      <4>3. i # m + 1
        BY <2>5, <2>7, <3>1, <4>2
      <4>4. i \in 1..m
        BY <2>7, <4>3
      <4>5. q[i] \in DefaultActions
        BY <2>3, <2>7, <3>1, <4>4
      <4> QED
        BY <1>0, <2>7, <3>2, <4>1, <4>4, <4>5 DEF Ordered
    <3>3. CASE j = m + 1
      BY <2>7, <3>3
    <3> QED
      BY <2>7, <3>2, <3>3
  <2> QED
    BY <1>2, <1>3, <2>6, <2>9, <2>10 DEF BInv
<1>7. CASE Head(boot) \notin Builtins
  <2> DEFINE S == {a \in DOMAIN action_list : action_list[a].on = Head(boot)}
             q == action_add_queue_tail(action_queue, S)
  <2>1. S \cap (PropertyActions \cup DefaultActions) = {}
    <3>1. Builtin(ReadDefaults).on \in Builtins
      BY DEF Builtin, Builtins, ReadDefaults
    <3> QED
      BY <1>4, <1>7, <3>1 DEF PropertyActions, DefaultActions
  <2>2. action_queue' = q /\ UNCHANGED action_list
    <3>1. action_for_each_trigger(Area, Head(boot)) = Queued(Area, S)
      BY Zenon DEF action_for_each_trigger, Queued
    <3>2. \A p, d, i, r : AreaOf(p, d, i, r).queue = i
      BY DEF AreaOf
    <3>3. Become(action_for_each_trigger(Area, Head(boot))) /\ UNCHANGED action_list
      BY <1>7 DEF boot_queue
    <3> QED
      BY <1>0, <3>1, <3>2, <3>3, AreaFacts, QueuedParts DEF Become
  <2>3. PropertyActions' = PropertyActions /\ DefaultActions' = DefaultActions
    BY <2>2 DEF PropertyActions, DefaultActions
  <2>4. Ordered(q) /\ Elements(q) = Elements(action_queue) \cup S
    <3>1. S \subseteq DOMAIN action_list /\ S \cap DefaultActions = {}
      BY <2>1
    <3> HIDE DEF S
    <3> QED
      BY <1>0, <1>5, <3>1, TailOrdered, ListFacts, QueueTailFacts
  <2> HIDE DEF q, S
  <2>5. BootPending'
    <3>1. ReadDefaults \in Elements(Tail(boot)) =>
            Elements(q) \cap (PropertyActions \cup DefaultActions) = {}
      BY <1>0, <1>2, <2>1, <2>4 DEF BootPending
    <3> QED
      BY <1>0, <2>2, <2>3, <3>1 DEF BootPending
  <2>6. Executed'
    BY <1>0, <1>1, <2>3, ListFacts DEF Executed
  <2>7. Ordered(action_queue)'
    BY <2>2, <2>3, <2>4 DEF Ordered
  <2> QED
    BY <1>2, <1>3, <2>5, <2>6, <2>7 DEF BInv
<1> QED
  BY <1>6, <1>7

\* Steps between two commands: clients and the supervision set properties.
LEMMA OtherOrdered ==
  ASSUME AInv, BootOrder, BInv,
         poll \/ handle_property_set_fd \/ notify_service_state \/ Mount
           \/ StorageChanges \/ UNCHANGED actionsVars
  PROVE  BInv'
<1>0. /\ ListOK /\ QueueSound /\ Ordered(action_queue) /\ Executed
      /\ UNCHANGED <<rc, boot, action_list, persistent_properties_loaded, cur_action>>
  BY DEF AInv, BInv, poll, handle_property_set_fd, notify_service_state, Mount, StorageChanges,
         actionsVars, parsevars, flagvars
<1>1. PropertyActions' = PropertyActions /\ DefaultActions' = DefaultActions
  BY <1>0 DEF PropertyActions, DefaultActions
<1>2. CASE Mount \/ StorageChanges \/ UNCHANGED actionsVars
  <2>1. UNCHANGED <<action_queue, turn>>
    BY <1>2 DEF Mount, StorageChanges, actionsVars, areavars
  <2>2. BootOnce' /\ BootPending' /\ BootAlone'
    BY <1>0, <1>1, <2>1 DEF BInv, BootOnce, BootPending, BootAlone
  <2>3. Ordered(action_queue)' /\ Executed'
    BY <1>0, <1>1, <2>1 DEF Ordered, Executed, Free
  <2> QED
    BY <2>2, <2>3 DEF BInv
<1>3. CASE poll \/ handle_property_set_fd \/ notify_service_state
  <2>1. rc = <<>> /\ boot = <<>> /\ boot' = <<>> /\ rc' = <<>> /\ Elements(<<>>) = {}
    BY <1>0, <1>3 DEF BInv, BootAlone, poll, handle_property_set_fd, notify_service_state, Elements
  <2>2. BootOnce' /\ BootPending' /\ BootAlone'
    BY <2>1 DEF BootOnce, BootPending, BootAlone
  <2>3. Ordered(action_queue') /\ (Free(action_queue) => Free(action_queue'))
    <3>1. CASE poll
      BY <1>0, <3>1 DEF poll, areavars
    <3>2. ASSUME NEW p \in Props \X Values, Become(property_set(Area, p[1], p[2]))
          PROVE  Ordered(action_queue') /\ (Free(action_queue) => Free(action_queue'))
      <4>1. Area \in OrderedAreas /\ (Free(action_queue) => Area \in FreeAreas)
        BY <1>0, AreaFacts DEF OrderedAreas, FreeAreas
      <4>2. p[1] \in Props /\ p[2] \in Values
        OBVIOUS
      <4>3. property_set(Area, p[1], p[2]) \in OrderedAreas
        BY <1>0, <4>1, <4>2, OrderClosed DEF ClosedIn
      <4>4. Free(action_queue) => property_set(Area, p[1], p[2]) \in FreeAreas
        BY <1>0, <4>1, <4>2, OrderClosed DEF ClosedIn
      <4> QED
        BY <3>2, <4>3, <4>4 DEF OrderedAreas, FreeAreas, Become
    <3>3. CASE handle_property_set_fd \/ notify_service_state
      BY <3>2, <3>3, ActionsAssumption DEF handle_property_set_fd, notify_service_state
    <3> QED
      BY <1>3, <3>1, <3>3
  <2>4. Ordered(action_queue)' /\ Executed'
    BY <1>0, <1>1, <2>3 DEF Ordered, Executed, Free
  <2> QED
    BY <2>2, <2>4 DEF BInv
<1> QED
  BY <1>2, <1>3

\* Every step keeps the order.
LEMMA NextOrdered ==
  ASSUME BootOrder
  PROVE  AInv /\ BInv /\ [ActionsNext]_actionsVars => BInv' /\ [DefaultsFirst]_actionsVars
<1> SUFFICES ASSUME AInv, BInv, [ActionsNext]_actionsVars PROVE BInv' /\ [DefaultsFirst]_actionsVars
  OBVIOUS
<1>1. CASE parse_action
  <2>1. turn' = turn
    BY <1>1 DEF parse_action
  <2> QED
    BY <1>1, <2>1, parse_action_Ordered DEF DefaultsFirst, Executes
<1>2. CASE boot_queue
  <2>1. turn' = turn
    BY <1>2 DEF boot_queue
  <2> QED
    BY <1>2, <2>1, boot_queue_Ordered DEF DefaultsFirst, Executes
<1>3. CASE execute_one_command
  BY <1>3, execute_one_command_Ordered
<1>4. CASE poll \/ handle_property_set_fd \/ notify_service_state \/ Mount
           \/ StorageChanges \/ UNCHANGED actionsVars
  <2>1. ~(turn = "cmd" /\ turn' = "poll")
    BY <1>4 DEF poll, handle_property_set_fd, notify_service_state, Mount, StorageChanges,
                actionsVars
  <2> QED
    BY <1>4, <2>1, OtherOrdered DEF DefaultsFirst, Executes
<1> QED
  BY <1>1, <1>2, <1>3, <1>4 DEF ActionsNext, ActionsStep

\* No file holds anything else than before, except one whose writing failed.
Holds(d, e) == \A n \in Persist : e[n].value = d[n].value \/ e[n].stale

\* Loading the overrides and the stored properties leaves the files alone.
LEMMA LoadsDisk ==
  ASSUME ListOK, NoStoredDefaults, NEW st \in Areas,
         NEW s \in load_persistent_properties(load_override_properties(st))
  PROVE  s \in Areas /\ Holds(st.disk, s.disk)
<1> DEFINE G == {x \in Areas : x.disk = st.disk}
           H == {x \in Areas : Holds(st.disk, x.disk)}
           P == {p \in Props \X Values : p[1] \notin Persist}
           w == load_override_properties(st)
<1>1. LocalProps \in Seq(P)
  <2>1. LocalProps \in Seq(Props \X Values) /\ \A i \in 1..Len(LocalProps) : LocalProps[i] \in P
    BY ActionsAssumption DEF NoStoredDefaults
  <2> QED
    BY <2>1
<1>2. \A x \in G, p \in P : property_set(x, p[1], p[2]) \in G
  BY SetTyped, SetOther
<1>3. w \in G
  <2> HIDE DEF G, P
  <2>1. st \in G
    BY DEF G
  <2>2. load_properties(st, LocalProps) \in G
    BY <1>1, <1>2, <2>1, LoadKeeps
  <2> QED
    BY <2>1, <2>2 DEF load_override_properties
<1> HIDE DEF w
<1>4. /\ w \in Areas /\ w.disk = st.disk /\ w.disk \in [Persist -> FileTypes]
      /\ \A n \in Files(w) : n \in Persist /\ w.disk[n].value \in Values
  BY <1>3, AreaParts DEF DiskTypes, FileTypes, Files
<1>5. ASSUME NEW x \in H, NEW n \in Files(w)
      PROVE  property_set(x, n, w.disk[n].value) \in H
  <2>1. PICK v : v = w.disk[n].value
    OBVIOUS
  <2>2. /\ n \in Persist /\ v \in Values /\ x \in Areas /\ v = st.disk[n].value
        /\ x.disk \in [Persist -> FileTypes] /\ Holds(st.disk, x.disk)
    BY <1>4, <2>1, AreaParts DEF DiskTypes
  <2>3. PICK y : y = Written(x.disk[n], n, v)
    OBVIOUS
  <2>4. ~y.stale => y.value = v
    BY <2>2, <2>3, WrittenFacts
  <2>5. y \in FileTypes
    BY <2>2, <2>3, WrittenFacts
  <2>6. y.value = v \/ y.stale
    BY <2>4
  <2>7. Holds(st.disk, [x.disk EXCEPT ![n] = y])
    BY <2>2, <2>6 DEF Holds
  <2>8. Holds(st.disk, NewDisk(x, n, v))
    <3>1. NewDisk(x, n, v) \in {x.disk, [x.disk EXCEPT ![n] = y]}
      BY <2>3 DEF NewDisk
    <3>2. PICK d : d = NewDisk(x, n, v)
      OBVIOUS
    <3>3. CASE d = x.disk
      BY <2>2, <3>2, <3>3
    <3>4. CASE d = [x.disk EXCEPT ![n] = y]
      BY <2>7, <3>2, <3>4
    <3> QED
      BY <3>1, <3>2, <3>3, <3>4
  <2>9. property_set(x, n, v) \in Areas /\ property_set(x, n, v).disk = NewDisk(x, n, v)
    <3>1. PICK m \in Persist, u \in Values, y1 \in Areas : m = n /\ u = v /\ y1 = x
      BY <2>2
    <3>2. property_set(y1, m, u) \in Areas /\ property_set(y1, m, u).disk = NewDisk(y1, m, u)
      BY SetPersist
    <3> QED
      BY <3>1, <3>2
  <2> QED
    BY <2>1, <2>8, <2>9
<1>6. ASSUME NEW F \in SUBSET Files(w) PROVE Reading(w, F) \in H
  <2>1. Reading(w, F) \in Areas /\ Reading(w, F).disk = Marked(w, F)
    BY <1>4, ReadingParts
  <2>2. \A x, y : File(x, y).value = x
    BY DEF File
  <2>3. \A n \in Persist : Marked(w, F)[n].value = st.disk[n].value
    BY <1>4, <2>2 DEF Marked
  <2> QED
    BY <2>1, <2>3 DEF Holds
<1>7. s \in H
  <2> HIDE DEF H
  <2> QED
    BY <1>4, <1>5, <1>6, StoredKeeps DEF w
<1> QED
  BY <1>7

\* So do the commands that load property files.
LEMMA LoadingCommand ==
  ASSUME ListOK, NoStoredDefaults, NEW st \in Areas, NEW c, command(c, st),
         c[1] = "load_persist_props" \/ (c[1] = "property_service_init" /\ ~persistent_properties_loaded)
  PROVE  Holds(st.disk, disk')
<1>1. ASSUME NEW w \in Areas, w.disk = st.disk, LoadsPersistent(w) PROVE Holds(st.disk, disk')
  <2>1. PICK s \in load_persistent_properties(load_override_properties(w)) : Become(s)
    BY <1>1 DEF LoadsPersistent
  <2>2. disk' = s.disk
    BY <2>1 DEF Become
  <2> QED
    BY <1>1, <2>1, <2>2, LoadsDisk
<1>2. CASE c[1] = "load_persist_props"
  BY <1>1, <1>2 DEF command
<1>3. CASE c[1] = "property_service_init" /\ ~persistent_properties_loaded
  <2> DEFINE G == {x \in Areas : x.disk = st.disk}
  <2>1. ASSUME NEW x \in G, NEW p \in Props \X Values PROVE property_set(x, p[1], p[2]) \in G
    <3>1. CASE p[1] \in Persist
      <4>1. NewDisk(x, p[1], p[2]) = st.disk
        BY <1>3 DEF NewDisk, Saves
      <4> QED
        BY <3>1, <4>1, SetPersist
    <3>2. CASE p[1] \notin Persist
      BY <3>2, SetTyped, SetOther
    <3> QED
      BY <3>1, <3>2
  <2>2. load_properties(st, SystemProps) \in G
    <3> HIDE DEF G
    <3>1. st \in G
      BY DEF G
    <3> QED
      BY <2>1, <3>1, ActionsAssumption, LoadKeeps
  <2> QED
    BY <1>1, <1>3, <2>2 DEF command
<1> QED
  BY <1>2, <1>3

\* A step that loads property files leaves the stored ones alone.
LEMMA DiskStep ==
  ASSUME NoStoredDefaults, AInv, [ActionsNext]_actionsVars, DefaultsFirst, Loading
  PROVE  Holds(disk, disk')
<1>0. ListOK /\ QueueSound /\ Area \in Areas /\ Area.disk = disk /\ turn = "cmd" /\ turn' = "poll"
  BY AreaFacts DEF AInv, Loading, Executes
<1>1. CASE execute_one_command
  <2>1. ASSUME NEW st \in Areas, st.disk = disk,
               command(CommandsOf(cur_action')[cur_command'], st)
        PROVE  Holds(disk, disk')
    BY <1>0, <2>1, LoadingCommand DEF Loading, Executes, DefaultsFirst
  <2>2. CASE /\ cur_command' = cur_command + 1 /\ UNCHANGED cur_action
             /\ command(CommandsOf(cur_action)[cur_command + 1], Area)
    BY <1>0, <2>1, <2>2
  <2>3. CASE /\ action_queue # <<>> /\ cur_action' = Head(action_queue) /\ cur_command' = 1
             /\ command(CommandsOf(Head(action_queue))[1], Dequeued)
    BY <1>0, <2>1, <2>3, DequeuedSound DEF Sound
  <2> QED
    BY <1>1, <2>2, <2>3 DEF execute_one_command, Loading, Executes
<1> QED
  BY <1>0, <1>1 DEF ActionsNext, ActionsStep, parse_action, boot_queue, poll,
     handle_property_set_fd, notify_service_state, Mount, StorageChanges, actionsVars

\* "ro.* properties may NEVER be modified once set": no client, command or file
\* of any boot does, however late it comes.
THEOREM RoIsReadOnly == ActionsSpec => RoNeverModified
<1>1. AInv /\ [ActionsNext]_actionsVars =>
        [\A n \in Ro : props[n] # Absent => props'[n] = props[n]]_actionsVars
  BY RoStep
<1> QED
  BY <1>1, AlwaysSound, PTL DEF ActionsSpec, RoNeverModified

\* When no override is for a stored property and the boot queue and the rc files
\* are as init.rc and main() have them, the property files of a boot neither
\* modify a ro.* property nor replace a stored value by a default.
THEOREM BootKeepsProperties == NoStoredDefaults /\ BootOrder /\ ActionsSpec => PropertiesKept
<1> SUFFICES ASSUME NoStoredDefaults, BootOrder PROVE ActionsSpec => PropertiesKept
  OBVIOUS
<1>1. ActionsInit => BInv
  BY InitOrdered
<1>2. AInv /\ BInv /\ [ActionsNext]_actionsVars => BInv' /\ [DefaultsFirst]_actionsVars
  BY NextOrdered
<1>3. AInv /\ [ActionsNext]_actionsVars /\ [DefaultsFirst]_actionsVars =>
        [Loading => \A n \in Persist :
           disk'[n].value = disk[n].value \/ disk'[n].stale]_actionsVars
  BY DiskStep DEF Holds
<1>4. ActionsSpec => StoredNotOverwritten
  BY <1>1, <1>2, <1>3, AlwaysSound, PTL DEF ActionsSpec, StoredNotOverwritten
<1> QED
  BY <1>4, RoIsReadOnly DEF PropertiesKept
=============================================================================
