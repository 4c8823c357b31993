----------------------------- MODULE InitService -----------------------------
(***************************************************************************)
(* The service supervision of /init: the flags of every `struct service',  *)
(* the main loop that executes commands, restarts services, polls and      *)
(* dispatches events, and the reaping of children after SIGCHLD.           *)
(*                                                                         *)
(* init has one thread.  What runs concurrently with it are the children   *)
(* (they come up, exit, are killed), the clients of the property socket,   *)
(* and the clock.  A function of init that no child, client or tick can    *)
(* disturb is one step.  Points in time are kept as ages: the seconds      *)
(* since then, saturating where the code stops telling them apart.         *)
(***************************************************************************)
EXTENDS Integers, Sequences, FiniteSets

CONSTANTS
  Services,
  Oneshot, Critical, RcDisabled, Keychord,   \* options in the rc files: sets
  Forking,          \* the services whose process starts others: a set
  ClassOf,          \* the class of each service
  OnRestart,        \* the onrestart commands of each service: a sequence
  Adbd,             \* the service whose state enables keychords
  BootCommands,     \* the commands queued at boot: a sequence
  TriggerCommands,  \* commands a property trigger may queue later: a set
  StartOutcomes,    \* subset of {"forked", "disabled", "failed"}
  RestartDelay, CrashWindow, CrashThreshold,   \* 5 s, 240 s and 4 in the code
  MaxQueue          \* bound on commands queued by property triggers

\* Commands are <<op, service>>, <<op, class>>, or <<builtin action>>.
SvcOps   == {"start", "start_args", "stop", "restart"}
ClassOps == {"class_start", "class_stop", "class_reset"}
Classes  == {ClassOf[s] : s \in Services}
Commands == (SvcOps \X Services) \cup (ClassOps \X Classes)
              \cup {<<"property_service_init">>, <<"signal_init">>}
Ctl      == SvcOps \X Services       \* what a ctl.* message can ask for

ASSUME ServiceAssumption ==
  /\ Oneshot \subseteq Services /\ Critical \subseteq Services
  /\ RcDisabled \subseteq Services /\ Keychord \subseteq Services
  /\ Forking \subseteq Services
  /\ OnRestart \in [Services -> Seq(SvcOps \X Services)]
  /\ Adbd \in Services
  /\ BootCommands \in Seq(Commands) /\ TriggerCommands \subseteq Commands
  /\ StartOutcomes \subseteq {"forked", "disabled", "failed"}
  /\ RestartDelay \in Nat /\ CrashWindow \in Nat /\ CrashThreshold \in Nat \ {0}
  /\ MaxQueue \in Nat

VARIABLES
  flags,         \* the dynamic SVC_ flags; SVC_RUNNING stands for pid # 0 too
  started,       \* age of time_started
  crashed, nr_crashed,
  svcprop,       \* the property init.svc.<name>
  proc,          \* the child: "none", "forked" (before its setpgid), "up",
                 \* "killed" (SIGKILL on its way), "zombie"
  orphans,       \* the other processes of its groups: "alive" ones, and "doomed"
                 \* ones, which were sent SIGKILL and are not dead yet
  propfd, sigfd, \* property_service_init, signal_init were executed
  sigbyte,       \* a byte waits in signal_recv_fd
  loop, back,    \* where the main loop is, and where handle_signal returns to
  ready,         \* descriptors the last poll found readable, not yet handled
  queue,         \* the commands still to be executed
  todo, reaped,  \* onrestart commands left, and the service they belong to
  needs_restart, \* process_needs_restart - now, or Never
  uptime,        \* now
  recovery,      \* rebooted into recovery
  exits          \* history: ages of the last counted exits of each service

svcvars  == <<flags, started, svcprop, proc, orphans>>
crashvars == <<crashed, nr_crashed, exits>>
sigvars  == <<propfd, sigfd, sigbyte>>
loopvars == <<loop, back, ready, queue, todo, reaped, needs_restart>>
vars == <<svcvars, crashvars, sigvars, loopvars, uptime, recovery>>

SVC   == {"DISABLED", "RUNNING", "RESTARTING", "RESET", "RESTART"}
Procs == {"none", "forked", "up", "killed", "zombie"}
Loops == {"cmd", "restart", "poll", "key", "prop", "sig", "reap", "onrestart"}
Never == -1

SatOne(a, cap) == IF a < cap THEN a + 1 ELSE cap
MaxAge == IF RestartDelay > CrashWindow THEN RestartDelay ELSE CrashWindow + 1
\* The age of the time 0 in a field that distinguishes ages up to cap.
Boot(cap) == IF uptime < cap THEN uptime ELSE cap

Running(s) == "RUNNING" \in flags[s]

Init ==
  /\ flags = [s \in Services |-> IF s \in RcDisabled THEN {"DISABLED"} ELSE {}]
  /\ uptime \in 0..MaxAge
  /\ started = [s \in Services |-> Boot(RestartDelay)]
  /\ crashed = [s \in Services |-> Boot(CrashWindow + 1)]
  /\ nr_crashed = [s \in Services |-> 0]
  /\ svcprop = [s \in Services |-> "unset"]
  /\ proc = [s \in Services |-> "none"]
  /\ orphans = [s \in Services |-> {}]
  /\ propfd = FALSE /\ sigfd = FALSE /\ sigbyte = FALSE
  /\ loop = "cmd" /\ back = "cmd" /\ ready = {}
  /\ queue = BootCommands /\ todo = <<>> /\ reaped = {}
  /\ needs_restart = Never /\ recovery = FALSE
  /\ exits = [s \in Services |-> <<>>]

-----------------------------------------------------------------------------
(* service_start and service_stop_or_reset, for all services of S *)

\* The fork succeeds, a check disables the service (no console, no binary,
\* arguments for a service that is not oneshot), or SELinux or fork fails.
service_start(S, o) ==
  LET idle == {s \in S : ~Running(s)}
      up   == {s \in idle : o[s] = "forked"}
      off  == {s \in idle : o[s] = "disabled"}
  IN  /\ flags' = [s \in Services |->
           IF s \notin S THEN flags[s]
           ELSE (flags[s] \ {"DISABLED", "RESTARTING", "RESET", "RESTART"})
                  \cup {f \in {"RUNNING"} : s \in up}
                  \cup {f \in {"DISABLED"} : s \in off}]
      /\ started' = [s \in Services |-> IF s \in up THEN 0
                       ELSE IF s \in S THEN Boot(RestartDelay) ELSE started[s]]
      /\ proc' = [s \in Services |-> IF s \in up THEN "forked" ELSE proc[s]]
      /\ svcprop' = [s \in Services |-> IF s \in up THEN "running" ELSE svcprop[s]]
      /\ UNCHANGED orphans
start(S) == \E o \in [S -> StartOutcomes] : service_start(S, o)

\* kill(-pid, SIGKILL) reaches the process group, and does not wait until it is
\* dead; a child that has not called setpgid yet is not in it.
Doomed(left) == {"doomed" : o \in left}
service_stop_or_reset(S, how) ==
  LET hit == {s \in S : Running(s)}
  IN  /\ flags' = [s \in Services |->
           IF s \notin S THEN flags[s]
           ELSE (flags[s] \ {"RESTARTING"}) \cup
                {IF how = "RESET" /\ s \in RcDisabled THEN "DISABLED" ELSE how}]
      /\ proc' = [s \in Services |->
           IF s \in hit /\ proc[s] = "up" THEN "killed" ELSE proc[s]]
      /\ orphans' = [s \in Services |->
           IF s \in hit THEN Doomed(orphans[s]) ELSE orphans[s]]
      /\ svcprop' = [s \in Services |-> IF s \in hit THEN "stopping"
                       ELSE IF s \in S THEN "stopped" ELSE svcprop[s]]
      /\ UNCHANGED started

service_restart(s) ==
  \/ Running(s) /\ service_stop_or_reset({s}, "RESTART")
  \/ ~Running(s) /\ "RESTARTING" \notin flags[s] /\ start({s})
  \/ ~Running(s) /\ "RESTARTING" \in flags[s] /\ UNCHANGED svcvars

service_for_each_class(c) == {s \in Services : ClassOf[s] = c}

\* msg_start, msg_stop, msg_restart; do_start, do_stop, do_restart;
\* do_class_start, do_class_stop, do_class_reset
svc_command(c) ==
  \/ c[1] = "start" /\ start({c[2]})
  \/ c[1] = "start_args" /\ IF c[2] \in Oneshot THEN start({c[2]})
       ELSE service_start({c[2]}, [s \in {c[2]} |-> "disabled"])
  \/ c[1] = "stop" /\ service_stop_or_reset({c[2]}, "DISABLED")
  \/ c[1] = "restart" /\ service_restart(c[2])
\* Mutant: class_start starts the disabled services too.
class_command_StartsAll(c) ==
  LET S == service_for_each_class(c[2])
  IN  \/ c[1] = "class_start" /\ start(S)
      \/ c[1] = "class_stop" /\ service_stop_or_reset(S, "DISABLED")
      \/ c[1] = "class_reset" /\ service_stop_or_reset(S, "RESET")
class_command(c) ==
  LET S == service_for_each_class(c[2])
  IN  \/ c[1] = "class_start" /\ start({s \in S : "DISABLED" \notin flags[s]})
      \/ c[1] = "class_stop" /\ service_stop_or_reset(S, "DISABLED")
      \/ c[1] = "class_reset" /\ service_stop_or_reset(S, "RESET")

-----------------------------------------------------------------------------
(* The main loop *)

Goto(l) == loop' = l /\ UNCHANGED <<back, ready, todo, reaped>>

\* signal_init installs the handler, opens the socket and ends with a
\* handle_signal() of its own.
signal_init ==
  /\ sigfd' = TRUE /\ loop' = "reap" /\ back' = "restart"
  /\ UNCHANGED <<propfd, sigbyte, ready, todo, reaped>>
\* execute_one_command, as far as it concerns services
execute_service_command ==
  /\ loop = "cmd" /\ ~recovery
  /\ \/ queue = <<>> /\ Goto("restart") /\ UNCHANGED <<svcvars, sigvars, queue>>
     \/ /\ queue # <<>> /\ queue' = Tail(queue)
        /\ \/ /\ Head(queue)[1] \in SvcOps \cup ClassOps
              /\ svc_command(Head(queue)) \/ class_command(Head(queue))
              /\ Goto("restart") /\ UNCHANGED sigvars
           \/ /\ Head(queue)[1] = "property_service_init"
              /\ propfd' = TRUE /\ Goto("restart")
              /\ UNCHANGED <<svcvars, sigfd, sigbyte>>
           \/ /\ Head(queue)[1] = "signal_init"
              /\ signal_init /\ UNCHANGED svcvars
  /\ UNCHANGED <<crashvars, needs_restart, uptime, recovery>>

\* process_needs_restart: the earliest of the times left.
\* Mutant: the test for 0, "none so far", is missing: `<' never holds.
NextDue_NoZeroTest(left) == Never
NextDue(left) == IF left = {} THEN Never
                 ELSE CHOOSE d \in left : \A e \in left : d <= e
\* restart_processes: start what has waited long enough, and find out when the
\* next one is due.
restart_processes ==
  LET waiting == {s \in Services : "RESTARTING" \in flags[s]}
      due     == {s \in waiting : started[s] >= RestartDelay}
      left    == {RestartDelay - started[s] : s \in waiting \ due}
  IN  /\ loop = "restart" /\ ~recovery
      /\ start(due)
      /\ needs_restart' = NextDue(left)
      /\ Goto("poll")
      /\ UNCHANGED <<crashvars, sigvars, queue, uptime, recovery>>

\* poll() returns: a descriptor is readable, or the timeout is over.  Clients
\* and key presses are up to the environment.
SigReady == {f \in {"sig"} : sigfd /\ sigbyte}
\* The main loop handles the readable descriptors in the order of ufds.
Dispatch(r) == /\ ready' = r
               /\ loop' = IF "key" \in r THEN "key" ELSE IF "prop" \in r THEN "prop"
                          ELSE IF "sig" \in r THEN "sig" ELSE "cmd"
poll_fds(r) ==
  /\ loop = "poll" /\ ~recovery
  /\ Dispatch(r)
  /\ UNCHANGED <<svcvars, crashvars, sigvars, back, queue, todo, reaped,
                 needs_restart, uptime, recovery>>
poll_wakes ==
  /\ SigReady # {} \/ needs_restart = 0 \/ queue # <<>>
  /\ poll_fds(SigReady)
poll_client ==
  \E r \in (SUBSET {"key", "prop"}) \ {{}} :
    ("prop" \in r => propfd) /\ poll_fds(r \cup SigReady)

\* handle_keychord
handle_keychord ==
  /\ loop = "key" /\ ~recovery
  /\ \/ svcprop[Adbd] = "running" /\ \E s \in Keychord : start({s})
     \/ UNCHANGED svcvars     \* adb is off, or no such keychord
  /\ Dispatch(ready \ {"key"})
  /\ UNCHANGED <<crashvars, sigvars, back, queue, todo, reaped, needs_restart,
                 uptime, recovery>>
\* handle_property_set_fd: a ctl.* message, a property that triggers an action,
\* or a refused or irrelevant message.
handle_control_fd ==
  /\ loop = "prop" /\ ~recovery
  /\ \/ (\E c \in Ctl : svc_command(c)) /\ UNCHANGED queue
     \/ /\ Len(queue) < MaxQueue
        /\ \E c \in TriggerCommands : queue' = Append(queue, c)
        /\ UNCHANGED svcvars
     \/ UNCHANGED <<svcvars, queue>>
  /\ Dispatch(ready \ {"prop"})
  /\ UNCHANGED <<crashvars, sigvars, back, todo, reaped, needs_restart, uptime,
                 recovery>>
\* handle_signal, up to the read() that empties the socket
handle_signal ==
  /\ loop = "sig" /\ ~recovery
  /\ sigbyte' = FALSE
  /\ loop' = "reap" /\ ready' = ready \ {"sig"}
  /\ UNCHANGED <<svcvars, crashvars, propfd, sigfd, back, queue, todo, reaped,
                 needs_restart, uptime, recovery>>

-----------------------------------------------------------------------------
(* wait_for_one_process *)

\* The flags after the exit of s: oneshot services go into the disabled state,
\* except when manually restarted.
\* Mutant: SVC_RUNNING is not cleared.
ExitFlags_StillRunning(s) ==
  flags[s] \cup {f \in {"DISABLED"} : s \in Oneshot /\ "RESTART" \notin flags[s]}
ExitFlags(s) ==
  (flags[s] \ {"RUNNING"}) \cup
    {f \in {"DISABLED"} : s \in Oneshot /\ "RESTART" \notin flags[s]}
\* Is this exit counted against a critical service?
Counted(s) == s \in Critical /\ "RESTART" \notin flags[s]
\* Mutant: the window is not looked at.
InWindow_NoWindow(s) == TRUE
InWindow(s) == crashed[s] <= CrashWindow
Reboots(s) == Counted(s) /\ InWindow(s) /\ nr_crashed[s] + 1 > CrashThreshold
\* Does init kill what is left of the process group of s?
KillsGroup(s) == s \notin Oneshot \/ "RESTART" \in flags[s]
LastExits(q) == IF Len(q) > CrashThreshold + 1 THEN Tail(q) ELSE q

\* waitpid returns the child of s
wait_for_one_process(s) ==
  /\ loop = "reap" /\ ~recovery /\ proc[s] = "zombie"
  /\ proc' = [proc EXCEPT ![s] = "none"]
  /\ orphans' = [orphans EXCEPT ![s] = IF KillsGroup(s) THEN Doomed(@) ELSE @]
  /\ IF ExitFlags(s) \cap {"DISABLED", "RESET"} # {}
       THEN /\ flags' = [flags EXCEPT ![s] = ExitFlags(s)]
            /\ svcprop' = [svcprop EXCEPT ![s] = "stopped"]
            /\ UNCHANGED <<crashvars, loop, todo, reaped, recovery>>
       ELSE /\ exits' = [exits EXCEPT ![s] =
                 IF Counted(s) THEN LastExits(Append(@, 0)) ELSE @]
            /\ nr_crashed' = [nr_crashed EXCEPT ![s] =
                 IF Counted(s) THEN IF InWindow(s) THEN @ + 1 ELSE 1 ELSE @]
            /\ crashed' = [crashed EXCEPT ![s] =
                 IF Counted(s) /\ ~InWindow(s) THEN 0 ELSE @]
            /\ recovery' = Reboots(s)
            /\ flags' = [flags EXCEPT ![s] = IF Reboots(s) THEN ExitFlags(s)
                 ELSE (ExitFlags(s) \ {"RESTART"}) \cup {"RESTARTING"}]
            /\ loop' = "onrestart" /\ todo' = OnRestart[s] /\ reaped' = {s}
            /\ UNCHANGED svcprop
  /\ UNCHANGED <<started, sigvars, back, ready, queue, needs_restart, uptime>>
\* its onrestart commands, and the notification at the end
\* Mutant: nobody is notified.
onrestart_Silent ==
  /\ loop = "onrestart" /\ ~recovery
  /\ IF todo # <<>>
       THEN /\ svc_command(Head(todo)) /\ todo' = Tail(todo)
            /\ UNCHANGED <<loop, reaped>>
       ELSE loop' = "reap" /\ reaped' = {} /\ UNCHANGED <<svcvars, todo>>
  /\ UNCHANGED <<crashvars, sigvars, back, ready, queue, needs_restart, uptime,
                 recovery>>
onrestart ==
  /\ loop = "onrestart" /\ ~recovery
  /\ IF todo # <<>>
       THEN /\ svc_command(Head(todo)) /\ todo' = Tail(todo)
            /\ UNCHANGED <<loop, reaped>>
       ELSE /\ svcprop' = [s \in Services |->
                             IF s \in reaped THEN "restarting" ELSE svcprop[s]]
            /\ loop' = "reap" /\ reaped' = {}
            /\ UNCHANGED <<flags, started, proc, orphans, todo>>
  /\ UNCHANGED <<crashvars, sigvars, back, ready, queue, needs_restart, uptime,
                 recovery>>
\* waitpid has nothing more
\* Mutant: handle_signal calls wait_for_one_process without the while loop.
reap_done_NoLoop ==
  /\ loop = "reap" /\ ~recovery
  /\ loop' = back /\ back' = "cmd"
  /\ UNCHANGED <<svcvars, crashvars, sigvars, ready, queue, todo, reaped,
                 needs_restart, uptime, recovery>>
reap_done ==
  /\ loop = "reap" /\ ~recovery /\ \A s \in Services : proc[s] # "zombie"
  /\ loop' = back /\ back' = "cmd"
  /\ UNCHANGED <<svcvars, crashvars, sigvars, ready, queue, todo, reaped,
                 needs_restart, uptime, recovery>>

-----------------------------------------------------------------------------
(* The children and the clock *)

Child(s, from, to) ==
  /\ ~recovery
  /\ proc[s] \in from /\ proc' = [proc EXCEPT ![s] = to]
  /\ UNCHANGED <<flags, started, svcprop, crashvars, loopvars, uptime, recovery>>
\* The child of service_start: sockets, setpgid, exec.
child_setpgid(s) == Child(s, {"forked"}, "up") /\ UNCHANGED <<orphans, sigvars>>
child_forks(s) == /\ s \in Forking /\ "alive" \notin orphans[s] /\ Child(s, {"up"}, "up")
                  /\ orphans' = [orphans EXCEPT ![s] = @ \cup {"alive"}]
                  /\ UNCHANGED sigvars
\* The killed ones of a group die some time; they are no children of init.
group_dies(s) == /\ "doomed" \in orphans[s] /\ Child(s, Procs, proc[s])
                 /\ orphans' = [orphans EXCEPT ![s] = @ \ {"doomed"}]
                 /\ UNCHANGED sigvars
\* sigchld_handler writes a byte, once it is installed.
sigchld_handler == sigbyte' = (sigbyte \/ sigfd) /\ UNCHANGED <<propfd, sigfd>>
child_exits(s) ==
  Child(s, {"forked", "up"}, "zombie") /\ UNCHANGED orphans /\ sigchld_handler
child_dies(s) == Child(s, {"killed"}, "zombie") /\ UNCHANGED orphans /\ sigchld_handler

Tick ==
  /\ ~recovery
  /\ uptime' = SatOne(uptime, MaxAge)
  /\ started' = [s \in Services |-> SatOne(started[s], RestartDelay)]
  /\ crashed' = [s \in Services |-> SatOne(crashed[s], CrashWindow + 1)]
  /\ exits' = [s \in Services |-> [i \in DOMAIN exits[s] |->
                                     SatOne(exits[s][i], CrashWindow + 1)]]
  /\ needs_restart' = IF needs_restart > 0 THEN needs_restart - 1 ELSE needs_restart
  /\ UNCHANGED <<flags, svcprop, proc, orphans, nr_crashed, sigvars, loop, back,
                 ready, queue, todo, reaped, recovery>>

InitStep ==
  \/ execute_service_command \/ restart_processes \/ poll_wakes
  \/ handle_keychord \/ handle_control_fd \/ handle_signal
  \/ (\E s \in Services : wait_for_one_process(s)) \/ onrestart \/ reap_done
\* android_reboot() does not return.
Rebooted == recovery /\ UNCHANGED vars
Next ==
  \/ InitStep \/ poll_client \/ Tick \/ Rebooted
  \/ \E s \in Services : child_setpgid(s) \/ child_forks(s) \/ child_exits(s)
                           \/ child_dies(s) \/ group_dies(s)

Spec == Init /\ [][Next]_vars
\* init runs when it can; time passes; a child gets to run until it is set up,
\* and dies when it is killed.
FairSpec == /\ Spec /\ WF_vars(InitStep) /\ WF_vars(Tick)
            /\ \A s \in Services : WF_vars(child_setpgid(s)) /\ WF_vars(child_dies(s))

-----------------------------------------------------------------------------
(* Properties *)

\* The types of the state.
TypeOK ==
  /\ flags \in [Services -> SUBSET SVC]
  /\ started \in [Services -> 0..RestartDelay]
  /\ crashed \in [Services -> 0..CrashWindow + 1]
  /\ nr_crashed \in [Services -> 0..CrashThreshold + 1]
  /\ svcprop \in [Services -> {"unset", "running", "stopping", "stopped", "restarting"}]
  /\ proc \in [Services -> Procs]
  /\ orphans \in [Services -> SUBSET {"alive", "doomed"}]
  /\ propfd \in BOOLEAN /\ sigfd \in BOOLEAN /\ sigbyte \in BOOLEAN
  /\ loop \in Loops /\ back \in {"cmd", "restart"} /\ ready \subseteq {"key", "prop", "sig"}
  /\ queue \in Seq(Commands) /\ todo \in Seq(SvcOps \X Services)
  /\ reaped \in SUBSET Services
  /\ needs_restart \in {Never} \cup 0..RestartDelay
  /\ uptime \in 0..MaxAge /\ recovery \in BOOLEAN

\* A service has a process exactly while it is SVC_RUNNING: service_start never
\* forks a second one, and no exit is missed or charged to another service.
OneProcess == \A s \in Services : Running(s) <=> proc[s] # "none"

\* A service waits to be restarted only when nothing asks for something else:
\* it is not running, stopped, reset, or about to be restarted by hand.
RestartingAlone ==
  \A s \in Services : "RESTARTING" \in flags[s] => flags[s] = {"RESTARTING"}

\* An exited child is never forgotten: a byte in the socket still announces it,
\* or init is at a waitpid loop that will find it (read before waitpid in
\* handle_signal; handle_signal at the end of signal_init).
NoLostChild ==
  \A s \in Services :
    sigfd /\ proc[s] = "zombie" => sigbyte \/ loop \in {"reap", "onrestart"}

\* When a service that is not oneshot runs again, what is left of its previous
\* process groups was sent SIGKILL, also if a stop came before its setpgid (it
\* need not be dead: nothing waits for it).
GroupSignalled ==
  \A s \in Services \ Oneshot :
    proc[s] \in {"none", "forked"} => "alive" \notin orphans[s]

\* When init goes to sleep, process_needs_restart wakes it in time for every
\* service that waits to be restarted.
DeadlineCovers ==
  loop = "poll" =>
    \A s \in Services : "RESTARTING" \in flags[s] =>
      needs_restart # Never /\ needs_restart <= RestartDelay - started[s]

\* init.svc.<name> says whether the service has a process (once the exit of
\* its process is dealt with).
StateReported ==
  \A s \in Services \ reaped :
    Running(s) <=> svcprop[s] \in {"running", "stopping"}

\* init reboots into recovery only if a critical service did exit more than
\* CrashThreshold times within one CrashWindow.
RebootJustified ==
  recovery => \E s \in Critical :
    /\ Len(exits[s]) = CrashThreshold + 1
    /\ \A i \in DOMAIN exits[s] : exits[s][i] <= CrashWindow

\* Supervision as a whole: the state is well formed, a pending restart stands
\* alone (service_stop_or_reset, wait_for_one_process), the poll of main never
\* sleeps past it, four minutes of crashes, no less, lead to recovery, and no
\* process of an earlier group is left unsignalled beside the next one.
SupervisionInv ==
  TypeOK /\ RestartingAlone /\ DeadlineCovers /\ RebootJustified /\ GroupSignalled

\* A disabled or stopped service runs again only by a command that names it (in
\* an action, an onrestart option or a ctl.* message) or by its own keychord:
\* neither its class, nor a restart, nor what another service asks for starts it.
Named(s) == SvcOps \X {s}
DisabledNeedsCommand ==
  [][\A s \in Services :
       "DISABLED" \in flags[s] /\ ~Running(s) /\ Running(s)' =>
         \/ loop = "cmd" /\ Head(queue) \in Named(s)
         \/ loop = "onrestart" /\ Head(todo) \in Named(s)
         \/ loop = "prop" /\ \E c \in Named(s) : svc_command(c)
         \/ loop = "key" /\ s \in Keychord /\ start({s})]_vars

\* A service waiting to be restarted is started, or told something else.
RestartHappens ==
  \A s \in Services :
    "RESTARTING" \in flags[s] ~> "RESTARTING" \notin flags[s] \/ recovery

\* A killed or exited child is reaped.
ChildReaped ==
  \A s \in Services :
    proc[s] \in {"killed", "zombie"} ~> proc[s] \notin {"killed", "zombie"} \/ recovery

\* readme.txt: "critical: ... If it exits more than four times in four minutes,
\* the device will reboot into recovery mode."
CriticalReboots ==
  \A s \in Critical :
    Len(exits[s]) = CrashThreshold + 1
      /\ (\A i \in DOMAIN exits[s] : exits[s][i] <= CrashWindow) => recovery

\* readme.txt: "stop <service>: Stop a service from running if it is currently
\* running."
StopStops ==
  \A s \in Services :
    Running(s) /\ "DISABLED" \in flags[s] ~>
      ~Running(s) \/ "DISABLED" \notin flags[s] \/ recovery

\* readme.txt: "Services are programs which init launches and (optionally)
\* restarts when they exit": without "oneshot" they are not forgotten.
RestartedAfterExit ==
  \A s \in Services :
    "RESTARTING" \in flags[s] ~> recovery \/ flags[s] \cap {"RUNNING", "DISABLED", "RESET"} # {}
=============================================================================
