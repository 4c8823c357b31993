----------------------------- MODULE InitActions -----------------------------
(***************************************************************************)
(* The actions and the properties of /init: the rc sections that become    *)
(* struct action, the queue of actions, the execution of their commands    *)
(* one per turn of the main loop, property_set with the actions it         *)
(* triggers, and the persistent properties under /data/property.           *)
(*                                                                         *)
(* What a property_set changes is one record (Area), so that the files     *)
(* that set many properties are folds of property_set.  An action is its   *)
(* place in action_list.  Commands that touch nothing of this are "other". *)
(***************************************************************************)
EXTENDS Integers, Sequences, FiniteSets, Lists

CONSTANTS
  Props, Values,
  Ro, Persist, Net,   \* the properties named ro.*, persist.*, net.*
  RcSections,         \* the `on' sections of the rc files: a sequence
  BootQueue,          \* what main() queues: builtin actions and triggers
  SystemProps,        \* build.prop and default.prop: a sequence of <<name, value>>
  LocalProps,         \* /data/local.prop (on debuggable builds)
  ClientSets,         \* the <<name, value>> clients send
  SvcSets             \* the init.svc.* settings of notify_service_state

Absent    == "absent"     \* the property does not exist
Cut       == ""           \* what a write that failed left of a value
NetChange == "net.change"
\* An action is [on |-> trigger, do |-> commands].  A trigger is <<event>> or
\* <<"property", name, value or "*">>.
Builtin(e) == [on |-> e, do |-> <<e>>]
Builtins   == {<<"property_service_init">>, <<"queue_property_triggers">>}
MaxActions == Len(RcSections) + Len(BootQueue)   \* at most
Ids == 1..MaxActions
\* The arguments of a setprop are a property and a value.
IsCommand(c) == c[1] = "setprop" => c[2] \in Props /\ c[3] \in Values

ASSUME ActionsAssumption ==
  /\ Ro \subseteq Props /\ Persist \subseteq Props /\ Net \subseteq Props
  /\ NetChange \in Net
  /\ Persist \cap (Ro \cup Net) = {} /\ Ro \cap Net = {}   \* different prefixes
  /\ IsFiniteSet(Persist) /\ Absent \notin Values \cup Net /\ Cut \in Values
  /\ RcSections \in Seq(Elements(RcSections))
  /\ BootQueue \in Seq(Elements(BootQueue))
  /\ \A i \in DOMAIN RcSections :
       LET on == RcSections[i].on do == RcSections[i].do
       IN  /\ on[1] = "property" => on[2] \in Props
           /\ do \in Seq(Elements(do)) /\ \A j \in DOMAIN do : IsCommand(do[j])
  /\ SystemProps \in Seq(Props \X Values) /\ LocalProps \in Seq(Props \X Values)
  /\ ClientSets \subseteq Props \X Values /\ SvcSets \subseteq Props \X Values

VARIABLES
  rc, boot,                 \* sections still to parse, boot actions to queue
  action_list, action_queue,
  cur_action, cur_command,  \* 0 is NULL
  turn,                     \* "cmd", or "poll"
  props,                    \* the property area
  disk,                     \* the files of /data/property: what each holds, and
                            \* (history) whether its last write failed or its
                            \* last load skipped it
  mounted,                  \* is /data mounted?
  storage,                  \* what becomes of the next write of each file
  property_triggers_enabled, persistent_properties_loaded,
  property_set_fd,          \* is the property socket open?
  synced,                   \* history: the files were loaded from /data
  ran                       \* history: did the action run since its trigger?

parsevars == <<rc, boot, action_list>>
areavars  == <<props, disk, action_queue, ran>>
flagvars  == <<property_triggers_enabled, persistent_properties_loaded,
               property_set_fd, synced>>
storevars == <<mounted, storage>>
actionsVars == <<parsevars, areavars, flagvars, cur_action, cur_command, turn, storevars>>

Area == [props |-> props, disk |-> disk, queue |-> action_queue, ran |-> ran]
Become(st) == \E s \in {st} : /\ props' = s.props /\ disk' = s.disk
                             /\ action_queue' = s.queue /\ ran' = s.ran

File(v, stale) == [value |-> v, stale |-> stale]
Writes == {"ok", "refuses", "cuts"}

ActionsInit ==
  /\ rc = RcSections /\ boot = BootQueue /\ action_list = <<>>
  /\ action_queue = <<>> /\ cur_action = 0 /\ cur_command = 0 /\ turn = "cmd"
  /\ props = [n \in Props |-> Absent]
  /\ disk \in [Persist -> {File(v, FALSE) : v \in Values \cup {Absent}}]
  /\ mounted \in BOOLEAN /\ storage = [n \in Persist |-> "ok"]
  /\ property_triggers_enabled = FALSE /\ persistent_properties_loaded = FALSE
  /\ property_set_fd = FALSE /\ synced = FALSE
  /\ ran = [a \in Ids |-> FALSE]

-----------------------------------------------------------------------------
(* Queueing *)

InList == [i \in DOMAIN action_list |-> i]
\* action_add_queue_tail for the actions of S, in the order of action_list: an
\* action that is on the queue stays where it is.
\* Mutant: it is not queued while it is being executed.
action_add_queue_tail_NotCurrent(queue, S) ==
  queue \o Kept(InList, S \ (Elements(queue) \cup {cur_action}))
action_add_queue_tail(queue, S) ==
  queue \o Kept(InList, S \ Elements(queue))

\* action_for_each_trigger(trigger, action_add_queue_tail)
action_for_each_trigger(st, t) ==
  [st EXCEPT !.queue = action_add_queue_tail(@,
                 {a \in DOMAIN action_list : action_list[a].on = t})]

PropertyActions == {a \in DOMAIN action_list : action_list[a].on[1] = "property"}
Matches(a, n, v) == action_list[a].on[2] = n /\ action_list[a].on[3] \in {v, "*"}
\* queue_all_property_triggers: property_get of a property that does not
\* exist returns the empty string.
property_get(st, n) == IF st.props[n] = Absent THEN "" ELSE st.props[n]
queue_all_property_triggers(st) ==
  [st EXCEPT !.queue = action_add_queue_tail(@,
     {a \in PropertyActions :
        Matches(a, action_list[a].on[2], property_get(st, action_list[a].on[2]))})]

\* property_changed and queue_property_triggers.  `ran' starts afresh for the
\* actions this setting is the trigger of.
property_changed(st, n, v) ==
  LET S == {a \in PropertyActions : Matches(a, n, v)}
  IN  [st EXCEPT
        !.queue = IF property_triggers_enabled THEN action_add_queue_tail(@, S) ELSE @,
        !.ran = [a \in Ids |-> @[a] /\ a \notin S]]

-----------------------------------------------------------------------------
(* The property service *)

\* write_persistent_property: mkstemp or rename may fail (without /data there is
\* nowhere to write), and the old file remains; or the write, whose result is
\* ignored, and a piece of the value replaces it.
Written(file, n, v) ==
  IF ~mounted \/ storage[n] = "refuses" THEN File(file.value, TRUE)
  ELSE IF storage[n] = "cuts" THEN File(Cut, TRUE) ELSE File(v, FALSE)
write_persistent_property(st, n, v) ==
  [st EXCEPT !.disk[n] = Written(st.disk[n], n, v)]

\* The early return for ro.*, and the condition for saving persist.*.
\* Mutants: only a new property is saved; defaults are saved as well.
ReadOnly(st, n) == n \in Ro /\ st.props[n] # Absent
Saves_New(st, n) ==
  persistent_properties_loaded /\ n \in Persist /\ st.props[n] = Absent
Saves_Always(st, n) == n \in Persist
Saves(st, n) == persistent_properties_loaded /\ n \in Persist

\* A net.* property is recorded in net.change, which itself returns early.
property_set(st, n, v) ==
  LET set   == [st EXCEPT !.props[n] = v]
      noted == [set EXCEPT !.props[NetChange] = n]
      saved == IF Saves(st, n) THEN write_persistent_property(set, n, v) ELSE set
  IN  IF ReadOnly(st, n) THEN st
      ELSE IF n = NetChange THEN set
      ELSE property_changed(IF n \in Net THEN noted ELSE saved, n, v)

\* load_properties
load_properties(st, file) ==
  LET after[i \in 0..Len(file)] ==
        IF i = 0 THEN st ELSE property_set(after[i - 1], file[i][1], file[i][2])
  IN  after[Len(file)]
load_override_properties(st) ==
  IF mounted THEN load_properties(st, LocalProps) ELSE st
\* load_persistent_properties reads the files in some order, and skips those it
\* cannot open or read, and those that are not regular or not secure.
Orders(S) == {o \in [1..Cardinality(S) -> S] : Distinct(o)}
Files(st) == IF mounted THEN {n \in Persist : st.disk[n].value # Absent} ELSE {}
Reading(st, S) ==
  [st EXCEPT !.disk = [n \in Persist |->
     IF n \in Files(st) THEN File(@[n].value, n \notin S) ELSE @[n]]]
load_persistent_properties(st) ==
  UNION {{load_properties(Reading(st, S),
                          [i \in DOMAIN o |-> <<o[i], st.disk[o[i]].value>>]) :
            o \in Orders(S)} : S \in SUBSET Files(st)}

-----------------------------------------------------------------------------
(* The commands: each is given the state and makes it the next one *)

LoadsPersistent(st) ==
  /\ \E s \in load_persistent_properties(load_override_properties(st)) : Become(s)
  /\ persistent_properties_loaded' = TRUE
  /\ synced' = (synced \/ mounted)
  /\ UNCHANGED property_triggers_enabled

\* do_setprop, do_trigger, do_load_persist_props, and the builtin actions
command(c, st) ==
  \/ c[1] = "setprop" /\ Become(property_set(st, c[2], c[3])) /\ UNCHANGED flagvars
  \/ c[1] = "trigger" /\ Become(action_for_each_trigger(st, c[2])) /\ UNCHANGED flagvars
  \/ c[1] = "other" /\ Become(st) /\ UNCHANGED flagvars
  \/ c[1] = "load_persist_props" /\ LoadsPersistent(st) /\ UNCHANGED property_set_fd
  \/ /\ c[1] = "property_service_init"       \* start_property_service
     /\ LoadsPersistent(load_properties(st, SystemProps)) /\ property_set_fd' = TRUE
  \/ /\ c[1] = "queue_property_triggers"
     /\ Become(queue_all_property_triggers(st))
     /\ property_triggers_enabled' = TRUE
     /\ UNCHANGED <<persistent_properties_loaded, property_set_fd, synced>>

-----------------------------------------------------------------------------
(* main(): parsing, queueing the boot actions, and the loop *)

\* parse_action: every `on' section is a new action.
parse_action ==
  /\ rc # <<>> /\ rc' = Tail(rc)
  /\ action_list' = Append(action_list, Head(rc))
  /\ UNCHANGED <<boot, areavars, flagvars, cur_action, cur_command, turn, storevars>>

\* queue_builtin_action, or action_for_each_trigger
boot_queue ==
  /\ rc = <<>> /\ boot # <<>> /\ boot' = Tail(boot)
  /\ IF Head(boot) \in Builtins
       THEN /\ action_list' = Append(action_list, Builtin(Head(boot)))
            /\ action_queue' = Append(action_queue, Len(action_list) + 1)
            /\ UNCHANGED <<props, disk, ran>>
       ELSE Become(action_for_each_trigger(Area, Head(boot))) /\ UNCHANGED action_list
  /\ UNCHANGED <<rc, flagvars, cur_action, cur_command, turn, storevars>>

CommandsOf(a) == action_list[a].do
\* is_last_command, or there is no current command at all
Done == cur_action # 0 => cur_command \in {0, Len(CommandsOf(cur_action))}
Dequeued == [Area EXCEPT !.queue = Tail(@), !.ran[Head(action_queue)] = TRUE]
execute_one_command ==
  /\ rc = <<>> /\ boot = <<>> /\ turn = "cmd" /\ turn' = "poll"
  /\ \/ /\ ~Done
        /\ cur_command' = cur_command + 1 /\ UNCHANGED cur_action
        /\ command(CommandsOf(cur_action)[cur_command + 1], Area)
     \/ /\ Done /\ action_queue # <<>>
        /\ cur_action' = Head(action_queue)
        /\ IF CommandsOf(Head(action_queue)) = <<>>
             THEN cur_command' = 0 /\ Become(Dequeued) /\ UNCHANGED flagvars
             ELSE cur_command' = 1 /\ command(CommandsOf(Head(action_queue))[1], Dequeued)
     \/ /\ Done /\ action_queue = <<>>
        /\ cur_action' = 0 /\ cur_command' = 0 /\ UNCHANGED <<areavars, flagvars>>
  /\ UNCHANGED <<parsevars, storevars>>

\* The timeout of poll() is 0 while there is something to execute.
\* Mutant: only while an action is on the queue.
Busy_QueueOnly == action_queue # <<>>
Busy == action_queue # <<>> \/ cur_action # 0
poll ==
  /\ turn = "poll" /\ Busy /\ turn' = "cmd"
  /\ UNCHANGED <<parsevars, areavars, flagvars, cur_action, cur_command, storevars>>
\* handle_property_set_fd, for a message that passes check_perms
handle_property_set_fd ==
  /\ turn = "poll" /\ property_set_fd /\ turn' = "cmd"
  /\ \E p \in ClientSets : Become(property_set(Area, p[1], p[2]))
  /\ UNCHANGED <<parsevars, flagvars, cur_action, cur_command, storevars>>
\* restart_processes or handle_signal report the state of a service.
notify_service_state ==
  /\ turn = "poll"
  /\ \E p \in SvcSets : Become(property_set(Area, p[1], p[2]))
  /\ UNCHANGED <<parsevars, flagvars, cur_action, cur_command, turn, storevars>>
\* vold mounts the decrypted /data.
Mount ==
  /\ ~mounted /\ mounted' = TRUE
  /\ UNCHANGED <<parsevars, areavars, flagvars, cur_action, cur_command, turn, storage>>
\* /data fills up, fails, or recovers.
StorageChanges ==
  /\ \E n \in Persist, w \in Writes : storage' = [storage EXCEPT ![n] = w]
  /\ UNCHANGED <<parsevars, areavars, flagvars, cur_action, cur_command, turn, mounted>>

ActionsStep == parse_action \/ boot_queue \/ execute_one_command \/ poll
ActionsNext == ActionsStep \/ handle_property_set_fd \/ notify_service_state \/ Mount
                 \/ StorageChanges

ActionsSpec == ActionsInit /\ [][ActionsNext]_actionsVars
\* init is scheduled; clients and vold do what they like.
FairActionsSpec == ActionsSpec /\ WF_actionsVars(ActionsStep)

-----------------------------------------------------------------------------
(* Properties *)

\* The types of the state.  An action has one qlist node: it is on the queue at
\* most once.
ActionsTypeOK ==
  /\ DOMAIN action_list \subseteq Ids
  /\ action_queue \in Seq(DOMAIN action_list) /\ Distinct(action_queue)
  /\ cur_action \in {0} \cup DOMAIN action_list
  /\ cur_command \in IF cur_action = 0 THEN {0} ELSE 0..Len(CommandsOf(cur_action))
  /\ turn \in {"cmd", "poll"}
  /\ props \in [Props -> Values \cup Net \cup {Absent}]
  /\ disk \in [Persist -> [value : Values \cup {Absent}, stale : BOOLEAN]]
  /\ ran \in [Ids -> BOOLEAN]

\* Once the triggers are enabled, an action whose property has its value has
\* run since it was set, or will: no setting is lost, neither the ones before
\* queue_property_triggers nor one made while the action itself is executed.
\* property_set returns early for net.change, which therefore triggers nothing.
NoMissedTrigger ==
  property_triggers_enabled =>
    \A a \in PropertyActions :
      LET n == action_list[a].on[2]
      IN  n # NetChange /\ props[n] # Absent /\ Matches(a, n, props[n]) =>
            ran[a] \/ a \in Elements(action_queue)

\* The queue as a whole: an action is on it at most once (list_empty in
\* action_add_queue_tail), and nevertheless no setting of a property is lost.
QueueInv == ActionsTypeOK /\ NoMissedTrigger

\* Once /data was read, a stored value is the value of the property, whatever
\* clients set since, so that it comes back at the next boot: except where the
\* last write of it failed, or the last load skipped it.
PersistAgrees ==
  synced => \A n \in Persist :
    disk[n].value # Absent /\ ~disk[n].stale => props[n] = disk[n].value

\* A step that executes one of these commands.
Executes(names) ==
  /\ turn = "cmd" /\ turn' = "poll" /\ cur_action' # 0 /\ cur_command' # 0
  /\ CommandsOf(cur_action')[cur_command'][1] \in names

\* "Don't write properties to disk until after we have read all default
\* properties to prevent them from being overwritten by default values": the
\* steps that load property files leave the stored ones as they are (once
\* properties are saved, loading a file writes it again, and that may fail).
Loading == Executes({"property_service_init", "load_persist_props"})
StoredNotOverwritten ==
  [][Loading => \A n \in Persist :
       disk'[n].value = disk[n].value \/ disk'[n].stale]_actionsVars

\* "ro.* properties may NEVER be modified once set": by no client, command or
\* file, however late it is loaded.
RoNeverModified ==
  [][\A n \in Ro : props[n] # Absent => props'[n] = props[n]]_actionsVars

\* What boot files may never do, whenever /data is mounted: change a ro.*
\* property that is set, or replace a stored value by a default.
PropertiesKept == StoredNotOverwritten /\ RoNeverModified

\* A queued action is executed to its last command: actions that queue each
\* other, or themselves, and clients that trigger others do not starve it.
AllRun ==
  \A a \in Ids :
    a \in Elements(action_queue) ~>
      cur_action = a /\ cur_command = Len(CommandsOf(a))
=============================================================================
