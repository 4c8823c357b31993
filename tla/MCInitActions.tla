---------------------------- MODULE MCInitActions ----------------------------
(* Instances of InitActions.                                                *)
EXTENDS InitActions

On(t, cmds) == [on |-> t, do |-> cmds]
P(n, v) == <<"property", n, v>>

\* boot queues another event; a service's start sets a property that triggers
\* itself again; vold asks for the stored properties.
MCRc == <<
  On(<<"boot">>, <<<<"setprop", "sys.a", "1">>, <<"trigger", <<"late">>>>>>),
  On(<<"late">>, <<>>),
  On(P("sys.a", "1"), <<<<"setprop", "sys.b", "1">>, <<"other">>>>),
  On(P("sys.b", "1"), <<<<"setprop", "sys.a", "0">>, <<"setprop", "sys.a", "1">>>>),
  On(P("persist.x", "*"), <<<<"setprop", "ro.x", "1">>>>),
  On(P("sys.vold", "1"), <<<<"load_persist_props">>>>)>>
MCBootQueue == <<<<"property_service_init">>, <<"boot">>, <<"queue_property_triggers">>>>
MCSystem == <<<<"persist.x", "0">>, <<"ro.x", "0">>>>
MCLocal == <<<<"persist.x", "0">>>>
MCNone == <<>>
MCClients == {<<"sys.a", "1">>, <<"sys.b", "0">>, <<"persist.x", "1">>,
              <<"ro.x", "1">>, <<"sys.vold", "1">>, <<"net.dns", "1">>}
MCSvc == {<<"sys.b", "1">>}
=============================================================================
