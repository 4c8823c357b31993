----------------------------- MODULE AdbSockets -----------------------------
(* The sockets of adb and adbd (core/adb: sockets.c, adb.c, transport.c and *)
(* fdevent.c): the two processes at the ends of one connection, each with   *)
(* its fdevent loop, its transport threads and the streams between them.    *)
(* A process may die and come back, and the connection may be lost, at any  *)
(* moment. Authentication is off (auth_enabled = 0).                        *)
EXTENDS Naturals, Sequences, FiniteSets, SequencesExt

CONSTANTS
  HostIds,        \* local socket ids adb uses in its life,
  DeviceIds,      \*   and adbd
  MaxData,        \* packets one program sends on one stream
  MaxSession,     \* restarts of the host process
  MaxLoss,        \* losses of the connection
  ServiceErrors   \* whether a write to a service of the host may fail

ASSUME BoundsAssumption ==
  /\ HostIds \in Nat /\ DeviceIds \in Nat
  /\ MaxData \in Nat /\ MaxSession \in Nat /\ MaxLoss \in Nat
  /\ ServiceErrors \in BOOLEAN

VARIABLES
  sock,      \* the local sockets of each process, by id
  next,      \* local_socket_next_id
  online,    \* atransport.online
  state,     \* atransport.connection_state: offline or connected
  pending,   \* the transport's fdevent is on list_pending
  leaving,   \* the input thread was sent SYNC(0, 0) and has not yet left
  chan,      \* packets on their way to a process
  link,      \* the connection exists
  session,   \* restarts of the host process so far
  losses,    \* losses of the connection so far
  sent, rcvd, fin,  \* what the programs at the ends of the streams see
  freedUse   \* local_socket_event_func went on with a socket that was freed

transportVars == <<online, state, pending, leaving>>
linkVars == <<link, session, losses>>
vars == <<sock, next, transportVars, chan, linkVars, sent, rcvd, fin, freedUse>>

Procs == {"host", "device"}
Other(e) == IF e = "host" THEN "device" ELSE "host"
MaxId(e) == IF e = "host" THEN HostIds ELSE DeviceIds
Ids == (1..HostIds) \cup (1..DeviceIds)

Streams == (0..MaxSession) \X (1..HostIds)
Data == (Streams \X {"near", "far"}) \X (1..MaxData)
Promise == INSTANCE AdbStream WITH Streams <- Streams, Data <- Data,
                                   sent <- sent, rcvd <- rcvd, fin <- fin
Ends == Promise!StreamEnds

(***************************************************************************)
(* Sockets and packets. A socket's peer is another local socket, a remote  *)
(* socket (which has no state but its id), or the smart socket that waits  *)
(* for a client's request. transport: the socket, or the smart socket that *)
(* is its peer, has the connection's transport. want and evs are the       *)
(* events the fdevent asks for and the ones that are pending.              *)
(***************************************************************************)
None == <<"none">>
Smart == <<"smart">>
Remote(i) == <<"remote", i>>
Local(i) == <<"local", i>>
Peers == {None, Smart} \cup {Remote(i) : i \in Ids} \cup {Local(i) : i \in Ids}

NoEnd == <<>>
Sockets == [st : {"none", "live", "closing", "gone"}, peer : Peers,
            transport : BOOLEAN, pkts : Seq(Data), want : SUBSET {"R", "W"},
            evs : SUBSET {"R", "W"}, end : Ends \cup {NoEnd},
            why : Promise!Closed]
NoSocket == [st |-> "none", peer |-> None, transport |-> FALSE, pkts |-> <<>>,
             want |-> {}, evs |-> {}, end |-> NoEnd, why |-> "own"]

Packets ==
  [cmd : {"SYNC", "CNXN"}]
  \cup [cmd : {"OPEN"}, arg0 : Ids, end : Ends]
  \cup [cmd : {"OKAY"}, arg0 : Ids, arg1 : Ids]
  \cup [cmd : {"CLSE"}, arg0 : {0}, arg1 : Ids]
  \cup [cmd : {"WRTE"}, arg0 : Ids, arg1 : Ids, data : Data]

(***************************************************************************)
(* The state a handler works on: the sockets of its process, what the      *)
(* programs saw, and the packets it sent.                                  *)
(***************************************************************************)
World(e) == [sock |-> sock[e], next |-> next[e], sent |-> sent, rcvd |-> rcvd, fin |-> fin,
             out |-> <<>>, freed |-> freedUse]

SendPacket(w, p) == [w EXCEPT !.out = Append(@, p)]

\* An event that is pending and still wanted is dropped, one that is no
\* longer wanted is kept: line 646 masks with the new events.
FdeventSet(s, events) ==
  IF s.want = events THEN s
  ELSE [s EXCEPT !.want = events, !.evs = @ \ events]

\* local_socket_ready
SocketReady(w, i) == [w EXCEPT !.sock[i] = FdeventSet(@, @.want \cup {"R"})]

\* Mutant: there is no closing list; what is not yet written is dropped.
Shut_AtOnce(w, i, why) ==
  [w EXCEPT !.sock[i] = [NoSocket EXCEPT !.st = "gone"],
            !.fin[w.sock[i].end] = why]

\* The second half of local_socket_close_locked, with local_socket_destroy.
Shut(w, i, why) ==
  LET s == w.sock[i]
      destroy == s.st = "closing" \/ s.pkts = <<>>
      closing == FdeventSet(s, s.want \ {"R"})
  IN [w EXCEPT
       !.sock[i] = IF destroy
                   THEN [NoSocket EXCEPT !.st = "gone"]
                   ELSE [closing EXCEPT !.st = "closing", !.peer = None, !.why = why],
       !.fin[s.end] = IF destroy THEN why ELSE "ending"]

\* local_socket_close_locked; the remote peer tells the other side, with its
\* own peer already cleared.
Close(w, i, why) ==
  LET p == w.sock[i].peer
  IN CASE p[1] = "remote" ->
            Shut(SendPacket(w, [cmd |-> "CLSE", arg0 |-> 0, arg1 |-> p[2]]), i, why)
       [] p[1] = "local" ->
            Shut([Shut([w EXCEPT !.sock[p[2]].peer = None], p[2], "peer")
                    EXCEPT !.sock[i].peer = None], i, why)
       [] OTHER -> Shut([w EXCEPT !.sock[i].peer = None], i, why)

\* remote_socket_disconnect and close_all_sockets: several sockets lose the
\* connection. (What they would send goes to the transport that is gone.)
Disconnect(w, lost) ==
  LET destroy(i) == i \in lost /\ (w.sock[i].st = "closing" \/ w.sock[i].pkts = <<>>)
      end(x) == {i \in lost : w.sock[i].end = x}
  IN [w EXCEPT
       !.sock = [i \in Ids |-> IF i \in lost THEN Shut(w, i, "lost").sock[i] ELSE @[i]],
       !.fin = [x \in Ends |-> IF end(x) = {} THEN @[x]
                               ELSE IF \E i \in end(x) : destroy(i) THEN "lost"
                               ELSE "ending"]]

\* What the program at the socket's end gets to see.
Written(w, i, packets) ==
  [w EXCEPT !.rcvd[w.sock[i].end] = @ \o packets]
Taken(w, i) == [w EXCEPT !.sent[w.sock[i].end] = Append(@, <<w.sock[i].end, Len(@) + 1>>)]

\* local_socket_enqueue; res is what the write to the program does. The result
\* is 1 when no more packets should come, and also after an error.
WriteResults == {"ok", "again", "error"}
Enqueue(w, i, d, res) ==
  LET s == w.sock[i]
      queue == [w EXCEPT !.sock[i] =
                  FdeventSet([s EXCEPT !.pkts = Append(@, d)], s.want \cup {"W"})]
  IN IF s.pkts # <<>> THEN [w |-> queue, r |-> 1]
     ELSE CASE res = "ok" -> [w |-> Written(w, i, <<d>>), r |-> 0]
            [] res = "again" -> [w |-> queue, r |-> 1]
            [] res = "error" -> [w |-> Close(w, i, "own"), r |-> 1]

(***************************************************************************)
(* A step of process e: commit what the handler did.                       *)
(***************************************************************************)
Commit(e, w, inbox) ==
  /\ sock' = [sock EXCEPT ![e] = w.sock]
  /\ next' = [next EXCEPT ![e] = w.next]
  /\ sent' = w.sent /\ rcvd' = w.rcvd /\ fin' = w.fin /\ freedUse' = w.freed
  /\ chan' = [chan EXCEPT ![e] = inbox,
                          ![Other(e)] = IF link THEN @ \o w.out ELSE @]

\* create_local_socket, with its peer; the socket is end x of a stream.
Create(w, x, peer, want, transport) ==
  [w EXCEPT !.sock[w.next] = [NoSocket EXCEPT !.st = "live", !.peer = peer,
                                !.want = want, !.end = x, !.transport = transport],
            !.next = @ + 1,
            !.fin[x] = "open"]
NearEnd == <<<<session, next["host"]>>, "near">>
FarOf(x) == Promise!Opposite(x)

\* connect_to_remote
ConnectToRemote(w, i) ==
  SendPacket(w, [cmd |-> "OPEN", arg0 |-> i, end |-> FarOf(w.sock[i].end)])

\* ss_listener_event_func: a client connects to the smart socket.
Accept ==
  /\ next["host"] <= HostIds
  /\ Commit("host", Create(World("host"), NearEnd, Smart, {"R"}, FALSE), chan["host"])
  /\ UNCHANGED <<transportVars, linkVars>>

\* listener_event_func: a client connects to a forwarded port. The listener
\* is there while its transport is online.
Forward ==
  /\ online["host"] /\ next["host"] <= HostIds
  /\ Commit("host",
            ConnectToRemote(Create(World("host"), NearEnd, None, {}, TRUE), next["host"]),
            chan["host"])
  /\ UNCHANGED <<transportVars, linkVars>>

(***************************************************************************)
(* fdevent_loop: fdevent_process puts what is ready on list_pending, then  *)
(* each pending event is handled, in the order of the descriptors.         *)
(***************************************************************************)
Idle(e) == ~pending[e] /\ \A i \in Ids : sock[e][i].evs = {}

Ready(e) == {f \in [Ids -> SUBSET {"R", "W"}] :
               \A i \in Ids : f[i] \subseteq sock[e][i].want}

FdeventProcess(e) ==
  /\ Idle(e)
  /\ \E ready \in Ready(e) :
       /\ chan[e] # <<>> \/ \E i \in Ids : ready[i] # {}
       /\ sock' = [sock EXCEPT ![e] = [i \in Ids |-> [@[i] EXCEPT !.evs = ready[i]]]]
  /\ pending' = [pending EXCEPT ![e] = chan[e] # <<>>]
  /\ UNCHANGED <<next, online, state, leaving, chan, linkVars, sent, rcvd, fin,
                 freedUse>>

\* remote_socket_ready or local_socket_ready of the peer.
PeerReady(w, i) ==
  LET p == w.sock[i].peer
  IN CASE p[1] = "remote" -> SendPacket(w, [cmd |-> "OKAY", arg0 |-> i, arg1 |-> p[2]])
       [] p[1] = "local" -> SocketReady(w, p[2])
       [] OTHER -> w

\* The outcomes of the FDE_WRITE half of local_socket_event_func: everything
\* was written, nothing more can be written, or an error. Unless everything
\* was written and the socket lives on, the handler returns.
WriteHalf(w, i) ==
  LET s == w.sock[i]
      written == [Written(w, i, s.pkts) EXCEPT !.sock[i].pkts = <<>>]
      quiet == [written EXCEPT !.sock[i] = FdeventSet(@, @.want \ {"W"})]
  IN {IF s.st = "closing"
      THEN [w |-> Shut(written, i, s.why), returns |-> TRUE]
      ELSE [w |-> PeerReady(quiet, i), returns |-> FALSE],
      [w |-> w, returns |-> TRUE],
      [w |-> Close(w, i, "own"), returns |-> TRUE]}

\* The end of the FDE_READ half: r = 1 stops reading, and the end of file
\* closes the socket. Both use s, which an error in enqueue has freed.
AfterRead(w, i, r, eof) ==
  LET quiet == IF r = 1 THEN [w EXCEPT !.sock[i] = FdeventSet(@, @.want \ {"R"})]
               ELSE w
  IN IF w.sock[i].st = "gone" THEN [w EXCEPT !.freed = TRUE]
     ELSE IF eof THEN Close(quiet, i, IF w.sock[i].st = "live"
                                         /\ w.sock[i].peer \in {None, Smart}
                                      THEN "quit" ELSE "own")
     ELSE quiet

\* smart_socket_enqueue: wait for the rest of the request; answer or refuse it
\* and close both sockets; `host:transport', which acquires the transport of a
\* device that is not offline and waits for the next request; connect to the
\* device, over the transport acquired before; connect to a service of the host.
SmartEnqueue(e, w, i, eof) ==
  LET acquired == [w EXCEPT !.sock[i].transport = TRUE]
      detached == [w EXCEPT !.sock[i].peer = None, !.sock[i].transport = TRUE]
      served == [w EXCEPT !.sock[i].peer = Local(w.next), !.sock[i].transport = FALSE]
      connected == {state[e]} \cap {"connected"}
  IN {AfterRead(w, i, 0, eof), Close(w, i, "peer")}
     \cup {AfterRead(acquired, i, 0, eof) : c \in connected}
     \cup {AfterRead(ConnectToRemote(detached, i), i, 1, eof) :
             c \in {x \in connected : w.sock[i].transport}}
     \cup {AfterRead(Create(served, FarOf(w.sock[i].end), Local(i), {"R"}, FALSE),
                     i, 0, eof) : n \in {w.next} \cap (1..MaxId(e))}

\* What the peer does with a packet that was read.
PeerEnqueue(e, w, i, eof) ==
  LET s == w.sock[i]
      taken == Taken(w, i)
      d == Last(taken.sent[s.end])
      results == IF ServiceErrors THEN WriteResults ELSE WriteResults \ {"error"}
  IN CASE s.peer[1] = "remote" ->
            {AfterRead(SendPacket(taken, [cmd |-> "WRTE", arg0 |-> i,
                                          arg1 |-> s.peer[2], data |-> d]), i, 1, eof)}
       [] s.peer[1] = "local" ->
            {AfterRead(q.w, i, q.r, eof) :
               q \in {Enqueue(taken, s.peer[2], d, res) : res \in results}}
       [] s.peer = Smart -> SmartEnqueue(e, w, i, eof)
       [] s.peer = None -> {AfterRead(w, i, 0, eof)}

\* The outcomes of the FDE_READ half: a packet, the end of the file, or both.
ReadHalf(e, w, i) ==
  LET s == w.sock[i]
      more == s.peer \in {None, Smart} \/ Len(w.sent[s.end]) < MaxData
  IN {AfterRead(w, i, 0, TRUE)}
     \cup (IF more THEN UNION {PeerEnqueue(e, w, i, eof) : eof \in BOOLEAN} ELSE {})

EventFunc(e, i) ==
  LET events == sock[e][i].evs
      w0 == [World(e) EXCEPT !.sock[i].evs = {}]
      halfway == IF "W" \in events THEN WriteHalf(w0, i)
                 ELSE {[w |-> w0, returns |-> FALSE]}
  IN /\ events # {}
     /\ \E h \in halfway :
          \E w \in IF "R" \in events /\ ~h.returns THEN ReadHalf(e, h.w, i) ELSE {h.w} :
            Commit(e, w, chan[e])
     /\ UNCHANGED <<transportVars, linkVars>>

(***************************************************************************)
(* handle_packet, called with each packet from the transport.              *)
(***************************************************************************)
OverTransport(w) == {i \in Ids : w.sock[i].peer[1] = "remote"}

\* Take the next packet; the handler's result is w.
Handled(e, w) ==
  /\ Commit(e, w, Tail(chan[e]))
  /\ pending' = [pending EXCEPT ![e] = FALSE]

Arrives(e, cmd) == pending[e] /\ Head(chan[e]).cmd = cmd

\* Mutants: the disconnects are not run.
HandleSync_KeepsStreams(e) ==
  /\ Arrives(e, "SYNC")
  /\ Handled(e, World(e))
  /\ online' = [online EXCEPT ![e] = FALSE]
  /\ state' = [state EXCEPT ![e] = "offline"]
  /\ leaving' = [leaving EXCEPT ![e] = TRUE]
  /\ UNCHANGED linkVars
HandleCnxn_KeepsStreams(e) ==
  /\ Arrives(e, "CNXN")
  /\ Handled(e, IF e = "host" THEN World(e) ELSE SendPacket(World(e), [cmd |-> "CNXN"]))
  /\ online' = [online EXCEPT ![e] = TRUE]
  /\ state' = [state EXCEPT ![e] = "connected"]
  /\ UNCHANGED <<leaving, linkVars>>

\* A_SYNC from the output thread, which has lost the connection.
HandleSync(e) ==
  /\ Arrives(e, "SYNC")
  /\ Handled(e, Disconnect(World(e), OverTransport(World(e))))
  /\ online' = [online EXCEPT ![e] = FALSE]
  /\ state' = [state EXCEPT ![e] = "offline"]
  /\ leaving' = [leaving EXCEPT ![e] = TRUE]
  /\ UNCHANGED linkVars

\* A_CNXN: the streams of an earlier connection end here.
HandleCnxn(e) ==
  LET w == IF state[e] = "offline" THEN World(e)
           ELSE Disconnect(World(e), OverTransport(World(e)))
  IN /\ Arrives(e, "CNXN")
     /\ Handled(e, IF e = "host" THEN w ELSE SendPacket(w, [cmd |-> "CNXN"]))
     /\ online' = [online EXCEPT ![e] = TRUE]
     /\ state' = [state EXCEPT ![e] = "connected"]
     /\ UNCHANGED <<leaving, linkVars>>

\* A_OPEN: the service may be unknown.
HandleOpen(e) ==
  LET p == Head(chan[e])
      w == World(e)
      opened == Create(w, p.end, Remote(p.arg0), {"R"}, FALSE)
  IN /\ Arrives(e, "OPEN")
     /\ \/ /\ ~online[e]
           /\ Handled(e, w)
        \/ /\ online[e]
           /\ Handled(e, SendPacket(w, [cmd |-> "CLSE", arg0 |-> 0, arg1 |-> p.arg0]))
        \/ /\ online[e] /\ w.next <= MaxId(e)
           /\ Handled(e, SendPacket(opened, [cmd |-> "OKAY", arg0 |-> w.next,
                                             arg1 |-> p.arg0]))
     /\ UNCHANGED <<online, state, leaving, linkVars>>

\* Mutant: t->online is not looked at.
Target_Offline(e) == IF sock[e][Head(chan[e]).arg1].st = "live"
                     THEN {Head(chan[e]).arg1} ELSE {}

\* The packets for one of our sockets; the others are ignored.
Target(e) == IF online[e] /\ sock[e][Head(chan[e]).arg1].st = "live"
             THEN {Head(chan[e]).arg1} ELSE {}

\* A_OKAY: the first one tells us the id of the other end.
HandleOkay(e) ==
  LET p == Head(chan[e])
      w == World(e)
      connect(i) == IF w.sock[i].peer = None
                    THEN [w EXCEPT !.sock[i].peer = Remote(p.arg0)] ELSE w
  IN /\ Arrives(e, "OKAY")
     /\ Handled(e, IF Target(e) = {} THEN w
                   ELSE SocketReady(connect(p.arg1), p.arg1))
     /\ UNCHANGED <<online, state, leaving, linkVars>>

\* A_CLSE
HandleClse(e) ==
  /\ Arrives(e, "CLSE")
  /\ Handled(e, IF Target(e) = {} THEN World(e)
                ELSE Close(World(e), Head(chan[e]).arg1, "peer"))
  /\ UNCHANGED <<online, state, leaving, linkVars>>

\* A_WRTE: answered at once if the packet could be written.
HandleWrte(e) ==
  LET p == Head(chan[e])
      q(res) == Enqueue(World(e), p.arg1, p.data, res)
      reply(r) == IF r.r = 0
                  THEN SendPacket(r.w, [cmd |-> "OKAY", arg0 |-> p.arg1, arg1 |-> p.arg0])
                  ELSE r.w
  IN /\ Arrives(e, "WRTE")
     /\ \/ Target(e) = {} /\ Handled(e, World(e))
        \/ \E res \in WriteResults : Target(e) # {} /\ Handled(e, reply(q(res)))
     /\ UNCHANGED <<online, state, leaving, linkVars>>

HandlePacket(e) ==
  \/ HandleSync(e) \/ HandleCnxn(e) \/ HandleOpen(e)
  \/ HandleOkay(e) \/ HandleClse(e) \/ HandleWrte(e)

\* The input thread leaves: close_all_sockets, outside the loop's thread. It
\* also closes the clients whose smart socket had acquired the transport.
InputThreadExit(e) ==
  LET w == World(e)
  IN /\ leaving[e]
     /\ leaving' = [leaving EXCEPT ![e] = FALSE]
     /\ Commit(e, Disconnect(w, {i \in Ids : w.sock[i].st = "live" /\ w.sock[i].transport}
                                \cup OverTransport(w)), chan[e])
     /\ UNCHANGED <<online, state, pending, linkVars>>

(***************************************************************************)
(* The connection and the processes fail.                                  *)
(***************************************************************************)

\* The connection is lost: what the output thread has read is still handled,
\* then it reports SYNC(0, 0).
Unplug ==
  /\ link /\ losses < MaxLoss
  /\ link' = FALSE /\ losses' = losses + 1
  /\ \E h \in Prefixes(chan["host"]), d \in Prefixes(chan["device"]) :
       chan' = [host |-> Append(h, [cmd |-> "SYNC"]),
                device |-> Append(d, [cmd |-> "SYNC"])]
  /\ UNCHANGED <<sock, next, transportVars, session, sent, rcvd, fin, freedUse>>

\* A new transport is registered on both sides, and the host sends A_CNXN.
Replug ==
  /\ ~link /\ chan = [e \in Procs |-> <<>>] /\ leaving = [e \in Procs |-> FALSE]
  /\ link' = TRUE
  /\ chan' = [chan EXCEPT !["device"] = <<[cmd |-> "CNXN"]>>]
  /\ UNCHANGED <<sock, next, transportVars, session, losses, sent, rcvd, fin, freedUse>>

\* The process e dies, with all its sockets, and starts again. Packets in its
\* transport are lost; the rest of them stays with the kernel and the device.
Restart(e) ==
  /\ sock' = [sock EXCEPT ![e] = [i \in Ids |-> NoSocket]]
  /\ next' = [next EXCEPT ![e] = 1]
  /\ online' = [online EXCEPT ![e] = FALSE]
  /\ state' = [state EXCEPT ![e] = "offline"]
  /\ pending' = [pending EXCEPT ![e] = FALSE]
  /\ leaving' = [leaving EXCEPT ![e] = FALSE]
  /\ fin' = [x \in Ends |->
              IF \E i \in Ids : sock[e][i].end = x /\ sock[e][i].st \in {"live", "closing"}
              THEN "lost" ELSE fin[x]]

HostRestart ==
  /\ link /\ session < MaxSession
  /\ Restart("host")
  /\ session' = session + 1
  /\ \E h \in Suffixes(chan["host"]), d \in Prefixes(chan["device"]) :
       chan' = [host |-> h, device |-> Append(d, [cmd |-> "CNXN"])]
  /\ UNCHANGED <<link, losses, sent, rcvd, freedUse>>

\* adbd restarts: the host sees the connection go away.
DeviceRestart ==
  /\ link /\ losses < MaxLoss
  /\ Restart("device")
  /\ link' = FALSE /\ losses' = losses + 1
  /\ \E h \in Prefixes(chan["host"]) :
       chan' = [host |-> Append(h, [cmd |-> "SYNC"]), device |-> <<>>]
  /\ UNCHANGED <<session, sent, rcvd, freedUse>>

Init ==
  /\ sock = [e \in Procs |-> [i \in Ids |-> NoSocket]]
  /\ next = [e \in Procs |-> 1]
  /\ online = [e \in Procs |-> FALSE]
  /\ state = [e \in Procs |-> "offline"]
  /\ pending = [e \in Procs |-> FALSE]
  /\ leaving = [e \in Procs |-> FALSE]
  /\ chan = [host |-> <<>>, device |-> <<[cmd |-> "CNXN"]>>]
  /\ link = TRUE /\ session = 0 /\ losses = 0
  /\ Promise!StreamInit
  /\ freedUse = FALSE

Loop(e) == FdeventProcess(e) \/ HandlePacket(e) \/ \E i \in Ids : EventFunc(e, i)

Next ==
  \/ Accept \/ Forward
  \/ \E e \in Procs : Loop(e) \/ InputThreadExit(e)
  \/ Unplug \/ Replug \/ HostRestart \/ DeviceRestart

Spec == Init /\ [][Next]_vars

\* The loops and the input threads run. The programs at the ends go on reading,
\* or close: a socket that has something to write is written in the end.
Writable(e, i) == FdeventProcess(e) /\ "W" \in sock'[e][i].evs
Emptied(e, i) == EventFunc(e, i) /\ sock'[e][i].pkts = <<>>
Fairness ==
  \A e \in Procs :
    /\ WF_vars(Loop(e)) /\ WF_vars(InputThreadExit(e))
    /\ \A i \in 1..MaxId(e) : SF_vars(Writable(e, i)) /\ SF_vars(Emptied(e, i))

FairSpec == Spec /\ Fairness

(***************************************************************************)
(* Properties.                                                             *)
(***************************************************************************)
\* Type correctness: sockets, packets and streams are what sockets.c and adb.c
\* make them; ids are never 0 and no queue holds another process's data.
TypeOK ==
  /\ sock \in [Procs -> [Ids -> Sockets]]
  /\ next \in [Procs -> Nat \ {0}]
  /\ online \in [Procs -> BOOLEAN] /\ pending \in [Procs -> BOOLEAN]
  /\ leaving \in [Procs -> BOOLEAN]
  /\ state \in [Procs -> {"offline", "connected"}]
  /\ chan \in [Procs -> Seq(Packets)]
  /\ link \in BOOLEAN /\ session \in 0..MaxSession /\ losses \in 0..MaxLoss
  /\ sent \in [Ends -> Seq(Data)] /\ rcvd \in [Ends -> Seq(Data)]
  /\ fin \in [Ends -> Promise!Fins]
  /\ freedUse \in BOOLEAN

\* Every step is a step of the streams that adb promises its programs.
StreamsKept == Promise!StreamSpec

\* local_socket_event_func calls s->peer->ready when the last packet of a
\* live socket is written, without a test: the peer is there.
DrainHasPeer ==
  \A e \in Procs, i \in Ids :
    sock[e][i].st = "live" /\ sock[e][i].pkts # <<>> => sock[e][i].peer # None

\* close_all_sockets runs in the input thread while the loop runs its handlers
\* without socket_list_lock: of the sockets that were sent to the device it must
\* find none that a handler could be using. (The client of a smart socket that
\* has acquired the transport is the exception the code does not prevent: it
\* still wants to read.)
InputThreadAlone ==
  \A e \in Procs, i \in Ids :
    /\ leaving[e]
    /\ sock[e][i].st = "live" /\ sock[e][i].peer # Smart
    /\ sock[e][i].transport \/ sock[e][i].peer[1] = "remote"
    => sock[e][i].want = {} /\ sock[e][i].evs = {}

\* The sockets as a whole: well formed, and neither the last write of a socket
\* nor close_all_sockets in the input thread meets a socket it must not.
SocketsInv == TypeOK /\ DrainHasPeer /\ InputThreadAlone

\* The handler does not use a socket that was freed under it.
NoFreedUse == ~freedUse

Open(x) == fin[x] \in {"open", "ending"}
Ended(x) == fin[x] \in Promise!Closed

\* The two ends of a stream end together, whether a program closes one, or the
\* process or the connection is lost. (Unless the near program gave up before
\* the stream was connected: then nobody tells the far end.)
EndsTogether ==
  \A s \in Streams :
    LET near == <<s, "near">> far == <<s, "far">>
    IN Ended(far) \/ (Ended(near) /\ fin[near] # "quit" /\ Open(far))
         ~> Ended(near) /\ Ended(far)
=============================================================================
