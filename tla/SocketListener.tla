--------------------------- MODULE SocketListener ---------------------------
(***************************************************************************)
(* SocketListener and SocketClient of core/libsysutils, the command server *)
(* of vold and netd, in its listening form (mListen).  One thread runs     *)
(* runListener: it builds the descriptor set under mClientsLock, selects,  *)
(* accepts, collects the clients to read and handles them one by one.  A   *)
(* command is answered at once, answered by a broadcast, or given to a    *)
(* worker thread with a reference to the client (netd/DnsProxyListener).   *)
(* Any thread may broadcast, which holds mClientsLock while it sends, and  *)
(* one calls stopListener.                                                 *)
(*                                                                         *)
(* Descriptor numbers are reused, lowest first, as the kernel does; a peer *)
(* is one connection, from connect to hangup, and each accepted connection *)
(* is one SocketClient object, named after its peer.                       *)
(***************************************************************************)
EXTENDS Integers, Sequences, FiniteSets, Lists

CONSTANTS
    Peers,     \* connections ever made
    Fds,       \* descriptor numbers for clients, a set of positive integers
    MaxData,   \* commands a peer has under way at once
    Buffer,    \* messages that fit in the socket buffer towards a peer
    MaxWorkers,\* worker threads of one client at once
    MaxFailed, \* worker threads of one client that cannot be started
    QuietStop  \* stopListener deletes only when no worker or broadcast is active

ASSUME BoundsAssumption ==
    /\ IsFiniteSet(Peers)
    /\ Fds \subseteq Nat \ {0}
    /\ MaxData \in Nat /\ Buffer \in Nat \ {0}
    /\ MaxWorkers \in Nat /\ MaxFailed \in Nat
    /\ QuietStop \in BOOLEAN

VARIABLES
    conn,      \* peer -> "off", "queued" (in the backlog), "up", "hungup"
    data,      \* peer -> commands sent and not read by the listener
    replies,   \* peer -> messages sent to it that it has not read
    obj,       \* SocketClient of a peer: "none", "live", "freed"
    mSocket,   \* its descriptor, 0 before it is made
    mRefCount, \* its references
    leaked,    \* history: those taken for a thread that was not created
    mClients,  \* the list of clients
    pc,        \* where the listener thread is
    readFds,   \* the descriptors given to or reported by select
    pending,   \* pendingList, its head being processed
    workers,   \* peer -> worker threads that have a reference to its client
    bcast,     \* position of the running broadcast in mClients, 0 if none
    stop       \* stopListener: "no", "joining" (byte written), "stopped"

peerVars   == <<conn, data, replies>>
objVars    == <<obj, mSocket, mRefCount, leaked>>
threadVars == <<pc, readFds, pending>>
vars == <<peerVars, objVars, mClients, threadVars, workers, bcast, stop>>

Sock == 0          \* stands for mSock in a descriptor set
Ctrl == -1         \* stands for mCtrlPipe[0]

LockFree == bcast = 0
Open == {c \in Peers : obj[c] = "live"}
FreeFds == Fds \ {mSocket[c] : c \in Open}
Readable(c) == data[c] > 0 \/ conn[c] = "hungup"
Backlog == {c \in Peers : conn[c] = "queued" /\ obj[c] = "none"}
Without(s, c) == Kept(s, Elements(s) \ {c})

Init ==
    /\ conn = [c \in Peers |-> "off"]
    /\ data = [c \in Peers |-> 0]
    /\ replies = [c \in Peers |-> 0]
    /\ obj = [c \in Peers |-> "none"]
    /\ mSocket = [c \in Peers |-> 0]
    /\ mRefCount = [c \in Peers |-> 0]
    /\ leaked = [c \in Peers |-> 0]
    /\ mClients = <<>>
    /\ pc = "build" /\ readFds = {} /\ pending = <<>>
    /\ workers = [c \in Peers |-> 0]
    /\ bcast = 0
    /\ stop = "no"

-----------------------------------------------------------------------------
(* The peers                                                               *)

Connect(c) ==
    /\ conn[c] = "off" /\ stop # "stopped"
    /\ conn' = [conn EXCEPT ![c] = "queued"]
    /\ UNCHANGED <<data, replies, objVars, mClients, threadVars, workers, bcast, stop>>

SendCommand(c) ==
    /\ conn[c] \in {"queued", "up"} /\ data[c] < MaxData
    /\ data' = [data EXCEPT ![c] = @ + 1]
    /\ UNCHANGED <<conn, replies, objVars, mClients, threadVars, workers, bcast, stop>>

ReadReply(c) ==
    /\ conn[c] = "up" /\ replies[c] > 0
    /\ replies' = [replies EXCEPT ![c] = @ - 1]
    /\ UNCHANGED <<conn, data, objVars, mClients, threadVars, workers, bcast, stop>>

Hangup(c) ==
    /\ conn[c] = "up"
    /\ conn' = [conn EXCEPT ![c] = "hungup"]
    /\ replies' = [replies EXCEPT ![c] = 0]
    /\ UNCHANGED <<data, objVars, mClients, threadVars, workers, bcast, stop>>

-----------------------------------------------------------------------------
(* SocketClient                                                            *)

\* sendMsg returns when the message fits in the buffer, or with an error.
CanSend(c) == conn[c] = "hungup" \/ replies[c] < Buffer

SendMsg(c) ==
    replies' = IF conn[c] = "hungup" THEN replies ELSE [replies EXCEPT ![c] = @ + 1]

\* decRef deletes the client, which closes its socket, when nobody is left.
DecRef(c) ==
    /\ mRefCount' = [mRefCount EXCEPT ![c] = @ - 1]
    /\ obj' = IF mRefCount[c] = 1 THEN [obj EXCEPT ![c] = "freed"] ELSE obj
    /\ UNCHANGED <<mSocket, leaked>>

-----------------------------------------------------------------------------
(* runListener                                                             *)

\* The mutant leaves out the last client of the list.
BuildSet_NotLast ==
    /\ pc = "build" /\ LockFree
    /\ readFds' = {Sock, Ctrl} \cup {mSocket[mClients[i]] : i \in 1..(Len(mClients) - 1)}
    /\ pc' = "select"
    /\ UNCHANGED <<peerVars, objVars, mClients, pending, workers, bcast, stop>>

\* The descriptor set is built under mClientsLock.
BuildSet ==
    /\ pc = "build" /\ LockFree
    /\ readFds' = {Sock, Ctrl} \cup {mSocket[c] : c \in Elements(mClients)}
    /\ pc' = "select"
    /\ UNCHANGED <<peerVars, objVars, mClients, pending, workers, bcast, stop>>

\* What select reports: the descriptors of readFds whose open file is ready.
Ready ==
    {f \in readFds : \/ f = Sock /\ Backlog # {}
                     \/ f = Ctrl /\ stop = "joining"
                     \/ \E c \in Open : mSocket[c] = f /\ Readable(c)}

\* The mutant looks at the control pipe only when nothing else is ready.
Select_CtrlLast ==
    /\ pc = "select" /\ Ready # {}
    /\ readFds' = Ready
    /\ pc' = IF Ready = {Ctrl} THEN "done" ELSE IF Sock \in Ready THEN "accept" ELSE "scan"
    /\ UNCHANGED <<peerVars, objVars, mClients, pending, workers, bcast, stop>>

\* select returns; a byte in the control pipe ends the thread.
Select ==
    /\ pc = "select" /\ Ready # {}
    /\ readFds' = Ready
    /\ pc' = IF Ctrl \in Ready THEN "done" ELSE IF Sock \in Ready THEN "accept" ELSE "scan"
    /\ UNCHANGED <<peerVars, objVars, mClients, pending, workers, bcast, stop>>

\* select fails, with EINTR or otherwise.
SelectFails ==
    /\ pc = "select" /\ Ready = {}
    /\ pc' = "build" /\ readFds' = {}
    /\ UNCHANGED <<peerVars, objVars, mClients, pending, workers, bcast, stop>>

\* A new client with the lowest free descriptor joins the list.
Accept(c) ==
    /\ pc = "accept" /\ LockFree /\ c \in Backlog
    /\ \E f \in FreeFds :
         /\ \A g \in FreeFds : f <= g
         /\ mSocket' = [mSocket EXCEPT ![c] = f]
    /\ conn' = [conn EXCEPT ![c] = "up"]
    /\ obj' = [obj EXCEPT ![c] = "live"]
    /\ mRefCount' = [mRefCount EXCEPT ![c] = 1]
    /\ mClients' = Append(mClients, c)
    /\ pc' = "scan"
    /\ UNCHANGED <<data, replies, leaked, readFds, pending, workers, bcast, stop>>

\* accept fails, for want of a descriptor or memory: the pass ends without
\* reading from any client.  (The lock is not needed to fail, but the thread
\* needs it for whatever it does next.)
AcceptFails ==
    /\ pc = "accept" /\ LockFree
    /\ pc' = "build" /\ readFds' = {}
    /\ UNCHANGED <<peerVars, objVars, mClients, pending, workers, bcast, stop>>

\* The mutant takes every client rather than the reported ones.
Scan_All ==
    /\ pc = "scan" /\ LockFree
    /\ pending' = mClients
    /\ readFds' = {}
    /\ pc' = "process"
    /\ UNCHANGED <<peerVars, objVars, mClients, workers, bcast, stop>>

\* The clients whose descriptor select reported, without a reference to them.
Scan ==
    /\ pc = "scan" /\ LockFree
    /\ pending' = Kept(mClients, {c \in Peers : mSocket[c] \in readFds})
    /\ readFds' = {}
    /\ pc' = "process"
    /\ UNCHANGED <<peerVars, objVars, mClients, workers, bcast, stop>>

\* onDataAvailable reads a command of the client at the head.
ReadCommand ==
    /\ pc = "process" /\ pending # <<>>
    /\ data[Head(pending)] > 0
    /\ data' = [data EXCEPT ![Head(pending)] = @ - 1]
    /\ pc' = "run"
    /\ UNCHANGED <<conn, replies, objVars, mClients, readFds, pending, workers, bcast, stop>>

\* runCommand answers at once ...
Answer ==
    /\ pc = "run" /\ CanSend(Head(pending))
    /\ SendMsg(Head(pending))
    /\ pending' = Tail(pending)
    /\ pc' = "process"
    /\ UNCHANGED <<conn, data, objVars, mClients, readFds, workers, bcast, stop>>

\* ... or is answered by a broadcast: sendBroadcast takes mClientsLock ...
RunBroadcast ==
    /\ pc = "run" /\ LockFree
    /\ bcast' = 1
    /\ pc' = "broadcasting"
    /\ UNCHANGED <<peerVars, objVars, mClients, readFds, pending, workers, stop>>

BroadcastReturns ==
    /\ pc = "broadcasting" /\ bcast > Len(mClients)
    /\ bcast' = 0
    /\ pending' = Tail(pending)
    /\ pc' = "process"
    /\ UNCHANGED <<peerVars, objVars, mClients, readFds, workers, stop>>

\* The mutant starts the worker without incRef.
StartWorker_NoRef ==
    /\ pc = "run" /\ workers[Head(pending)] < MaxWorkers
    /\ workers' = [workers EXCEPT ![Head(pending)] = @ + 1]
    /\ pending' = Tail(pending)
    /\ pc' = "process"
    /\ UNCHANGED <<peerVars, objVars, mClients, readFds, bcast, stop>>

\* ... or starts a worker that has a reference to the client.
StartWorker ==
    /\ pc = "run" /\ workers[Head(pending)] < MaxWorkers
    /\ mRefCount' = [mRefCount EXCEPT ![Head(pending)] = @ + 1]
    /\ workers' = [workers EXCEPT ![Head(pending)] = @ + 1]
    /\ pending' = Tail(pending)
    /\ pc' = "process"
    /\ UNCHANGED <<peerVars, obj, mSocket, leaked, mClients, readFds, bcast, stop>>

\* ... or cannot create its thread: start() does not look at the result, and
\* nobody gives the reference back.
StartFails ==
    /\ pc = "run" /\ leaked[Head(pending)] < MaxFailed
    /\ mRefCount' = [mRefCount EXCEPT ![Head(pending)] = @ + 1]
    /\ leaked' = [leaked EXCEPT ![Head(pending)] = @ + 1]
    /\ pending' = Tail(pending)
    /\ pc' = "process"
    /\ UNCHANGED <<peerVars, obj, mSocket, mClients, readFds, workers, bcast, stop>>

\* onDataAvailable reads the end of the stream and returns false.
ReadEnd ==
    /\ pc = "process" /\ pending # <<>>
    /\ data[Head(pending)] = 0 /\ conn[Head(pending)] = "hungup"
    /\ pc' = "zap"
    /\ UNCHANGED <<peerVars, objVars, mClients, readFds, pending, workers, bcast, stop>>

\* The client leaves the list, under mClientsLock ...
Zap ==
    /\ pc = "zap" /\ LockFree
    /\ mClients' = Without(mClients, Head(pending))
    /\ pc' = "deref"
    /\ UNCHANGED <<peerVars, objVars, readFds, pending, workers, bcast, stop>>

\* The mutant forgets the listener's reference.
Deref_Keeps ==
    /\ pc = "deref"
    /\ pending' = Tail(pending)
    /\ pc' = "process"
    /\ UNCHANGED <<peerVars, objVars, mClients, readFds, workers, bcast, stop>>

\* ... and the listener gives up its reference.
Deref ==
    /\ pc = "deref"
    /\ DecRef(Head(pending))
    /\ pending' = Tail(pending)
    /\ pc' = "process"
    /\ UNCHANGED <<peerVars, mClients, readFds, workers, bcast, stop>>

PassDone ==
    /\ pc = "process" /\ pending = <<>>
    /\ pc' = "build"
    /\ UNCHANGED <<peerVars, objVars, mClients, readFds, pending, workers, bcast, stop>>

-----------------------------------------------------------------------------
(* Other threads                                                           *)

\* A worker answers and gives up its reference.
WorkerDone(c) ==
    /\ workers[c] > 0 /\ CanSend(c)
    /\ SendMsg(c)
    /\ workers' = [workers EXCEPT ![c] = @ - 1]
    /\ DecRef(c)
    /\ UNCHANGED <<conn, data, mClients, threadVars, bcast, stop>>

Broadcast ==
    /\ LockFree
    /\ bcast' = 1
    /\ UNCHANGED <<peerVars, objVars, mClients, threadVars, workers, stop>>

\* sendBroadcast sends to the next client, with mClientsLock held.
BroadcastSend ==
    /\ bcast \in DOMAIN mClients /\ CanSend(mClients[bcast])
    /\ SendMsg(mClients[bcast])
    /\ bcast' = bcast + 1
    /\ UNCHANGED <<conn, data, objVars, mClients, threadVars, workers, stop>>

BroadcastDone ==
    /\ pc # "broadcasting" /\ bcast > Len(mClients)
    /\ bcast' = 0
    /\ UNCHANGED <<peerVars, objVars, mClients, threadVars, workers, stop>>

\* stopListener writes the control byte ...
StopListener ==
    /\ stop = "no"
    /\ stop' = "joining"
    /\ UNCHANGED <<peerVars, objVars, mClients, threadVars, workers, bcast>>

\* ... joins the thread and deletes the clients of the list, whatever their
\* reference count, without mClientsLock.
StopDeletes ==
    /\ stop = "joining" /\ pc = "done"
    /\ QuietStop => LockFree /\ \A c \in Peers : workers[c] = 0
    /\ obj' = [c \in Peers |-> IF c \in Elements(mClients) THEN "freed" ELSE obj[c]]
    /\ mClients' = <<>>
    /\ stop' = "stopped"
    /\ UNCHANGED <<peerVars, mSocket, mRefCount, leaked, threadVars, workers, bcast>>

-----------------------------------------------------------------------------
Listener ==
    \/ BuildSet
    \/ Select
    \/ \E c \in Peers : Accept(c)
    \/ Scan
    \/ ReadCommand
    \/ Answer
    \/ RunBroadcast
    \/ BroadcastReturns
    \/ StartWorker
    \/ ReadEnd
    \/ Zap
    \/ Deref
    \/ PassDone

Next ==
    \/ Listener
    \/ SelectFails
    \/ AcceptFails
    \/ StartFails
    \/ \E c \in Peers : \/ Connect(c) \/ SendCommand(c) \/ ReadReply(c) \/ Hangup(c)
                        \/ WorkerDone(c)
    \/ Broadcast
    \/ BroadcastSend
    \/ BroadcastDone
    \/ StopListener
    \/ StopDeletes

Spec == Init /\ [][Next]_vars

\* The threads run, and peers read what they are sent.  The lock is passed on
\* to the listener in the end, however often others take it (SF), and accept
\* does not fail for ever.
FairSpec ==
    /\ Spec
    /\ SF_vars(Listener) /\ SF_vars(\E c \in Peers : Accept(c))
    /\ WF_vars(BroadcastSend) /\ WF_vars(BroadcastDone)
    /\ \A c \in Peers : WF_vars(ReadReply(c)) /\ SF_vars(WorkerDone(c))

-----------------------------------------------------------------------------
\* Type correctness; a client has at most the listener's reference and one per
\* worker that was to be started, and a list entry for each connection at most.
TypeOK ==
    /\ conn \in [Peers -> {"off", "queued", "up", "hungup"}]
    /\ data \in [Peers -> 0..MaxData]
    /\ replies \in [Peers -> 0..Buffer]
    /\ obj \in [Peers -> {"none", "live", "freed"}]
    /\ mSocket \in [Peers -> Fds \cup {0}]
    /\ mRefCount \in [Peers -> 0..(MaxWorkers + MaxFailed + 1)]
    /\ leaked \in [Peers -> 0..MaxFailed]
    /\ mClients \in Seq(Peers)
    /\ pc \in {"build", "select", "accept", "scan", "process", "run", "broadcasting",
               "zap", "deref", "done"}
    /\ readFds \subseteq Fds \cup {Sock, Ctrl}
    /\ pending \in Seq(Peers)
    /\ workers \in [Peers -> 0..MaxWorkers]
    /\ bcast \in 0..(Cardinality(Peers) + 1)
    /\ stop \in {"no", "joining", "stopped"}

\* Clients that some thread is going to use.
Held == Elements(mClients) \cup Elements(pending) \cup {c \in Peers : workers[c] > 0}

\* No thread holds a client that was deleted: the list, the pending list (which
\* takes no reference, SocketListener.cpp:228) and the workers all keep theirs
\* alive, and no two live clients answer on the same descriptor.
NoFreedUse ==
    /\ \A c \in Held : obj[c] = "live"
    /\ \A c, d \in Open : mSocket[c] = mSocket[d] => c = d

\* The listener's own reference to a client: it is in the list, or out of it
\* and about to be given up.
Listed(c) == c \in Elements(mClients) \/ (pc = "deref" /\ c = Head(pending))

\* The reference count is the listener's reference, the workers', and those of
\* the threads that could not be created; it is never zero while the client is
\* there. So a client is not deleted too early, and, if all its workers could be
\* started, it is deleted with its last reference.
CountExact ==
    \A c \in Open : /\ mRefCount[c] = workers[c] + leaked[c] + (IF Listed(c) THEN 1 ELSE 0)
                     /\ mRefCount[c] > 0

\* The clients as a whole: used only while they are there and counted exactly
\* (SocketClient::decRef), and in the list once at most.
ClientsInv == TypeOK /\ NoFreedUse /\ CountExact

\* The listener reads only from clients with something to read: a descriptor
\* number that select reported is never that of another client by the time the
\* pending list is made, so the one thread that serves everybody never blocks
\* in read.
NeverBlocksInRead ==
    pc = "process" => \A c \in Elements(pending) : Readable(c)

\* A client whose peer hung up is deleted and its descriptor closed, unless
\* the listener is stopped or a worker of this client could not be started:
\* nothing else leaks, and no other client with it.
Released ==
    \A c \in Peers : (conn[c] = "hungup") ~>
                       (obj[c] = "freed" \/ stop # "no" \/ leaked[c] > 0)

\* Every command is read, unless the listener is stopped: the lock that
\* broadcasts hold while they send never shuts the listener out for good.
CommandsRead ==
    \A c \in Peers : (data[c] > 0 /\ conn[c] = "up") ~> (data[c] = 0 \/ stop # "no")

\* stopListener's join returns.
StopJoins == (stop = "joining") ~> (pc = "done")
=============================================================================
