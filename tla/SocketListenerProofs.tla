------------------------ MODULE SocketListenerProofs ------------------------
(***************************************************************************)
(* That the listener never uses a deleted client and never blocks in read, *)
(* for any number of peers, descriptors, workers and broadcasts, when      *)
(* stopListener deletes only what no worker or broadcast uses (QuietStop). *)
(***************************************************************************)
EXTENDS SocketListener, ListTheorems, TLAPS

\* Where the listener has clients to process, one of which is its head.
AtHead == pc \in {"run", "broadcasting", "zap", "deref"}

\* The types, but for the bound on the position of a broadcast.
Types ==
    /\ conn \in [Peers -> {"off", "queued", "up", "hungup"}]
    /\ data \in [Peers -> 0..MaxData]
    /\ replies \in [Peers -> 0..Buffer]
    /\ obj \in [Peers -> {"none", "live", "freed"}]
    /\ mSocket \in [Peers -> Fds \cup {0}]
    /\ mRefCount \in [Peers -> 0..(MaxWorkers + MaxFailed + 1)]
    /\ leaked \in [Peers -> 0..MaxFailed]
    /\ mClients \in Seq(Peers)
    /\ pc \in {"build", "select", "accept", "scan", "process", "run", "broadcasting",
               "zap", "deref", "done"}
    /\ readFds \subseteq Fds \cup {Sock, Ctrl}
    /\ pending \in Seq(Peers)
    /\ workers \in [Peers -> 0..MaxWorkers]
    /\ bcast \in Nat
    /\ stop \in {"no", "joining", "stopped"}

\* The pending list is a part of the client list without a reference of its
\* own; only its head leaves the list before it leaves the pending list.
Queued ==
    /\ Distinct(mClients) /\ Distinct(pending)
    /\ pc \in {"build", "select", "accept", "scan", "done"} => pending = <<>>
    /\ AtHead => pending # <<>>
    /\ pc # "deref" => Elements(pending) \subseteq Elements(mClients)
    /\ pc = "deref" => /\ Elements(Tail(pending)) \subseteq Elements(mClients)
                       /\ Head(pending) \notin Elements(mClients)
                       /\ obj[Head(pending)] = "live"

\* The listed clients and those of the workers are there, each with its own
\* descriptor; a reference leaks only of a client that was there.
Alive ==
    /\ \A c \in Elements(mClients) : obj[c] = "live"
    /\ \A c \in Peers : workers[c] > 0 => obj[c] = "live"
    /\ \A c \in Peers : leaked[c] > 0 => obj[c] # "none"
    /\ \A c \in Open : mSocket[c] \in Fds
    /\ \A c, d \in Open : mSocket[c] = mSocket[d] => c = d

\* The lock is held by the broadcast that the listener makes, which is within
\* the list or just past its end; a stopped listener has no clients.
Locking ==
    /\ pc = "broadcasting" => bcast > 0
    /\ bcast <= Len(mClients) + 1
    /\ stop = "stopped" => pc = "done" /\ mClients = <<>>

\* What select reported is readable until it is read: the descriptors are
\* those of listed clients, which keep them.
Reported ==
    /\ pc \in {"select", "accept", "scan"} =>
          readFds \subseteq {Sock, Ctrl} \cup {mSocket[c] : c \in Elements(mClients)}
    /\ pc \in {"accept", "scan"} =>
          \A c \in Elements(mClients) : mSocket[c] \in readFds => Readable(c)
    /\ pc = "process" => \A c \in Elements(pending) : Readable(c)
    /\ AtHead => \A c \in Elements(Tail(pending)) : Readable(c)

\* The inductive invariant.
Inv == Types /\ Queued /\ Alive /\ CountExact /\ Locking /\ Reported

-----------------------------------------------------------------------------
(* The client at the head of the pending list                              *)

\* It is alive, and the others of the pending list are other clients.
LEMMA HeadFacts ==
    ASSUME Types, Queued, Alive, pending # <<>>
    PROVE  /\ Head(pending) \in Peers /\ Tail(pending) \in Seq(Peers)
           /\ obj[Head(pending)] = "live"
           /\ Elements(pending) = {Head(pending)} \cup Elements(Tail(pending))
           /\ Distinct(Tail(pending)) /\ Head(pending) \notin Elements(Tail(pending))
<1>1. pending \in Seq(Peers) /\ Distinct(pending)
  BY DEF Types, Queued
<1>2. /\ Head(pending) \in Peers /\ Tail(pending) \in Seq(Peers)
      /\ Elements(pending) = {Head(pending)} \cup Elements(Tail(pending))
      /\ Distinct(Tail(pending)) /\ Head(pending) \notin Elements(Tail(pending))
  BY <1>1, TailFacts
<1>3. obj[Head(pending)] = "live"
  BY <1>2 DEF Queued, Alive
<1> QED
  BY <1>2, <1>3

\* Removing a client from the list.
LEMMA WithoutFacts ==
    ASSUME NEW s \in Seq(Peers), Distinct(s), NEW c
    PROVE  /\ Without(s, c) \in Seq(Peers) /\ Distinct(Without(s, c))
           /\ Elements(Without(s, c)) = Elements(s) \ {c}
BY KeptFacts DEF Without

\* Giving up a reference to a live client frees it exactly when it was the last.
LEMMA DecRefFacts ==
    ASSUME Types, CountExact, NEW c \in Peers, obj[c] = "live", DecRef(c)
    PROVE  /\ obj' \in [Peers -> {"none", "live", "freed"}]
           /\ mRefCount' \in [Peers -> 0..(MaxWorkers + MaxFailed + 1)]
           /\ mSocket' = mSocket /\ leaked' = leaked
           /\ mRefCount'[c] = mRefCount[c] - 1
           /\ obj'[c] = IF mRefCount[c] = 1 THEN "freed" ELSE "live"
           /\ \A d \in Peers \ {c} : obj'[d] = obj[d] /\ mRefCount'[d] = mRefCount[d]
<1>1. mRefCount[c] > 0
  BY DEF CountExact, Open
<1> QED
  BY <1>1, BoundsAssumption DEF DecRef, Types

\* sendMsg leaves no more in the buffer than fits.
LEMMA SendMsgType ==
    ASSUME Types, NEW c \in Peers, CanSend(c), SendMsg(c)
    PROVE  replies' \in [Peers -> 0..Buffer]
<1>1. CASE conn[c] = "hungup"
  BY <1>1 DEF SendMsg, Types
<1>2. CASE conn[c] # "hungup"
  <2>1. replies' = [replies EXCEPT ![c] = replies[c] + 1] /\ replies[c] < Buffer
    BY <1>2 DEF SendMsg, CanSend
  <2> QED
    BY <2>1, BoundsAssumption DEF Types
<1> QED
  BY <1>1, <1>2

-----------------------------------------------------------------------------
(* One lemma for each action: it preserves the invariant                   *)

LEMMA BuildSetStep ==
    ASSUME Inv, QuietStop, BuildSet
    PROVE  Inv'
<1>0. Types /\ Queued /\ Alive /\ CountExact /\ Locking /\ Reported
  BY DEF Inv
<1>1. Types'
  <2>1. {mSocket[c] : c \in Elements(mClients)} \subseteq Fds \cup {0}
    BY <1>0, ElementsType DEF Types
  <2> QED
    BY <1>0, <2>1 DEF BuildSet, Types, Sock, Ctrl, peerVars, objVars
<1>2. Queued'
  BY <1>0 DEF BuildSet, peerVars, objVars, LockFree, Queued, AtHead
<1>3. Alive'
  BY <1>0 DEF BuildSet, peerVars, objVars, LockFree, Alive, Open
<1>4. CountExact'
  BY <1>0 DEF BuildSet, peerVars, objVars, LockFree, CountExact, Open, Listed
<1>5. Locking'
  BY <1>0 DEF BuildSet, peerVars, objVars, LockFree, Locking
<1>6. Reported'
  BY <1>0 DEF BuildSet, peerVars, objVars, LockFree, Reported, Readable, AtHead
<1> QED
  BY <1>1, <1>2, <1>3, <1>4, <1>5, <1>6 DEF Inv

LEMMA SelectStep ==
    ASSUME Inv, QuietStop, Select
    PROVE  Inv'
<1> USE BoundsAssumption
<1>0. Types /\ Queued /\ Alive /\ CountExact /\ Locking /\ Reported
  BY DEF Inv
<1>1. Types'
  BY <1>0 DEF Select, peerVars, objVars, Ready, Types, Sock, Ctrl
<1>2. Queued'
  BY <1>0 DEF Select, peerVars, objVars, Ready, Queued, AtHead
<1>3. Alive'
  BY <1>0 DEF Select, peerVars, objVars, Ready, Alive, Open
<1>4. CountExact'
  BY <1>0 DEF Select, peerVars, objVars, Ready, CountExact, Open, Listed
<1>5. Locking'
  BY <1>0 DEF Select, peerVars, objVars, Ready, Locking
<1>6. Reported'
  <2>1. ASSUME NEW c \in Elements(mClients), mSocket[c] \in Ready PROVE Readable(c)
    <3>1. c \in Open /\ mSocket[c] \in Fds
      BY <1>0, ElementsType DEF Types, Alive, Open
    <3>2. mSocket[c] # Sock /\ mSocket[c] # Ctrl
      BY <3>1 DEF Sock, Ctrl
    <3>3. PICK d \in Open : mSocket[d] = mSocket[c] /\ Readable(d)
      BY <2>1, <3>2 DEF Ready
    <3>4. d = c
      BY <1>0, <3>1, <3>3 DEF Alive
    <3> QED
      BY <3>3, <3>4
  <2>2. Ready \subseteq readFds
    BY DEF Ready
  <2> QED
    BY <1>0, <2>1, <2>2 DEF Select, Reported, Readable, AtHead, peerVars, objVars
<1> QED
  BY <1>1, <1>2, <1>3, <1>4, <1>5, <1>6 DEF Inv

LEMMA AcceptStep ==
    ASSUME Inv, QuietStop, NEW c \in Peers, Accept(c)
    PROVE  Inv'
<1> USE BoundsAssumption
<1>0. Types /\ Queued /\ Alive /\ CountExact /\ Locking /\ Reported
  BY DEF Inv
<1>c. /\ c \notin Elements(mClients) /\ obj[c] = "none" /\ workers[c] = 0 /\ leaked[c] = 0
      /\ mClients \in Seq(Peers) /\ Elements(mClients) \subseteq Peers
      /\ pc = "accept" /\ pending = <<>> /\ bcast = 0
  <2>1. mClients \in Seq(Peers) /\ Elements(mClients) \subseteq Peers
    BY <1>0, ElementsType DEF Types
  <2>2. pc = "accept" /\ bcast = 0 /\ obj[c] = "none"
    BY DEF Accept, LockFree, Backlog
  <2>3. pending = <<>>
    BY <1>0, <2>2 DEF Queued
  <2>4. workers[c] = 0 /\ leaked[c] = 0
    <3>1. workers[c] \in Nat /\ leaked[c] \in Nat
      BY <1>0 DEF Types
    <3>2. ~(workers[c] > 0) /\ ~(leaked[c] > 0)
      BY <1>0, <2>2 DEF Alive
    <3> QED
      BY <3>1, <3>2
  <2>5. c \notin Elements(mClients)
    BY <1>0, <2>2 DEF Alive
  <2> QED
    BY <2>1, <2>2, <2>3, <2>4, <2>5
<1>m. /\ mClients' \in Seq(Peers) /\ Len(mClients') = Len(mClients) + 1
      /\ Elements(mClients') = Elements(mClients) \cup {c} /\ Distinct(mClients')
  BY <1>0, <1>c, AppendFacts DEF Accept, Queued
<1>f. PICK f \in FreeFds : mSocket' = [mSocket EXCEPT ![c] = f]
  BY DEF Accept
<1>g. f \in Fds /\ f # Sock /\ f # Ctrl /\ \A d \in Open : mSocket[d] # f
  BY <1>f DEF FreeFds, Sock, Ctrl
<1>o. Open' = Open \cup {c} /\ c \notin Open
  BY <1>0, <1>c DEF Accept, Open, Types
<1>1. Types'
  BY <1>0, <1>m, <1>f, <1>g DEF Accept, Types
<1>2. Queued'
  BY <1>0, <1>c, <1>m DEF Accept, Queued, AtHead, Elements
<1>3. Alive'
  <2>1. \A d \in Peers : obj'[d] = IF d = c THEN "live" ELSE obj[d]
    BY <1>0 DEF Accept, Types
  <2>2. \A d \in Peers : mSocket'[d] = IF d = c THEN f ELSE mSocket[d]
    BY <1>0, <1>f DEF Types
  <2>3. \A d \in Elements(mClients') : obj'[d] = "live"
    BY <1>0, <1>c, <1>m, <2>1 DEF Alive
  <2>4. \A d \in Peers : workers'[d] > 0 => obj'[d] = "live"
    BY <1>0, <2>1 DEF Accept, Alive
  <2>7. \A d \in Peers : leaked'[d] > 0 => obj'[d] # "none"
    BY <1>0, <2>1 DEF Accept, Alive
  <2>5. \A d \in Open' : mSocket'[d] \in Fds
    BY <1>0, <1>g, <1>o, <2>2 DEF Alive, Open
  <2>6. \A d, e \in Open' : mSocket'[d] = mSocket'[e] => d = e
    BY <1>0, <1>g, <1>o, <2>2 DEF Alive, Open
  <2> QED
    BY <2>3, <2>4, <2>5, <2>6, <2>7 DEF Alive
<1>4. CountExact'
  <2>1. \A d \in Peers : mRefCount'[d] = IF d = c THEN 1 ELSE mRefCount[d]
    BY <1>0 DEF Accept, Types
  <2>2. Listed(c)' /\ \A d \in Open : Listed(d)' <=> Listed(d)
    BY <1>c, <1>m, <1>o DEF Accept, Listed
  <2> QED
    BY <1>0, <1>c, <1>o, <2>1, <2>2 DEF Accept, CountExact, Open
<1>5. Locking'
  BY <1>0 DEF Accept, LockFree, Backlog, FreeFds, Locking
<1>6. Reported'
  <2>1. \A d \in Elements(mClients) : d # c /\ d \in Peers /\ mSocket'[d] = mSocket[d] /\ mSocket[d] # f
    BY <1>0, <1>c, <1>f, <1>g DEF Types, Alive, Open
  <2>2. f \notin readFds /\ mSocket'[c] = f
    <3>1. readFds \subseteq {Sock, Ctrl} \cup {mSocket[d] : d \in Elements(mClients)}
      BY <1>0, <1>c DEF Reported
    <3>2. mSocket'[c] = f
      BY <1>0, <1>f DEF Types
    <3> QED
      BY <1>g, <2>1, <3>1, <3>2
  <2>3. \A d \in Peers \ {c} : Readable(d)' <=> Readable(d)
    BY <1>0 DEF Accept, Readable, Types
  <2> QED
    BY <1>0, <1>c, <1>m, <2>1, <2>2, <2>3 DEF Accept, Reported, AtHead
<1> QED
  BY <1>1, <1>2, <1>3, <1>4, <1>5, <1>6 DEF Inv

LEMMA ScanStep ==
    ASSUME Inv, QuietStop, Scan
    PROVE  Inv'
<1>0. Types /\ Queued /\ Alive /\ CountExact /\ Locking /\ Reported
  BY DEF Inv
<1>s. /\ pending' \in Seq(Peers) /\ Distinct(pending')
      /\ Elements(pending') = Elements(mClients) \cap {c \in Peers : mSocket[c] \in readFds}
  BY <1>0, KeptFacts DEF Scan, Types, Queued
<1>1. Types'
  BY <1>0, <1>s DEF Scan, Types, peerVars, objVars
<1>2. Queued'
  BY <1>0, <1>s DEF Scan, Queued, AtHead
<1>3. Alive'
  BY <1>0 DEF Scan, peerVars, objVars, LockFree, Alive, Open
<1>4. CountExact'
  BY <1>0 DEF Scan, peerVars, objVars, LockFree, CountExact, Open, Listed
<1>5. Locking'
  BY <1>0 DEF Scan, peerVars, objVars, LockFree, Locking
<1>6. Reported'
  BY <1>0, <1>s DEF Scan, Reported, Readable, AtHead, peerVars, objVars
<1> QED
  BY <1>1, <1>2, <1>3, <1>4, <1>5, <1>6 DEF Inv

LEMMA ReadCommandStep ==
    ASSUME Inv, QuietStop, ReadCommand
    PROVE  Inv'
<1> USE BoundsAssumption
<1>0. Types /\ Queued /\ Alive /\ CountExact /\ Locking /\ Reported
  BY DEF Inv
<1>h. /\ Head(pending) \in Peers /\ Tail(pending) \in Seq(Peers)
      /\ obj[Head(pending)] = "live"
      /\ Elements(pending) = {Head(pending)} \cup Elements(Tail(pending))
      /\ Distinct(Tail(pending)) /\ Head(pending) \notin Elements(Tail(pending))
  BY <1>0, HeadFacts DEF Queued, AtHead, ReadCommand
<1>1. Types'
  <2>h. PICK h \in Peers : h = Head(pending)
    BY <1>h
  <2>1. data' = [data EXCEPT ![h] = data[h] - 1] /\ data[h] > 0
    BY <2>h DEF ReadCommand
  <2>2. data' \in [Peers -> 0..MaxData]
    BY <1>0, <2>1 DEF Types
  <2> QED
    BY <1>0, <2>2 DEF ReadCommand, Types, objVars
<1>2. Queued'
  BY <1>0 DEF ReadCommand, objVars, Queued, AtHead
<1>3. Alive'
  BY <1>0 DEF ReadCommand, objVars, Alive, Open
<1>4. CountExact'
  BY <1>0 DEF ReadCommand, objVars, CountExact, Open, Listed
<1>5. Locking'
  BY <1>0 DEF ReadCommand, objVars, Locking
<1>6. Reported'
  <2>1. \A c \in Peers \ {Head(pending)} : Readable(c)' <=> Readable(c)
    BY <1>0, <1>h DEF ReadCommand, Readable, Types
  <2> QED
    BY <1>0, <1>h, <2>1, ElementsType DEF ReadCommand, Reported, AtHead
<1> QED
  BY <1>1, <1>2, <1>3, <1>4, <1>5, <1>6 DEF Inv

LEMMA AnswerStep ==
    ASSUME Inv, QuietStop, Answer
    PROVE  Inv'
<1>0. Types /\ Queued /\ Alive /\ CountExact /\ Locking /\ Reported
  BY DEF Inv
<1>h. /\ Head(pending) \in Peers /\ Tail(pending) \in Seq(Peers)
      /\ obj[Head(pending)] = "live"
      /\ Elements(pending) = {Head(pending)} \cup Elements(Tail(pending))
      /\ Distinct(Tail(pending)) /\ Head(pending) \notin Elements(Tail(pending))
  BY <1>0, HeadFacts DEF Queued, AtHead, Answer
<1>1. Types'
  <2>h. PICK h \in Peers : h = Head(pending)
    BY <1>h
  <2>1. CanSend(h) /\ SendMsg(h)
    BY <2>h DEF Answer
  <2>2. replies' \in [Peers -> 0..Buffer]
    BY <1>0, <2>1, SendMsgType
  <2> QED
    BY <1>0, <1>h, <2>2 DEF Answer, Types, objVars
<1>2. Queued'
  BY <1>0, <1>h DEF Answer, Queued, AtHead, objVars
<1>3. Alive'
  BY <1>0 DEF Answer, objVars, SendMsg, CanSend, Alive, Open
<1>4. CountExact'
  BY <1>0 DEF Answer, objVars, SendMsg, CanSend, CountExact, Open, Listed
<1>5. Locking'
  BY <1>0 DEF Answer, objVars, SendMsg, CanSend, Locking
<1>6. Reported'
  BY <1>0 DEF Answer, objVars, SendMsg, CanSend, Reported, Readable, AtHead
<1> QED
  BY <1>1, <1>2, <1>3, <1>4, <1>5, <1>6 DEF Inv

LEMMA RunBroadcastStep ==
    ASSUME Inv, QuietStop, RunBroadcast
    PROVE  Inv'
<1>0. Types /\ Queued /\ Alive /\ CountExact /\ Locking /\ Reported
  BY DEF Inv
<1>1. Types'
  BY <1>0 DEF RunBroadcast, peerVars, objVars, LockFree, Types
<1>2. Queued'
  BY <1>0 DEF RunBroadcast, peerVars, objVars, LockFree, Queued, AtHead
<1>3. Alive'
  BY <1>0 DEF RunBroadcast, peerVars, objVars, LockFree, Alive, Open
<1>4. CountExact'
  BY <1>0 DEF RunBroadcast, peerVars, objVars, LockFree, CountExact, Open, Listed
<1>5. Locking'
  BY <1>0 DEF RunBroadcast, peerVars, objVars, LockFree, Locking
<1>6. Reported'
  BY <1>0 DEF RunBroadcast, peerVars, objVars, LockFree, Reported, Readable, AtHead
<1> QED
  BY <1>1, <1>2, <1>3, <1>4, <1>5, <1>6 DEF Inv

LEMMA BroadcastReturnsStep ==
    ASSUME Inv, QuietStop, BroadcastReturns
    PROVE  Inv'
<1>0. Types /\ Queued /\ Alive /\ CountExact /\ Locking /\ Reported
  BY DEF Inv
<1>h. /\ Head(pending) \in Peers /\ Tail(pending) \in Seq(Peers)
      /\ obj[Head(pending)] = "live"
      /\ Elements(pending) = {Head(pending)} \cup Elements(Tail(pending))
      /\ Distinct(Tail(pending)) /\ Head(pending) \notin Elements(Tail(pending))
  BY <1>0, HeadFacts DEF Queued, AtHead, BroadcastReturns
<1>1. Types'
  BY <1>0, <1>h DEF BroadcastReturns, Types, peerVars, objVars
<1>2. Queued'
  BY <1>0, <1>h DEF BroadcastReturns, Queued, AtHead, objVars
<1>3. Alive'
  BY <1>0 DEF BroadcastReturns, peerVars, objVars, Alive, Open
<1>4. CountExact'
  BY <1>0 DEF BroadcastReturns, peerVars, objVars, CountExact, Open, Listed
<1>5. Locking'
  BY <1>0 DEF BroadcastReturns, peerVars, objVars, Locking
<1>6. Reported'
  BY <1>0 DEF BroadcastReturns, peerVars, objVars, Reported, Readable, AtHead
<1> QED
  BY <1>1, <1>2, <1>3, <1>4, <1>5, <1>6 DEF Inv

LEMMA StartWorkerStep ==
    ASSUME Inv, QuietStop, StartWorker
    PROVE  Inv'
<1> USE BoundsAssumption
<1>0. Types /\ Queued /\ Alive /\ CountExact /\ Locking /\ Reported
  BY DEF Inv
<1>h. /\ Head(pending) \in Peers /\ Tail(pending) \in Seq(Peers)
      /\ obj[Head(pending)] = "live"
      /\ Elements(pending) = {Head(pending)} \cup Elements(Tail(pending))
      /\ Distinct(Tail(pending)) /\ Head(pending) \notin Elements(Tail(pending))
  BY <1>0, HeadFacts DEF Queued, AtHead, StartWorker
<1>1. Types'
  <2>h. PICK h \in Peers : h = Head(pending)
    BY <1>h
  <2>1. mRefCount[h] = workers[h] + leaked[h] + 1 /\ workers[h] < MaxWorkers
    BY <1>0, <1>h, <2>h DEF StartWorker, CountExact, Open, Listed, Queued, AtHead
  <2>2. /\ mRefCount' = [mRefCount EXCEPT ![h] = mRefCount[h] + 1]
        /\ workers' = [workers EXCEPT ![h] = workers[h] + 1]
    BY <2>h DEF StartWorker
  <2>n. /\ mRefCount[h] \in Nat /\ mRefCount \in [Peers -> 0..(MaxWorkers + MaxFailed + 1)]
        /\ workers[h] \in 0..MaxWorkers /\ leaked[h] \in 0..MaxFailed
        /\ workers \in [Peers -> 0..MaxWorkers]
    BY <1>0, <2>h DEF Types
  <2>3. mRefCount' \in [Peers -> 0..(MaxWorkers + MaxFailed + 1)]
    <3>1. mRefCount[h] + 1 \in 0..(MaxWorkers + MaxFailed + 1)
      BY <2>n, <2>1
    <3> QED
      BY <3>1, <2>n, <2>2
  <2>4. workers' \in [Peers -> 0..MaxWorkers]
    BY <2>n, <2>1, <2>2
  <2> QED
    BY <1>0, <1>h, <2>3, <2>4 DEF StartWorker, Types, peerVars
<1>2. Queued'
  BY <1>0, <1>h DEF StartWorker, Queued, AtHead, objVars
<1>3. Alive'
  BY <1>0, <1>h DEF StartWorker, Types, Alive, Open, peerVars
<1>4. CountExact'
  <2>h. PICK h \in Peers : h = Head(pending)
    BY <1>h
  <2>1. /\ mRefCount' = [mRefCount EXCEPT ![h] = mRefCount[h] + 1]
        /\ workers' = [workers EXCEPT ![h] = workers[h] + 1]
    BY <2>h DEF StartWorker
  <2>2. \A c \in Peers : /\ mRefCount'[c] = mRefCount[c] + (IF c = h THEN 1 ELSE 0)
                         /\ workers'[c] = workers[c] + (IF c = h THEN 1 ELSE 0)
                         /\ mRefCount[c] \in Nat /\ workers[c] \in Nat /\ leaked[c] \in Nat
    BY <1>0, <2>1 DEF Types
  <2>3. \A c \in Peers : Listed(c)' <=> Listed(c)
    BY DEF StartWorker, Listed
  <2>4. Open' = Open /\ leaked' = leaked
    BY DEF StartWorker, Open
  <2> QED
    BY <1>0, <2>2, <2>3, <2>4 DEF CountExact, Open
<1>5. Locking'
  BY <1>0 DEF StartWorker, peerVars, Locking
<1>6. Reported'
  BY <1>0 DEF StartWorker, peerVars, Reported, Readable, AtHead
<1> QED
  BY <1>1, <1>2, <1>3, <1>4, <1>5, <1>6 DEF Inv

LEMMA StartFailsStep ==
    ASSUME Inv, QuietStop, StartFails
    PROVE  Inv'
<1> USE BoundsAssumption
<1>0. Types /\ Queued /\ Alive /\ CountExact /\ Locking /\ Reported
  BY DEF Inv
<1>h. /\ Head(pending) \in Peers /\ Tail(pending) \in Seq(Peers)
      /\ obj[Head(pending)] = "live"
      /\ Elements(pending) = {Head(pending)} \cup Elements(Tail(pending))
      /\ Distinct(Tail(pending)) /\ Head(pending) \notin Elements(Tail(pending))
  BY <1>0, HeadFacts DEF Queued, AtHead, StartFails
<1>1. Types'
  <2>h. PICK h \in Peers : h = Head(pending)
    BY <1>h
  <2>1. mRefCount[h] = workers[h] + leaked[h] + 1 /\ leaked[h] < MaxFailed
    BY <1>0, <1>h, <2>h DEF StartFails, CountExact, Open, Listed, Queued, AtHead
  <2>2. /\ mRefCount' = [mRefCount EXCEPT ![h] = mRefCount[h] + 1]
        /\ leaked' = [leaked EXCEPT ![h] = leaked[h] + 1]
    BY <2>h DEF StartFails
  <2>n. /\ mRefCount[h] \in Nat /\ mRefCount \in [Peers -> 0..(MaxWorkers + MaxFailed + 1)]
        /\ workers[h] \in 0..MaxWorkers /\ leaked[h] \in 0..MaxFailed
        /\ leaked \in [Peers -> 0..MaxFailed]
    BY <1>0, <2>h DEF Types
  <2>3. mRefCount' \in [Peers -> 0..(MaxWorkers + MaxFailed + 1)]
    <3>1. mRefCount[h] + 1 \in 0..(MaxWorkers + MaxFailed + 1)
      BY <2>n, <2>1
    <3> QED
      BY <3>1, <2>n, <2>2
  <2>4. leaked' \in [Peers -> 0..MaxFailed]
    BY <2>n, <2>1, <2>2
  <2> QED
    BY <1>0, <1>h, <2>3, <2>4 DEF StartFails, Types, peerVars
<1>2. Queued'
  BY <1>0, <1>h DEF StartFails, Queued, AtHead, objVars
<1>3. Alive'
  BY <1>0, <1>h DEF StartFails, Types, Alive, Open, peerVars
<1>4. CountExact'
  <2>h. PICK h \in Peers : h = Head(pending)
    BY <1>h
  <2>1. /\ mRefCount' = [mRefCount EXCEPT ![h] = mRefCount[h] + 1]
        /\ leaked' = [leaked EXCEPT ![h] = leaked[h] + 1]
    BY <2>h DEF StartFails
  <2>2. \A c \in Peers : /\ mRefCount'[c] = mRefCount[c] + (IF c = h THEN 1 ELSE 0)
                         /\ leaked'[c] = leaked[c] + (IF c = h THEN 1 ELSE 0)
                         /\ mRefCount[c] \in Nat /\ workers[c] \in Nat /\ leaked[c] \in Nat
    BY <1>0, <2>1 DEF Types
  <2>3. \A c \in Peers : Listed(c)' <=> Listed(c)
    BY DEF StartFails, Listed
  <2>4. Open' = Open /\ workers' = workers
    BY DEF StartFails, Open
  <2> QED
    BY <1>0, <2>2, <2>3, <2>4 DEF CountExact, Open
<1>5. Locking'
  BY <1>0 DEF StartFails, peerVars, Locking
<1>6. Reported'
  BY <1>0 DEF StartFails, peerVars, Reported, Readable, AtHead
<1> QED
  BY <1>1, <1>2, <1>3, <1>4, <1>5, <1>6 DEF Inv

LEMMA ReadEndStep ==
    ASSUME Inv, QuietStop, ReadEnd
    PROVE  Inv'
<1>0. Types /\ Queued /\ Alive /\ CountExact /\ Locking /\ Reported
  BY DEF Inv
<1>h. /\ Head(pending) \in Peers /\ Tail(pending) \in Seq(Peers)
      /\ obj[Head(pending)] = "live"
      /\ Elements(pending) = {Head(pending)} \cup Elements(Tail(pending))
      /\ Distinct(Tail(pending)) /\ Head(pending) \notin Elements(Tail(pending))
  BY <1>0, HeadFacts DEF Queued, AtHead, ReadEnd
<1>1. Types'
  BY <1>0 DEF ReadEnd, peerVars, objVars, Types
<1>2. Queued'
  BY <1>0 DEF ReadEnd, peerVars, objVars, Queued, AtHead
<1>3. Alive'
  BY <1>0 DEF ReadEnd, peerVars, objVars, Alive, Open
<1>4. CountExact'
  BY <1>0 DEF ReadEnd, peerVars, objVars, CountExact, Open, Listed
<1>5. Locking'
  BY <1>0 DEF ReadEnd, peerVars, objVars, Locking
<1>6. Reported'
  BY <1>0, <1>h DEF ReadEnd, Reported, Readable, AtHead, peerVars
<1> QED
  BY <1>1, <1>2, <1>3, <1>4, <1>5, <1>6 DEF Inv

LEMMA ZapStep ==
    ASSUME Inv, QuietStop, Zap
    PROVE  Inv'
<1>0. Types /\ Queued /\ Alive /\ CountExact /\ Locking /\ Reported
  BY DEF Inv
<1>h. /\ Head(pending) \in Peers /\ Tail(pending) \in Seq(Peers)
      /\ obj[Head(pending)] = "live"
      /\ Elements(pending) = {Head(pending)} \cup Elements(Tail(pending))
      /\ Distinct(Tail(pending)) /\ Head(pending) \notin Elements(Tail(pending))
  BY <1>0, HeadFacts DEF Queued, AtHead, Zap
<1>m. /\ mClients' \in Seq(Peers) /\ Distinct(mClients')
      /\ Elements(mClients') = Elements(mClients) \ {Head(pending)}
  BY <1>0, WithoutFacts DEF Zap, Types, Queued
<1>1. Types'
  BY <1>0, <1>m DEF Zap, Types, peerVars, objVars
<1>2. Queued'
  BY <1>0, <1>h, <1>m DEF Zap, Queued, AtHead, objVars
<1>3. Alive'
  BY <1>0, <1>m DEF Zap, Alive, Open, objVars
<1>4. CountExact'
  <2>1. \A c \in Peers : Listed(c)' <=> Listed(c)
    BY <1>0, <1>h, <1>m DEF Zap, Listed, Queued
  <2> QED
    BY <1>0, <2>1 DEF Zap, CountExact, Open, objVars
<1>5. Locking'
  BY <1>0 DEF Zap, peerVars, objVars, LockFree, Locking
<1>6. Reported'
  BY <1>0 DEF Zap, peerVars, objVars, LockFree, Reported, Readable, AtHead
<1> QED
  BY <1>1, <1>2, <1>3, <1>4, <1>5, <1>6 DEF Inv

LEMMA DerefStep ==
    ASSUME Inv, QuietStop, Deref
    PROVE  Inv'
<1>0. Types /\ Queued /\ Alive /\ CountExact /\ Locking /\ Reported
  BY DEF Inv
<1>h. /\ Head(pending) \in Peers /\ Tail(pending) \in Seq(Peers)
      /\ obj[Head(pending)] = "live"
      /\ Elements(pending) = {Head(pending)} \cup Elements(Tail(pending))
      /\ Distinct(Tail(pending)) /\ Head(pending) \notin Elements(Tail(pending))
  BY <1>0, HeadFacts DEF Queued, AtHead, Deref
<1>d. /\ obj' \in [Peers -> {"none", "live", "freed"}]
      /\ mRefCount' \in [Peers -> 0..(MaxWorkers + MaxFailed + 1)]
      /\ mSocket' = mSocket /\ leaked' = leaked
      /\ mRefCount'[Head(pending)] = mRefCount[Head(pending)] - 1
      /\ obj'[Head(pending)] = IF mRefCount[Head(pending)] = 1 THEN "freed" ELSE "live"
      /\ \A d \in Peers \ {Head(pending)} : obj'[d] = obj[d] /\ mRefCount'[d] = mRefCount[d]
  BY <1>0, <1>h, DecRefFacts DEF Deref
<1>e. /\ Head(pending) \notin Elements(mClients)
      /\ Elements(mClients) \subseteq Peers
      /\ mRefCount[Head(pending)] = workers[Head(pending)] + leaked[Head(pending)] + 1
  BY <1>0, <1>h, ElementsType DEF Deref, Types, Queued, CountExact, Open, Listed
<1>1. Types'
  BY <1>0, <1>h, <1>d DEF Deref, Types, peerVars
<1>2. Queued'
  BY <1>0, <1>h DEF Deref, Queued, AtHead
<1>3. Alive'
  <2>1. \A c \in Elements(mClients) : obj'[c] = "live"
    BY <1>0, <1>d, <1>e DEF Alive
  <2>2. \A c \in Peers : workers[c] > 0 => obj'[c] = "live"
    <3> SUFFICES ASSUME NEW c \in Peers, workers[c] > 0 PROVE obj'[c] = "live"
      OBVIOUS
    <3>1. workers[c] \in Nat /\ leaked[c] \in Nat
      BY <1>0 DEF Types
    <3>2. CASE c = Head(pending)
      <4>1. mRefCount[c] # 1
        BY <1>e, <3>1, <3>2
      <4> QED
        BY <1>d, <3>2, <4>1
    <3>3. CASE c # Head(pending)
      BY <1>0, <1>d, <3>3 DEF Alive
    <3> QED
      BY <3>2, <3>3
  <2>3. Open' \subseteq Open
    BY <1>h, <1>d DEF Open
  <2>6. \A c \in Peers : leaked[c] > 0 => obj'[c] # "none"
    BY <1>0, <1>d DEF Alive
  <2> QED
    BY <1>0, <1>d, <2>1, <2>2, <2>3, <2>6 DEF Deref, Alive
<1>4. CountExact'
  <2>1. \A c \in Peers \ {Head(pending)} : Listed(c)' <=> Listed(c)
    BY DEF Deref, Listed
  <2>2. ASSUME NEW c, c = Head(pending) PROVE ~Listed(c)'
    BY <1>e, <2>2 DEF Deref, Listed
  <2>3. \A c \in Open' : c \in Open /\ (c = Head(pending) => mRefCount[c] # 1)
    BY <1>h, <1>d DEF Open
  <2>4. \A c \in Peers : mRefCount[c] \in Nat /\ workers[c] \in Nat /\ leaked[c] \in Nat
    BY <1>0 DEF Types
  <2>5. ASSUME NEW c \in Open'
        PROVE  /\ mRefCount'[c] = workers[c] + leaked[c] + (IF Listed(c)' THEN 1 ELSE 0)
               /\ mRefCount'[c] > 0
    <3>1. c \in Peers /\ c \in Open
      BY <2>3 DEF Open
    <3>2. CASE c = Head(pending)
      <4>1. /\ mRefCount'[c] = workers[c] + leaked[c] /\ mRefCount[c] # 1
            /\ mRefCount[c] = workers[c] + leaked[c] + 1
        BY <1>d, <1>e, <2>3, <2>4, <3>1, <3>2
      <4>2. ~Listed(c)'
        BY <2>2, <3>2
      <4> QED
        BY <2>4, <3>1, <4>1, <4>2
    <3>3. CASE c # Head(pending)
      BY <1>0, <1>d, <2>1, <3>1, <3>3 DEF CountExact
    <3> QED
      BY <3>2, <3>3
  <2> QED
    BY <1>d, <2>5 DEF Deref, CountExact
<1>5. Locking'
  BY <1>0 DEF Deref, peerVars, DecRef, Locking
<1>6. Reported'
  BY <1>0 DEF Deref, peerVars, DecRef, Reported, Readable, AtHead
<1> QED
  BY <1>1, <1>2, <1>3, <1>4, <1>5, <1>6 DEF Inv

LEMMA PassDoneStep ==
    ASSUME Inv, QuietStop, PassDone
    PROVE  Inv'
<1>0. Types /\ Queued /\ Alive /\ CountExact /\ Locking /\ Reported
  BY DEF Inv
<1>1. Types'
  BY <1>0 DEF PassDone, peerVars, objVars, Types
<1>2. Queued'
  BY <1>0 DEF PassDone, peerVars, objVars, Queued, AtHead
<1>3. Alive'
  BY <1>0 DEF PassDone, peerVars, objVars, Alive, Open
<1>4. CountExact'
  BY <1>0 DEF PassDone, peerVars, objVars, CountExact, Open, Listed
<1>5. Locking'
  BY <1>0 DEF PassDone, peerVars, objVars, Locking
<1>6. Reported'
  BY <1>0 DEF PassDone, peerVars, objVars, Reported, Readable, AtHead
<1> QED
  BY <1>1, <1>2, <1>3, <1>4, <1>5, <1>6 DEF Inv

LEMMA SelectFailsStep ==
    ASSUME Inv, QuietStop, SelectFails
    PROVE  Inv'
<1>0. Types /\ Queued /\ Alive /\ CountExact /\ Locking /\ Reported
  BY DEF Inv
<1>1. Types'
  BY <1>0 DEF SelectFails, peerVars, objVars, Types
<1>2. Queued'
  BY <1>0 DEF SelectFails, peerVars, objVars, Queued, AtHead
<1>3. Alive'
  BY <1>0 DEF SelectFails, peerVars, objVars, Alive, Open
<1>4. CountExact'
  BY <1>0 DEF SelectFails, peerVars, objVars, CountExact, Open, Listed
<1>5. Locking'
  BY <1>0 DEF SelectFails, peerVars, objVars, Locking
<1>6. Reported'
  BY <1>0 DEF SelectFails, peerVars, objVars, Reported, Readable, AtHead
<1> QED
  BY <1>1, <1>2, <1>3, <1>4, <1>5, <1>6 DEF Inv

LEMMA AcceptFailsStep ==
    ASSUME Inv, QuietStop, AcceptFails
    PROVE  Inv'
<1>0. Types /\ Queued /\ Alive /\ CountExact /\ Locking /\ Reported
  BY DEF Inv
<1>1. Types'
  BY <1>0 DEF AcceptFails, peerVars, objVars, Types
<1>2. Queued'
  BY <1>0 DEF AcceptFails, peerVars, objVars, Queued, AtHead
<1>3. Alive'
  BY <1>0 DEF AcceptFails, peerVars, objVars, Alive, Open
<1>4. CountExact'
  BY <1>0 DEF AcceptFails, peerVars, objVars, CountExact, Open, Listed
<1>5. Locking'
  BY <1>0 DEF AcceptFails, peerVars, objVars, Locking
<1>6. Reported'
  BY <1>0 DEF AcceptFails, peerVars, objVars, Reported, Readable, AtHead
<1> QED
  BY <1>1, <1>2, <1>3, <1>4, <1>5, <1>6 DEF Inv

LEMMA ConnectStep ==
    ASSUME Inv, QuietStop, NEW c \in Peers, Connect(c)
    PROVE  Inv'
<1>0. Types /\ Queued /\ Alive /\ CountExact /\ Locking /\ Reported
  BY DEF Inv
<1>1. Types'
  BY <1>0 DEF Connect, objVars, threadVars, Types
<1>2. Queued'
  BY <1>0 DEF Connect, objVars, threadVars, Queued, AtHead
<1>3. Alive'
  BY <1>0 DEF Connect, objVars, threadVars, Alive, Open
<1>4. CountExact'
  BY <1>0 DEF Connect, objVars, threadVars, CountExact, Open, Listed
<1>5. Locking'
  BY <1>0 DEF Connect, objVars, threadVars, Locking
<1>6. Reported'
  BY <1>0 DEF Connect, objVars, threadVars, Reported, Readable, AtHead
<1> QED
  BY <1>1, <1>2, <1>3, <1>4, <1>5, <1>6 DEF Inv

LEMMA SendCommandStep ==
    ASSUME Inv, QuietStop, NEW c \in Peers, SendCommand(c)
    PROVE  Inv'
<1> USE BoundsAssumption
<1>0. Types /\ Queued /\ Alive /\ CountExact /\ Locking /\ Reported
  BY DEF Inv
<1>1. Types'
  BY <1>0 DEF SendCommand, objVars, threadVars, Types
<1>2. Queued'
  BY <1>0 DEF SendCommand, objVars, threadVars, Queued, AtHead
<1>3. Alive'
  BY <1>0 DEF SendCommand, objVars, threadVars, Alive, Open
<1>4. CountExact'
  BY <1>0 DEF SendCommand, objVars, threadVars, CountExact, Open, Listed
<1>5. Locking'
  BY <1>0 DEF SendCommand, objVars, threadVars, Locking
<1>6. Reported'
  <2>1. \A d \in Peers : Readable(d) => Readable(d)'
    BY <1>0 DEF SendCommand, Readable, Types
  <2>2. Elements(mClients) \subseteq Peers /\ Elements(pending) \subseteq Peers
    BY <1>0, ElementsType DEF Types
  <2>3. AtHead => Elements(Tail(pending)) \subseteq Elements(pending)
    BY <1>0, HeadFacts DEF Queued
  <2> QED
    BY <1>0, <2>1, <2>2, <2>3 DEF SendCommand, Reported, AtHead, objVars, threadVars
<1> QED
  BY <1>1, <1>2, <1>3, <1>4, <1>5, <1>6 DEF Inv

LEMMA ReadReplyStep ==
    ASSUME Inv, QuietStop, NEW c \in Peers, ReadReply(c)
    PROVE  Inv'
<1> USE BoundsAssumption
<1>0. Types /\ Queued /\ Alive /\ CountExact /\ Locking /\ Reported
  BY DEF Inv
<1>1. Types'
  BY <1>0 DEF ReadReply, objVars, threadVars, Types, Sock, Ctrl, Queued, AtHead
<1>2. Queued'
  BY <1>0 DEF ReadReply, objVars, threadVars, Queued, AtHead
<1>3. Alive'
  BY <1>0 DEF ReadReply, objVars, threadVars, Alive, Open
<1>4. CountExact'
  BY <1>0 DEF ReadReply, objVars, threadVars, CountExact, Open, Listed
<1>5. Locking'
  BY <1>0 DEF ReadReply, objVars, threadVars, Locking
<1>6. Reported'
  BY <1>0 DEF ReadReply, objVars, threadVars, Reported, Readable, AtHead
<1> QED
  BY <1>1, <1>2, <1>3, <1>4, <1>5, <1>6 DEF Inv

LEMMA HangupStep ==
    ASSUME Inv, QuietStop, NEW c \in Peers, Hangup(c)
    PROVE  Inv'
<1> USE BoundsAssumption
<1>0. Types /\ Queued /\ Alive /\ CountExact /\ Locking /\ Reported
  BY DEF Inv
<1>1. Types'
  BY <1>0 DEF Hangup, objVars, threadVars, Types, Sock, Ctrl, Queued, AtHead
<1>2. Queued'
  BY <1>0 DEF Hangup, objVars, threadVars, Queued, AtHead
<1>3. Alive'
  BY <1>0 DEF Hangup, objVars, threadVars, Alive, Open
<1>4. CountExact'
  BY <1>0 DEF Hangup, objVars, threadVars, CountExact, Open, Listed
<1>5. Locking'
  BY <1>0 DEF Hangup, objVars, threadVars, Locking
<1>6. Reported'
  BY <1>0 DEF Hangup, objVars, threadVars, Reported, Readable, AtHead
<1> QED
  BY <1>1, <1>2, <1>3, <1>4, <1>5, <1>6 DEF Inv

LEMMA WorkerDoneStep ==
    ASSUME Inv, QuietStop, NEW c \in Peers, WorkerDone(c)
    PROVE  Inv'
<1> USE BoundsAssumption
<1>0. Types /\ Queued /\ Alive /\ CountExact /\ Locking /\ Reported
  BY DEF Inv
<1>h. obj[c] = "live" /\ workers[c] > 0
  BY <1>0 DEF WorkerDone, Alive
<1>d. /\ obj' \in [Peers -> {"none", "live", "freed"}]
      /\ mRefCount' \in [Peers -> 0..(MaxWorkers + MaxFailed + 1)]
      /\ mSocket' = mSocket /\ leaked' = leaked
      /\ mRefCount'[c] = mRefCount[c] - 1
      /\ obj'[c] = IF mRefCount[c] = 1 THEN "freed" ELSE "live"
      /\ \A d \in Peers \ {c} : obj'[d] = obj[d] /\ mRefCount'[d] = mRefCount[d]
  BY <1>0, <1>h, DecRefFacts DEF WorkerDone
<1>e. /\ \A d \in Peers : mRefCount[d] \in Nat /\ workers[d] \in Nat /\ leaked[d] \in Nat
      /\ \A d \in Peers : workers'[d] = workers[d] - (IF d = c THEN 1 ELSE 0)
      /\ workers' \in [Peers -> 0..MaxWorkers]
      /\ mRefCount[c] = workers[c] + leaked[c] + (IF Listed(c) THEN 1 ELSE 0)
      /\ Elements(mClients) \subseteq Peers
  <2>1. /\ \A d \in Peers : mRefCount[d] \in Nat /\ workers[d] \in Nat /\ leaked[d] \in Nat
        /\ workers \in [Peers -> 0..MaxWorkers] /\ mClients \in Seq(Peers)
    BY <1>0 DEF Types
  <2>2. workers' = [workers EXCEPT ![c] = workers[c] - 1]
    BY DEF WorkerDone
  <2>3. mRefCount[c] = workers[c] + leaked[c] + (IF Listed(c) THEN 1 ELSE 0)
    BY <1>0, <1>h DEF CountExact, Open
  <2> QED
    BY <1>h, <2>1, <2>2, <2>3, ElementsType
<1>l. \A d \in Peers : Listed(d)' <=> Listed(d)
  BY DEF WorkerDone, Listed, threadVars
<1>1. Types'
  <2>1. replies' \in [Peers -> 0..Buffer]
    BY <1>0, SendMsgType DEF WorkerDone
  <2> QED
    BY <1>0, <1>d, <1>e, <2>1 DEF WorkerDone, Types, threadVars
<1>2. Queued'
  <2>1. pc = "deref" => obj'[Head(pending)] = "live"
    <3> SUFFICES ASSUME pc = "deref" PROVE obj'[Head(pending)] = "live"
      OBVIOUS
    <3>1. Head(pending) \in Peers /\ obj[Head(pending)] = "live" /\ Listed(Head(pending))
      BY <1>0, HeadFacts DEF Queued, AtHead, Listed
    <3> QED
      BY <1>h, <1>d, <1>e, <3>1
  <2> QED
    BY <1>0, <2>1 DEF WorkerDone, Queued, AtHead, threadVars
<1>3. Alive'
  <2>1. \A d \in Elements(mClients) : obj'[d] = "live"
    BY <1>0, <1>h, <1>d, <1>e DEF Alive, Listed
  <2>2. \A d \in Peers : workers'[d] > 0 => obj'[d] = "live"
    BY <1>0, <1>h, <1>d, <1>e DEF Alive
  <2>3. Open' \subseteq Open
    BY <1>h, <1>d DEF Open
  <2>6. \A d \in Peers : leaked[d] > 0 => obj'[d] # "none"
    BY <1>0, <1>d DEF Alive
  <2> QED
    BY <1>0, <1>d, <2>1, <2>2, <2>3, <2>6 DEF WorkerDone, Alive
<1>4. CountExact'
  <2>1. \A d \in Open' : d \in Peers /\ d \in Open /\ (d = c => mRefCount[d] # 1)
    BY <1>h, <1>d DEF Open
  <2>2. ASSUME NEW d \in Open'
        PROVE  /\ mRefCount'[d] = workers'[d] + leaked'[d] + (IF Listed(d)' THEN 1 ELSE 0)
               /\ mRefCount'[d] > 0
    BY <1>0, <1>d, <1>e, <1>l, <2>1 DEF CountExact
  <2> QED
    BY <2>2 DEF CountExact
<1>5. Locking'
  BY <1>0 DEF WorkerDone, threadVars, SendMsg, CanSend, DecRef, Locking
<1>6. Reported'
  BY <1>0 DEF WorkerDone, threadVars, SendMsg, CanSend, DecRef, Reported, Readable, AtHead
<1> QED
  BY <1>1, <1>2, <1>3, <1>4, <1>5, <1>6 DEF Inv

LEMMA BroadcastStep ==
    ASSUME Inv, QuietStop, Broadcast
    PROVE  Inv'
<1>0. Types /\ Queued /\ Alive /\ CountExact /\ Locking /\ Reported
  BY DEF Inv
<1>1. Types'
  BY <1>0 DEF Broadcast, peerVars, objVars, threadVars, LockFree, Types
<1>2. Queued'
  BY <1>0 DEF Broadcast, peerVars, objVars, threadVars, LockFree, Queued, AtHead
<1>3. Alive'
  BY <1>0 DEF Broadcast, peerVars, objVars, threadVars, LockFree, Alive, Open
<1>4. CountExact'
  BY <1>0 DEF Broadcast, peerVars, objVars, threadVars, LockFree, CountExact, Open, Listed
<1>5. Locking'
  BY <1>0 DEF Broadcast, peerVars, objVars, threadVars, LockFree, Locking
<1>6. Reported'
  BY <1>0 DEF Broadcast, peerVars, objVars, threadVars, LockFree, Reported, Readable, AtHead
<1> QED
  BY <1>1, <1>2, <1>3, <1>4, <1>5, <1>6 DEF Inv

LEMMA BroadcastSendStep ==
    ASSUME Inv, QuietStop, BroadcastSend
    PROVE  Inv'
<1>0. Types /\ Queued /\ Alive /\ CountExact /\ Locking /\ Reported
  BY DEF Inv
<1>b. bcast \in 1..Len(mClients)
  BY <1>0 DEF BroadcastSend, Types
<1>c. mClients[bcast] \in Peers
  BY <1>0, <1>b DEF Types
<1>1. Types'
  <2>1. replies' \in [Peers -> 0..Buffer]
    BY <1>0, <1>c, SendMsgType DEF BroadcastSend
  <2>2. bcast' \in Nat
    BY <1>b DEF BroadcastSend
  <2> QED
    BY <1>0, <2>1, <2>2 DEF BroadcastSend, Types, objVars, threadVars
<1>2. Queued'
  BY <1>0 DEF BroadcastSend, objVars, threadVars, SendMsg, CanSend, Queued, AtHead
<1>3. Alive'
  BY <1>0 DEF BroadcastSend, objVars, threadVars, SendMsg, CanSend, Alive, Open
<1>4. CountExact'
  BY <1>0 DEF BroadcastSend, objVars, threadVars, SendMsg, CanSend, CountExact, Open, Listed
<1>5. Locking'
  <2>1. Len(mClients) \in Nat /\ bcast' = bcast + 1
    BY <1>0 DEF BroadcastSend, Types
  <2> QED
    BY <1>0, <1>b, <2>1 DEF BroadcastSend, Locking, threadVars
<1>6. Reported'
  BY <1>0 DEF BroadcastSend, objVars, threadVars, SendMsg, CanSend, Reported, Readable,
     AtHead
<1> QED
  BY <1>1, <1>2, <1>3, <1>4, <1>5, <1>6 DEF Inv

LEMMA BroadcastDoneStep ==
    ASSUME Inv, QuietStop, BroadcastDone
    PROVE  Inv'
<1>0. Types /\ Queued /\ Alive /\ CountExact /\ Locking /\ Reported
  BY DEF Inv
<1>1. Types'
  BY <1>0 DEF BroadcastDone, peerVars, objVars, threadVars, Types
<1>2. Queued'
  BY <1>0 DEF BroadcastDone, peerVars, objVars, threadVars, Queued, AtHead
<1>3. Alive'
  BY <1>0 DEF BroadcastDone, peerVars, objVars, threadVars, Alive, Open
<1>4. CountExact'
  BY <1>0 DEF BroadcastDone, peerVars, objVars, threadVars, CountExact, Open, Listed
<1>5. Locking'
  BY <1>0 DEF BroadcastDone, peerVars, objVars, threadVars, Locking
<1>6. Reported'
  BY <1>0 DEF BroadcastDone, peerVars, objVars, threadVars, Reported, Readable, AtHead
<1> QED
  BY <1>1, <1>2, <1>3, <1>4, <1>5, <1>6 DEF Inv

LEMMA StopListenerStep ==
    ASSUME Inv, QuietStop, StopListener
    PROVE  Inv'
<1>0. Types /\ Queued /\ Alive /\ CountExact /\ Locking /\ Reported
  BY DEF Inv
<1>1. Types'
  BY <1>0 DEF StopListener, peerVars, objVars, threadVars, Types
<1>2. Queued'
  BY <1>0 DEF StopListener, peerVars, objVars, threadVars, Queued, AtHead
<1>3. Alive'
  BY <1>0 DEF StopListener, peerVars, objVars, threadVars, Alive, Open
<1>4. CountExact'
  BY <1>0 DEF StopListener, peerVars, objVars, threadVars, CountExact, Open, Listed
<1>5. Locking'
  BY <1>0 DEF StopListener, peerVars, objVars, threadVars, Locking
<1>6. Reported'
  BY <1>0 DEF StopListener, peerVars, objVars, threadVars, Reported, Readable, AtHead
<1> QED
  BY <1>1, <1>2, <1>3, <1>4, <1>5, <1>6 DEF Inv

LEMMA StopDeletesStep ==
    ASSUME Inv, QuietStop, StopDeletes
    PROVE  Inv'
<1>0. Types /\ Queued /\ Alive /\ CountExact /\ Locking /\ Reported
  BY DEF Inv
<1>1. Types'
  BY <1>0 DEF StopDeletes, peerVars, threadVars, LockFree, Types
<1>2. Queued'
  BY <1>0 DEF StopDeletes, peerVars, threadVars, LockFree, Queued, AtHead
<1>3. Alive'
  <2>1. \A c \in Peers : workers'[c] = 0
    BY DEF StopDeletes
  <2>2. Elements(mClients') = {}
    BY DEF StopDeletes, Elements
  <2>3. Open' \subseteq Open
    BY DEF StopDeletes, Open
  <2>4. \A c \in Peers : leaked'[c] > 0 => obj'[c] # "none"
    BY <1>0 DEF StopDeletes, Alive
  <2> QED
    <3>1. mSocket' = mSocket /\ \A c \in Peers : ~(workers'[c] > 0)
      BY <2>1 DEF StopDeletes
    <3> QED
      BY <1>0, <2>2, <2>3, <2>4, <3>1 DEF Alive
<1>4. CountExact'
  <2>1. \A c \in Open' : c \in Open /\ c \notin Elements(mClients)
    BY DEF StopDeletes, Open
  <2>2. /\ mRefCount' = mRefCount /\ workers' = workers /\ leaked' = leaked
        /\ pc = "done" /\ pc' = "done" /\ Elements(mClients') = {}
    BY DEF StopDeletes, threadVars, Elements
  <2>3. \A c \in Open' : ~Listed(c) /\ ~Listed(c)'
    BY <2>1, <2>2 DEF Listed
  <2> QED
    BY <1>0, <2>1, <2>2, <2>3 DEF CountExact
<1>5. Locking'
  BY <1>0 DEF StopDeletes, peerVars, threadVars, LockFree, Locking
<1>6. Reported'
  BY <1>0 DEF StopDeletes, peerVars, threadVars, LockFree, Reported, Readable, AtHead
<1> QED
  BY <1>1, <1>2, <1>3, <1>4, <1>5, <1>6 DEF Inv


-----------------------------------------------------------------------------
(* The theorems                                                            *)

LEMMA InvInit == Init => Inv
<1> SUFFICES ASSUME Init PROVE Inv
  OBVIOUS
<1> USE BoundsAssumption DEF Init
<1>1. Types
  BY DEF Types, Sock, Ctrl
<1>2. Queued /\ Elements(mClients) = {} /\ Elements(pending) = {}
  BY DEF Queued, AtHead, Distinct, Elements
<1>3. Alive /\ CountExact
  BY <1>2 DEF Alive, CountExact, Open
<1>4. Locking /\ Reported
  BY <1>2 DEF Locking, Reported, AtHead
<1> QED
  BY <1>1, <1>2, <1>3, <1>4 DEF Inv

LEMMA InvNext ==
    ASSUME QuietStop, Inv, [Next]_vars
    PROVE  Inv'
<1>1. CASE Next
  BY <1>1, BuildSetStep, SelectStep, AcceptStep, ScanStep, ReadCommandStep, AnswerStep,
     RunBroadcastStep, BroadcastReturnsStep, StartWorkerStep, ReadEndStep, ZapStep, DerefStep,
     PassDoneStep, SelectFailsStep, AcceptFailsStep, StartFailsStep, ConnectStep, SendCommandStep,
     ReadReplyStep, HangupStep, WorkerDoneStep, BroadcastStep, BroadcastSendStep,
     BroadcastDoneStep, StopListenerStep, StopDeletesStep DEF Next, Listener
<1>2. CASE UNCHANGED vars
  BY <1>2 DEF vars, peerVars, objVars, threadVars, Inv, Types, Queued, Alive, CountExact, Locking,
              Reported, AtHead, Readable, Open, Listed
<1> QED
  BY <1>1, <1>2

\* A broadcast is within the list, which has each peer once at most.
LEMMA InvClients ==
    ASSUME Inv
    PROVE  ClientsInv /\ NeverBlocksInRead
<1>0. Types /\ Queued /\ Alive /\ CountExact /\ Locking /\ Reported
  BY DEF Inv
<1>1. Elements(mClients) \subseteq Peers /\ Elements(pending) \subseteq Peers
  BY <1>0, ElementsType DEF Types
<1>2. bcast \in 0..(Cardinality(Peers) + 1)
  <2>1. Len(mClients) = Cardinality(Elements(mClients))
    BY <1>0, DistinctLen DEF Types, Queued
  <2>2. Cardinality(Elements(mClients)) <= Cardinality(Peers) /\ Cardinality(Peers) \in Nat
    BY <1>1, BoundsAssumption, FS_Subset, FS_CardinalityType
  <2>3. Len(mClients) \in Nat
    BY <1>0 DEF Types
  <2> QED
    BY <1>0, <2>1, <2>2, <2>3 DEF Types, Locking
<1>3. TypeOK
  BY <1>0, <1>2 DEF Types, TypeOK
<1>4. \A c \in Elements(pending) : obj[c] = "live"
  <2>1. CASE pending = <<>>
    BY <2>1 DEF Elements
  <2>2. CASE pending # <<>>
    BY <1>0, <2>2, HeadFacts DEF Queued, Alive
  <2> QED
    BY <2>1, <2>2
<1>5. NoFreedUse
  BY <1>0, <1>4 DEF NoFreedUse, Held, Alive
<1>6. NeverBlocksInRead
  BY <1>0 DEF NeverBlocksInRead, Reported
<1> QED
  BY <1>0, <1>3, <1>5, <1>6 DEF ClientsInv

\* No thread uses a client that was deleted, every count is exact (a thread that was not
\* created keeps its reference for good) and no two
\* live clients share a descriptor, however broadcasts, workers, hangups and
\* the listener interleave, provided stopListener runs when no worker and no
\* broadcast does (SocketClient::decRef, SocketListener.cpp:228).
THEOREM ClientsCorrect == ASSUME QuietStop PROVE Spec => []ClientsInv
<1>1. Init => Inv
  BY InvInit
<1>2. Inv /\ [Next]_vars => Inv'
  BY InvNext
<1>3. Inv => ClientsInv
  BY InvClients
<1> QED
  BY <1>1, <1>2, <1>3, PTL DEF Spec

\* The thread that serves every client never blocks in the read of one: what
\* select reported stays readable until the listener reads it, and the
\* descriptor of a client accepted meanwhile is none of those reported.
THEOREM ListenerNeverBlocks == ASSUME QuietStop PROVE Spec => []NeverBlocksInRead
<1>1. Init => Inv
  BY InvInit
<1>2. Inv /\ [Next]_vars => Inv'
  BY InvNext
<1>3. Inv => NeverBlocksInRead
  BY InvClients
<1> QED
  BY <1>1, <1>2, <1>3, PTL DEF Spec
=============================================================================
