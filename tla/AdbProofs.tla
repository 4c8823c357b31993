------------------------------ MODULE AdbProofs ------------------------------
(***************************************************************************)
(* Proofs about adb, for any number of ids, packets, losses of the         *)
(* connection and restarts of adbd, as long as the host process lives:     *)
(*                                                                         *)
(*   - the sockets of AdbSockets stay sound;                               *)
(*   - what follows from the promise of AdbStream;                         *)
(*   - the invariant Carried of the streams, and the changes of sockets,   *)
(*     channels and data that keep it. AdbStreamProofs shows from these    *)
(*     that AdbSockets implements AdbStream.                               *)
(***************************************************************************)
EXTENDS AdbSockets, ListTheorems, TLAPS

-----------------------------------------------------------------------------
(* Channels *)

\* Something of A is under way; at most once; each of B comes after one of A.
Has(c, A) == Elements(c) \cap A # {}
AtMostOne(c, A) == \A m, n \in DOMAIN c : c[m] \in A /\ c[n] \in A => m = n
Before(c, A, B) == \A n \in DOMAIN c : c[n] \in B => \E m \in DOMAIN c : m < n /\ c[m] \in A

\* A packet is added at the end.
LEMMA PushFacts ==
  ASSUME NEW P, NEW c \in Seq(P), NEW p \in P
  PROVE  /\ Append(c, p) \in Seq(P) /\ Elements(Append(c, p)) = Elements(c) \cup {p}
         /\ \A A : AtMostOne(c, A) /\ (p \in A => ~Has(c, A)) => AtMostOne(Append(c, p), A)
         /\ \A A, B : Before(c, A, B) /\ (p \in B => Has(c, A)) => Before(Append(c, p), A, B)
<1> DEFINE d == Append(c, p)
           n == Len(c)
<1>1. d \in Seq(P) /\ Elements(d) = Elements(c) \cup {p}
  BY AppendFacts
<1>2. /\ n \in Nat /\ DOMAIN c = 1..n /\ DOMAIN d = 1..(n + 1) /\ d[n + 1] = p
      /\ \A k \in 1..n : d[k] = c[k]
  OBVIOUS
<1> HIDE DEF d, n
<1>3. \A k \in 1..(n + 1) : k \in 1..n \/ k = n + 1
  BY <1>2
<1>4. \A k \in 1..n : k \in 1..(n + 1) /\ k < n + 1
  BY <1>2
<1>5. ASSUME NEW A, AtMostOne(c, A), p \in A => ~Has(c, A) PROVE AtMostOne(d, A)
  BY <1>2, <1>3, <1>5 DEF AtMostOne, Has, Elements
<1>6. ASSUME NEW A, NEW B, Before(c, A, B), p \in B => Has(c, A) PROVE Before(d, A, B)
  <2> SUFFICES ASSUME NEW k \in 1..(n + 1), d[k] \in B
               PROVE  \E m \in 1..(n + 1) : m < k /\ d[m] \in A
    BY <1>2 DEF Before
  <2>1. CASE k \in 1..n
    <3>1. PICK m \in 1..n : m < k /\ c[m] \in A
      BY <1>2, <1>6, <2>1 DEF Before
    <3> QED
      BY <1>2, <1>4, <3>1
  <2>2. CASE k = n + 1
    <3>1. PICK m \in 1..n : c[m] \in A
      BY <1>2, <1>6, <2>2 DEF Has, Elements
    <3> QED
      BY <1>2, <1>4, <2>2, <3>1
  <2> QED
    BY <1>3, <2>1, <2>2
<1> QED
  BY <1>1, <1>5, <1>6 DEF d

\* The first packet is taken.
LEMMA PopFacts ==
  ASSUME NEW P, NEW c \in Seq(P), c # <<>>
  PROVE  /\ Head(c) \in P /\ Tail(c) \in Seq(P)
         /\ Elements(c) = {Head(c)} \cup Elements(Tail(c))
         /\ \A A : AtMostOne(c, A) => AtMostOne(Tail(c), A) /\ (Head(c) \in A => ~Has(Tail(c), A))
         /\ \A A, B : Before(c, A, B) => Head(c) \notin B /\ (Head(c) \notin A => Before(Tail(c), A, B))
<1> DEFINE d == Tail(c)
           n == Len(c)
<1>1. Head(c) \in P /\ d \in Seq(P) /\ Elements(c) = {Head(c)} \cup Elements(d)
  BY TailFacts
<1>2. /\ n \in Nat /\ n >= 1 /\ DOMAIN c = 1..n /\ DOMAIN d = 1..(n - 1) /\ Head(c) = c[1]
      /\ \A k \in 1..(n - 1) : d[k] = c[k + 1]
  BY HeadTailProperties, EmptySeq
<1> HIDE DEF d, n
<1>3. \A k \in 1..(n - 1) : k + 1 \in 1..n /\ k + 1 # 1 /\ 1 \in 1..n
  BY <1>2
<1>4. ASSUME NEW A, AtMostOne(c, A) PROVE AtMostOne(d, A) /\ (Head(c) \in A => ~Has(d, A))
  <2>1. \A k, m \in 1..(n - 1) : k + 1 = m + 1 => k = m
    BY <1>2
  <2>2. AtMostOne(d, A)
    BY <1>2, <1>3, <1>4, <2>1 DEF AtMostOne
  <2>3. Head(c) \in A => ~Has(d, A)
    BY <1>2, <1>3, <1>4 DEF AtMostOne, Has, Elements
  <2> QED
    BY <2>2, <2>3
<1>5. ASSUME NEW A, NEW B, Before(c, A, B) PROVE Head(c) \notin B
  <2>1. 1 \in 1..n /\ \A m \in 1..n : ~(m < 1)
    BY <1>2
  <2> QED
    BY <1>2, <1>5, <2>1 DEF Before
<1>6. ASSUME NEW A, NEW B, Before(c, A, B), Head(c) \notin A PROVE Before(d, A, B)
  <2> SUFFICES ASSUME NEW k \in 1..(n - 1), d[k] \in B
               PROVE  \E m \in 1..(n - 1) : m < k /\ d[m] \in A
    BY <1>2 DEF Before
  <2>1. PICK m \in 1..n : m < k + 1 /\ c[m] \in A
    BY <1>2, <1>3, <1>6 DEF Before
  <2>2. m # 1
    BY <1>2, <1>6, <2>1
  <2>3. m - 1 \in 1..(n - 1) /\ m - 1 < k /\ (m - 1) + 1 = m
    BY <1>2, <2>1, <2>2
  <2> QED
    BY <1>2, <2>1, <2>3
<1> QED
  BY <1>1, <1>4, <1>5, <1>6 DEF d

\* The connection is lost: what is left of the channel is a prefix.
LEMMA CutFacts ==
  ASSUME NEW P, NEW c \in Seq(P), NEW h \in Prefixes(c)
  PROVE  /\ h \in Seq(P) /\ Elements(h) \subseteq Elements(c)
         /\ \A A : AtMostOne(c, A) => AtMostOne(h, A)
         /\ \A A, B : Before(c, A, B) => Before(h, A, B)
<1>1. PICK l \in 0..Len(c) : h = SubSeq(c, 1, l)
  BY DEF Prefixes
<1>2. /\ Len(c) \in Nat /\ DOMAIN c = 1..Len(c) /\ DOMAIN h = 1..l /\ h \in Seq(P)
      /\ \A k \in 1..l : h[k] = c[k]
  BY <1>1
<1>3. \A k \in 1..l : k \in 1..Len(c)
  BY <1>2
<1>4. Elements(h) \subseteq Elements(c)
  BY <1>2, <1>3 DEF Elements
<1>5. \A A : AtMostOne(c, A) => AtMostOne(h, A)
  BY <1>2, <1>3 DEF AtMostOne
<1>6. ASSUME NEW A, NEW B, Before(c, A, B) PROVE Before(h, A, B)
  <2> SUFFICES ASSUME NEW k \in 1..l, h[k] \in B PROVE \E m \in 1..l : m < k /\ h[m] \in A
    BY <1>2, Zenon DEF Before
  <2>1. PICK m \in 1..Len(c) : m < k /\ c[m] \in A
    BY <1>2, <1>3, <1>6 DEF Before
  <2>2. m \in 1..l
    BY <1>2, <2>1
  <2> QED
    BY <1>2, <2>1, <2>2
<1> QED
  BY <1>2, <1>4, <1>5, <1>6

\* Appending to the second of two lists appends to the whole.
LEMMA AppendConcat ==
  ASSUME NEW P, NEW c \in Seq(P), NEW d \in Seq(P), NEW p \in P
  PROVE  c \o Append(d, p) = Append(c \o d, p)
<1>1. /\ c \o Append(d, p) \in Seq(P) /\ Append(c \o d, p) \in Seq(P)
      /\ Len(c \o Append(d, p)) = Len(c) + Len(d) + 1 /\ Len(Append(c \o d, p)) = Len(c) + Len(d) + 1
      /\ Len(c) \in Nat /\ Len(d) \in Nat
  OBVIOUS
<1>2. ASSUME NEW k \in 1..(Len(c) + Len(d) + 1)
      PROVE  (c \o Append(d, p))[k] = Append(c \o d, p)[k]
  <2>1. CASE k \in 1..Len(c)
    BY <1>1, <2>1
  <2>2. CASE k > Len(c) /\ k <= Len(c) + Len(d)
    BY <1>1, <2>2
  <2>3. CASE k = Len(c) + Len(d) + 1
    BY <1>1, <2>3
  <2> QED
    BY <1>1, <2>1, <2>2, <2>3
<1> QED
  BY <1>1, <1>2

-----------------------------------------------------------------------------
(* What the handlers work on. A view is the part of the state the invariants *)
(* are about; the view of process e's handler has w for the process and c    *)
(* for the packets it has yet to take.                                       *)

Worlds == [sock : [Ids -> Sockets], next : Nat \ {0}, sent : [Ends -> Seq(Data)],
           rcvd : [Ends -> Seq(Data)], fin : [Ends -> Promise!Fins],
           out : Seq(Packets), freed : BOOLEAN]

Views == [sock : [Procs -> [Ids -> Sockets]], next : [Procs -> Nat \ {0}],
          chan : [Procs -> Seq(Packets)], sent : [Ends -> Seq(Data)],
          rcvd : [Ends -> Seq(Data)], fin : [Ends -> Promise!Fins], link : BOOLEAN,
          state : [Procs -> {"offline", "connected"}], online : [Procs -> BOOLEAN],
          leaving : [Procs -> BOOLEAN]]

V == [sock |-> sock, next |-> next, chan |-> chan, sent |-> sent, rcvd |-> rcvd, fin |-> fin,
      link |-> link, state |-> state, online |-> online, leaving |-> leaving]

View(e, w, c) ==
  [sock |-> [sock EXCEPT ![e] = w.sock], next |-> [next EXCEPT ![e] = w.next],
   chan |-> [chan EXCEPT ![e] = c, ![Other(e)] = IF link THEN @ \o w.out ELSE @],
   sent |-> w.sent, rcvd |-> w.rcvd, fin |-> w.fin,
   link |-> link, state |-> state, online |-> online, leaving |-> leaving]

-----------------------------------------------------------------------------
(* The values *)

IsRemote(p) == \E k \in Ids : p = Remote(k)
IsLocal(p) == \E k \in Ids : p = Local(k)

\* The four kinds of a peer exclude each other, and a peer has one id.
LEMMA PeerKinds ==
  /\ None \in Peers /\ Smart \in Peers /\ None # Smart
  /\ \A k \in Ids : Remote(k) \in Peers /\ Local(k) \in Peers
  /\ \A p \in Peers : p = None \/ p = Smart \/ IsRemote(p) \/ IsLocal(p)
  /\ \A k : Remote(k) \notin {None, Smart} /\ Local(k) \notin {None, Smart}
  /\ \A k, m : Remote(k) # Local(m)
  /\ \A k, m : (Remote(k) = Remote(m) \/ Local(k) = Local(m)) => k = m
<1>1. /\ None \in Peers /\ Smart \in Peers /\ \A k \in Ids : Remote(k) \in Peers /\ Local(k) \in Peers
      /\ \A p \in Peers : p = None \/ p = Smart \/ IsRemote(p) \/ IsLocal(p)
  BY DEF Peers, IsRemote, IsLocal
<1>2. None # Smart
  BY DEF None, Smart
<1>3. ASSUME NEW k
      PROVE  Remote(k) \notin {None, Smart} /\ Local(k) \notin {None, Smart}
  BY DEF None, Smart, Remote, Local
<1>4. ASSUME NEW k, NEW m
      PROVE  /\ Remote(k) # Local(m)
             /\ (Remote(k) = Remote(m) \/ Local(k) = Local(m)) => k = m
  BY DEF Remote, Local
<1> QED
  BY <1>1, <1>2, <1>3, <1>4, Zenon

\* What the code reads of a peer.
LEMMA PeerParts ==
  ASSUME NEW p \in Peers
  PROVE  /\ p[1] = "remote" <=> IsRemote(p)
         /\ p[1] = "local" <=> IsLocal(p)
         /\ \A k \in Ids : (p = Remote(k) \/ p = Local(k)) => p[2] = k
<1>1. /\ None[1] = "none" /\ Smart[1] = "smart"
      /\ \A k \in Ids : /\ Remote(k)[1] = "remote" /\ Local(k)[1] = "local"
                        /\ Remote(k)[2] = k /\ Local(k)[2] = k
  BY DEF None, Smart, Remote, Local
<1>2. CASE p = None
  BY <1>1, <1>2, PeerKinds DEF IsRemote, IsLocal
<1>3. CASE p = Smart
  BY <1>1, <1>3, PeerKinds DEF IsRemote, IsLocal
<1>4. ASSUME NEW k \in Ids, p = Remote(k) PROVE /\ p[1] = "remote" /\ IsRemote(p) /\ ~IsLocal(p) /\ p[2] = k
  BY <1>1, <1>4, PeerKinds DEF IsRemote, IsLocal
<1>5. ASSUME NEW k \in Ids, p = Local(k) PROVE /\ p[1] = "local" /\ IsLocal(p) /\ ~IsRemote(p) /\ p[2] = k
  BY <1>1, <1>5, PeerKinds DEF IsRemote, IsLocal
<1>6. p = None \/ p = Smart \/ IsRemote(p) \/ IsLocal(p)
  BY PeerKinds
<1> QED
  BY <1>2, <1>3, <1>4, <1>5, <1>6 DEF IsRemote, IsLocal

Sync == [cmd |-> "SYNC"]
Cnxn == [cmd |-> "CNXN"]
OkaysTo(i) == {p \in Packets : p.cmd = "OKAY" /\ p.arg1 = i}
WrtesTo(i) == {p \in Packets : p.cmd = "WRTE" /\ p.arg1 = i}

\* What the packets carry.
LEMMA PacketFacts ==
  /\ Sync \in Packets /\ Cnxn \in Packets /\ Sync.cmd = "SYNC" /\ Cnxn.cmd = "CNXN"
  /\ \A p \in Packets :
       /\ p.cmd \in {"SYNC", "CNXN", "OPEN", "OKAY", "CLSE", "WRTE"}
       /\ p.cmd = "SYNC" => p = Sync
       /\ p.cmd = "CNXN" => p = Cnxn
       /\ p.cmd = "OPEN" => p.arg0 \in Ids /\ p.end \in Ends
       /\ p.cmd = "OKAY" => p.arg0 \in Ids /\ p.arg1 \in Ids
       /\ p.cmd = "CLSE" => p.arg1 \in Ids
       /\ p.cmd = "WRTE" => p.arg0 \in Ids /\ p.arg1 \in Ids /\ p.data \in Data
  BY DEF Packets, Sync, Cnxn

\* The packets the handlers send.
LEMMA SentPackets ==
  /\ \A i, k \in Ids : [cmd |-> "OKAY", arg0 |-> i, arg1 |-> k] \in Packets
  /\ \A i \in Ids : [cmd |-> "CLSE", arg0 |-> 0, arg1 |-> i] \in Packets
  /\ \A i \in Ids, x \in Ends : [cmd |-> "OPEN", arg0 |-> i, end |-> x] \in Packets
  /\ \A i, k \in Ids, d \in Data :
       [cmd |-> "WRTE", arg0 |-> i, arg1 |-> k, data |-> d] \in Packets
  BY DEF Packets

\* The two processes and their ids.
LEMMA ProcFacts ==
  /\ Other("host") = "device" /\ Other("device") = "host"
  /\ \A e \in Procs : Other(e) \in Procs /\ Other(e) # e /\ \A f \in Procs : f = e \/ f = Other(e)
  BY DEF Other, Procs

-----------------------------------------------------------------------------
(* The invariant of the sockets, without the data. *)

\* A socket that is open: what its peer says about it.
LiveOK(e, s) ==
  /\ s.evs \subseteq s.want
  /\ "W" \in s.want => s.pkts # <<>>
  /\ s.peer = None => s.transport /\ s.pkts = <<>> /\ s.want = {}
  /\ s.peer = Smart => s.pkts = <<>>
  /\ IsLocal(s.peer) => ~s.transport
  /\ IsRemote(s.peer) => e = "device" \/ s.transport
  /\ e = "device" => IsRemote(s.peer)

SocketOK(e, s) ==
  /\ s.st # "live" => s.peer = None
  /\ s.st \in {"none", "gone"} => s.want = {} /\ s.evs = {}
  /\ s.st \in {"live", "closing"} => s.end \in Ends
  /\ s.st = "live" => LiveOK(e, s)

SocketsOK(v) ==
  \A e \in Procs, i \in Ids : /\ SocketOK(e, v.sock[e][i])
                              /\ i >= v.next[e] => v.sock[e][i].st = "none"

\* Two sockets of the host are each other's peers.
PairsOK(v) ==
  \A i, m \in Ids : v.sock["host"][i].peer = Local(m) =>
    i # m /\ v.sock["host"][m].peer = Local(i)

\* Only sockets that went to the transport are known to the other side.
Known(v, j) == /\ v.sock["host"][j].st # "none"
               /\ v.sock["host"][j].st = "live" =>
                    v.sock["host"][j].transport /\ v.sock["host"][j].peer # Smart
KnownOK(v) ==
  /\ \A j, k \in Ids : v.sock["device"][k].peer = Remote(j) => Known(v, j)
  /\ \A p \in Elements(v.chan["host"]) :
       p.cmd # "OPEN" /\ (p.cmd \in {"OKAY", "WRTE"} => Known(v, p.arg1))
  /\ \A p \in Elements(v.chan["device"]) : p.cmd \in {"OPEN", "OKAY", "WRTE"} => Known(v, p.arg0)

\* A socket that waits for its first OKAY gets it before any data.
OrderOK(v) ==
  \A j \in Ids :
    v.sock["host"][j].st = "live" /\ v.sock["host"][j].peer = None =>
      /\ Before(v.chan["host"], OkaysTo(j), WrtesTo(j))
      /\ \A k \in Ids : v.link /\ v.sock["device"][k].peer = Remote(j) =>
           Has(v.chan["host"], OkaysTo(j))

\* The end of a connection: SYNC is the last packet, and a process that is
\* offline has sockets over the transport only until the input thread leaves.
SyncLast(c) == \A n \in DOMAIN c : c[n] = Sync => n = Len(c)
LinkOK(v, e) ==
  /\ v.state[e] = "connected" <=> v.online[e]
  /\ v.link => Sync \notin Elements(v.chan[e]) /\ ~v.leaving[e]
  /\ SyncLast(v.chan[e])
  /\ ~v.link /\ v.chan[e] # <<>> => Sync \in Elements(v.chan[e])
  /\ ~v.link /\ v.chan[e] = <<>> => v.state[e] = "offline"
  /\ v.leaving[e] => v.chan[e] = <<>>
  /\ v.state[e] = "offline" =>
       \A i \in Ids : /\ ~IsRemote(v.sock[e][i].peer)
                      /\ v.sock[e][i].st = "live" /\ v.sock[e][i].transport => v.leaving[e]

Sound(v) ==
  /\ v \in Views
  /\ SocketsOK(v) /\ PairsOK(v) /\ KnownOK(v) /\ OrderOK(v)
  /\ \A e \in Procs : LinkOK(v, e)

-----------------------------------------------------------------------------
(* The steps the handlers are made of keep it. *)

SameRest(v, v2) == /\ v2.link = v.link /\ v2.state = v.state /\ v2.online = v.online
                   /\ v2.leaving = v.leaving
OneSocket(v, v2, e, i, t) ==
  v2.sock[e][i] = t /\ \A f \in Procs, k \in Ids : f # e \/ k # i => v2.sock[f][k] = v.sock[f][k]

\* What a view is made of has its type.
LEMMA ViewFacts ==
  ASSUME NEW v \in Views
  PROVE  /\ \A e \in Procs : /\ v.next[e] \in Nat \ {0} /\ v.chan[e] \in Seq(Packets)
                             /\ v.state[e] \in {"offline", "connected"}
                             /\ v.online[e] \in BOOLEAN /\ v.leaving[e] \in BOOLEAN
                             /\ v.sock[e] \in [Ids -> Sockets]
                             /\ \A i \in Ids : v.sock[e][i] \in Sockets
         /\ v.sent \in [Ends -> Seq(Data)] /\ v.rcvd \in [Ends -> Seq(Data)]
         /\ v.fin \in [Ends -> Promise!Fins] /\ v.link \in BOOLEAN
         /\ v.sock \in [Procs -> [Ids -> Sockets]] /\ v.next \in [Procs -> Nat \ {0}]
         /\ v.chan \in [Procs -> Seq(Packets)]
         /\ "host" \in Procs /\ "device" \in Procs
  BY DEF Views, Procs

\* A socket changes, but neither its state nor its peer. Only a client of the
\* smart socket may get the transport, while the device is connected.
LEMMA TouchKeeps ==
  ASSUME NEW v, NEW v2 \in Views, Sound(v), NEW e \in Procs, NEW i \in Ids, NEW t,
         SameRest(v, v2), v2.next = v.next, v2.chan = v.chan, OneSocket(v, v2, e, i, t),
         t.st = v.sock[e][i].st, t.peer = v.sock[e][i].peer,
         t.transport = v.sock[e][i].transport \/ (t.peer = Smart /\ v.state[e] = "connected"),
         SocketOK(e, t)
  PROVE  Sound(v2)
<1>1. \A f \in Procs, k \in Ids :
        /\ v2.sock[f][k].st = v.sock[f][k].st /\ v2.sock[f][k].peer = v.sock[f][k].peer
        /\ \/ v2.sock[f][k].transport = v.sock[f][k].transport
           \/ v.sock[f][k].peer = Smart /\ v.state[f] = "connected"
        /\ v2.sock[f][k] = v.sock[f][k] \/ (f = e /\ v2.sock[f][k] = t)
  BY DEF OneSocket
<1>2. "host" \in Procs /\ "device" \in Procs
  BY DEF Procs
<1>3. SocketsOK(v2)
  BY <1>1 DEF Sound, SocketsOK
<1>4. PairsOK(v2)
  BY <1>1, <1>2 DEF Sound, PairsOK
<1>5. \A j \in Ids : Known(v, j) => Known(v2, j)
  BY <1>1, <1>2 DEF Known
<1>6. \A f \in Procs : \A p \in Elements(v.chan[f]) : p \in Packets
  BY ElementsType, ViewFacts DEF Sound
<1>7. KnownOK(v2)
  BY <1>1, <1>2, <1>5, <1>6, PacketFacts DEF Sound, KnownOK
<1>8. OrderOK(v2)
  BY <1>1, <1>2 DEF Sound, OrderOK, SameRest
<1>9. \A f \in Procs : LinkOK(v2, f)
  BY <1>1 DEF Sound, LinkOK, SameRest
<1> QED
  BY <1>3, <1>4, <1>7, <1>8, <1>9 DEF Sound

\* Sockets of one process die, in pairs where they are in pairs.
Deaths(v, v2, e, D) ==
  \A f \in Procs, k \in Ids :
    /\ f # e \/ k \notin D => v2.sock[f][k] = v.sock[f][k]
    /\ f = e /\ k \in D => /\ v2.sock[f][k].st \in {"closing", "gone"}
                           /\ v.sock[f][k].st # "none" /\ SocketOK(e, v2.sock[f][k])
                           /\ \A m \in Ids : v.sock[f][k].peer = Local(m) => m \in D

\* The deaths of whole pairs of sockets keep the others sound.
LEMMA DeathsKeep ==
  ASSUME NEW v, NEW v2 \in Views, Sound(v), NEW e \in Procs, NEW D,
         SameRest(v, v2), v2.next = v.next, v2.chan = v.chan, Deaths(v, v2, e, D)
  PROVE  Sound(v2)
<1>1. \A f \in Procs, k \in Ids :
        v2.sock[f][k] = v.sock[f][k]
        \/ /\ f = e /\ k \in D /\ v2.sock[f][k].st \in {"closing", "gone"}
           /\ v2.sock[f][k].peer = None /\ v.sock[f][k].st # "none" /\ SocketOK(e, v2.sock[f][k])
  BY DEF SocketOK, Deaths
<1>2. "host" \in Procs /\ "device" \in Procs
  BY DEF Procs
<1>3. SocketsOK(v2)
  BY <1>1 DEF Sound, SocketsOK
<1>4. PairsOK(v2)
  <2> SUFFICES ASSUME NEW i \in Ids, NEW m \in Ids, v2.sock["host"][i].peer = Local(m)
               PROVE  i # m /\ v2.sock["host"][m].peer = Local(i)
    BY DEF PairsOK
  <2>1. v2.sock["host"][i] = v.sock["host"][i]
    BY <1>1, <1>2, PeerKinds
  <2>2. i # m /\ v.sock["host"][m].peer = Local(i)
    BY <2>1 DEF Sound, PairsOK
  <2>3. ~(e = "host" /\ i \in D)
    BY <1>2, <2>1, PeerKinds DEF SocketOK, Deaths
  <2>4. v2.sock["host"][m] = v.sock["host"][m]
    BY <1>2, <2>2, <2>3 DEF Deaths
  <2> QED
    BY <2>2, <2>4
<1>5. \A j \in Ids : Known(v, j) => Known(v2, j)
  BY <1>1, <1>2 DEF Known
<1>6. \A f \in Procs : \A p \in Elements(v.chan[f]) : p \in Packets
  BY ElementsType, ViewFacts DEF Sound
<1>6a. \A f \in Procs, j, k \in Ids : v2.sock[f][k].peer = Remote(j) => v.sock[f][k].peer = Remote(j)
  BY <1>1, PeerKinds
<1>7. KnownOK(v2)
  BY <1>6a, <1>2, <1>5, <1>6, PacketFacts DEF Sound, KnownOK
<1>8. OrderOK(v2)
  BY <1>1, <1>2, <1>6a DEF Sound, OrderOK, SameRest
<1>9. \A f \in Procs : LinkOK(v2, f)
  BY <1>1, <1>6a DEF Sound, LinkOK, SameRest, IsRemote
<1> QED
  BY <1>3, <1>4, <1>7, <1>8, <1>9 DEF Sound

\* A packet is sent to process f, over a connection that exists.
LEMMA PushKeeps ==
  ASSUME NEW v, NEW v2 \in Views, Sound(v), NEW f \in Procs, NEW p \in Packets,
         SameRest(v, v2), v2.next = v.next, v2.sock = v.sock, v.link,
         v2.chan = [v.chan EXCEPT ![f] = Append(@, p)],
         p.cmd # "SYNC",
         f = "host" => /\ p.cmd # "OPEN"
                       /\ p.cmd \in {"OKAY", "WRTE"} => Known(v, p.arg1)
                       /\ p.cmd = "WRTE" => \E k \in Ids : v.sock["device"][k].peer = Remote(p.arg1),
         f = "device" /\ p.cmd \in {"OPEN", "OKAY", "WRTE"} => Known(v, p.arg0)
  PROVE  Sound(v2)
<1>1. /\ v2.chan[f] = Append(v.chan[f], p) /\ v.chan[f] \in Seq(Packets)
      /\ \A g \in Procs : g # f => v2.chan[g] = v.chan[g]
      /\ "host" \in Procs /\ "device" \in Procs /\ "host" # "device"
  BY ViewFacts DEF Sound
<1> DEFINE c == v.chan[f]
           d == Append(c, p)
<1>2. /\ d \in Seq(Packets) /\ Elements(d) = Elements(c) \cup {p}
      /\ \A A, B : Before(c, A, B) /\ (p \in B => Has(c, A)) => Before(d, A, B)
  BY <1>1, PushFacts
<1>3. \A A : Has(c, A) => Has(d, A)
  BY <1>2 DEF Has
<1>4. d # <<>>
  BY <1>1
<1> HIDE DEF c, d
<1>5. SocketsOK(v2) /\ PairsOK(v2)
  BY DEF Sound, SocketsOK, PairsOK
<1>6. \A j \in Ids : Known(v, j) <=> Known(v2, j)
  BY DEF Known
<1>7. \A g \in Procs : \A q \in Elements(v.chan[g]) : q \in Packets
  BY ElementsType, ViewFacts DEF Sound
<1>8. KnownOK(v2)
  <2>1. \A j, k \in Ids : v2.sock["device"][k].peer = Remote(j) => Known(v2, j)
    BY <1>6 DEF Sound, KnownOK
  <2>2. ASSUME NEW q \in Elements(v2.chan["host"])
        PROVE  q.cmd # "OPEN" /\ (q.cmd \in {"OKAY", "WRTE"} => Known(v2, q.arg1))
    <3>1. q \in Packets /\ (q \in Elements(v.chan["host"]) \/ (f = "host" /\ q = p))
      BY <1>1, <1>2, <1>7, <2>2 DEF c, d
    <3> QED
      BY <1>6, <3>1, PacketFacts DEF Sound, KnownOK
  <2>3. ASSUME NEW q \in Elements(v2.chan["device"]), q.cmd \in {"OPEN", "OKAY", "WRTE"}
        PROVE  Known(v2, q.arg0)
    <3>1. q \in Packets /\ (q \in Elements(v.chan["device"]) \/ (f = "device" /\ q = p))
      BY <1>1, <1>2, <1>7, <2>3 DEF c, d
    <3> QED
      BY <1>6, <2>3, <3>1, PacketFacts DEF Sound, KnownOK
  <2> QED
    BY <2>1, <2>2, <2>3 DEF KnownOK
<1>9. OrderOK(v2)
  <2> SUFFICES ASSUME NEW j \in Ids, v.sock["host"][j].st = "live", v.sock["host"][j].peer = None
               PROVE  /\ Before(v2.chan["host"], OkaysTo(j), WrtesTo(j))
                      /\ \A k \in Ids : v.link /\ v.sock["device"][k].peer = Remote(j) =>
                           Has(v2.chan["host"], OkaysTo(j))
    BY DEF OrderOK, SameRest
  <2>1. /\ Before(v.chan["host"], OkaysTo(j), WrtesTo(j))
        /\ \A k \in Ids : v.link /\ v.sock["device"][k].peer = Remote(j) =>
             Has(v.chan["host"], OkaysTo(j))
    BY DEF Sound, OrderOK
  <2>2. CASE f = "device"
    BY <1>1, <2>1, <2>2
  <2>3. CASE f = "host"
    <3>1. p \in WrtesTo(j) => Has(c, OkaysTo(j))
      BY <2>1, <2>3 DEF WrtesTo, c
    <3> QED
      BY <1>1, <1>2, <1>3, <2>1, <2>3, <3>1 DEF c, d
  <2> QED
    BY <2>2, <2>3 DEF Procs
<1>10. ASSUME NEW g \in Procs PROVE LinkOK(v2, g)
  <2>1. CASE g # f
    BY <1>1, <2>1 DEF Sound, LinkOK, SameRest
  <2>2. CASE g = f
    <3>1. Sync \notin Elements(d) /\ ~v.leaving[f]
      BY <1>2, PacketFacts DEF Sound, LinkOK, c
    <3>2. SyncLast(d)
      BY <3>1 DEF SyncLast, Elements
    <3> QED
      BY <1>1, <1>4, <2>2, <3>1, <3>2 DEF Sound, LinkOK, SameRest, c, d
  <2> QED
    BY <2>1, <2>2
<1> QED
  BY <1>5, <1>8, <1>9, <1>10 DEF Sound

\* Process e takes a packet. (An OKAY was seen by the socket that waits for it.)
LEMMA PopKeeps ==
  ASSUME NEW v, NEW v2 \in Views, Sound(v), NEW e \in Procs,
         SameRest(v, v2), v2.next = v.next, v2.sock = v.sock, v.chan[e] # <<>>,
         v2.chan = [v.chan EXCEPT ![e] = Tail(@)], Head(v.chan[e]).cmd # "SYNC",
         e = "host" /\ Head(v.chan[e]).cmd = "OKAY" =>
           ~(/\ v.sock["host"][Head(v.chan[e]).arg1].st = "live"
             /\ v.sock["host"][Head(v.chan[e]).arg1].peer = None)
  PROVE  Sound(v2)
<1> DEFINE c == v.chan[e]
           d == Tail(c)
           p == Head(c)
<1>1. /\ v2.chan[e] = d /\ c \in Seq(Packets)
      /\ \A g \in Procs : g # e => v2.chan[g] = v.chan[g]
      /\ "host" \in Procs /\ "device" \in Procs /\ "host" # "device"
  BY ViewFacts, SMTT(30) DEF Sound
<1>2. /\ p \in Packets /\ d \in Seq(Packets) /\ Elements(c) = {p} \cup Elements(d)
      /\ \A A, B : Before(c, A, B) => (p \notin A => Before(d, A, B))
  BY <1>1, PopFacts, SMTT(30)
<1>3. p # Sync
  BY PacketFacts
<1>4. SyncLast(d) /\ (Sync \in Elements(c) => d # <<>>)
  <2>1. /\ Len(c) \in Nat /\ Len(c) >= 1 /\ DOMAIN c = 1..Len(c) /\ DOMAIN d = 1..(Len(c) - 1)
        /\ Len(d) = Len(c) - 1 /\ p = c[1] /\ \A k \in 1..(Len(c) - 1) : d[k] = c[k + 1]
    BY <1>1, HeadTailProperties, EmptySeq, SMTT(30)
  <2>2. SyncLast(c)
    BY DEF Sound, LinkOK
  <2>2a. \A k \in 1..(Len(c) - 1) : k + 1 \in 1..Len(c) /\ (k + 1 = Len(c) => k = Len(c) - 1)
    BY <2>1, SMTT(30)
  <2>3. SyncLast(d)
    BY <2>1, <2>2, <2>2a DEF SyncLast
  <2>4. Sync \in Elements(d) => d # <<>>
    BY DEF Elements
  <2> QED
    BY <1>2, <1>3, <2>3, <2>4
<1> HIDE DEF c, d, p
<1>5. SocketsOK(v2) /\ PairsOK(v2)
  BY SMTT(30) DEF Sound, SocketsOK, PairsOK
<1>6. \A j : Known(v, j) <=> Known(v2, j)
  BY DEF Known
<1>7. \A g \in Procs : Elements(v2.chan[g]) \subseteq Elements(v.chan[g])
  BY <1>1, <1>2 DEF c
<1>8. KnownOK(v2)
  BY <1>1, <1>6, <1>7 DEF Sound, KnownOK
<1>9. OrderOK(v2)
  <2> SUFFICES ASSUME NEW j \in Ids, v.sock["host"][j].st = "live", v.sock["host"][j].peer = None
               PROVE  /\ Before(v2.chan["host"], OkaysTo(j), WrtesTo(j))
                      /\ \A k \in Ids : v.link /\ v.sock["device"][k].peer = Remote(j) =>
                           Has(v2.chan["host"], OkaysTo(j))
    BY DEF OrderOK, SameRest
  <2>1. /\ Before(v.chan["host"], OkaysTo(j), WrtesTo(j))
        /\ \A k \in Ids : v.link /\ v.sock["device"][k].peer = Remote(j) =>
             Has(v.chan["host"], OkaysTo(j))
    BY DEF Sound, OrderOK
  <2>2. CASE e = "device"
    BY <1>1, <2>1, <2>2
  <2>3. CASE e = "host"
    <3>1. p \notin OkaysTo(j)
      BY <2>3 DEF OkaysTo, p, c
    <3>2. Has(c, OkaysTo(j)) => Has(d, OkaysTo(j))
      BY <1>2, <3>1 DEF Has
    <3> QED
      BY <1>1, <1>2, <2>1, <2>3, <3>1, <3>2 DEF c
  <2> QED
    BY <2>2, <2>3 DEF Procs
<1>10. ASSUME NEW g \in Procs PROVE LinkOK(v2, g)
  <2>1. CASE g # e
    BY <1>1, <2>1, SMTT(30) DEF Sound, LinkOK, SameRest
  <2>2. CASE g = e
    <3>1. /\ v.link => Sync \notin Elements(d) /\ ~v.leaving[e]
          /\ ~v.link => Sync \in Elements(d) /\ d # <<>>
          /\ ~v.leaving[e]
      BY <1>2, <1>3, <1>4 DEF Sound, LinkOK, c
    <3> QED
      BY <1>1, <1>4, <2>2, <3>1, ZenonT(30) DEF Sound, LinkOK, SameRest
  <2> QED
    BY <2>1, <2>2
<1> QED
  BY <1>5, <1>8, <1>9, <1>10 DEF Sound

\* A socket that waits learns the id of the other end.
LEMMA ConnectKeeps ==
  ASSUME NEW v, NEW v2 \in Views, Sound(v), NEW i \in Ids, NEW k \in Ids, NEW t,
         SameRest(v, v2), v2.next = v.next, v2.chan = v.chan, OneSocket(v, v2, "host", i, t),
         t.st = "live", t.peer = Remote(k), SocketOK("host", t), v.sock["host"][i].st = "live",
         v.sock["host"][i].peer = None, v.online["host"]
  PROVE  Sound(v2)
<1>1. /\ "host" \in Procs /\ "device" \in Procs /\ "host" # "device" /\ t.transport
  BY ViewFacts DEF Sound, SocketOK, LiveOK, IsRemote
<1>2. \A f \in Procs, m \in Ids : v2.sock[f][m] = v.sock[f][m]
                                  \/ (f = "host" /\ m = i /\ v2.sock[f][m] = t)
  BY DEF OneSocket
<1>5. SocketsOK(v2)
  BY <1>1, <1>2 DEF Sound, SocketsOK
<1>6. PairsOK(v2)
  <2> SUFFICES ASSUME NEW m \in Ids, NEW n \in Ids, v2.sock["host"][m].peer = Local(n)
               PROVE  m # n /\ v2.sock["host"][n].peer = Local(m)
    BY DEF PairsOK
  <2>0. Remote(k) # Local(n) /\ None # Local(m)
    BY PeerKinds
  <2>1. v2.sock["host"][m] = v.sock["host"][m]
    BY <1>1, <1>2, <2>0
  <2>2. m # n /\ v.sock["host"][n].peer = Local(m)
    BY <2>1 DEF Sound, PairsOK
  <2> QED
    BY <1>1, <1>2, <2>0, <2>2
<1>7a. \A j \in Ids : Known(v, j) => Known(v2, j)
  BY <1>1, <1>2, PeerKinds DEF Known
<1>8. \A f \in Procs : \A p \in Elements(v.chan[f]) : p \in Packets
  BY ElementsType, ViewFacts DEF Sound
<1>9. KnownOK(v2)
  BY <1>1, <1>2, <1>7a, <1>8, PacketFacts DEF Sound, KnownOK
<1>10. OrderOK(v2)
  BY <1>1, <1>2, PeerKinds DEF Sound, OrderOK, SameRest
<1>11. \A f \in Procs : LinkOK(v2, f)
  BY <1>1, <1>2 DEF Sound, LinkOK, SameRest
<1> QED
  BY <1>5, <1>6, <1>9, <1>10, <1>11 DEF Sound

\* A new socket that waits for a request, for its first OKAY, or, on the
\* device, serves a stream whose OKAY is on its way.
LEMMA CreateKeeps ==
  ASSUME NEW v, NEW v2 \in Views, Sound(v), NEW e \in Procs, NEW i \in Ids, NEW t,
         SameRest(v, v2), v2.next = [v.next EXCEPT ![e] = i + 1], v2.chan = v.chan,
         OneSocket(v, v2, e, i, t), i = v.next[e], t.st = "live", SocketOK(e, t),
         (t.peer = Smart /\ ~t.transport) \/ v.online[e],
         e = "host" => t.peer \in {None, Smart},
         \A j \in Ids : t.peer = Remote(j) =>
           Known(v, j) /\ (v.link => Has(v.chan["host"], OkaysTo(j)))
  PROVE  Sound(v2)
<1>1. /\ "host" \in Procs /\ "device" \in Procs /\ "host" # "device"
      /\ v.next[e] \in Nat \ {0} /\ \A k \in Ids : k \in Nat
  BY ViewFacts DEF Sound, Ids
<1>2. \A f \in Procs, m \in Ids : v2.sock[f][m] = v.sock[f][m]
                                  \/ (f = e /\ m = i /\ v2.sock[f][m] = t)
  BY DEF OneSocket
<1>3. SocketOK(e, v.sock[e][i]) /\ v.sock[e][i].st = "none" /\ v.sock[e][i].peer = None
  BY <1>1, SMTT(30) DEF Sound, SocketsOK, SocketOK
<1>4. SocketsOK(v2)
  <2>1. /\ v2.next[e] = i + 1 /\ \A f \in Procs : f # e => v2.next[f] = v.next[f]
    BY ViewFacts DEF Sound
  <2>2. \A k \in Ids : k >= i + 1 => k >= v.next[e] /\ k # i
    BY <1>1
  <2> QED
    BY <1>2, <2>1, <2>2 DEF Sound, SocketsOK
<1>5. PairsOK(v2)
  <2> SUFFICES ASSUME NEW m \in Ids, NEW n \in Ids, v2.sock["host"][m].peer = Local(n)
               PROVE  m # n /\ v2.sock["host"][n].peer = Local(m)
    BY DEF PairsOK
  <2>1. v2.sock["host"][m] = v.sock["host"][m]
    BY <1>1, <1>2, PeerKinds
  <2>2. m # n /\ v.sock["host"][n].peer = Local(m)
    BY <2>1 DEF Sound, PairsOK
  <2> QED
    BY <1>1, <1>2, <1>3, <2>2, PeerKinds
<1>6. \A j \in Ids : Known(v, j) => v.sock["host"][j].st # "none" /\ Known(v2, j)
  BY <1>1, <1>2, <1>3 DEF Known
<1>7. \A f \in Procs : \A p \in Elements(v.chan[f]) : p \in Packets
  BY ElementsType, ViewFacts DEF Sound
<1>8. \A j, k \in Ids : v2.sock["device"][k].peer = Remote(j) =>
        Known(v, j) /\ (v.sock["device"][k].peer = Remote(j)
                        \/ (v.link => Has(v.chan["host"], OkaysTo(j))))
  BY <1>1, <1>2 DEF Sound, KnownOK
<1>9. KnownOK(v2)
  BY <1>1, <1>6, <1>7, <1>8, PacketFacts DEF Sound, KnownOK
<1>10. OrderOK(v2)
  <2> SUFFICES ASSUME NEW j \in Ids, v2.sock["host"][j].st = "live", v2.sock["host"][j].peer = None
               PROVE  /\ Before(v.chan["host"], OkaysTo(j), WrtesTo(j))
                      /\ \A k \in Ids : v.link /\ v2.sock["device"][k].peer = Remote(j) =>
                           Has(v.chan["host"], OkaysTo(j))
    BY DEF OrderOK, SameRest
  <2>1. CASE v2.sock["host"][j] = v.sock["host"][j]
    BY <1>1, <1>8, <2>1 DEF Sound, OrderOK
  <2>2. CASE e = "host" /\ j = i
    <3>1. ~Known(v, j)
      BY <1>3, <2>2 DEF Known
    <3>2. \A n \in DOMAIN v.chan["host"] : v.chan["host"][n] \notin WrtesTo(j)
      BY <1>1, <3>1, PacketFacts DEF Sound, KnownOK, WrtesTo, Elements
    <3> QED
      BY <1>8, <3>1, <3>2 DEF Before
  <2> QED
    BY <1>1, <1>2, <2>1, <2>2
<1>11. ASSUME NEW f \in Procs PROVE LinkOK(v2, f)
  <2>1. v.state[e] = "offline" => t.peer = Smart /\ ~t.transport
    BY DEF Sound, LinkOK, SocketOK, LiveOK
  <2>2. \A m \in Ids : v2.sock[f][m] = v.sock[f][m]
          \/ (v.state[f] = "offline" => ~IsRemote(v2.sock[f][m].peer) /\ ~v2.sock[f][m].transport)
    BY <1>2, <2>1, PeerKinds DEF IsRemote
  <2> QED
    BY <2>2 DEF Sound, LinkOK, SameRest
<1> QED
  BY <1>4, <1>5, <1>9, <1>10, <1>11 DEF Sound

\* A client of the smart socket is connected to a service of the host.
LEMMA ServeKeeps ==
  ASSUME NEW v, NEW v2 \in Views, Sound(v), NEW i \in Ids, NEW n \in Ids, NEW s, NEW t,
         SameRest(v, v2), v2.next = [v.next EXCEPT !["host"] = n + 1], v2.chan = v.chan,
         n = v.next["host"], v.sock["host"][i].st = "live", v.sock["host"][i].peer = Smart,
         v2.sock["host"][i] = s, s.st = "live", s.peer = Local(n), SocketOK("host", s),
         v2.sock["host"][n] = t, t.st = "live", t.peer = Local(i), SocketOK("host", t),
         \A f \in Procs, k \in Ids : f = "device" \/ k \notin {i, n} => v2.sock[f][k] = v.sock[f][k]
  PROVE  Sound(v2)
<1>1. /\ "host" \in Procs /\ "device" \in Procs /\ "host" # "device"
      /\ v.next["host"] \in Nat \ {0} /\ \A k \in Ids : k \in Nat
  BY ViewFacts DEF Sound, Ids
<1>2. \A f \in Procs, k \in Ids : v2.sock[f][k] = v.sock[f][k]
                                  \/ (f = "host" /\ k = i /\ v2.sock[f][k] = s)
                                  \/ (f = "host" /\ k = n /\ v2.sock[f][k] = t)
  BY DEF Procs
<1>3. /\ SocketOK("host", v.sock["host"][i]) /\ SocketOK("host", v.sock["host"][n])
      /\ v.sock["host"][n].st = "none" /\ v.sock["host"][n].peer = None /\ i # n
      /\ ~(i >= v.next["host"])
  BY <1>1, SMTT(30) DEF Sound, SocketsOK, SocketOK
<1>5. ~s.transport /\ ~t.transport
  BY <1>1, <1>3 DEF SocketOK, LiveOK, IsLocal
<1>6. SocketsOK(v2)
  <2>1. v2.next["host"] = n + 1 /\ v2.next["device"] = v.next["device"]
    BY <1>1, ViewFacts DEF Sound
  <2>2. \A k \in Ids : k >= n + 1 => k >= v.next["host"] /\ k # n /\ k # i
    BY <1>1, <1>3
  <2> QED
    BY <1>2, <2>1, <2>2 DEF Sound, SocketsOK, Procs
<1>7. PairsOK(v2)
  <2> SUFFICES ASSUME NEW m \in Ids, NEW k \in Ids, v2.sock["host"][m].peer = Local(k)
               PROVE  m # k /\ v2.sock["host"][k].peer = Local(m)
    BY DEF PairsOK
  <2>1. CASE m = i
    <3>1. k = n
      BY <1>1, <2>1, PeerKinds
    <3> QED
      BY <1>3, <2>1, <3>1
  <2>1a. CASE m = n
    <3>1. k = i
      BY <2>1a, PeerKinds
    <3> QED
      BY <1>1, <1>3, <2>1a, <3>1
  <2>2. CASE m # i /\ m # n
    <3>1. m # k /\ v.sock["host"][k].peer = Local(m)
      BY <1>1, <1>2, <2>2 DEF Sound, PairsOK
    <3> QED
      BY <1>1, <1>2, <1>3, <3>1, PeerKinds
  <2> QED
    BY <2>1, <2>1a, <2>2
<1>7a. /\ s.peer # None /\ t.peer # None
       /\ \A j \in Ids : s.peer # Remote(j) /\ t.peer # Remote(j)
  BY <1>1, PeerKinds
<1>8. \A j \in Ids : Known(v, j) => Known(v2, j)
  BY <1>1, <1>2, <1>3, <1>5 DEF Known
<1>9. \A f \in Procs : \A p \in Elements(v.chan[f]) : p \in Packets
  BY ElementsType, ViewFacts DEF Sound
<1>10. KnownOK(v2)
  BY <1>1, <1>2, <1>8, <1>9, PacketFacts DEF Sound, KnownOK
<1>11. OrderOK(v2)
  BY <1>1, <1>2, <1>7a DEF Sound, OrderOK, SameRest
<1>12. \A f \in Procs : LinkOK(v2, f)
  BY <1>1, <1>2, <1>5, <1>7a DEF Sound, LinkOK, SameRest, IsRemote
<1> QED
  BY <1>6, <1>7, <1>10, <1>11, <1>12 DEF Sound

\* A client of the smart socket asks for the device.
LEMMA DialKeeps ==
  ASSUME NEW v, NEW v2 \in Views, Sound(v), NEW i \in Ids, NEW t,
         SameRest(v, v2), v2.next = v.next, v2.chan = v.chan, OneSocket(v, v2, "host", i, t),
         v.sock["host"][i].st = "live", v.sock["host"][i].peer = Smart, v.online["host"],
         t.st = "live", t.peer = None, SocketOK("host", t)
  PROVE  Sound(v2)
<1>1. /\ "host" \in Procs /\ "device" \in Procs /\ "host" # "device"
      /\ ~(i >= v.next["host"])
  BY ViewFacts DEF Sound, SocketsOK, SocketOK
<1>2. \A f \in Procs, m \in Ids : v2.sock[f][m] = v.sock[f][m]
                                  \/ (f = "host" /\ m = i /\ v2.sock[f][m] = t)
  BY DEF OneSocket
<1>3. SocketsOK(v2)
  BY <1>1, <1>2 DEF Sound, SocketsOK
<1>4. PairsOK(v2)
  <2> SUFFICES ASSUME NEW m \in Ids, NEW n \in Ids, v2.sock["host"][m].peer = Local(n)
               PROVE  m # n /\ v2.sock["host"][n].peer = Local(m)
    BY DEF PairsOK
  <2>1. v2.sock["host"][m] = v.sock["host"][m]
    BY <1>1, <1>2, PeerKinds
  <2>2. m # n /\ v.sock["host"][n].peer = Local(m)
    BY <2>1 DEF Sound, PairsOK
  <2> QED
    BY <1>1, <1>2, <2>2, PeerKinds
<1>5. ~Known(v, i) /\ \A j \in Ids : Known(v, j) => Known(v2, j)
  BY <1>1, <1>2 DEF Known
<1>6. \A f \in Procs : \A p \in Elements(v.chan[f]) : p \in Packets
  BY ElementsType, ViewFacts DEF Sound
<1>7. KnownOK(v2)
  BY <1>1, <1>2, <1>5, <1>6, PacketFacts DEF Sound, KnownOK
<1>8. OrderOK(v2)
  <2> SUFFICES ASSUME NEW j \in Ids, v2.sock["host"][j].st = "live", v2.sock["host"][j].peer = None
               PROVE  /\ Before(v.chan["host"], OkaysTo(j), WrtesTo(j))
                      /\ \A k \in Ids : v.link /\ v.sock["device"][k].peer = Remote(j) =>
                           Has(v.chan["host"], OkaysTo(j))
    BY <1>1, <1>2 DEF OrderOK, SameRest
  <2>1. CASE j # i
    BY <1>1, <1>2, <2>1 DEF Sound, OrderOK
  <2>2. CASE j = i
    <3>1. \A n \in DOMAIN v.chan["host"] : v.chan["host"][n] \notin WrtesTo(j)
      BY <1>5, <2>2, PacketFacts DEF Sound, KnownOK, WrtesTo, Elements
    <3> QED
      BY <1>5, <2>2, <3>1 DEF Before, Sound, KnownOK
  <2> QED
    BY <2>1, <2>2
<1>9. \A f \in Procs : LinkOK(v2, f)
  BY <1>1, <1>2 DEF Sound, LinkOK, SameRest
<1> QED
  BY <1>3, <1>4, <1>7, <1>8, <1>9 DEF Sound

-----------------------------------------------------------------------------
(* What the operations of the handlers do to a world. *)

\* What a world is made of has its type.
LEMMA WorldFacts ==
  ASSUME NEW w \in Worlds
  PROVE  /\ w.sock \in [Ids -> Sockets] /\ w.next \in Nat \ {0} /\ w.sent \in [Ends -> Seq(Data)]
         /\ w.rcvd \in [Ends -> Seq(Data)] /\ w.fin \in [Ends -> Promise!Fins]
         /\ w.out \in Seq(Packets) /\ w.freed \in BOOLEAN
         /\ \A i \in Ids : w.sock[i] \in Sockets
  BY DEF Worlds

\* What a socket is made of has its type.
LEMMA SocketFacts ==
  ASSUME NEW s \in Sockets
  PROVE  /\ s.st \in {"none", "live", "closing", "gone"} /\ s.peer \in Peers
         /\ s.transport \in BOOLEAN /\ s.pkts \in Seq(Data) /\ s.want \in SUBSET {"R", "W"}
         /\ s.evs \in SUBSET {"R", "W"} /\ s.end \in Ends \cup {NoEnd} /\ s.why \in Promise!Closed
  BY DEF Sockets

\* Ends are not the missing end, and each has one opposite.
LEMMA EndFacts ==
  /\ NoEnd \notin Ends
  /\ \A x \in Ends : FarOf(x) \in Ends /\ FarOf(x) # x /\ FarOf(FarOf(x)) = x
  BY DEF Ends, NoEnd, FarOf, Promise!Opposite, Promise!StreamEnds

\* fdevent_set changes only what the socket waits for and its events.
LEMMA FdeventSetFacts ==
  ASSUME NEW s \in Sockets, NEW events \in SUBSET {"R", "W"}, NEW t, t = FdeventSet(s, events)
  PROVE  /\ t \in Sockets /\ t.st = s.st /\ t.peer = s.peer /\ t.transport = s.transport
         /\ t.pkts = s.pkts /\ t.end = s.end /\ t.why = s.why /\ t.want = events
         /\ t.evs = IF s.want = events THEN s.evs ELSE s.evs \ events
  BY DEF FdeventSet, Sockets

IsSet(s, events, t) ==
  /\ t \in Sockets /\ t.st = s.st /\ t.peer = s.peer /\ t.transport = s.transport
  /\ t.pkts = s.pkts /\ t.end = s.end /\ t.why = s.why /\ t.want = events
  /\ t.evs = IF s.want = events THEN s.evs ELSE s.evs \ events

\* The same, as one fact.
LEMMA SetFacts ==
  ASSUME NEW s \in Sockets, NEW events \in SUBSET {"R", "W"}, NEW t, t = FdeventSet(s, events)
  PROVE  IsSet(s, events, t)
  BY FdeventSetFacts DEF IsSet

\* A socket that is closed: destroyed, or on the closing list until the last
\* packet is written.
Gone == [NoSocket EXCEPT !.st = "gone"]
Destroyed(s) == s.st = "closing" \/ s.pkts = <<>>
Dying(s, why) == IF Destroyed(s) THEN Gone
                 ELSE [FdeventSet(s, s.want \ {"R"}) EXCEPT !.st = "closing", !.peer = None, !.why = why]
LastFin(s, why) == IF Destroyed(s) THEN why ELSE "ending"

\* A closed or unused slot is a sound socket.
LEMMA GoneFacts ==
  /\ Gone \in Sockets /\ Gone.st = "gone" /\ Gone.peer = None /\ Gone.want = {} /\ Gone.evs = {}
  /\ Gone.pkts = <<>> /\ Gone.end = NoEnd
  /\ NoSocket \in Sockets /\ NoSocket.st = "none" /\ NoSocket.peer = None /\ NoSocket.want = {}
  /\ NoSocket.evs = {} /\ NoSocket.pkts = <<>> /\ NoSocket.end = NoEnd /\ NoSocket.why = "own"
  /\ ~NoSocket.transport
<1>1. None \in Peers /\ "own" \in Promise!Closed
  BY PeerKinds DEF Promise!Closed
<1>2. <<>> \in Seq(Data)
  OBVIOUS
<1> QED
  BY <1>1, <1>2 DEF Gone, NoSocket, Sockets

\* local_socket_close_locked leaves a sound socket, closed or closing.
LEMMA DyingFacts ==
  ASSUME NEW s \in Sockets, NEW why \in Promise!Closed, s.end \in Ends, NEW t, t = Dying(s, why)
  PROVE  /\ t \in Sockets /\ t.peer = None /\ t.st \in {"gone", "closing"} /\ LastFin(s, why) \in Promise!Fins
         /\ \A e : SocketOK(e, t)
         /\ Destroyed(s) => t = Gone /\ t.st = "gone" /\ LastFin(s, why) = why
         /\ ~Destroyed(s) => /\ t.st = "closing" /\ t.pkts = s.pkts /\ t.end = s.end /\ t.why = why
                             /\ LastFin(s, why) = "ending"
<1>1. CASE Destroyed(s)
  BY <1>1, GoneFacts DEF Dying, LastFin, SocketOK, Promise!Fins
<1>2. CASE ~Destroyed(s)
  <2>1. PICK events \in SUBSET {"R", "W"} : events = s.want \ {"R"}
    BY SocketFacts
  <2>2. PICK q : q = FdeventSet(s, events)
    OBVIOUS
  <2>3. q \in Sockets /\ q.pkts = s.pkts /\ q.end = s.end
    BY <2>2 DEF FdeventSet, Sockets
  <2>4. t = [q EXCEPT !.st = "closing", !.peer = None, !.why = why]
    BY <1>2, <2>1, <2>2 DEF Dying
  <2>5. /\ t \in Sockets /\ t.st = "closing" /\ t.peer = None /\ t.why = why
        /\ t.pkts = s.pkts /\ t.end = s.end
    BY <2>3, <2>4, PeerKinds, ZenonT(30) DEF Sockets
  <2> QED
    BY <1>2, <2>5 DEF LastFin, SocketOK, Promise!Fins
<1> QED
  BY <1>1, <1>2

\* Neither has a peer any more.
LEMMA DyingPeer ==
  ASSUME NEW s \in Sockets, NEW p \in Peers, NEW why, NEW t, t = [s EXCEPT !.peer = p]
  PROVE  /\ t \in Sockets /\ t.end = s.end /\ t.peer = p
         /\ Dying(t, why) = Dying(s, why) /\ LastFin(t, why) = LastFin(s, why)
<1>1. /\ t \in Sockets /\ t.end = s.end /\ t.pkts = s.pkts /\ t.st = s.st /\ t.want = s.want
      /\ t.peer = p
  BY DEF Sockets
<1>2. [FdeventSet(t, t.want \ {"R"}) EXCEPT !.st = "closing", !.peer = None, !.why = why] =
      [FdeventSet(s, s.want \ {"R"}) EXCEPT !.st = "closing", !.peer = None, !.why = why]
  BY <1>1 DEF FdeventSet, Sockets
<1> QED
  BY <1>1, <1>2 DEF Dying, LastFin, Destroyed

SameWorldData(w, w2) == w2.sent = w.sent /\ w2.rcvd = w.rcvd /\ w2.next = w.next /\ w2.freed = w.freed

IsShut(w, i, why, w2) ==
  /\ w2 \in Worlds /\ SameWorldData(w, w2) /\ w2.out = w.out
  /\ w2.sock = [w.sock EXCEPT ![i] = Dying(w.sock[i], why)]
  /\ w2.fin = [w.fin EXCEPT ![w.sock[i].end] = LastFin(w.sock[i], why)]

\* Shut changes one socket and the fate of its end.
LEMMA ShutFacts ==
  ASSUME NEW w \in Worlds, NEW i \in Ids, NEW why \in Promise!Closed, w.sock[i].end \in Ends,
         NEW w2, w2 = Shut(w, i, why)
  PROVE  IsShut(w, i, why, w2)
<1>1. w.sock[i] \in Sockets
  BY WorldFacts
<1>2. PICK t, x : t = Dying(w.sock[i], why) /\ x = LastFin(w.sock[i], why)
  OBVIOUS
<1>3. t \in Sockets /\ x \in Promise!Fins
  BY <1>1, <1>2, DyingFacts
<1>4. w2 = [w EXCEPT !.sock[i] = t, !.fin[w.sock[i].end] = x]
  BY <1>2 DEF Shut, Dying, LastFin, Destroyed, Gone
<1>5. PICK z : z = [w EXCEPT !.sock[i] = t, !.fin[w.sock[i].end] = x]
  OBVIOUS
<1>6. /\ z \in Worlds /\ SameWorldData(w, z) /\ z.out = w.out
      /\ z.sock = [w.sock EXCEPT ![i] = t]
      /\ z.fin = [w.fin EXCEPT ![w.sock[i].end] = x]
  BY <1>3, <1>5 DEF Worlds, SameWorldData
<1>7. IsShut(w, i, why, z)
  BY <1>2, <1>6 DEF IsShut
<1> QED
  BY <1>4, <1>5, <1>7, Zenon

\* send_packet adds to what is sent and changes nothing else.
LEMMA SendFacts ==
  ASSUME NEW w \in Worlds, NEW p \in Packets, NEW w2, w2 = SendPacket(w, p)
  PROVE  /\ w2 \in Worlds /\ SameWorldData(w, w2) /\ w2.sock = w.sock /\ w2.fin = w.fin
         /\ w2.out = Append(w.out, p)
<1>1. Append(w.out, p) \in Seq(Packets)
  BY WorldFacts
<1> QED
  BY <1>1 DEF Worlds, SendPacket, SameWorldData

Clse(k) == [cmd |-> "CLSE", arg0 |-> 0, arg1 |-> k]

\* local_socket_close_locked, by the kind of the peer.
IsClosed(w, i, why, w2) ==
  /\ w2 \in Worlds /\ SameWorldData(w, w2)
  /\ ~IsRemote(w.sock[i].peer) => w2.out = w.out
  /\ \A k \in Ids : w.sock[i].peer = Remote(k) => w2.out = Append(w.out, Clse(k))
  /\ ~IsLocal(w.sock[i].peer) =>
       /\ w2.sock = [w.sock EXCEPT ![i] = Dying(w.sock[i], why)]
       /\ w2.fin = [w.fin EXCEPT ![w.sock[i].end] = LastFin(w.sock[i], why)]
  /\ \A m \in Ids : w.sock[i].peer = Local(m) =>
       /\ w2.sock = [w.sock EXCEPT ![m] = Dying(w.sock[m], "peer"),
                     ![i] = Dying(w.sock[i], why)]
       /\ w2.fin = [w.fin EXCEPT ![w.sock[m].end] = LastFin(w.sock[m], "peer"),
                   ![w.sock[i].end] = LastFin(w.sock[i], why)]

\* local_socket_close_locked does what IsClosed says.
LEMMA CloseFacts ==
  ASSUME NEW w \in Worlds, NEW i \in Ids, NEW why \in Promise!Closed, w.sock[i].end \in Ends,
         \A m \in Ids : w.sock[i].peer = Local(m) => m # i /\ w.sock[m].end \in Ends,
         NEW w2, w2 = Close(w, i, why)
  PROVE  IsClosed(w, i, why, w2)
<1>1. /\ w.sock[i] \in Sockets /\ w.sock[i].peer \in Peers /\ w.sock \in [Ids -> Sockets]
      /\ None \in Peers /\ "peer" \in Promise!Closed
  BY WorldFacts, SocketFacts, PeerKinds DEF Promise!Closed
<1> DEFINE p == w.sock[i].peer
<1>2. CASE IsRemote(p)
  <2>1. PICK k \in Ids : p = Remote(k)
    BY <1>2 DEF IsRemote
  <2>2. p[1] = "remote" /\ p[2] = k /\ ~IsLocal(p) /\ \A m \in Ids : p # Local(m)
    BY <1>1, <2>1, PeerParts, PeerKinds DEF IsLocal
  <2>3. PICK w1 : w1 = SendPacket(w, Clse(k))
    OBVIOUS
  <2>4. w2 = Shut(w1, i, why)
    BY <2>2, <2>3 DEF Close, Clse
  <2>5. /\ w1 \in Worlds /\ SameWorldData(w, w1) /\ w1.sock = w.sock /\ w1.fin = w.fin
        /\ w1.out = Append(w.out, Clse(k))
    BY <2>3, SendFacts, SentPackets DEF Clse
  <2>6. /\ w2 \in Worlds /\ SameWorldData(w1, w2) /\ w2.out = w1.out
        /\ w2.sock = [w1.sock EXCEPT ![i] = Dying(w1.sock[i], why)]
        /\ w2.fin = [w1.fin EXCEPT ![w1.sock[i].end] = LastFin(w1.sock[i], why)]
    BY <2>4, <2>5, ShutFacts DEF IsShut
  <2>7. \A m \in Ids : p = Remote(m) => m = k
    BY <2>1, PeerKinds
  <2> QED
    BY <1>2, <2>2, <2>5, <2>6, <2>7 DEF SameWorldData, IsClosed
<1>3. CASE IsLocal(p)
  <2>1. PICK m \in Ids : p = Local(m)
    BY <1>3 DEF IsLocal
  <2>2. /\ p[1] # "remote" /\ p[1] = "local" /\ p[2] = m /\ ~IsRemote(p)
        /\ \A k \in Ids : p # Remote(k) /\ (p = Local(k) => k = m)
    BY <1>1, <2>1, PeerParts, PeerKinds DEF IsRemote
  <2>3. m # i /\ w.sock[m].end \in Ends /\ w.sock[m] \in Sockets
    BY <1>1, <2>1
  <2>4. PICK w1 : w1 = [w EXCEPT !.sock[m].peer = None]
    OBVIOUS
  <2>5. PICK w3 : w3 = Shut(w1, m, "peer")
    OBVIOUS
  <2>6. PICK w4 : w4 = [w3 EXCEPT !.sock[i].peer = None]
    OBVIOUS
  <2>7. w2 = Shut(w4, i, why)
    BY <2>2, <2>4, <2>5, <2>6 DEF Close
  <2>8. PICK sm : sm = [w.sock[m] EXCEPT !.peer = None]
    OBVIOUS
  <2>9. /\ sm \in Sockets /\ sm.end = w.sock[m].end
        /\ Dying(sm, "peer") = Dying(w.sock[m], "peer") /\ LastFin(sm, "peer") = LastFin(w.sock[m], "peer")
    BY <1>1, <2>3, <2>8, DyingPeer
  <2>10. /\ w1 \in Worlds /\ SameWorldData(w, w1) /\ w1.out = w.out /\ w1.fin = w.fin
         /\ w1.sock = [w.sock EXCEPT ![m] = sm] /\ w1.sock[m] = sm
    <3>1. w1 = [w EXCEPT !.sock[m] = sm]
      BY <1>1, <2>4, <2>8 DEF Worlds
    <3> HIDE <2>4
    <3> QED
      BY <2>9, <3>1 DEF Worlds, SameWorldData
  <2>11. /\ w3 \in Worlds /\ SameWorldData(w1, w3) /\ w3.out = w1.out
         /\ w3.sock = [w1.sock EXCEPT ![m] = Dying(sm, "peer")]
         /\ w3.fin = [w1.fin EXCEPT ![sm.end] = LastFin(sm, "peer")]
    BY <1>1, <2>3, <2>5, <2>9, <2>10, ShutFacts DEF IsShut
  <2>12. PICK dm : dm = Dying(w.sock[m], "peer")
    OBVIOUS
  <2>13. w3.sock = [w.sock EXCEPT ![m] = dm] /\ w3.sock[i] = w.sock[i]
    BY <1>1, <2>3, <2>9, <2>10, <2>11, <2>12
  <2>14. PICK si : si = [w.sock[i] EXCEPT !.peer = None]
    OBVIOUS
  <2>15. /\ si \in Sockets /\ si.end = w.sock[i].end /\ si.end \in Ends
         /\ Dying(si, why) = Dying(w.sock[i], why) /\ LastFin(si, why) = LastFin(w.sock[i], why)
    BY <1>1, <2>14, DyingPeer
  <2>16. /\ w4 \in Worlds /\ SameWorldData(w3, w4) /\ w4.out = w3.out /\ w4.fin = w3.fin
         /\ w4.sock = [w3.sock EXCEPT ![i] = si] /\ w4.sock[i] = si
    <3>1. w4 = [w3 EXCEPT !.sock[i] = si]
      BY <1>1, <2>6, <2>11, <2>13, <2>14 DEF Worlds
    <3> HIDE <2>6
    <3> QED
      BY <2>11, <2>15, <3>1 DEF Worlds, SameWorldData
  <2>17a. w4.sock[i].end \in Ends /\ why \in Promise!Closed
    BY <2>15, <2>16
  <2>17b. IsShut(w4, i, why, w2)
    BY <2>7, <2>16, <2>17a, ShutFacts, Zenon
  <2>17. /\ w2 \in Worlds /\ SameWorldData(w4, w2) /\ w2.out = w4.out
         /\ w2.sock = [w4.sock EXCEPT ![i] = Dying(si, why)]
         /\ w2.fin = [w4.fin EXCEPT ![si.end] = LastFin(si, why)]
    BY <2>16, <2>17b, Zenon DEF IsShut
  <2>18. w2.sock = [w.sock EXCEPT ![m] = dm, ![i] = Dying(w.sock[i], why)]
    BY <1>1, <2>3, <2>13, <2>15, <2>16, <2>17
  <2>19. w2.fin = [w.fin EXCEPT ![w.sock[m].end] = LastFin(w.sock[m], "peer"),
                                ![w.sock[i].end] = LastFin(w.sock[i], why)]
    BY <2>9, <2>10, <2>11, <2>15, <2>16, <2>17
  <2> QED
    BY <1>3, <2>2, <2>10, <2>11, <2>12, <2>16, <2>17, <2>18, <2>19 DEF SameWorldData, IsClosed
<1>4. CASE ~IsRemote(p) /\ ~IsLocal(p)
  <2>1. p[1] # "remote" /\ p[1] # "local"
    BY <1>1, <1>4, PeerParts
  <2>2. PICK w1 : w1 = [w EXCEPT !.sock[i].peer = None]
    OBVIOUS
  <2>3. w2 = Shut(w1, i, why)
    BY <2>1, <2>2 DEF Close
  <2>4. PICK si : si = [w.sock[i] EXCEPT !.peer = None]
    OBVIOUS
  <2>5. /\ si \in Sockets /\ si.end = w.sock[i].end /\ si.end \in Ends
        /\ Dying(si, why) = Dying(w.sock[i], why) /\ LastFin(si, why) = LastFin(w.sock[i], why)
    BY <1>1, <2>4, DyingPeer
  <2>6. /\ w1 \in Worlds /\ SameWorldData(w, w1) /\ w1.out = w.out /\ w1.fin = w.fin
        /\ w1.sock = [w.sock EXCEPT ![i] = si] /\ w1.sock[i] = si
    <3>1. w1 = [w EXCEPT !.sock[i] = si]
      BY <1>1, <2>2, <2>4 DEF Worlds
    <3> HIDE <2>2
    <3> QED
      BY <2>5, <3>1 DEF Worlds, SameWorldData
  <2>7a. w1.sock[i].end \in Ends /\ why \in Promise!Closed
    BY <2>5, <2>6
  <2>7b. IsShut(w1, i, why, w2)
    BY <2>3, <2>6, <2>7a, ShutFacts, Zenon
  <2>7. /\ w2 \in Worlds /\ SameWorldData(w1, w2) /\ w2.out = w1.out
        /\ w2.sock = [w1.sock EXCEPT ![i] = Dying(si, why)]
        /\ w2.fin = [w1.fin EXCEPT ![si.end] = LastFin(si, why)]
    BY <2>6, <2>7b, Zenon DEF IsShut
  <2>8. \A k \in Ids : p # Remote(k) /\ p # Local(k)
    BY <1>4 DEF IsRemote, IsLocal
  <2>9. w2.sock = [w.sock EXCEPT ![i] = Dying(w.sock[i], why)]
    BY <1>1, <2>5, <2>6, <2>7
  <2> QED
    BY <1>4, <2>5, <2>6, <2>7, <2>8, <2>9 DEF SameWorldData, IsClosed
<1> QED
  BY <1>2, <1>3, <1>4

-----------------------------------------------------------------------------
(* The steps on worlds *)

Fits(e, w, c) == w \in Worlds /\ c \in Seq(Packets) /\ Sound(View(e, w, c))

ViewOf(e, w, c, v) ==
  /\ v \in Views
  /\ v.sock[e] = w.sock /\ v.next = [next EXCEPT ![e] = w.next] /\ v.chan[e] = c
  /\ v.next[e] = w.next
  /\ v.chan[Other(e)] = IF link THEN chan[Other(e)] \o w.out ELSE chan[Other(e)]
  /\ \A f \in Procs : f # e => v.sock[f] = sock[f] /\ v.next[f] = next[f]
  /\ v.sent = w.sent /\ v.rcvd = w.rcvd /\ v.fin = w.fin
  /\ v.link = link /\ v.state = state /\ v.online = online /\ v.leaving = leaving

\* The view of a world, part by part.
LEMMA ViewParts ==
  ASSUME V \in Views, NEW e \in Procs, NEW w \in Worlds, NEW c \in Seq(Packets),
         NEW v, v = View(e, w, c)
  PROVE  ViewOf(e, w, c, v)
<1>1. /\ sock \in [Procs -> [Ids -> Sockets]] /\ next \in [Procs -> Nat \ {0}]
      /\ chan \in [Procs -> Seq(Packets)] /\ link \in BOOLEAN
      /\ state \in [Procs -> {"offline", "connected"}] /\ online \in [Procs -> BOOLEAN]
      /\ leaving \in [Procs -> BOOLEAN]
  BY DEF Views, V
<1>2. Other(e) \in Procs /\ Other(e) # e
  BY ProcFacts
<1>3. PICK o \in Seq(Packets) : o = IF link THEN chan[Other(e)] \o w.out ELSE chan[Other(e)]
  BY <1>1, <1>2, WorldFacts, ConcatFacts
<1>4. PICK ch : ch = [chan EXCEPT ![e] = c, ![Other(e)] = o]
  OBVIOUS
<1>5. ch \in [Procs -> Seq(Packets)] /\ ch[e] = c /\ ch[Other(e)] = o
  BY <1>1, <1>2, <1>4
<1>6. [chan EXCEPT ![e] = c, ![Other(e)] = IF link THEN @ \o w.out ELSE @] = ch
  BY <1>1, <1>2, <1>3, <1>4
<1>7. v = [sock |-> [sock EXCEPT ![e] = w.sock], next |-> [next EXCEPT ![e] = w.next],
           chan |-> ch, sent |-> w.sent, rcvd |-> w.rcvd, fin |-> w.fin,
           link |-> link, state |-> state, online |-> online, leaving |-> leaving]
  BY <1>6 DEF View
<1>8. /\ [sock EXCEPT ![e] = w.sock] \in [Procs -> [Ids -> Sockets]]
      /\ [next EXCEPT ![e] = w.next] \in [Procs -> Nat \ {0}]
  BY <1>1, WorldFacts
<1>9. v \in Views
  BY <1>1, <1>5, <1>7, <1>8, WorldFacts, SMTT(30) DEF Views
<1> QED
  BY <1>1, <1>3, <1>5, <1>7, <1>9 DEF ViewOf

\* A handler does something: how the view changes.
Change(e, w, w2, c, v, v2) ==
  /\ v \in Views /\ v2 \in Views /\ SameRest(v, v2)
  /\ v.sock[e] = w.sock /\ v2.sock[e] = w2.sock /\ v.next[e] = w.next /\ v.chan[e] = c
  /\ \A f \in Procs : f # e => v2.sock[f] = v.sock[f]
  /\ v2.next = [v.next EXCEPT ![e] = w2.next]
  /\ w2.next = w.next => v2.next = v.next
  /\ w2.sock = w.sock => v2.sock = v.sock
  /\ w2.out = w.out => v2.chan = v.chan
  /\ \A p \in Packets : w2.out = Append(w.out, p) =>
       v2.chan = IF v.link THEN [v.chan EXCEPT ![Other(e)] = Append(@, p)] ELSE v.chan
  /\ v.sent = w.sent /\ v.rcvd = w.rcvd /\ v.fin = w.fin
  /\ v2.sent = w2.sent /\ v2.rcvd = w2.rcvd /\ v2.fin = w2.fin

\* Two worlds of a process make views that differ as the worlds do.
LEMMA ViewsDiffer ==
  ASSUME V \in Views, NEW e \in Procs, NEW w \in Worlds, NEW w2 \in Worlds, NEW c \in Seq(Packets),
         NEW v, ViewOf(e, w, c, v), NEW v2, ViewOf(e, w2, c, v2)
  PROVE  Change(e, w, w2, c, v, v2)
<1>3. /\ next \in [Procs -> Nat \ {0}] /\ chan[Other(e)] \in Seq(Packets) /\ Other(e) \in Procs
      /\ Other(e) # e /\ \A f \in Procs : f = e \/ f = Other(e)
  BY ProcFacts DEF Views, V
<1>4. /\ v.sock \in [Procs -> [Ids -> Sockets]] /\ v2.sock \in [Procs -> [Ids -> Sockets]]
      /\ v.chan \in [Procs -> Seq(Packets)] /\ v2.chan \in [Procs -> Seq(Packets)]
  BY ViewFacts DEF ViewOf
<1>5. v2.next = [v.next EXCEPT ![e] = w2.next] /\ (w2.next = w.next => v2.next = v.next)
  BY <1>3 DEF ViewOf
<1>6. ASSUME w2.sock = w.sock PROVE v2.sock = v.sock
  <2>1. \A f \in Procs : v2.sock[f] = v.sock[f]
    BY <1>6 DEF ViewOf
  <2> QED
    BY <1>4, <2>1
<1>7. ASSUME w2.out = w.out PROVE v2.chan = v.chan
  <2>1. \A f \in Procs : v2.chan[f] = v.chan[f]
    BY <1>3, <1>7 DEF ViewOf
  <2> QED
    BY <1>4, <2>1
<1>8. ASSUME NEW p \in Packets, w2.out = Append(w.out, p)
      PROVE  v2.chan = IF v.link THEN [v.chan EXCEPT ![Other(e)] = Append(@, p)] ELSE v.chan
  <2>1. chan[Other(e)] \o Append(w.out, p) = Append(chan[Other(e)] \o w.out, p)
    <3>1. PICK a \in Seq(Packets), b \in Seq(Packets) : a = chan[Other(e)] /\ b = w.out
      BY <1>3, WorldFacts
    <3>2. a \o Append(b, p) = Append(a \o b, p)
      BY AppendConcat
    <3> QED
      BY <3>1, <3>2
  <2>2. v.link => v2.chan[Other(e)] = Append(v.chan[Other(e)], p)
    BY <1>8, <2>1 DEF ViewOf
  <2>3. ~v.link => v2.chan[Other(e)] = v.chan[Other(e)]
    BY DEF ViewOf
  <2>4. v2.chan[e] = v.chan[e]
    BY DEF ViewOf
  <2>5. CASE ~v.link
    <3>1. \A f \in Procs : v2.chan[f] = v.chan[f]
      BY <1>3, <2>3, <2>4, <2>5
    <3> QED
      BY <1>4, <2>5, <3>1
  <2>6. CASE v.link
    <3>0. v.chan[Other(e)] \in Seq(Packets)
      BY <1>3, <1>4
    <3>1. PICK a \in Seq(Packets) : a = Append(v.chan[Other(e)], p)
      BY <3>0, AppendProperties
    <3>2. PICK g \in [Procs -> Seq(Packets)] : g = [v.chan EXCEPT ![Other(e)] = a]
      BY <1>3, <1>4
    <3>3. \A f \in Procs : v2.chan[f] = g[f]
      BY <1>3, <1>4, <2>2, <2>4, <2>6, <3>1, <3>2
    <3>4. v2.chan = g
      BY <1>4, <3>3
    <3> QED
      BY <2>6, <3>1, <3>2, <3>4
  <2> QED
    BY <2>5, <2>6
<1> QED
  BY <1>5, <1>6, <1>7, <1>8 DEF Change, ViewOf, SameRest

\* How the view follows from what a handler changed in its world.
LEMMA ViewChange ==
  ASSUME V \in Views, NEW e \in Procs, NEW w \in Worlds, NEW w2 \in Worlds, NEW c \in Seq(Packets)
  PROVE  Change(e, w, w2, c, View(e, w, c), View(e, w2, c))
  BY ViewParts, ViewsDiffer, Zenon

\* What the invariant says about the sockets of the process that runs.
LEMMA FitFacts ==
  ASSUME V \in Views, NEW e \in Procs, NEW w, NEW c, Fits(e, w, c)
  PROVE  /\ w \in Worlds
         /\ \A i \in Ids : /\ w.sock[i] \in Sockets /\ SocketOK(e, w.sock[i])
                           /\ i >= w.next => w.sock[i].st = "none"
         /\ \A i, m \in Ids : w.sock[i].peer = Local(m) =>
              /\ e = "host" /\ i # m /\ w.sock[m].peer = Local(i)
              /\ w.sock[i].st = "live" /\ w.sock[m].st = "live"
              /\ w.sock[i].end \in Ends /\ w.sock[m].end \in Ends
<1>1. PICK v : v = View(e, w, c)
  OBVIOUS
<1>1a. ViewOf(e, w, c, v) /\ w \in Worlds /\ Sound(v)
  BY <1>1, ViewParts, Zenon DEF Fits
<1>2. w \in Worlds /\ v.sock[e] = w.sock /\ v.next[e] = w.next /\ Sound(v)
  BY <1>1a DEF ViewOf
<1>3. \A i \in Ids : /\ w.sock[i] \in Sockets /\ SocketOK(e, w.sock[i])
                     /\ i >= w.next => w.sock[i].st = "none"
  BY <1>2, WorldFacts DEF Sound, SocketsOK
<1>4. ASSUME NEW i \in Ids, NEW m \in Ids, w.sock[i].peer = Local(m)
      PROVE  w.sock[i].st = "live" /\ e = "host" /\ w.sock[i].end \in Ends
  <2>1. w.sock[i].st = "live"
    BY <1>3, <1>4, PeerKinds DEF SocketOK
  <2>2. ~IsRemote(w.sock[i].peer)
    BY <1>4, PeerKinds DEF IsRemote
  <2> QED
    BY <1>3, <2>1, <2>2 DEF SocketOK, LiveOK, Procs
<1>5. \A i, m \in Ids : w.sock[i].peer = Local(m) => i # m /\ w.sock[m].peer = Local(i)
  BY <1>2, <1>4 DEF Sound, PairsOK
<1> QED
  BY <1>2, <1>3, <1>4, <1>5

\* One socket changes in a way that keeps it sound, and its peer and what is
\* under way stay: the world still fits.
LEMMA FitTouch ==
  ASSUME V \in Views, NEW e \in Procs, NEW w, NEW c, Fits(e, w, c), NEW w2 \in Worlds, NEW i \in Ids,
         NEW t, w2.next = w.next, w2.out = w.out, w2.sock = [w.sock EXCEPT ![i] = t],
         t.st = w.sock[i].st, t.peer = w.sock[i].peer,
         t.transport = w.sock[i].transport \/ (t.peer = Smart /\ state[e] = "connected"),
         SocketOK(e, t)
  PROVE  Fits(e, w2, c)
<1>1. PICK v, v2 : v = View(e, w, c) /\ v2 = View(e, w2, c)
  OBVIOUS
<1>2a. Change(e, w, w2, c, v, v2)
  BY <1>1, ViewChange, Zenon DEF Fits
<1>2. /\ v2 \in Views /\ SameRest(v, v2) /\ v2.next = v.next /\ v2.chan = v.chan
      /\ v.sock[e] = w.sock /\ v2.sock[e] = w2.sock
      /\ \A f \in Procs : f # e => v2.sock[f] = v.sock[f]
  BY <1>2a DEF Change
<1>3. Sound(v) /\ w.sock \in [Ids -> Sockets]
  BY <1>1, WorldFacts DEF Fits
<1>4. OneSocket(v, v2, e, i, t)
  BY <1>2, <1>3 DEF OneSocket
<1>5. v.sock[e][i] = w.sock[i] /\ v.state[e] = state[e]
  <2>1. ViewOf(e, w, c, v)
    BY <1>1, ViewParts, Zenon DEF Fits
  <2> QED
    BY <1>2, <2>1 DEF ViewOf
<1>7. /\ t.st = v.sock[e][i].st /\ t.peer = v.sock[e][i].peer
      /\ t.transport = v.sock[e][i].transport \/ (t.peer = Smart /\ v.state[e] = "connected")
  BY <1>5
<1>6. Sound(v2)
  BY <1>2, <1>3, <1>4, <1>7, TouchKeeps
<1> QED
  BY <1>1, <1>6 DEF Fits

Die(e, w, w2, D) ==
  \A k \in Ids :
    /\ k \notin D => w2.sock[k] = w.sock[k]
    /\ k \in D => /\ w2.sock[k].st \in {"closing", "gone"} /\ w.sock[k].st # "none"
                  /\ SocketOK(e, w2.sock[k])
                  /\ \A m \in Ids : w.sock[k].peer = Local(m) => m \in D

\* Sockets die, pair by pair: the world still fits.
LEMMA FitDeaths ==
  ASSUME V \in Views, NEW e \in Procs, NEW w, NEW c, Fits(e, w, c), NEW w2 \in Worlds,
         NEW D, w2.next = w.next, w2.out = w.out, Die(e, w, w2, D)
  PROVE  Fits(e, w2, c)
<1>1. PICK v, v2 : v = View(e, w, c) /\ v2 = View(e, w2, c)
  OBVIOUS
<1>2a. Change(e, w, w2, c, v, v2)
  BY <1>1, ViewChange, Zenon DEF Fits
<1>2. /\ v2 \in Views /\ SameRest(v, v2) /\ v2.next = v.next /\ v2.chan = v.chan
      /\ v.sock[e] = w.sock /\ v2.sock[e] = w2.sock
      /\ \A f \in Procs : f # e => v2.sock[f] = v.sock[f]
  BY <1>2a DEF Change
<1>3. Sound(v)
  BY <1>1 DEF Fits
<1>4. Deaths(v, v2, e, D)
  BY <1>2 DEF Deaths, Die
<1>5. Sound(v2)
  BY <1>2, <1>3, <1>4, DeathsKeep, Zenon
<1> QED
  BY <1>1, <1>5 DEF Fits

\* A packet is sent that the channel may carry: the world still fits.
LEMMA FitPush ==
  ASSUME V \in Views, NEW e \in Procs, NEW w, NEW c, Fits(e, w, c), NEW w2 \in Worlds,
         NEW p \in Packets, w2.next = w.next, w2.out = Append(w.out, p), w2.sock = w.sock,
         p.cmd # "SYNC",
         e = "device" => /\ p.cmd # "OPEN"
                         /\ p.cmd \in {"OKAY", "WRTE"} => Known(View(e, w, c), p.arg1)
                         /\ p.cmd = "WRTE" => \E k \in Ids : w.sock[k].peer = Remote(p.arg1),
         e = "host" /\ p.cmd \in {"OPEN", "OKAY", "WRTE"} => Known(View(e, w, c), p.arg0)
  PROVE  Fits(e, w2, c)
<1>1. PICK v, v2 : v = View(e, w, c) /\ v2 = View(e, w2, c)
  OBVIOUS
<1>2a. Change(e, w, w2, c, v, v2)
  BY <1>1, ViewChange, Zenon DEF Fits
<1>2. /\ v2 \in Views /\ SameRest(v, v2) /\ v2.next = v.next /\ v2.sock = v.sock
      /\ v.sock[e] = w.sock /\ v.link \in BOOLEAN
      /\ v2.chan = IF v.link THEN [v.chan EXCEPT ![Other(e)] = Append(@, p)] ELSE v.chan
  BY <1>2a, ViewFacts DEF Change
<1>3. Sound(v)
  BY <1>1 DEF Fits
<1>4. CASE ~v.link
  <2>1. v2.chan = v.chan
    BY <1>2, <1>4
  <2>2. Deaths(v, v2, e, {})
    BY <1>2 DEF Deaths, Die
  <2>3. Sound(v2)
    BY <1>2, <1>3, <2>1, <2>2, DeathsKeep, Zenon
  <2> QED
    BY <1>1, <2>3 DEF Fits
<1>5. CASE v.link
  <2>1. PICK f \in Procs : f = Other(e) /\ (f = "host" <=> e = "device")
    BY ProcFacts DEF Other
  <2>2. v2.chan = [v.chan EXCEPT ![f] = Append(@, p)]
    BY <1>2, <1>5, <2>1
  <2>3. /\ f = "host" => /\ p.cmd # "OPEN"
                         /\ p.cmd \in {"OKAY", "WRTE"} => Known(v, p.arg1)
                         /\ p.cmd = "WRTE" => \E k \in Ids : v.sock["device"][k].peer = Remote(p.arg1)
        /\ f = "device" /\ p.cmd \in {"OPEN", "OKAY", "WRTE"} => Known(v, p.arg0)
    BY <1>1, <1>2, <2>1 DEF Procs
  <2>4. Sound(v2)
    BY <1>2, <1>3, <1>5, <2>2, <2>3, PushKeeps
  <2> QED
    BY <1>1, <2>4 DEF Fits
<1> QED
  BY <1>2, <1>4, <1>5

\* Only the data of the streams changes: the world still fits.
LEMMA FitSame ==
  ASSUME V \in Views, NEW e \in Procs, NEW w, NEW c, Fits(e, w, c), NEW w2 \in Worlds,
         w2.next = w.next, w2.out = w.out, w2.sock = w.sock
  PROVE  Fits(e, w2, c)
<1>1. Die(e, w, w2, {})
  BY DEF Die
<1> QED
  BY <1>1, FitDeaths, Zenon

\* The other side may be told of a socket that has a remote peer.
LEMMA FitKnown ==
  ASSUME V \in Views, NEW e \in Procs, NEW w, NEW c, Fits(e, w, c), NEW i \in Ids, NEW k \in Ids,
         w.sock[i].peer = Remote(k)
  PROVE  /\ w.sock[i].st = "live"
         /\ e = "host" => Known(View(e, w, c), i)
         /\ e = "device" => Known(View(e, w, c), k)
<1>1. PICK v : v = View(e, w, c)
  OBVIOUS
<1>2. ViewOf(e, w, c, v) /\ w \in Worlds /\ Sound(v)
  BY <1>1, ViewParts, Zenon DEF Fits
<1>3. v.sock[e] = w.sock
  BY <1>2 DEF ViewOf
<1>4. w.sock[i].st = "live"
  BY FitFacts, PeerKinds DEF SocketOK
<1>5. e = "host" => w.sock[i].transport
  BY <1>4, FitFacts DEF SocketOK, LiveOK, IsRemote
<1>6. e = "host" => Known(v, i)
  BY <1>3, <1>4, <1>5, PeerKinds DEF Known
<1>7. e = "device" => Known(v, k)
  BY <1>2, <1>3 DEF Sound, KnownOK
<1> QED
  BY <1>1, <1>4, <1>6, <1>7

Okay(i, k) == [cmd |-> "OKAY", arg0 |-> i, arg1 |-> k]
Wrte(i, k, d) == [cmd |-> "WRTE", arg0 |-> i, arg1 |-> k, data |-> d]

\* A socket sends OKAY, data or CLSE to its remote peer.
LEMMA FitSend ==
  ASSUME V \in Views, NEW e \in Procs, NEW w, NEW c, Fits(e, w, c), NEW i \in Ids, NEW k \in Ids,
         w.sock[i].peer = Remote(k), NEW p, p \in {Okay(i, k), Clse(k)} \cup {Wrte(i, k, d) : d \in Data},
         NEW w2, w2 = SendPacket(w, p)
  PROVE  Fits(e, w2, c)
<1>1. p \in Packets /\ w \in Worlds
  BY SentPackets DEF Okay, Clse, Wrte, Fits
<1>2. /\ w2 \in Worlds /\ SameWorldData(w, w2) /\ w2.sock = w.sock /\ w2.out = Append(w.out, p)
  BY <1>1, SendFacts
<1>3. /\ p.cmd \in {"OKAY", "CLSE", "WRTE"} /\ p.arg1 = k
      /\ p.cmd \in {"OKAY", "WRTE"} => p.arg0 = i
  BY DEF Okay, Clse, Wrte
<1>4. /\ e = "host" => Known(View(e, w, c), i)
      /\ e = "device" => Known(View(e, w, c), k)
  BY FitKnown
<1>5. /\ p.cmd # "SYNC" /\ p.cmd # "OPEN" /\ w2.next = w.next
      /\ p.cmd \in {"OKAY", "WRTE"} /\ e = "device" => Known(View(e, w, c), p.arg1)
      /\ p.cmd = "WRTE" => \E m \in Ids : w.sock[m].peer = Remote(p.arg1)
      /\ e = "host" /\ p.cmd \in {"OPEN", "OKAY", "WRTE"} => Known(View(e, w, c), p.arg0)
  BY <1>2, <1>3, <1>4 DEF SameWorldData
<1> QED
  BY <1>1, <1>2, <1>5, FitPush, Zenon

\* local_socket_close_locked
LEMMA FitClose ==
  ASSUME V \in Views, NEW e \in Procs, NEW w, NEW c, Fits(e, w, c), NEW i \in Ids,
         w.sock[i].st \in {"live", "closing"}, NEW why \in Promise!Closed,
         NEW w2, w2 = Close(w, i, why)
  PROVE  /\ Fits(e, w2, c) /\ w2.sock[i].st \in {"closing", "gone"}
         /\ \A m \in Ids : w.sock[i].peer = Local(m) => w2.sock[m].st \in {"closing", "gone"}
<1>1. /\ w \in Worlds /\ w.sock[i].end \in Ends /\ w.sock \in [Ids -> Sockets]
      /\ \A m \in Ids : w.sock[i].peer = Local(m) => m # i /\ w.sock[m].end \in Ends
      /\ w.sock[i] \in Sockets /\ "peer" \in Promise!Closed
  BY FitFacts, WorldFacts DEF SocketOK, Promise!Closed
<1> DEFINE s == w.sock[i]
<1>2a. IsClosed(w, i, why, w2)
  BY <1>1, CloseFacts, Zenon
<1>2. /\ w2 \in Worlds /\ SameWorldData(w, w2)
      /\ ~IsRemote(s.peer) => w2.out = w.out
      /\ \A k \in Ids : s.peer = Remote(k) => w2.out = Append(w.out, Clse(k))
      /\ ~IsLocal(s.peer) => w2.sock = [w.sock EXCEPT ![i] = Dying(w.sock[i], why)]
      /\ \A m \in Ids : s.peer = Local(m) =>
              w2.sock = [w.sock EXCEPT ![m] = Dying(w.sock[m], "peer"), ![i] = Dying(w.sock[i], why)]
  BY <1>2a DEF IsClosed
<1>3. PICK t : t = Dying(w.sock[i], why)
  OBVIOUS
<1>4. t.st \in {"closing", "gone"} /\ SocketOK(e, t) /\ t \in Sockets
  BY <1>1, <1>3, DyingFacts
<1>5. ASSUME NEW m \in Ids, s.peer = Local(m)
      PROVE  /\ Fits(e, w2, c) /\ w2.sock[i].st \in {"closing", "gone"}
             /\ w2.sock[m].st \in {"closing", "gone"}
  <2>1. PICK u : u = Dying(w.sock[m], "peer")
    OBVIOUS
  <2>2. /\ m # i /\ w.sock[m].peer = Local(i) /\ w.sock[m].end \in Ends /\ w.sock[m].st = "live"
        /\ w.sock[m] \in Sockets
    BY <1>5, FitFacts
  <2>3. u.st \in {"closing", "gone"} /\ SocketOK(e, u) /\ u \in Sockets
    BY <1>1, <2>1, <2>2, DyingFacts
  <2>4. w2.out = w.out /\ w2.next = w.next /\ w2.sock = [w.sock EXCEPT ![m] = u, ![i] = t]
    BY <1>2, <1>3, <1>5, <2>1, PeerKinds DEF SameWorldData, IsRemote
  <2>5. /\ w2.sock[i] = t /\ w2.sock[m] = u
        /\ \A k \in Ids : k \notin {i, m} => w2.sock[k] = w.sock[k]
    BY <1>1, <1>4, <2>2, <2>3, <2>4
  <2>6. Die(e, w, w2, {i, m})
    BY <1>1, <1>4, <1>5, <2>2, <2>3, <2>5, PeerKinds DEF Die
  <2>7. Fits(e, w2, c)
    BY <1>2, <2>4, <2>5, <2>6, FitDeaths, Zenon
  <2> QED
    BY <1>4, <2>3, <2>5, <2>7
<1>6. ASSUME NEW w1, Fits(e, w1, c), w1.out = w2.out, w1.sock = w.sock, w1.next = w.next, ~IsLocal(s.peer)
      PROVE  Fits(e, w2, c) /\ w2.sock[i].st \in {"closing", "gone"}
  <2>1. w2.next = w1.next /\ w2.sock = [w.sock EXCEPT ![i] = t]
    BY <1>2, <1>3, <1>6 DEF SameWorldData
  <2>2. w2.sock[i] = t /\ \A k \in Ids : k \notin {i} => w2.sock[k] = w1.sock[k]
    BY <1>1, <1>4, <1>6, <2>1
  <2>3. Die(e, w1, w2, {i})
    BY <1>1, <1>4, <1>6, <2>2 DEF IsLocal, Die
  <2>4. w2 \in Worlds /\ w2.out = w1.out
    BY <1>2, <1>6
  <2>5. Fits(e, w2, c)
    BY <1>6, <2>1, <2>2, <2>3, <2>4, FitDeaths, Zenon
  <2> QED
    BY <1>4, <2>2, <2>5
<1>7. ASSUME NEW k \in Ids, s.peer = Remote(k)
      PROVE  Fits(e, w2, c) /\ w2.sock[i].st \in {"closing", "gone"}
  <2>1. PICK w1 : w1 = SendPacket(w, Clse(k))
    OBVIOUS
  <2>2. Fits(e, w1, c)
    <3>1. Clse(k) \in {Okay(i, k), Clse(k)} \cup {Wrte(i, k, d) : d \in Data}
      OBVIOUS
    <3> QED
      BY <1>7, <2>1, <3>1, FitSend, Zenon
  <2>3. w1.sock = w.sock /\ w1.next = w.next /\ w1.out = Append(w.out, Clse(k))
    BY <1>1, <2>1, SendFacts, SentPackets DEF Clse, SameWorldData
  <2>4. ~IsLocal(s.peer) /\ w2.out = w1.out
    BY <1>2, <1>7, <2>3, PeerKinds DEF IsLocal
  <2> QED
    BY <1>6, <2>2, <2>3, <2>4
<1>8. CASE ~IsLocal(s.peer) /\ ~IsRemote(s.peer)
  BY <1>2, <1>6, <1>8 DEF IsLocal
<1>9. ~IsLocal(s.peer) => \A m \in Ids : s.peer # Local(m)
  BY DEF IsLocal
<1>10. IsLocal(s.peer) => \E m \in Ids : s.peer = Local(m)
  BY DEF IsLocal
<1>11. IsRemote(s.peer) => \E m \in Ids : s.peer = Remote(m)
  BY DEF IsRemote
<1> QED
  BY <1>5, <1>7, <1>8, <1>9, <1>10, <1>11

\* One socket is changed.
Touched(w, i, t, w2) ==
  /\ w2 \in Worlds /\ SameWorldData(w, w2) /\ w2.fin = w.fin /\ w2.out = w.out
  /\ w2.sock = [w.sock EXCEPT ![i] = t] /\ w2.sock[i] = t
  /\ \A k \in Ids \ {i} : w2.sock[k] = w.sock[k]

\* Changing one slot is a Touched world.
LEMMA TouchFacts ==
  ASSUME NEW w \in Worlds, NEW i \in Ids, NEW t \in Sockets, NEW w2, w2 = [w EXCEPT !.sock[i] = t]
  PROVE  Touched(w, i, t, w2)
  BY DEF Worlds, Touched, SameWorldData

\* A Touched world fits when the new socket is sound.
LEMMA FitTouched ==
  ASSUME V \in Views, NEW e \in Procs, NEW w, NEW c, Fits(e, w, c), NEW i \in Ids, NEW t, NEW w2,
         Touched(w, i, t, w2), t.st = w.sock[i].st, t.peer = w.sock[i].peer,
         t.transport = w.sock[i].transport \/ (t.peer = Smart /\ state[e] = "connected"),
         SocketOK(e, t)
  PROVE  Fits(e, w2, c)
<1>1. /\ w2 \in Worlds /\ w2.next = w.next /\ w2.out = w.out /\ w2.sock = [w.sock EXCEPT ![i] = t]
  BY DEF Touched, SameWorldData
<1> QED
  BY <1>1, FitTouch, Zenon

\* fdevent_set and fdevent_del on a socket whose events were taken.
Stopped(s) == FdeventSet(s, s.want \ {"R"})
Started(s) == FdeventSet(s, s.want \cup {"R"})

\* A socket that is no longer read is sound.
LEMMA StoppedFacts ==
  ASSUME NEW s \in Sockets, NEW t, t = Stopped(s)
  PROVE  /\ t \in Sockets /\ t.st = s.st /\ t.peer = s.peer /\ t.transport = s.transport
         /\ t.pkts = s.pkts /\ t.end = s.end /\ t.why = s.why /\ t.want = s.want \ {"R"}
         /\ \A e : SocketOK(e, s) /\ (s.st = "live" => s.evs = {}) => SocketOK(e, t)
         /\ s.evs = {} => t.evs = {}
<1>1. PICK events \in SUBSET {"R", "W"} : events = s.want \ {"R"}
  BY SocketFacts
<1>2. /\ t \in Sockets /\ t.st = s.st /\ t.peer = s.peer /\ t.transport = s.transport
      /\ t.pkts = s.pkts /\ t.end = s.end /\ t.why = s.why /\ t.want = events
      /\ t.evs \subseteq s.evs
  BY <1>1 DEF FdeventSet, Sockets, Stopped
<1>3. ASSUME NEW e, SocketOK(e, s), s.st = "live" => s.evs = {} PROVE SocketOK(e, t)
  <2>1. CASE s.st = "live"
    BY <1>1, <1>2, <1>3, <2>1 DEF SocketOK, LiveOK
  <2>2. CASE s.st \in {"none", "gone"}
    BY <1>1, <1>2, <1>3, <2>2 DEF SocketOK
  <2>3. CASE s.st = "closing"
    BY <1>1, <1>2, <1>3, <2>3 DEF SocketOK
  <2> QED
    BY <2>1, <2>2, <2>3, SocketFacts
<1> QED
  BY <1>1, <1>2, <1>3

\* A socket that is read again is sound.
LEMMA StartedFacts ==
  ASSUME NEW s \in Sockets, NEW t, t = Started(s)
  PROVE  /\ t \in Sockets /\ t.st = s.st /\ t.peer = s.peer /\ t.transport = s.transport
         /\ t.pkts = s.pkts /\ t.end = s.end /\ t.why = s.why /\ t.want = s.want \cup {"R"}
         /\ \A e : SocketOK(e, s) /\ s.st = "live" /\ s.peer # None => SocketOK(e, t)
<1>1. PICK events \in SUBSET {"R", "W"} : events = s.want \cup {"R"}
  BY SocketFacts
<1>2. /\ t \in Sockets /\ t.st = s.st /\ t.peer = s.peer /\ t.transport = s.transport
      /\ t.pkts = s.pkts /\ t.end = s.end /\ t.why = s.why /\ t.want = events
      /\ t.evs \subseteq s.evs
  BY <1>1 DEF FdeventSet, Sockets, Started
<1>3. ASSUME NEW e, SocketOK(e, s), s.st = "live", s.peer # None PROVE SocketOK(e, t)
  BY <1>1, <1>2, <1>3 DEF SocketOK, LiveOK
<1> QED
  BY <1>1, <1>2, <1>3

\* The end of the read half.
Quiet(w, i, r) == IF r = 1 THEN [w EXCEPT !.sock[i] = FdeventSet(@, @.want \ {"R"})] ELSE w
Why(s) == IF s.st = "live" /\ s.peer \in {None, Smart} THEN "quit" ELSE "own"

\* A full peer only stops the reading of the socket.
LEMMA QuietFacts ==
  ASSUME NEW w \in Worlds, NEW i \in Ids, NEW w2, w2 = Quiet(w, i, 1)
  PROVE  Touched(w, i, Stopped(w.sock[i]), w2)
<1>1. PICK t : t = Stopped(w.sock[i])
  OBVIOUS
<1>2. t \in Sockets
  BY <1>1, WorldFacts, StoppedFacts
<1>3. w2 = [w EXCEPT !.sock[i] = t]
  BY <1>1 DEF Quiet, Stopped, Worlds
<1> QED
  BY <1>1, <1>2, <1>3, TouchFacts, Zenon

\* A use of freed memory is noted beside the sockets.
LEMMA FitFreed ==
  ASSUME V \in Views, NEW e \in Procs, NEW w, NEW c, Fits(e, w, c), NEW w2, w2 = [w EXCEPT !.freed = TRUE]
  PROVE  Fits(e, w2, c)
<1>1. w \in Worlds
  BY DEF Fits
<1>2. w2 \in Worlds /\ w2.next = w.next /\ w2.out = w.out /\ w2.sock = w.sock
  BY <1>1 DEF Worlds
<1> QED
  BY <1>2, FitSame, Zenon

\* The end of the read half, with or without an end of file.
LEMMA FitAfterRead ==
  ASSUME V \in Views, NEW e \in Procs, NEW w, NEW c, Fits(e, w, c), NEW i \in Ids,
         w.sock[i].st \in {"live", "closing", "gone"}, NEW r \in {0, 1}, NEW eof \in BOOLEAN,
         r = 1 /\ w.sock[i].st = "live" => w.sock[i].evs = {},
         NEW w2, w2 = AfterRead(w, i, r, eof)
  PROVE  Fits(e, w2, c)
<1>1. CASE w.sock[i].st = "gone"
  <2>1. w2 = [w EXCEPT !.freed = TRUE]
    BY <1>1 DEF AfterRead
  <2> QED
    BY <2>1, FitFreed, Zenon
<1>2. CASE w.sock[i].st # "gone"
  <2>1. PICK w1 : w1 = Quiet(w, i, r)
    OBVIOUS
  <2>2. Fits(e, w1, c) /\ w1.sock[i].st = w.sock[i].st
    <3>1. CASE r = 0
      BY <2>1, <3>1 DEF Quiet
    <3>2. CASE r = 1
      <4>1. PICK t : t = Stopped(w.sock[i])
        OBVIOUS
      <4>2. Touched(w, i, t, w1) /\ w.sock[i] \in Sockets /\ SocketOK(e, w.sock[i])
        BY <2>1, <3>2, <4>1, QuietFacts, FitFacts, Zenon
      <4>3. /\ t.st = w.sock[i].st /\ t.peer = w.sock[i].peer /\ t.transport = w.sock[i].transport
            /\ SocketOK(e, t)
        BY <3>2, <4>1, <4>2, StoppedFacts
      <4>4. Fits(e, w1, c)
        BY <4>2, <4>3, FitTouched, Zenon
      <4> QED
        BY <4>2, <4>3, <4>4 DEF Touched
    <3> QED
      BY <3>1, <3>2
  <2>3. CASE eof
    <3>1. PICK why \in Promise!Closed : why = Why(w.sock[i])
      BY DEF Why, Promise!Closed
    <3>2. w2 = Close(w1, i, why)
      BY <1>2, <2>1, <2>3, <3>1 DEF AfterRead, Quiet, Why
    <3>3. w1.sock[i].st \in {"live", "closing"}
      BY <1>2, <2>2
    <3> QED
      BY <2>2, <3>2, <3>3, FitClose, SMTT(20)
  <2>4. CASE ~eof
    <3>1. w2 = w1
      BY <1>2, <2>1, <2>4 DEF AfterRead, Quiet
    <3> QED
      BY <2>2, <3>1
  <2> QED
    BY <2>3, <2>4
<1> QED
  BY <1>1, <1>2

-----------------------------------------------------------------------------
(* local_socket_event_func *)

\* local_socket_ready, on a socket with a peer.
LEMMA FitReady ==
  ASSUME V \in Views, NEW e \in Procs, NEW w, NEW c, Fits(e, w, c), NEW i \in Ids,
         w.sock[i].st = "live", w.sock[i].peer # None, NEW w2, w2 = SocketReady(w, i)
  PROVE  Fits(e, w2, c) /\ Touched(w, i, Started(w.sock[i]), w2)
<1>1. w \in Worlds /\ w.sock[i] \in Sockets /\ SocketOK(e, w.sock[i])
  BY FitFacts
<1>2. PICK t : t = Started(w.sock[i])
  OBVIOUS
<1>3. /\ t \in Sockets /\ t.st = w.sock[i].st /\ t.peer = w.sock[i].peer
      /\ t.transport = w.sock[i].transport /\ SocketOK(e, t)
  BY <1>1, <1>2, StartedFacts
<1>4. w2 = [w EXCEPT !.sock[i] = t]
  BY <1>1, <1>2 DEF SocketReady, Started, Worlds
<1>5. Touched(w, i, t, w2)
  BY <1>1, <1>3, <1>4, TouchFacts, Zenon
<1>6. Fits(e, w2, c)
  BY <1>3, <1>5, FitTouched, Zenon
<1> QED
  BY <1>2, <1>5, <1>6

\* The packets of a socket were written to its program: the socket and what
\* the program received.
Drained(s) == FdeventSet([s EXCEPT !.pkts = <<>>], s.want \ {"W"})
IsWritten(w, i, t, w2) ==
  /\ w2 \in Worlds /\ w2.sent = w.sent /\ w2.fin = w.fin /\ w2.next = w.next /\ w2.out = w.out
  /\ w2.freed = w.freed /\ w2.sock = [w.sock EXCEPT ![i] = t] /\ w2.sock[i] = t
  /\ \A k \in Ids \ {i} : w2.sock[k] = w.sock[k]
  /\ w2.rcvd = [w.rcvd EXCEPT ![w.sock[i].end] = @ \o w.sock[i].pkts]

\* What writing some of the queue leaves.
LEMMA WrittenFacts ==
  ASSUME NEW w \in Worlds, NEW i \in Ids, w.sock[i].end \in Ends, NEW t \in Sockets,
         NEW w2, w2 = [Written(w, i, w.sock[i].pkts) EXCEPT !.sock[i] = t]
  PROVE  IsWritten(w, i, t, w2)
<1>1. w.rcvd[w.sock[i].end] \in Seq(Data) /\ w.sock[i].pkts \in Seq(Data)
  BY WorldFacts, SocketFacts
<1>2. PICK a \in Seq(Data) : a = w.rcvd[w.sock[i].end] \o w.sock[i].pkts
  BY <1>1, ConcatProperties
<1>3. w2 = [w EXCEPT !.rcvd[w.sock[i].end] = a, !.sock[i] = t]
  BY <1>2 DEF Written, Worlds
<1>4. PICK z : z = [w EXCEPT !.rcvd[w.sock[i].end] = a, !.sock[i] = t]
  OBVIOUS
<1>5. /\ z \in Worlds /\ z.sent = w.sent /\ z.fin = w.fin /\ z.next = w.next /\ z.out = w.out
      /\ z.freed = w.freed /\ z.sock = [w.sock EXCEPT ![i] = t] /\ z.sock[i] = t
      /\ \A k \in Ids \ {i} : z.sock[k] = w.sock[k]
      /\ z.rcvd = [w.rcvd EXCEPT ![w.sock[i].end] = a]
  BY <1>4 DEF Worlds
<1>6. IsWritten(w, i, t, z)
  BY <1>2, <1>5 DEF IsWritten
<1> QED
  BY <1>3, <1>4, <1>6, Zenon

\* A drained socket is sound.
LEMMA DrainedFacts ==
  ASSUME NEW s \in Sockets, s.evs = {}, NEW t, t = Drained(s)
  PROVE  /\ t \in Sockets /\ t.st = s.st /\ t.peer = s.peer /\ t.transport = s.transport
         /\ t.pkts = <<>> /\ t.end = s.end /\ t.why = s.why /\ t.want = s.want \ {"W"} /\ t.evs = {}
         /\ \A e : SocketOK(e, s) => SocketOK(e, t)
<1>1. PICK events \in SUBSET {"R", "W"} : events = s.want \ {"W"}
  BY SocketFacts
<1>2. <<>> \in Seq(Data)
  OBVIOUS
<1>3. PICK q : q = [s EXCEPT !.pkts = <<>>]
  OBVIOUS
<1>4. q \in Sockets /\ q.st = s.st /\ q.peer = s.peer /\ q.transport = s.transport /\ q.pkts = <<>>
      /\ q.end = s.end /\ q.why = s.why /\ q.want = s.want /\ q.evs = {}
  BY <1>2, <1>3 DEF Sockets
<1>5. /\ t \in Sockets /\ t.st = s.st /\ t.peer = s.peer /\ t.transport = s.transport
      /\ t.pkts = <<>> /\ t.end = s.end /\ t.why = s.why /\ t.want = events /\ t.evs = {}
  <2>1. t = FdeventSet(q, events)
    BY <1>1, <1>3 DEF Drained
  <2>2. IsSet(q, events, t)
    BY <1>4, <2>1, SetFacts, Zenon
  <2> QED
    BY <1>4, <2>2 DEF IsSet
<1>6. ASSUME NEW e, SocketOK(e, s) PROVE SocketOK(e, t)
  BY <1>1, <1>5, <1>6 DEF SocketOK, LiveOK
<1> QED
  BY <1>1, <1>5, <1>6

\* A view whose data changes and one socket with it.
LEMMA FitWritten ==
  ASSUME V \in Views, NEW e \in Procs, NEW w, NEW c, Fits(e, w, c), NEW i \in Ids, NEW t, NEW w2,
         IsWritten(w, i, t, w2), t.st = w.sock[i].st, t.peer = w.sock[i].peer,
         t.transport = w.sock[i].transport, SocketOK(e, t)
  PROVE  Fits(e, w2, c)
<1>1. /\ w2 \in Worlds /\ w2.next = w.next /\ w2.out = w.out /\ w2.sock = [w.sock EXCEPT ![i] = t]
  BY DEF IsWritten
<1> QED
  BY <1>1, FitTouch, Zenon

\* The write half drains a live socket and tells its peer.
LEMMA FitPeerReady ==
  ASSUME V \in Views, NEW e \in Procs, NEW w, NEW c, Fits(e, w, c), NEW i \in Ids,
         w.sock[i].st = "live", NEW w2, w2 = PeerReady(w, i)
  PROVE  Fits(e, w2, c) /\ w2.sock[i] = w.sock[i]
<1>1. w \in Worlds /\ w.sock[i] \in Sockets /\ w.sock[i].peer \in Peers
  BY FitFacts, SocketFacts
<1> DEFINE p == w.sock[i].peer
<1>2. CASE IsRemote(p)
  <2>1. PICK k \in Ids : p = Remote(k)
    BY <1>2 DEF IsRemote
  <2>2. w2 = SendPacket(w, Okay(i, k))
    BY <1>1, <1>2, <2>1, PeerParts DEF PeerReady, Okay
  <2>3. Okay(i, k) \in {Okay(i, k), Clse(k)} \cup {Wrte(i, k, d) : d \in Data}
    OBVIOUS
  <2>4. Fits(e, w2, c)
    BY <2>1, <2>2, <2>3, FitSend, Zenon
  <2>5. Okay(i, k) \in Packets
    BY SentPackets DEF Okay
  <2>6. w2.sock = w.sock
    BY <1>1, <2>2, <2>5, SendFacts
  <2> QED
    BY <2>4, <2>6
<1>3. CASE IsLocal(p)
  <2>1. PICK m \in Ids : p = Local(m)
    BY <1>3 DEF IsLocal
  <2>2. p[1] # "remote" /\ p[1] = "local" /\ p[2] = m
    BY <1>1, <2>1, <1>3, PeerParts, PeerKinds DEF IsRemote
  <2>3. w2 = SocketReady(w, m)
    BY <2>2 DEF PeerReady
  <2>4. m # i /\ w.sock[m].st = "live" /\ w.sock[m].peer = Local(i)
    BY <2>1, FitFacts
  <2>5. w.sock[m].peer # None
    BY <2>4, PeerKinds
  <2>6. Fits(e, w2, c) /\ Touched(w, m, Started(w.sock[m]), w2)
    BY <2>3, <2>4, <2>5, FitReady, Zenon
  <2>7. w2.sock[i] = w.sock[i]
    BY <2>4, <2>6 DEF Touched
  <2> QED
    BY <2>6, <2>7
<1>4. CASE ~IsRemote(p) /\ ~IsLocal(p)
  <2>1. w2 = w
    BY <1>1, <1>4, PeerParts DEF PeerReady
  <2> QED
    BY <2>1
<1> QED
  BY <1>2, <1>3, <1>4

\* The outcomes of the write half, by name.
LEMMA WriteHalfCases ==
  ASSUME NEW w \in Worlds, NEW i \in Ids, NEW h \in WriteHalf(w, i), w.sock[i].st \in {"live", "closing"}
  PROVE  \/ /\ w.sock[i].st = "closing" /\ h.returns = TRUE
            /\ \E w1 : /\ w1 = [Written(w, i, w.sock[i].pkts) EXCEPT !.sock[i] = [w.sock[i] EXCEPT !.pkts = <<>>]]
                       /\ h.w = Shut(w1, i, w.sock[i].why)
         \/ /\ w.sock[i].st = "live" /\ h.returns = FALSE
            /\ \E w1 : /\ w1 = [Written(w, i, w.sock[i].pkts) EXCEPT !.sock[i] = Drained(w.sock[i])]
                       /\ h.w = PeerReady(w1, i)
         \/ h.w = w /\ h.returns = TRUE
         \/ h.w = Close(w, i, "own") /\ h.returns = TRUE
<1> DEFINE s == w.sock[i]
           written == [Written(w, i, s.pkts) EXCEPT !.sock[i].pkts = <<>>]
           quiet == [written EXCEPT !.sock[i] = FdeventSet(@, @.want \ {"W"})]
<1>1. \/ h = (IF s.st = "closing" THEN [w |-> Shut(written, i, s.why), returns |-> TRUE]
              ELSE [w |-> PeerReady(quiet, i), returns |-> FALSE])
      \/ h = [w |-> w, returns |-> TRUE]
      \/ h = [w |-> Close(w, i, "own"), returns |-> TRUE]
  BY DEF WriteHalf
<1>2. PICK a : a = Written(w, i, s.pkts)
  OBVIOUS
<1>3. a = [w EXCEPT !.rcvd = a.rcvd]
  BY <1>2 DEF Written, Worlds
<1>4. PICK q : q = [s EXCEPT !.pkts = <<>>]
  OBVIOUS
<1>5. q.want = s.want
  BY <1>4, WorldFacts DEF Sockets
<1>6. written = [a EXCEPT !.sock[i] = q]
  <2> HIDE <1>2
  <2> QED
    BY <1>2, <1>3, <1>4 DEF Worlds
<1>7. quiet = [a EXCEPT !.sock[i] = FdeventSet(q, q.want \ {"W"})]
  <2>1. PICK r : r = written
    OBVIOUS
  <2>2. r = [w EXCEPT !.rcvd = a.rcvd, !.sock[i] = q]
    BY <1>3, <1>6, <2>1 DEF Worlds
  <2>3. r.sock[i] = q
    BY <2>2 DEF Worlds
  <2>4. PICK z : z = FdeventSet(q, q.want \ {"W"})
    OBVIOUS
  <2>5. quiet = [r EXCEPT !.sock[i] = z]
    BY <2>1, <2>3, <2>4
  <2>6. r = [w EXCEPT !.rcvd = a.rcvd, !.sock = r.sock] /\ r.sock = [w.sock EXCEPT ![i] = q]
    BY <2>2 DEF Worlds
  <2>7. [r.sock EXCEPT ![i] = z] = [w.sock EXCEPT ![i] = z]
    BY <2>6, WorldFacts
  <2>8. PICK y : y = [w.sock EXCEPT ![i] = z]
    OBVIOUS
  <2>9. [r EXCEPT !.sock[i] = z] = [w EXCEPT !.rcvd = a.rcvd, !.sock = y]
    BY <2>6, <2>7, <2>8 DEF Worlds
  <2>10. [a EXCEPT !.sock[i] = z] = [w EXCEPT !.rcvd = a.rcvd, !.sock = y]
    BY <1>3, <2>8 DEF Worlds
  <2> QED
    BY <2>4, <2>5, <2>9, <2>10
<1> HIDE DEF written, quiet
<1>8. CASE h = (IF s.st = "closing" THEN [w |-> Shut(written, i, s.why), returns |-> TRUE]
              ELSE [w |-> PeerReady(quiet, i), returns |-> FALSE])
  <2>1. CASE s.st = "closing"
    BY <1>2, <1>4, <1>6, <1>8, <2>1
  <2>2. CASE s.st = "live"
    BY <1>2, <1>4, <1>5, <1>7, <1>8, <2>2 DEF Drained
  <2> QED
    BY <2>1, <2>2
<1>9. CASE h = [w |-> w, returns |-> TRUE]
  BY <1>9
<1>10. CASE h = [w |-> Close(w, i, "own"), returns |-> TRUE]
  BY <1>10
<1> QED
  BY <1>1, <1>8, <1>9, <1>10

\* The write half of local_socket_event_func, every outcome of it.
LEMMA FitWriteHalf ==
  ASSUME V \in Views, NEW e \in Procs, NEW w, NEW c, Fits(e, w, c), NEW i \in Ids,
         w.sock[i].st \in {"live", "closing"}, w.sock[i].evs = {}, NEW h \in WriteHalf(w, i)
  PROVE  /\ Fits(e, h.w, c)
         /\ ~h.returns => h.w.sock[i].st = "live" /\ h.w.sock[i].evs = {}
<1>1. w \in Worlds /\ w.sock[i] \in Sockets /\ SocketOK(e, w.sock[i]) /\ w.sock[i].end \in Ends
  BY FitFacts DEF SocketOK
<1>2. CASE /\ w.sock[i].st = "closing" /\ h.returns = TRUE
           /\ \E w1 : /\ w1 = [Written(w, i, w.sock[i].pkts) EXCEPT !.sock[i] = [w.sock[i] EXCEPT !.pkts = <<>>]]
                      /\ h.w = Shut(w1, i, w.sock[i].why)
  <2>1. PICK t : t = [w.sock[i] EXCEPT !.pkts = <<>>]
    OBVIOUS
  <2>2. PICK w1 : /\ w1 = [Written(w, i, w.sock[i].pkts) EXCEPT !.sock[i] = t]
                  /\ h.w = Shut(w1, i, w.sock[i].why)
    BY <1>2, <2>1
  <2>3. <<>> \in Seq(Data)
    OBVIOUS
  <2>4. /\ t \in Sockets /\ t.st = "closing" /\ t.peer = w.sock[i].peer
        /\ t.transport = w.sock[i].transport /\ t.end = w.sock[i].end
    BY <1>1, <1>2, <2>1, <2>3 DEF Sockets
  <2>5. SocketOK(e, t)
    BY <1>1, <1>2, <2>4 DEF SocketOK
  <2>6. IsWritten(w, i, t, w1)
    BY <1>1, <2>2, <2>4, WrittenFacts, Zenon
  <2>7. Fits(e, w1, c)
    BY <1>2, <2>4, <2>5, <2>6, FitWritten, Zenon
  <2>8. w1 \in Worlds /\ w1.sock[i] = t /\ w1.sock[i].end \in Ends /\ w.sock[i].why \in Promise!Closed
        /\ t.end \in Ends
    BY <1>1, <2>4, <2>6, SocketFacts DEF IsWritten
  <2>9. PICK w2 : w2 = h.w
    OBVIOUS
  <2>9a. PICK y \in Promise!Closed : y = w.sock[i].why
    BY <2>8
  <2>10. IsShut(w1, i, y, w2)
    BY <2>2, <2>8, <2>9, <2>9a, ShutFacts, Zenon
  <2>11. PICK u : u = Dying(t, y)
    OBVIOUS
  <2>12. u.st \in {"closing", "gone"} /\ SocketOK(e, u) /\ u \in Sockets
    BY <2>4, <2>8, <2>11, DyingFacts
  <2>13. /\ w2 \in Worlds /\ w2.next = w1.next /\ w2.out = w1.out /\ w2.sock = [w1.sock EXCEPT ![i] = u]
    BY <2>8, <2>10, <2>11 DEF IsShut, SameWorldData
  <2>14. w1.sock \in [Ids -> Sockets]
    BY <2>8, WorldFacts
  <2>15. Die(e, w1, w2, {i})
    BY <2>4, <2>5, <2>8, <2>12, <2>13, <2>14, PeerKinds DEF Die, SocketOK
  <2>16. Fits(e, w2, c)
    BY <2>7, <2>13, <2>15, FitDeaths, Zenon
  <2> QED
    BY <1>2, <2>9, <2>16
<1>3. CASE /\ w.sock[i].st = "live" /\ h.returns = FALSE
           /\ \E w1 : /\ w1 = [Written(w, i, w.sock[i].pkts) EXCEPT !.sock[i] = Drained(w.sock[i])]
                      /\ h.w = PeerReady(w1, i)
  <2>1. PICK t : t = Drained(w.sock[i])
    OBVIOUS
  <2>2. PICK w1 : /\ w1 = [Written(w, i, w.sock[i].pkts) EXCEPT !.sock[i] = t]
                  /\ h.w = PeerReady(w1, i)
    BY <1>3, <2>1
  <2>3. /\ t \in Sockets /\ t.st = w.sock[i].st /\ t.peer = w.sock[i].peer
        /\ t.transport = w.sock[i].transport /\ SocketOK(e, t) /\ t.evs = {}
    BY <1>1, <2>1, DrainedFacts
  <2>4. IsWritten(w, i, t, w1)
    BY <1>1, <2>2, <2>3, WrittenFacts, Zenon
  <2>5. Fits(e, w1, c)
    BY <2>3, <2>4, FitWritten, Zenon
  <2>6. w1.sock[i] = t /\ w1.sock[i].st = "live"
    BY <1>3, <2>3, <2>4 DEF IsWritten
  <2>6a. PICK w2 : w2 = h.w
    OBVIOUS
  <2>6b. w2 = PeerReady(w1, i)
    BY <2>2, <2>6a
  <2>6c. Fits(e, w2, c) /\ w2.sock[i] = w1.sock[i]
    BY <2>5, <2>6, <2>6b, FitPeerReady
  <2>7. Fits(e, h.w, c) /\ h.w.sock[i] = w1.sock[i]
    BY <2>6a, <2>6c
  <2> QED
    BY <1>3, <2>3, <2>6, <2>7
<1>4. CASE h.w = w /\ h.returns = TRUE
  BY <1>4
<1>5. CASE h.w = Close(w, i, "own") /\ h.returns = TRUE
  <2>1. PICK w2 : w2 = h.w
    OBVIOUS
  <2>2. PICK y \in Promise!Closed : y = "own"
    BY DEF Promise!Closed
  <2>3. Fits(e, w2, c)
    BY <1>5, <2>1, <2>2, FitClose, SMTT(20)
  <2> QED
    BY <1>5, <2>1, <2>3
<1> QED
  BY <1>1, <1>2, <1>3, <1>4, <1>5, WriteHalfCases

\* The packet is added to the queue of a socket.
Queued(s, d) == FdeventSet([s EXCEPT !.pkts = Append(@, d)], s.want \cup {"W"})

\* A socket with one more packet is sound, if it may have packets.
LEMMA QueuedFacts ==
  ASSUME NEW s \in Sockets, NEW d \in Data, NEW t, t = Queued(s, d)
  PROVE  /\ t \in Sockets /\ t.st = s.st /\ t.peer = s.peer /\ t.transport = s.transport
         /\ t.pkts = Append(s.pkts, d) /\ t.end = s.end /\ t.why = s.why /\ t.want = s.want \cup {"W"}
         /\ \A e : SocketOK(e, s) /\ s.st = "live" /\ s.peer \notin {None, Smart} => SocketOK(e, t)
<1>1. PICK events \in SUBSET {"R", "W"} : events = s.want \cup {"W"}
  BY SocketFacts
<1>2. PICK a \in Seq(Data) : a = Append(s.pkts, d) /\ a # <<>>
  BY SocketFacts, AppendProperties
<1>3. PICK q : q = [s EXCEPT !.pkts = a]
  OBVIOUS
<1>4. q \in Sockets /\ q.st = s.st /\ q.peer = s.peer /\ q.transport = s.transport /\ q.pkts = a
      /\ q.end = s.end /\ q.why = s.why /\ q.want = s.want /\ q.evs = s.evs
  BY <1>3 DEF Sockets
<1>5. t = FdeventSet(q, events)
  BY <1>1, <1>2, <1>3 DEF Queued
<1>6. /\ t \in Sockets /\ t.st = s.st /\ t.peer = s.peer /\ t.transport = s.transport
      /\ t.pkts = a /\ t.end = s.end /\ t.why = s.why /\ t.want = events /\ t.evs \subseteq s.evs
  <2>1. IsSet(q, events, t)
    BY <1>4, <1>5, SetFacts, Zenon
  <2> QED
    BY <1>4, <2>1 DEF IsSet
<1>7. ASSUME NEW e, SocketOK(e, s), s.st = "live", s.peer \notin {None, Smart} PROVE SocketOK(e, t)
  BY <1>1, <1>2, <1>6, <1>7 DEF SocketOK, LiveOK
<1> QED
  BY <1>1, <1>2, <1>6, <1>7

\* One packet is written to the program of socket i.
IsDelivered(w, i, d, w2) ==
  /\ w2 \in Worlds /\ w2.sent = w.sent /\ w2.fin = w.fin /\ w2.next = w.next /\ w2.out = w.out
  /\ w2.freed = w.freed /\ w2.sock = w.sock
  /\ w2.rcvd = [w.rcvd EXCEPT ![w.sock[i].end] = @ \o <<d>>]

\* A packet that is written at once changes no socket.
LEMMA DeliveredFacts ==
  ASSUME NEW w \in Worlds, NEW i \in Ids, w.sock[i].end \in Ends, NEW d \in Data,
         NEW w2, w2 = Written(w, i, <<d>>)
  PROVE  IsDelivered(w, i, d, w2)
<1>1. w.rcvd[w.sock[i].end] \in Seq(Data) /\ <<d>> \in Seq(Data)
  BY WorldFacts
<1>2. PICK a \in Seq(Data) : a = w.rcvd[w.sock[i].end] \o <<d>>
  BY <1>1, ConcatProperties
<1>3. w2 = [w EXCEPT !.rcvd[w.sock[i].end] = a]
  BY <1>2 DEF Written, Worlds
<1>4. PICK z : z = [w EXCEPT !.rcvd[w.sock[i].end] = a]
  OBVIOUS
<1>5. /\ z \in Worlds /\ z.sent = w.sent /\ z.fin = w.fin /\ z.next = w.next /\ z.out = w.out
      /\ z.freed = w.freed /\ z.sock = w.sock
      /\ z.rcvd = [w.rcvd EXCEPT ![w.sock[i].end] = a]
  BY <1>4 DEF Worlds
<1>6. IsDelivered(w, i, d, z)
  BY <1>2, <1>5 DEF IsDelivered
<1> QED
  BY <1>3, <1>4, <1>6, Zenon

\* local_socket_enqueue, by what it finds.
LEMMA EnqueueCases ==
  ASSUME NEW w \in Worlds, NEW i \in Ids, NEW d \in Data, NEW res \in WriteResults,
         NEW q, q = Enqueue(w, i, d, res)
  PROVE  \/ q.r = 1 /\ q.w = [w EXCEPT !.sock[i] = Queued(w.sock[i], d)]
         \/ q.r = 0 /\ q.w = Written(w, i, <<d>>) /\ w.sock[i].pkts = <<>>
         \/ q.r = 1 /\ q.w = Close(w, i, "own") /\ res = "error" /\ w.sock[i].pkts = <<>>
<1>1. PICK y : y = [w EXCEPT !.sock[i] = Queued(w.sock[i], d)]
  OBVIOUS
<1>3. CASE w.sock[i].pkts # <<>>
  BY <1>1, <1>3 DEF Enqueue, Queued
<1>4. CASE w.sock[i].pkts = <<>> /\ res = "ok"
  BY <1>1, <1>4 DEF Enqueue, Queued
<1>5. CASE w.sock[i].pkts = <<>> /\ res = "again"
  BY <1>1, <1>5 DEF Enqueue, Queued
<1>6. CASE w.sock[i].pkts = <<>> /\ res = "error"
  BY <1>1, <1>6 DEF Enqueue
<1> QED
  BY <1>3, <1>4, <1>5, <1>6 DEF WriteResults

\* local_socket_enqueue keeps the world fitting.
LEMMA FitEnqueue ==
  ASSUME V \in Views, NEW e \in Procs, NEW w, NEW c, Fits(e, w, c), NEW i \in Ids, NEW d \in Data,
         w.sock[i].st = "live", w.sock[i].peer \notin {None, Smart}, NEW res \in WriteResults,
         NEW q, q = Enqueue(w, i, d, res)
  PROVE  /\ Fits(e, q.w, c) /\ q.r \in {0, 1}
         /\ \A m \in Ids : w.sock[i].peer = Local(m) =>
              q.w.sock[m] = w.sock[m] \/ q.w.sock[m].st \in {"closing", "gone"}
         /\ q.r = 0 => q.w.sock = w.sock
<1>1. w \in Worlds /\ w.sock[i] \in Sockets /\ SocketOK(e, w.sock[i]) /\ w.sock[i].end \in Ends
  BY FitFacts DEF SocketOK
<1>2. PICK w2 : w2 = q.w
  OBVIOUS
<1>3. CASE q.r = 1 /\ q.w = [w EXCEPT !.sock[i] = Queued(w.sock[i], d)]
  <2>1. PICK t : t = Queued(w.sock[i], d)
    OBVIOUS
  <2>2. /\ t \in Sockets /\ t.st = w.sock[i].st /\ t.peer = w.sock[i].peer
        /\ t.transport = w.sock[i].transport /\ SocketOK(e, t)
    BY <1>1, <2>1, QueuedFacts
  <2>3. Touched(w, i, t, w2)
    BY <1>1, <1>2, <1>3, <2>1, <2>2, TouchFacts, Zenon
  <2>4. Fits(e, w2, c)
    BY <2>2, <2>3, FitTouched, Zenon
  <2>5. \A m \in Ids : w.sock[i].peer = Local(m) => m # i
    BY FitFacts
  <2> QED
    BY <1>2, <1>3, <2>3, <2>4, <2>5 DEF Touched
<1>4. CASE q.r = 0 /\ q.w = Written(w, i, <<d>>) /\ w.sock[i].pkts = <<>>
  <2>1. IsDelivered(w, i, d, w2)
    BY <1>1, <1>2, <1>4, DeliveredFacts, Zenon
  <2>2. w2 \in Worlds /\ w2.next = w.next /\ w2.out = w.out /\ w2.sock = w.sock
    BY <2>1 DEF IsDelivered
  <2>3. Fits(e, w2, c)
    BY <2>2, FitSame, Zenon
  <2> QED
    BY <1>2, <1>4, <2>2, <2>3
<1>5. CASE q.r = 1 /\ q.w = Close(w, i, "own") /\ res = "error"
  <2>1. PICK y \in Promise!Closed : y = "own"
    BY DEF Promise!Closed
  <2>2. w2 = Close(w, i, y)
    BY <1>2, <1>5, <2>1
  <2>3. /\ Fits(e, w2, c)
        /\ \A m \in Ids : w.sock[i].peer = Local(m) => w2.sock[m].st \in {"closing", "gone"}
    BY <2>2, FitClose, SMTT(20)
  <2> QED
    BY <1>2, <1>5, <2>3
<1> QED
  BY <1>1, <1>3, <1>4, <1>5, EnqueueCases

\* A new socket.
New(x, peer, want, transport) ==
  [NoSocket EXCEPT !.st = "live", !.peer = peer, !.want = want, !.end = x, !.transport = transport]

\* A new socket is sound.
LEMMA NewFacts ==
  ASSUME NEW x \in Ends, NEW peer \in Peers, NEW want \in SUBSET {"R", "W"}, NEW transport \in BOOLEAN,
         NEW t, t = New(x, peer, want, transport)
  PROVE  /\ t \in Sockets /\ t.st = "live" /\ t.peer = peer /\ t.want = want /\ t.end = x
         /\ t.transport = transport /\ t.pkts = <<>> /\ t.evs = {} /\ t.why = "own"
<1>1. PICK q : q = NoSocket
  OBVIOUS
<1>2. /\ q \in Sockets /\ q.evs = {} /\ q.pkts = <<>> /\ q.why = "own"
  BY <1>1, GoneFacts
<1>3. t = [q EXCEPT !.st = "live", !.peer = peer, !.want = want, !.end = x, !.transport = transport]
  BY <1>1 DEF New
<1> QED
  BY <1>2, <1>3, ZenonT(30) DEF Sockets

IsNew(t, x, peer, want, transport) ==
  /\ t \in Sockets /\ t.st = "live" /\ t.peer = peer /\ t.want = want /\ t.end = x
  /\ t.transport = transport /\ t.pkts = <<>> /\ t.evs = {} /\ t.why = "own"

\* The same, as one fact.
LEMMA NewSocket ==
  ASSUME NEW x \in Ends, NEW peer \in Peers, NEW want \in SUBSET {"R", "W"}, NEW transport \in BOOLEAN,
         NEW t, t = New(x, peer, want, transport)
  PROVE  IsNew(t, x, peer, want, transport)
<1>1. t \in Sockets /\ t.st = "live" /\ t.peer = peer /\ t.want = want /\ t.end = x
  BY NewFacts
<1>2. t.transport = transport /\ t.pkts = <<>> /\ t.evs = {} /\ t.why = "own"
  BY NewFacts
<1> QED
  BY <1>1, <1>2 DEF IsNew

IsCreated(w, x, t, w2) ==
  /\ w2 \in Worlds /\ w2.sent = w.sent /\ w2.rcvd = w.rcvd /\ w2.out = w.out /\ w2.freed = w.freed
  /\ w2.next = w.next + 1 /\ w2.sock = [w.sock EXCEPT ![w.next] = t]
  /\ w2.fin = [w.fin EXCEPT ![x] = "open"]

\* create_local_socket takes an id that no socket has.
LEMMA CreateFacts ==
  ASSUME NEW w \in Worlds, w.next \in Ids, NEW x \in Ends, NEW peer \in Peers,
         NEW want \in SUBSET {"R", "W"}, NEW transport \in BOOLEAN,
         NEW w2, w2 = Create(w, x, peer, want, transport)
  PROVE  IsCreated(w, x, New(x, peer, want, transport), w2)
<1>1. PICK t : t = New(x, peer, want, transport)
  OBVIOUS
<1>2. t \in Sockets /\ "open" \in Promise!Fins /\ w.next \in Nat \ {0}
  BY <1>1, NewFacts, WorldFacts, ZenonT(30) DEF Promise!Fins
<1>2a. w.next + 1 \in Nat \ {0}
  BY <1>2
<1>3. w2 = [w EXCEPT !.sock[w.next] = t, !.next = @ + 1, !.fin[x] = "open"]
  BY <1>1 DEF Create, New
<1>4. PICK n : n = w.next + 1
  OBVIOUS
<1>5. w2 = [w EXCEPT !.sock[w.next] = t, !.next = n, !.fin[x] = "open"]
  BY <1>3, <1>4
<1>6. PICK z : z = [w EXCEPT !.sock[w.next] = t, !.next = n, !.fin[x] = "open"]
  OBVIOUS
<1>7. IsCreated(w, x, t, z)
  BY <1>2, <1>2a, <1>4, <1>6 DEF IsCreated, Worlds
<1> QED
  BY <1>1, <1>5, <1>6, <1>7, Zenon

\* A client of the smart socket is sent to the device: the OPEN is on its way
\* and the socket waits.
Dialed(s) == FdeventSet([s EXCEPT !.peer = None, !.transport = TRUE], s.want \ {"R"})
OpenPacket(i, x) == [cmd |-> "OPEN", arg0 |-> i, end |-> x]
IsDialed(w, i, w2) ==
  /\ w2 \in Worlds /\ SameWorldData(w, w2) /\ w2.fin = w.fin
  /\ w2.sock = [w.sock EXCEPT ![i] = Dialed(w.sock[i])]
  /\ w2.out = Append(w.out, OpenPacket(i, FarOf(w.sock[i].end)))

Dial(w, i) == ConnectToRemote([w EXCEPT !.sock[i].peer = None, !.sock[i].transport = TRUE], i)
HasDialed(w, i, eof, w2) ==
  \E wd : IsDialed(w, i, wd) /\ w2 = IF eof THEN Close(wd, i, "quit") ELSE wd

\* A socket that waits for its first A_OKAY is sound.
LEMMA DialedFacts ==
  ASSUME NEW s \in Sockets, NEW t, t = Dialed(s)
  PROVE  /\ t \in Sockets /\ t.st = s.st /\ t.peer = None /\ t.transport = TRUE
         /\ t.pkts = s.pkts /\ t.end = s.end /\ t.why = s.why /\ t.want = s.want \ {"R"}
         /\ s.evs = {} => t.evs = {}
<1>1. PICK events \in SUBSET {"R", "W"} : events = s.want \ {"R"}
  BY SocketFacts
<1>2. PICK q : q = [s EXCEPT !.peer = None, !.transport = TRUE]
  OBVIOUS
<1>3. /\ q \in Sockets /\ q.st = s.st /\ q.peer = None /\ q.transport = TRUE
      /\ q.pkts = s.pkts /\ q.end = s.end /\ q.why = s.why /\ q.want = s.want /\ q.evs = s.evs
  BY <1>2, PeerKinds DEF Sockets
<1>4. t = FdeventSet(q, events)
  BY <1>1, <1>2 DEF Dialed
<1>5. /\ t \in Sockets /\ t.st = q.st /\ t.peer = q.peer /\ t.transport = q.transport
      /\ t.pkts = q.pkts /\ t.end = q.end /\ t.why = q.why /\ t.want = events
      /\ t.evs = IF q.want = events THEN q.evs ELSE q.evs \ events
  BY <1>3, <1>4, FdeventSetFacts
<1> QED
  BY <1>1, <1>3, <1>5

\* connect_to_remote does what HasDialed says.
LEMMA DialFacts ==
  ASSUME NEW w \in Worlds, NEW i \in Ids, w.sock[i].end \in Ends, w.sock[i].st = "live",
         NEW cd, cd = Dial(w, i), NEW eof \in BOOLEAN, NEW w2, w2 = AfterRead(cd, i, 1, eof)
  PROVE  HasDialed(w, i, eof, w2)
<1> DEFINE s == w.sock[i]
<1>1. s \in Sockets /\ w.sock \in [Ids -> Sockets] /\ w.out \in Seq(Packets) /\ FarOf(s.end) \in Ends
  BY WorldFacts, EndFacts
<1>2. PICK q : q = [s EXCEPT !.peer = None, !.transport = TRUE]
  OBVIOUS
<1>3. /\ q \in Sockets /\ q.end = s.end /\ q.st = "live" /\ q.peer = None /\ q.want = s.want
  BY <1>1, <1>2, PeerKinds DEF Sockets
<1>4. PICK de : de = [w EXCEPT !.sock[i].peer = None, !.sock[i].transport = TRUE]
  OBVIOUS
<1>5. de = [w EXCEPT !.sock[i] = q]
  <2>1. [w.sock EXCEPT ![i].peer = None, ![i].transport = TRUE] = [w.sock EXCEPT ![i] = q]
    BY <1>1, <1>2 DEF Sockets
  <2> QED
    BY <1>4, <2>1 DEF Worlds
<1>6. Touched(w, i, q, de)
  BY <1>3, <1>5, TouchFacts, Zenon
<1>7. PICK p \in Packets : p = OpenPacket(i, FarOf(s.end))
  BY <1>1, SentPackets DEF OpenPacket
<1>8. cd = SendPacket(de, p)
  BY <1>3, <1>4, <1>6, <1>7 DEF Dial, ConnectToRemote, OpenPacket, Touched
<1>9. /\ cd \in Worlds /\ SameWorldData(w, cd) /\ cd.sock = [w.sock EXCEPT ![i] = q] /\ cd.sock[i] = q
      /\ cd.fin = w.fin /\ cd.out = Append(w.out, p)
  <2>1. /\ cd \in Worlds /\ SameWorldData(de, cd) /\ cd.sock = de.sock /\ cd.fin = de.fin
        /\ cd.out = Append(de.out, p)
    BY <1>6, <1>8, SendFacts DEF Touched
  <2> QED
    BY <1>6, <2>1 DEF Touched, SameWorldData
<1>10. PICK wd : wd = Quiet(cd, i, 1)
  OBVIOUS
<1>11. Touched(cd, i, Stopped(q), wd)
  BY <1>9, <1>10, QuietFacts
<1>12. PICK t : t = Dialed(s)
  OBVIOUS
<1>13. t = Stopped(q)
  BY <1>2, <1>3, <1>12 DEF Dialed, Stopped
<1>14. wd.sock = [w.sock EXCEPT ![i] = t]
  BY <1>1, <1>9, <1>11, <1>13 DEF Touched
<1>15. IsDialed(w, i, wd)
  BY <1>7, <1>9, <1>11, <1>12, <1>14 DEF IsDialed, Touched, SameWorldData
<1>16. Why(cd.sock[i]) = "quit"
  BY <1>3, <1>9 DEF Why
<1>17. w2 = IF eof THEN Close(wd, i, "quit") ELSE wd
  <2>1. cd.sock[i].st # "gone"
    BY <1>3, <1>9
  <2>2. w2 = IF eof THEN Close(Quiet(cd, i, 1), i, Why(cd.sock[i])) ELSE Quiet(cd, i, 1)
    BY <2>1 DEF AfterRead, Quiet, Why
  <2> QED
    BY <1>10, <1>16, <2>2
<1> QED
  BY <1>15, <1>17 DEF HasDialed

\* The other two: a service of the host is connected.
IsServed(w, i, w2) ==
  /\ w2 \in Worlds /\ w2.sent = w.sent /\ w2.rcvd = w.rcvd /\ w2.out = w.out /\ w2.freed = w.freed
  /\ w2.next = w.next + 1
  /\ w2.sock = [w.sock EXCEPT ![i] = [w.sock[i] EXCEPT !.peer = Local(w.next), !.transport = FALSE],
                              ![w.next] = New(FarOf(w.sock[i].end), Local(i), {"R"}, FALSE)]
  /\ w2.fin = [w.fin EXCEPT ![FarOf(w.sock[i].end)] = "open"]

\* The service and its client become peers.
LEMMA ServeFacts ==
  ASSUME NEW w \in Worlds, NEW i \in Ids, w.sock[i].end \in Ends, w.next \in Ids,
         NEW w2, w2 = Create([w EXCEPT !.sock[i].peer = Local(w.next), !.sock[i].transport = FALSE],
                             FarOf(w.sock[i].end), Local(i), {"R"}, FALSE)
  PROVE  IsServed(w, i, w2)
<1>1. w.sock[i] \in Sockets /\ w.sock \in [Ids -> Sockets] /\ FarOf(w.sock[i].end) \in Ends
  BY WorldFacts, EndFacts
<1>2. PICK q : q = [w.sock[i] EXCEPT !.peer = Local(w.next), !.transport = FALSE]
  OBVIOUS
<1>3. q \in Sockets
  BY <1>1, <1>2, PeerKinds DEF Sockets
<1>4. PICK w1 : w1 = [w EXCEPT !.sock[i].peer = Local(w.next), !.sock[i].transport = FALSE]
  OBVIOUS
<1>5. w1 = [w EXCEPT !.sock[i] = q]
  <2>1. [w.sock EXCEPT ![i].peer = Local(w.next), ![i].transport = FALSE] = [w.sock EXCEPT ![i] = q]
    BY <1>1, <1>2 DEF Sockets
  <2> QED
    BY <1>4, <2>1 DEF Worlds
<1>6. Touched(w, i, q, w1)
  BY <1>3, <1>5, TouchFacts, Zenon
<1>7. w1 \in Worlds /\ w1.next = w.next /\ w1.next \in Ids
  BY <1>6 DEF Touched, SameWorldData
<1>8. PICK x \in Ends, lp \in Peers, wa \in SUBSET {"R", "W"}, tr \in BOOLEAN :
         x = FarOf(w.sock[i].end) /\ lp = Local(i) /\ wa = {"R"} /\ tr = FALSE
  BY <1>1, PeerKinds
<1>9. w2 = Create(w1, x, lp, wa, tr)
  BY <1>4, <1>8
<1>10. IsCreated(w1, x, New(x, lp, wa, tr), w2)
  BY <1>7, <1>9, CreateFacts, Zenon
<1>11. PICK t : t = New(x, lp, wa, tr)
  OBVIOUS
<1>12. t = New(FarOf(w.sock[i].end), Local(i), {"R"}, FALSE)
  BY <1>8, <1>11
<1>13. w2.sock = [w.sock EXCEPT ![i] = q, ![w.next] = t]
  BY <1>6, <1>7, <1>10, <1>11 DEF IsCreated, Touched
<1> QED
  BY <1>2, <1>6, <1>7, <1>8, <1>10, <1>12, <1>13 DEF IsServed, IsCreated, Touched, SameWorldData

IsTaken(w, i, d, w2) ==
  /\ w2 \in Worlds /\ w2.rcvd = w.rcvd /\ w2.fin = w.fin /\ w2.next = w.next /\ w2.out = w.out
  /\ w2.freed = w.freed /\ w2.sock = w.sock /\ d \in Data
  /\ d = Last(w2.sent[w.sock[i].end])
  /\ w2.sent = [w.sent EXCEPT ![w.sock[i].end] = Append(@, d)]

\* Taking a packet from the program changes no socket.
LEMMA TakenFacts ==
  ASSUME NEW w \in Worlds, NEW i \in Ids, w.sock[i].end \in Ends, Len(w.sent[w.sock[i].end]) < MaxData,
         NEW w2, w2 = Taken(w, i), NEW d, d = Last(w2.sent[w.sock[i].end])
  PROVE  IsTaken(w, i, d, w2)
<1> DEFINE x == w.sock[i].end
<1>1. w.sent[x] \in Seq(Data) /\ Len(w.sent[x]) \in Nat /\ MaxData \in Nat
  BY WorldFacts, BoundsAssumption
<1>2. PICK b : b = <<x, Len(w.sent[x]) + 1>>
  OBVIOUS
<1>3. b \in Data
  <2>1. Len(w.sent[x]) + 1 \in 1..MaxData
    BY <1>1
  <2>2. x \in Streams \X {"near", "far"}
    BY DEF Ends, Promise!StreamEnds
  <2> QED
    BY <1>2, <2>1, <2>2 DEF Data
<1>4. PICK a \in Seq(Data) : a = Append(w.sent[x], b) /\ a[Len(a)] = b
  <2>1. PICK y \in Seq(Data) : y = w.sent[x]
    BY <1>1
  <2>2. Append(y, b) \in Seq(Data) /\ Append(y, b)[Len(Append(y, b))] = b
    BY <1>3, AppendProperties
  <2> QED
    BY <2>1, <2>2
<1>5. w2 = [w EXCEPT !.sent[x] = a]
  BY <1>2, <1>4 DEF Taken
<1>6. /\ w2 \in Worlds /\ w2.rcvd = w.rcvd /\ w2.fin = w.fin /\ w2.next = w.next /\ w2.out = w.out
      /\ w2.freed = w.freed /\ w2.sock = w.sock
      /\ w2.sent = [w.sent EXCEPT ![x] = a] /\ w2.sent[x] = a
  <2>1. PICK z : z = [w EXCEPT !.sent[x] = a]
    OBVIOUS
  <2>2. /\ z \in Worlds /\ z.rcvd = w.rcvd /\ z.fin = w.fin /\ z.next = w.next /\ z.out = w.out
        /\ z.freed = w.freed /\ z.sock = w.sock
        /\ z.sent = [w.sent EXCEPT ![x] = a] /\ z.sent[x] = a
    BY <2>1 DEF Worlds
  <2>3. z = w2
    BY <1>5, <2>1
  <2> QED
    BY <2>2, <2>3, Zenon
<1>7. Last(w2.sent[x]) = b
  BY <1>4, <1>6 DEF Last
<1>8. d = b
  BY <1>7
<1> QED
  BY <1>3, <1>4, <1>6, <1>7, <1>8 DEF IsTaken

Detached(e, w, i, t, w1) ==
  /\ e = "host" /\ Touched(w, i, t, w1)
  /\ t.st = "live" /\ t.peer = None /\ t.transport = TRUE /\ t.pkts = <<>> /\ t.want = {}
  /\ t.end = w.sock[i].end

\* A client of the smart socket asks for the device: it waits,
LEMMA FitDetached ==
  ASSUME V \in Views, NEW e \in Procs, NEW w, NEW c, Fits(e, w, c), NEW i \in Ids,
         w.sock[i].st = "live", w.sock[i].peer = Smart, w.sock[i].evs = {}, state[e] = "connected",
         NEW t, t = Dialed(w.sock[i]), NEW w1, w1 = [w EXCEPT !.sock[i] = t]
  PROVE  Fits(e, w1, c) /\ Detached(e, w, i, t, w1)
<1>1. /\ w \in Worlds /\ w.sock[i] \in Sockets /\ SocketOK(e, w.sock[i]) /\ w.sock[i].end \in Ends
      /\ w.sock \in [Ids -> Sockets] /\ c \in Seq(Packets)
  BY FitFacts, WorldFacts DEF SocketOK, Fits
<1>2. e = "host"
  BY <1>1, PeerKinds DEF SocketOK, LiveOK, IsRemote, Procs
<1>4. /\ t \in Sockets /\ t.st = "live" /\ t.peer = None /\ t.transport = TRUE /\ t.pkts = <<>>
      /\ t.want = {} /\ t.evs = {} /\ t.end \in Ends /\ t.end = w.sock[i].end
  <2>1. w.sock[i].pkts = <<>> /\ "W" \notin w.sock[i].want
    BY <1>1 DEF SocketOK, LiveOK
  <2>2. w.sock[i].want \in SUBSET {"R", "W"}
    BY <1>1, SocketFacts
  <2>3. /\ t \in Sockets /\ t.st = "live" /\ t.peer = None /\ t.transport = TRUE /\ t.pkts = <<>>
        /\ t.end = w.sock[i].end /\ t.want = w.sock[i].want \ {"R"} /\ t.evs = {}
    BY <1>1, <2>1, DialedFacts, ZenonT(30)
  <2> QED
    BY <1>1, <2>1, <2>2, <2>3
<1>5. SocketOK(e, t)
  BY <1>2, <1>4, PeerKinds DEF SocketOK, LiveOK, IsRemote, IsLocal
<1>7. Touched(w, i, t, w1)
  BY <1>1, <1>4, TouchFacts, Zenon
<1>8. PICK v, v1 : v = View(e, w, c) /\ v1 = View(e, w1, c)
  OBVIOUS
<1>9. Change(e, w, w1, c, v, v1) /\ Sound(v) /\ ViewOf(e, w, c, v)
  BY <1>1, <1>7, <1>8, ViewChange, ViewParts, Zenon DEF Fits, Touched
<1>10. /\ v1 \in Views /\ SameRest(v, v1) /\ v1.next = v.next /\ v1.chan = v.chan
       /\ v.sock[e] = w.sock /\ v1.sock[e] = w1.sock
       /\ \A f \in Procs : f # e => v1.sock[f] = v.sock[f]
  BY <1>7, <1>9 DEF Change, Touched, SameWorldData
<1>11. OneSocket(v, v1, e, i, t)
  BY <1>1, <1>7, <1>10 DEF OneSocket, Touched
<1>12. v.online["host"]
  <2>1. v.state = state /\ LinkOK(v, e)
    BY <1>9 DEF ViewOf, Sound
  <2> QED
    BY <1>2, <2>1 DEF LinkOK
<1>13. v.sock["host"][i].st = "live" /\ v.sock["host"][i].peer = Smart
  BY <1>2, <1>10
<1>14. Sound(v1)
  BY <1>2, <1>4, <1>5, <1>9, <1>10, <1>11, <1>12, <1>13, DialKeeps
<1>15. Fits(e, w1, c)
  BY <1>1, <1>7, <1>8, <1>14 DEF Fits, Touched
<1> QED
  BY <1>2, <1>4, <1>7, <1>15 DEF Detached

\* and its request is sent.
LEMMA FitDialed ==
  ASSUME V \in Views, NEW e \in Procs, NEW w, NEW c, Fits(e, w, c), NEW i \in Ids,
         w.sock[i].st = "live", w.sock[i].peer = Smart, w.sock[i].evs = {}, state[e] = "connected",
         NEW w2, IsDialed(w, i, w2)
  PROVE  Fits(e, w2, c) /\ w2.sock[i].st = "live"
<1>1. PICK t, w1 : t = Dialed(w.sock[i]) /\ w1 = [w EXCEPT !.sock[i] = t]
  OBVIOUS
<1>2. /\ e = "host" /\ Fits(e, w1, c) /\ Touched(w, i, t, w1) /\ t.st = "live" /\ t.transport = TRUE
      /\ t.peer = None
  <2>1. Fits(e, w1, c) /\ Detached(e, w, i, t, w1)
    BY <1>1, FitDetached, Zenon
  <2> QED
    BY <2>1 DEF Detached
<1>3. w.sock[i].end \in Ends /\ c \in Seq(Packets)
  BY FitFacts DEF SocketOK, Fits
<1>4. PICK v1 : v1 = View(e, w1, c)
  OBVIOUS
<1>5. v1.sock[e] = w1.sock
  <2>1. w1 \in Worlds
    BY <1>2 DEF Touched
  <2>2. ViewOf(e, w1, c, v1)
    BY <1>3, <1>4, <2>1, ViewParts, Zenon
  <2> QED
    BY <2>2 DEF ViewOf
<1>6. PICK p \in Packets : p = OpenPacket(i, FarOf(w.sock[i].end))
  BY <1>3, SentPackets, EndFacts DEF OpenPacket
<1>7. p.cmd = "OPEN" /\ p.arg0 = i
  BY <1>6 DEF OpenPacket
<1>8. Known(v1, i)
  BY <1>2, <1>5, PeerKinds DEF Known, Touched
<1>9. /\ w2 \in Worlds /\ w2.next = w1.next /\ w2.out = Append(w1.out, p) /\ w2.sock = w1.sock
  BY <1>1, <1>2, <1>6 DEF IsDialed, Touched, SameWorldData
<1>10. /\ p.cmd # "SYNC"
       /\ e # "device"
       /\ e = "host" /\ p.cmd \in {"OPEN", "OKAY", "WRTE"} => Known(View(e, w1, c), p.arg0)
  BY <1>2, <1>4, <1>7, <1>8
<1>11. Fits(e, w2, c)
  BY <1>2, <1>9, <1>10, FitPush, Zenon
<1> QED
  BY <1>2, <1>9, <1>11 DEF Touched

\* The world fits after a service of the host was connected.
LEMMA FitServed ==
  ASSUME V \in Views, NEW e \in Procs, NEW w, NEW c, Fits(e, w, c), NEW i \in Ids,
         w.sock[i].st = "live", w.sock[i].peer = Smart, w.next \in Ids,
         NEW w2, IsServed(w, i, w2)
  PROVE  Fits(e, w2, c) /\ w2.sock[i].st = "live"
<1>1. /\ w \in Worlds /\ w.sock[i] \in Sockets /\ SocketOK(e, w.sock[i]) /\ w.sock[i].end \in Ends
      /\ w.sock \in [Ids -> Sockets] /\ c \in Seq(Packets) /\ w.sock[w.next].st = "none"
      /\ FarOf(w.sock[i].end) \in Ends
  <2>1. \A n \in Ids : n >= n
    BY DEF Ids
  <2>2. w.sock[w.next].st = "none"
    BY <2>1, FitFacts
  <2> QED
    BY <2>2, FitFacts, WorldFacts, EndFacts DEF SocketOK, Fits
<1>2. e = "host"
  BY <1>1, PeerKinds DEF SocketOK, LiveOK, IsRemote, Procs
<1>3. PICK n \in Ids : n = w.next
  OBVIOUS
<1>4. PICK s, t : /\ s = [w.sock[i] EXCEPT !.peer = Local(n), !.transport = FALSE]
                  /\ t = New(FarOf(w.sock[i].end), Local(i), {"R"}, FALSE)
  OBVIOUS
<1>5. /\ s \in Sockets /\ s.st = "live" /\ s.peer = Local(n) /\ s.transport = FALSE
      /\ s.want = w.sock[i].want /\ s.evs = w.sock[i].evs /\ s.pkts = w.sock[i].pkts
      /\ s.end = w.sock[i].end
  BY <1>1, <1>4, PeerKinds DEF Sockets
<1>6. SocketOK("host", s)
  BY <1>1, <1>2, <1>5, PeerKinds DEF SocketOK, LiveOK, IsRemote, IsLocal
<1>7. /\ t \in Sockets /\ t.st = "live" /\ t.peer = Local(i) /\ t.want = {"R"} /\ t.evs = {}
      /\ t.transport = FALSE /\ t.end \in Ends
  <2>1. Local(i) \in Peers /\ {"R"} \in SUBSET {"R", "W"} /\ FALSE \in BOOLEAN
    BY PeerKinds
  <2>2. PICK x \in Ends, pr \in Peers, wt \in SUBSET {"R", "W"}, tr \in BOOLEAN :
          x = FarOf(w.sock[i].end) /\ pr = Local(i) /\ wt = {"R"} /\ tr = FALSE
    BY <1>1, <2>1
  <2>3. t = New(x, pr, wt, tr)
    BY <1>4, <2>2
  <2>4. /\ t \in Sockets /\ t.st = "live" /\ t.peer = pr /\ t.want = wt /\ t.end = x
        /\ t.transport = tr /\ t.pkts = <<>> /\ t.evs = {} /\ t.why = "own"
    BY <2>3, NewFacts
  <2> QED
    BY <2>2, <2>4
<1>8. SocketOK("host", t)
  BY <1>7, PeerKinds DEF SocketOK, LiveOK, IsRemote, IsLocal
<1>9. i # n
  BY <1>1, <1>3
<1>10. w2.sock = [w.sock EXCEPT ![i] = s, ![n] = t] /\ w2 \in Worlds /\ w2.next = n + 1 /\ w2.out = w.out
  BY <1>3, <1>4 DEF IsServed
<1>11. PICK v, v2 : v = View(e, w, c) /\ v2 = View(e, w2, c)
  OBVIOUS
<1>12. Change(e, w, w2, c, v, v2) /\ Sound(v)
  BY <1>1, <1>10, <1>11, ViewChange, Zenon DEF Fits
<1>13. /\ v2 \in Views /\ SameRest(v, v2) /\ v2.next = [v.next EXCEPT !["host"] = n + 1]
       /\ v2.chan = v.chan /\ n = v.next["host"]
       /\ v.sock["host"] = w.sock /\ v2.sock["host"] = w2.sock
       /\ \A f \in Procs : f # "host" => v2.sock[f] = v.sock[f]
  BY <1>2, <1>3, <1>10, <1>12 DEF Change
<1>14. /\ v2.sock["host"][i] = s /\ v2.sock["host"][n] = t
       /\ v.sock["host"][i].st = "live" /\ v.sock["host"][i].peer = Smart
       /\ \A f \in Procs, k \in Ids : f = "device" \/ k \notin {i, n} => v2.sock[f][k] = v.sock[f][k]
  BY <1>1, <1>5, <1>7, <1>9, <1>10, <1>13 DEF Procs
<1>15. Sound(v2)
  BY <1>5, <1>6, <1>7, <1>8, <1>12, <1>13, <1>14, ServeKeeps
<1> QED
  BY <1>1, <1>5, <1>10, <1>11, <1>13, <1>14, <1>15 DEF Fits

\* The smart socket acquires the transport.
Acquired(s) == [s EXCEPT !.transport = TRUE]
Acquires(w, i, w2) == Touched(w, i, Acquired(w.sock[i]), w2)

\* Nothing else changes.
LEMMA AcquireFacts ==
  ASSUME NEW w \in Worlds, NEW i \in Ids, NEW w2, w2 = [w EXCEPT !.sock[i].transport = TRUE]
  PROVE  Acquires(w, i, w2)
<1>1. w.sock[i] \in Sockets
  BY WorldFacts
<1>2. PICK q : q = Acquired(w.sock[i])
  OBVIOUS
<1>3. q \in Sockets
  BY <1>1, <1>2 DEF Sockets, Acquired
<1>4. w2 = [w EXCEPT !.sock[i] = q]
  BY <1>2 DEF Worlds, Acquired
<1>5. Touched(w, i, q, w2)
  BY <1>3, <1>4, TouchFacts, Zenon
<1> QED
  BY <1>2, <1>5 DEF Acquires

\* What the socket is after it.
LEMMA AcquiredFacts ==
  ASSUME NEW s \in Sockets, NEW t, t = Acquired(s)
  PROVE  /\ t \in Sockets /\ t.st = s.st /\ t.peer = s.peer /\ t.transport = TRUE /\ t.pkts = s.pkts
         /\ t.end = s.end /\ t.why = s.why /\ t.want = s.want /\ t.evs = s.evs
  BY DEF Sockets, Acquired

\* The world fits after the smart socket has acquired the transport.
LEMMA FitAcquired ==
  ASSUME V \in Views, NEW e \in Procs, NEW w, NEW c, Fits(e, w, c), NEW i \in Ids,
         w.sock[i].st = "live", w.sock[i].peer = Smart, state[e] = "connected",
         NEW w2, Acquires(w, i, w2)
  PROVE  Fits(e, w2, c) /\ w2.sock[i].st = "live"
<1>1. w.sock[i] \in Sockets /\ SocketOK(e, w.sock[i])
  BY FitFacts, WorldFacts DEF Fits
<1>2. PICK t : t = Acquired(w.sock[i])
  OBVIOUS
<1>3. /\ t \in Sockets /\ t.st = "live" /\ t.peer = Smart /\ t.transport = TRUE /\ t.pkts = w.sock[i].pkts
      /\ t.end = w.sock[i].end /\ t.want = w.sock[i].want /\ t.evs = w.sock[i].evs
  BY <1>1, <1>2, AcquiredFacts
<1>4. SocketOK(e, t)
  BY <1>1, <1>3, PeerKinds DEF SocketOK, LiveOK, IsLocal
<1>5. Touched(w, i, t, w2)
  BY <1>2 DEF Acquires
<1>6. Fits(e, w2, c)
  BY <1>3, <1>4, <1>5, FitTouched
<1> QED
  BY <1>3, <1>5, <1>6 DEF Touched

\* smart_socket_enqueue, for each target of the request.
LEMMA FitSmart ==
  ASSUME V \in Views, NEW e \in Procs, NEW w, NEW c, Fits(e, w, c), NEW i \in Ids,
         w.sock[i].st = "live", w.sock[i].peer = Smart, w.sock[i].evs = {}, NEW eof \in BOOLEAN,
         NEW w2 \in SmartEnqueue(e, w, i, eof)
  PROVE  Fits(e, w2, c)
<1>1. /\ w \in Worlds /\ w.sock[i] \in Sockets /\ SocketOK(e, w.sock[i]) /\ w.sock[i].end \in Ends
  BY FitFacts DEF SocketOK
<1>2. CASE w2 = AfterRead(w, i, 0, eof)
  BY <1>2, FitAfterRead, SMTT(20)
<1>3. CASE w2 = Close(w, i, "peer")
  <2>1. PICK y \in Promise!Closed : y = "peer"
    BY DEF Promise!Closed
  <2> QED
    BY <1>3, <2>1, FitClose, SMTT(20)
<1>4. ASSUME state[e] = "connected", NEW cd,
             cd = Dial(w, i), w2 = AfterRead(cd, i, 1, eof)
      PROVE  Fits(e, w2, c)
  <2>0. HasDialed(w, i, eof, w2)
    BY <1>1, <1>4, DialFacts, Zenon
  <2>1. PICK wd : IsDialed(w, i, wd) /\ w2 = IF eof THEN Close(wd, i, "quit") ELSE wd
    BY <2>0 DEF HasDialed
  <2>2. Fits(e, wd, c) /\ wd.sock[i].st = "live"
    BY <1>4, <2>1, FitDialed, Zenon
  <2>3. PICK y \in Promise!Closed : y = "quit"
    BY DEF Promise!Closed
  <2>4. CASE eof
    <3>1. w2 = Close(wd, i, y)
      BY <2>1, <2>3, <2>4
    <3> QED
      BY <2>2, <3>1, FitClose, SMTT(20)
  <2>5. CASE ~eof
    BY <2>1, <2>2, <2>5
  <2> QED
    BY <2>4, <2>5
<1>2a. ASSUME state[e] = "connected", w2 = AfterRead([w EXCEPT !.sock[i].transport = TRUE], i, 0, eof)
       PROVE  Fits(e, w2, c)
  <2>1. PICK wa : wa = [w EXCEPT !.sock[i].transport = TRUE]
    OBVIOUS
  <2>2. Acquires(w, i, wa)
    BY <1>1, <2>1, AcquireFacts, Zenon
  <2>3. Fits(e, wa, c) /\ wa.sock[i].st = "live"
    BY <1>2a, <2>2, FitAcquired, Zenon
  <2>4. PICK r \in {0, 1} : r = 0
    OBVIOUS
  <2>5. wa.sock[i].st \in {"live", "closing", "gone"}
    BY <2>3
  <2>6. w2 = AfterRead(wa, i, r, eof) /\ r # 1
    BY <1>2a, <2>1, <2>4
  <2>7. Fits(e, wa, c)
    BY <2>3
  <2> QED
    BY <2>5, <2>6, <2>7, FitAfterRead, SMTT(20)
<1>5. ASSUME w.next \in Ids, NEW ws,
             ws = Create([w EXCEPT !.sock[i].peer = Local(w.next), !.sock[i].transport = FALSE],
                         FarOf(w.sock[i].end), Local(i), {"R"}, FALSE),
             w2 = AfterRead(ws, i, 0, eof)
      PROVE  Fits(e, w2, c)
  <2>1. IsServed(w, i, ws)
    BY <1>1, <1>5, ServeFacts, Zenon
  <2>2. Fits(e, ws, c) /\ ws.sock[i].st = "live"
    BY <1>5, <2>1, FitServed, Zenon
  <2>3. PICK r \in {0, 1} : r = 0
    OBVIOUS
  <2>4. ws.sock[i].st \in {"live", "closing", "gone"}
    BY <2>2
  <2>5. w2 = AfterRead(ws, i, r, eof) /\ r # 1
    BY <1>5, <2>3
  <2>6. Fits(e, ws, c)
    BY <2>2
  <2> QED
    BY <2>4, <2>5, <2>6, FitAfterRead, SMTT(20)
<1>6. 1..MaxId(e) \subseteq Ids
  BY DEF MaxId, Ids
<1> QED
  BY <1>2, <1>2a, <1>3, <1>4, <1>5, <1>6 DEF SmartEnqueue, Dial


-----------------------------------------------------------------------------
(* The FDE_READ half, and the whole event handler. *)

TookRemote(w, i, eof, w2) ==
  \E k \in Ids : \E wt, d, ws : /\ w.sock[i].peer = Remote(k)
                            /\ wt = Taken(w, i) /\ d = Last(wt.sent[w.sock[i].end])
                            /\ ws = SendPacket(wt, Wrte(i, k, d)) /\ w2 = AfterRead(ws, i, 1, eof)
TookLocal(w, i, eof, w2) ==
  \E m \in Ids : \E wt, d, q : \E res \in WriteResults :
    /\ w.sock[i].peer = Local(m)
    /\ wt = Taken(w, i) /\ d = Last(wt.sent[w.sock[i].end])
    /\ q = Enqueue(wt, m, d, res) /\ w2 = AfterRead(q.w, i, q.r, eof)

\* The four kinds of a peer that a packet can be read for.
LEMMA PeerEnqueueCases ==
  ASSUME NEW e, NEW w \in Worlds, NEW i \in Ids, NEW eof \in BOOLEAN, NEW w2 \in PeerEnqueue(e, w, i, eof)
  PROVE  \/ TookRemote(w, i, eof, w2)
         \/ TookLocal(w, i, eof, w2)
         \/ w.sock[i].peer = Smart /\ w2 \in SmartEnqueue(e, w, i, eof)
         \/ w.sock[i].peer = None /\ w2 = AfterRead(w, i, 0, eof)
<1>1. PICK p \in Peers : p = w.sock[i].peer
  BY WorldFacts, SocketFacts
<1>2. /\ p[1] = "remote" <=> IsRemote(p)
      /\ p[1] = "local" <=> IsLocal(p)
      /\ \A k \in Ids : (p = Remote(k) \/ p = Local(k)) => p[2] = k
  BY PeerParts
<1>3. PICK wt, d : wt = Taken(w, i) /\ d = Last(wt.sent[w.sock[i].end])
  OBVIOUS
<1>4. ASSUME NEW k \in Ids, p = Remote(k) PROVE TookRemote(w, i, eof, w2)
  <2>1. p[1] = "remote" /\ p[1] # "local" /\ p # Smart /\ p # None /\ p[2] = k
    BY <1>2, <1>4, PeerKinds DEF IsRemote
  <2>2. w2 = AfterRead(SendPacket(wt, [cmd |-> "WRTE", arg0 |-> i, arg1 |-> k, data |-> d]), i, 1, eof)
    <3>1. PeerEnqueue(e, w, i, eof) =
            {AfterRead(SendPacket(Taken(w, i), [cmd |-> "WRTE", arg0 |-> i, arg1 |-> w.sock[i].peer[2],
                                   data |-> Last(Taken(w, i).sent[w.sock[i].end])]), i, 1, eof)}
      BY <1>1, <2>1 DEF PeerEnqueue
    <3>2. w2 = AfterRead(SendPacket(Taken(w, i), [cmd |-> "WRTE", arg0 |-> i, arg1 |-> w.sock[i].peer[2],
                                     data |-> Last(Taken(w, i).sent[w.sock[i].end])]), i, 1, eof)
      BY <3>1, Zenon
    <3> QED
      BY <1>1, <1>3, <2>1, <3>2, Zenon
  <2> QED
    BY <1>1, <1>3, <1>4, <2>2, Zenon DEF TookRemote, Wrte
<1>5. ASSUME NEW m \in Ids, p = Local(m) PROVE TookLocal(w, i, eof, w2)
  <2>1. p[1] = "local" /\ p[1] # "remote" /\ p # Smart /\ p # None /\ p[2] = m
    BY <1>2, <1>5, PeerKinds DEF IsLocal
  <2>2. PICK results : results = IF ServiceErrors THEN WriteResults ELSE WriteResults \ {"error"}
    OBVIOUS
  <2>3. w2 \in {AfterRead(q.w, i, q.r, eof) : q \in {Enqueue(wt, m, d, res) : res \in results}}
    <3>1. PeerEnqueue(e, w, i, eof) =
            {AfterRead(q.w, i, q.r, eof) :
               q \in {Enqueue(Taken(w, i), w.sock[i].peer[2], Last(Taken(w, i).sent[w.sock[i].end]), res) :
                        res \in IF ServiceErrors THEN WriteResults ELSE WriteResults \ {"error"}}}
      BY <1>1, <2>1 DEF PeerEnqueue
    <3> QED
      BY <1>1, <1>3, <2>1, <2>2, <3>1, Zenon
  <2>4. PICK q \in {Enqueue(wt, m, d, res) : res \in results} : w2 = AfterRead(q.w, i, q.r, eof)
    BY <2>3
  <2>5. PICK res \in results : q = Enqueue(wt, m, d, res)
    BY <2>4
  <2>6. res \in WriteResults
    BY <2>2, <2>5
  <2> QED
    BY <1>1, <1>3, <1>5, <2>4, <2>5, <2>6, Zenon DEF TookLocal
<1>6. CASE p = Smart
  <2>1. p[1] # "local" /\ p[1] # "remote"
    BY <1>2, <1>6, PeerKinds DEF IsLocal, IsRemote
  <2> QED
    BY <1>1, <1>6, <2>1 DEF PeerEnqueue
<1>7. CASE p = None
  <2>1. p[1] # "local" /\ p[1] # "remote" /\ p # Smart
    BY <1>2, <1>7, PeerKinds DEF IsLocal, IsRemote
  <2> QED
    BY <1>1, <1>7, <2>1 DEF PeerEnqueue
<1> QED
  BY <1>4, <1>5, <1>6, <1>7, PeerKinds DEF IsRemote, IsLocal

\* A packet read from the program at a socket's end.
LEMMA FitPeerEnqueue ==
  ASSUME V \in Views, NEW e \in Procs, NEW w, NEW c, Fits(e, w, c), NEW i \in Ids,
         w.sock[i].st \in {"live", "closing"}, w.sock[i].evs = {},
         w.sock[i].peer \in {None, Smart} \/ Len(w.sent[w.sock[i].end]) < MaxData,
         NEW eof \in BOOLEAN, NEW w2 \in PeerEnqueue(e, w, i, eof)
  PROVE  Fits(e, w2, c)
<1>1. /\ w \in Worlds /\ w.sock[i] \in Sockets /\ SocketOK(e, w.sock[i]) /\ w.sock[i].end \in Ends
  BY FitFacts DEF SocketOK
<1>2. w.sock[i].peer # None => w.sock[i].st = "live"
  BY <1>1 DEF SocketOK
<1>3. CASE TookRemote(w, i, eof, w2)
  <2>0. PICK k \in Ids : \E wt, d, ws : /\ w.sock[i].peer = Remote(k)
                            /\ wt = Taken(w, i) /\ d = Last(wt.sent[w.sock[i].end])
                            /\ ws = SendPacket(wt, Wrte(i, k, d)) /\ w2 = AfterRead(ws, i, 1, eof)
    BY <1>3 DEF TookRemote
  <2>1. PICK wt, d, ws : /\ w.sock[i].peer = Remote(k)
                         /\ wt = Taken(w, i) /\ d = Last(wt.sent[w.sock[i].end])
                         /\ ws = SendPacket(wt, Wrte(i, k, d)) /\ w2 = AfterRead(ws, i, 1, eof)
    BY <2>0
  <2>2. Len(w.sent[w.sock[i].end]) < MaxData
    BY <2>1, PeerKinds
  <2>3. IsTaken(w, i, d, wt)
    BY <1>1, <2>1, <2>2, TakenFacts, Zenon
  <2>4. /\ wt \in Worlds /\ wt.next = w.next /\ wt.out = w.out /\ wt.sock = w.sock /\ d \in Data
    BY <2>3 DEF IsTaken
  <2>5. Fits(e, wt, c)
    BY <2>4, FitSame, Zenon
  <2>6. PICK p : p = Wrte(i, k, d)
    OBVIOUS
  <2>7. p \in {Okay(i, k), Clse(k)} \cup {Wrte(i, k, dd) : dd \in Data}
    BY <2>4, <2>6
  <2>8. wt.sock[i].peer = Remote(k) /\ ws = SendPacket(wt, p)
    BY <2>1, <2>4, <2>6
  <2>9. Fits(e, ws, c)
    BY <2>5, <2>7, <2>8, FitSend, Zenon
  <2>10. p \in Packets
    BY <2>4, <2>6, SentPackets DEF Wrte
  <2>11. ws.sock = wt.sock
    BY <2>4, <2>8, <2>10, SendFacts
  <2>12. PICK r \in {0, 1} : r = 1
    OBVIOUS
  <2>13. /\ ws.sock[i].st \in {"live", "closing", "gone"} /\ w2 = AfterRead(ws, i, r, eof)
         /\ r = 1 /\ ws.sock[i].st = "live" => ws.sock[i].evs = {}
    BY <2>1, <2>4, <2>11, <2>12
  <2> QED
    BY <2>9, <2>13, FitAfterRead, SMTT(20)
<1>4. CASE TookLocal(w, i, eof, w2)
  <2>0. PICK m \in Ids : \E wt, d, q : \E res \in WriteResults :
            /\ w.sock[i].peer = Local(m)
            /\ wt = Taken(w, i) /\ d = Last(wt.sent[w.sock[i].end])
            /\ q = Enqueue(wt, m, d, res) /\ w2 = AfterRead(q.w, i, q.r, eof)
    BY <1>4 DEF TookLocal
  <2>1. PICK wt, d, q : \E res \in WriteResults :
            /\ w.sock[i].peer = Local(m)
            /\ wt = Taken(w, i) /\ d = Last(wt.sent[w.sock[i].end])
            /\ q = Enqueue(wt, m, d, res) /\ w2 = AfterRead(q.w, i, q.r, eof)
    BY <2>0
  <2>2. Len(w.sent[w.sock[i].end]) < MaxData
    BY <2>1, PeerKinds
  <2>3. IsTaken(w, i, d, wt)
    BY <1>1, <2>1, <2>2, TakenFacts, Zenon
  <2>4. /\ wt \in Worlds /\ wt.next = w.next /\ wt.out = w.out /\ wt.sock = w.sock /\ d \in Data
    BY <2>3 DEF IsTaken
  <2>5. Fits(e, wt, c)
    BY <2>4, FitSame, Zenon
  <2>6. wt.sock[m].st = "live" /\ wt.sock[m].peer = Local(i) /\ wt.sock[i].peer = Local(m)
    <3>1. w.sock[i].peer = Local(m)
      BY <2>1
    <3>2. w.sock[m].peer = Local(i) /\ w.sock[m].st = "live"
      BY <3>1, FitFacts, SMTT(30)
    <3> QED
      BY <2>4, <3>1, <3>2, Zenon
  <2>7. wt.sock[m].peer \notin {None, Smart}
    BY <2>6, PeerKinds
  <2>8. PICK res \in WriteResults : q = Enqueue(wt, m, d, res)
    BY <2>1
  <2>9. /\ Fits(e, q.w, c) /\ q.r \in {0, 1}
        /\ \A n \in Ids : wt.sock[m].peer = Local(n) =>
             q.w.sock[n] = wt.sock[n] \/ q.w.sock[n].st \in {"closing", "gone"}
    BY <2>4, <2>5, <2>6, <2>7, <2>8, FitEnqueue, SMTT(20)
  <2>10. PICK w3 : w3 = q.w
    OBVIOUS
  <2>13. PICK r \in {0, 1} : r = q.r
    BY <2>9
  <2>11. /\ w3.sock[i].st \in {"live", "closing", "gone"} /\ w2 = AfterRead(w3, i, r, eof)
         /\ r = 1 /\ w3.sock[i].st = "live" => w3.sock[i].evs = {}
    BY <2>1, <2>4, <2>6, <2>9, <2>10, <2>13
  <2>12. Fits(e, w3, c)
    BY <2>9, <2>10
  <2> QED
    BY <2>11, <2>12, FitAfterRead, SMTT(20)
<1>5. CASE w.sock[i].peer = Smart /\ w2 \in SmartEnqueue(e, w, i, eof)
  BY <1>2, <1>5, PeerKinds, FitSmart
<1>6. CASE w.sock[i].peer = None /\ w2 = AfterRead(w, i, 0, eof)
  <2>1. PICK r \in {0, 1} : r = 0
    OBVIOUS
  <2>2. w2 = AfterRead(w, i, r, eof) /\ r # 1 /\ w.sock[i].st \in {"live", "closing", "gone"}
    BY <1>6, <2>1
  <2> QED
    BY <2>2, FitAfterRead, SMTT(20)
<1> QED
  BY <1>1, <1>3, <1>4, <1>5, <1>6, PeerEnqueueCases

\* The read half of local_socket_event_func, every outcome of it.
LEMMA FitReadHalf ==
  ASSUME V \in Views, NEW e \in Procs, NEW w, NEW c, Fits(e, w, c), NEW i \in Ids,
         w.sock[i].st \in {"live", "closing"}, w.sock[i].evs = {}, NEW w2 \in ReadHalf(e, w, i)
  PROVE  Fits(e, w2, c)
<1> DEFINE more == w.sock[i].peer \in {None, Smart} \/ Len(w.sent[w.sock[i].end]) < MaxData
<1>2. w2 = AfterRead(w, i, 0, TRUE) \/ (more /\ \E eof \in BOOLEAN : w2 \in PeerEnqueue(e, w, i, eof))
  BY DEF ReadHalf
<1>3. CASE w2 = AfterRead(w, i, 0, TRUE)
  <2>1. PICK r \in {0, 1}, eof \in BOOLEAN : r = 0 /\ eof = TRUE
    OBVIOUS
  <2>2. w2 = AfterRead(w, i, r, eof) /\ r # 1 /\ w.sock[i].st \in {"live", "closing", "gone"}
    BY <1>3, <2>1
  <2> QED
    BY <2>2, FitAfterRead, SMTT(20)
<1>4. ASSUME more, NEW eof \in BOOLEAN, w2 \in PeerEnqueue(e, w, i, eof) PROVE Fits(e, w2, c)
  BY <1>4, FitPeerEnqueue
<1> QED
  BY <1>2, <1>3, <1>4

\* local_socket_event_func, from a world in which the pending events are cleared.
Outcomes(e, i, events, w0) ==
  UNION {IF "R" \in events /\ ~h.returns THEN ReadHalf(e, h.w, i) ELSE {h.w} :
           h \in IF "W" \in events THEN WriteHalf(w0, i) ELSE {[w |-> w0, returns |-> FALSE]}}

\* local_socket_event_func keeps the world fitting.
LEMMA FitEvent ==
  ASSUME V \in Views, NEW e \in Procs, NEW w, NEW c, Fits(e, w, c), NEW i \in Ids,
         w.sock[i].st \in {"live", "closing"}, w.sock[i].evs = {},
         NEW events, NEW w2 \in Outcomes(e, i, events, w)
  PROVE  Fits(e, w2, c)
<1>1. PICK h : /\ h \in IF "W" \in events THEN WriteHalf(w, i) ELSE {[w |-> w, returns |-> FALSE]}
               /\ w2 \in IF "R" \in events /\ ~h.returns THEN ReadHalf(e, h.w, i) ELSE {h.w}
  BY DEF Outcomes
<1>2. /\ Fits(e, h.w, c)
      /\ ~h.returns => h.w.sock[i].st \in {"live", "closing"} /\ h.w.sock[i].evs = {}
  <2>1. CASE "W" \in events
    BY <1>1, <2>1, FitWriteHalf
  <2>2. CASE "W" \notin events
    BY <1>1, <2>2
  <2> QED
    BY <2>1, <2>2
<1>3. CASE "R" \in events /\ ~h.returns
  BY <1>1, <1>2, <1>3, FitReadHalf
<1>4. CASE ~("R" \in events /\ ~h.returns)
  BY <1>1, <1>2, <1>4
<1> QED
  BY <1>3, <1>4

-----------------------------------------------------------------------------
(* From the handlers to the steps of the processes. *)

\* A handler starts with the state as it is,
LEMMA WorldView ==
  ASSUME V \in Views, freedUse \in BOOLEAN, NEW e \in Procs, NEW w, w = World(e)
  PROVE  /\ w \in Worlds /\ w.sock = sock[e] /\ w.next = next[e] /\ w.out = <<>>
         /\ w.sent = sent /\ w.rcvd = rcvd /\ w.fin = fin
         /\ chan[e] \in Seq(Packets) /\ View(e, w, chan[e]) = V
<1>1. /\ sock \in [Procs -> [Ids -> Sockets]] /\ next \in [Procs -> Nat \ {0}]
      /\ chan \in [Procs -> Seq(Packets)] /\ link \in BOOLEAN
      /\ sent \in [Ends -> Seq(Data)] /\ rcvd \in [Ends -> Seq(Data)] /\ fin \in [Ends -> Promise!Fins]
  BY DEF Views, V
<1>2. /\ w \in Worlds /\ w.sock = sock[e] /\ w.next = next[e] /\ w.out = <<>>
      /\ w.sent = sent /\ w.rcvd = rcvd /\ w.fin = fin
  BY <1>1 DEF World, Worlds
<1>3. Other(e) \in Procs /\ Other(e) # e
  BY ProcFacts
<1>4. chan[Other(e)] \o w.out = chan[Other(e)]
  BY <1>1, <1>2, <1>3, ConcatProperties
<1>5. [chan EXCEPT ![e] = chan[e], ![Other(e)] = IF link THEN @ \o w.out ELSE @] = chan
  BY <1>1, <1>3, <1>4
<1>6. [sock EXCEPT ![e] = w.sock] = sock /\ [next EXCEPT ![e] = w.next] = next
  BY <1>1, <1>2
<1>7. View(e, w, chan[e]) = V
  BY <1>2, <1>5, <1>6 DEF View, V
<1> QED
  BY <1>1, <1>2, <1>7

\* which is sound,
LEMMA WorldFits ==
  ASSUME Sound(V), freedUse \in BOOLEAN, NEW e \in Procs
  PROVE  /\ V \in Views /\ Fits(e, World(e), chan[e]) /\ World(e) \in Worlds
         /\ World(e).sock = sock[e] /\ World(e).next = next[e] /\ World(e).out = <<>>
         /\ chan[e] \in Seq(Packets)
<1>1. V \in Views
  BY DEF Sound
<1>2. PICK w : w = World(e)
  OBVIOUS
<1>3. /\ w \in Worlds /\ w.sock = sock[e] /\ w.next = next[e] /\ w.out = <<>>
      /\ chan[e] \in Seq(Packets) /\ View(e, w, chan[e]) = V
  BY <1>1, <1>2, WorldView
<1>4. Fits(e, w, chan[e])
  BY <1>3 DEF Fits
<1> QED
  BY <1>1, <1>2, <1>3, <1>4

\* and what it commits is the next state, up to the flags of the transport.
Committed(e, w, c, v2) ==
  /\ v2.sock = View(e, w, c).sock /\ v2.next = View(e, w, c).next /\ v2.chan = View(e, w, c).chan
  /\ v2.sent = w.sent /\ v2.rcvd = w.rcvd /\ v2.fin = w.fin

\* What a handler commits is the view of its world.
LEMMA CommitView ==
  ASSUME V \in Views, NEW e \in Procs, NEW w, NEW c, Fits(e, w, c), Commit(e, w, c), link' = link
  PROVE  /\ Committed(e, w, c, V') /\ freedUse' \in BOOLEAN
         /\ \A f \in Procs : f # e /\ chan[f] # <<>> => chan'[f] # <<>>
         /\ chan'[e] = c
         /\ online' = online /\ state' = state /\ leaving' = leaving => V' = View(e, w, c)
<1>1. w \in Worlds /\ c \in Seq(Packets)
  BY DEF Fits
<1>2. /\ sock' = [sock EXCEPT ![e] = w.sock] /\ next' = [next EXCEPT ![e] = w.next]
      /\ sent' = w.sent /\ rcvd' = w.rcvd /\ fin' = w.fin /\ freedUse' = w.freed
      /\ chan' = [chan EXCEPT ![e] = c, ![Other(e)] = IF link THEN @ \o w.out ELSE @]
  BY DEF Commit
<1>3. Committed(e, w, c, V')
  BY <1>2 DEF Committed, View, V
<1>4. online' = online /\ state' = state /\ leaving' = leaving => V' = View(e, w, c)
  BY <1>2 DEF View, V
<1>5. freedUse' \in BOOLEAN
  BY <1>1, <1>2, WorldFacts
<1>6. chan \in [Procs -> Seq(Packets)] /\ Other(e) \in Procs /\ Other(e) # e
      /\ \A f \in Procs : f = e \/ f = Other(e)
  BY ProcFacts DEF Views, V
<1>7. chan'[e] = c /\ chan'[Other(e)] = IF link THEN chan[Other(e)] \o w.out ELSE chan[Other(e)]
  BY <1>2, <1>6
<1>8. chan[Other(e)] # <<>> => chan[Other(e)] \o w.out # <<>>
  BY <1>1, <1>6, WorldFacts, ConcatProperties
<1> QED
  BY <1>3, <1>4, <1>5, <1>6, <1>7, <1>8

\* A handler that is done with its packet takes it from the channel.
LEMMA FitPop ==
  ASSUME V \in Views, NEW e \in Procs, NEW w, NEW c, Fits(e, w, c), c # <<>>,
         Head(c).cmd # "SYNC",
         e = "host" /\ Head(c).cmd = "OKAY" =>
           ~(w.sock[Head(c).arg1].st = "live" /\ w.sock[Head(c).arg1].peer = None)
  PROVE  Fits(e, w, Tail(c))
<1>1. w \in Worlds /\ c \in Seq(Packets) /\ Sound(View(e, w, c))
  BY DEF Fits
<1>2. PICK d \in Seq(Packets) : d = Tail(c)
  BY <1>1, PopFacts
<1>3. PICK v, v2 : v = View(e, w, c) /\ v2 = View(e, w, d)
  OBVIOUS
<1>4. ViewOf(e, w, c, v) /\ ViewOf(e, w, d, v2)
  BY <1>1, <1>2, <1>3, ViewParts, Zenon
<1>5. v \in Views /\ v2 \in Views /\ v.chan \in [Procs -> Seq(Packets)] /\ v2.chan \in [Procs -> Seq(Packets)]
      /\ v.sock \in [Procs -> [Ids -> Sockets]] /\ v2.sock \in [Procs -> [Ids -> Sockets]]
  BY <1>4, ViewFacts DEF ViewOf
<1>6. /\ v.chan[e] = c /\ v2.chan[e] = d /\ v2.chan[Other(e)] = v.chan[Other(e)]
      /\ v.sock[e] = w.sock /\ v2.sock[e] = w.sock /\ v2.next = v.next
      /\ \A f \in Procs : f # e => v2.sock[f] = v.sock[f]
      /\ SameRest(v, v2)
  BY <1>4 DEF ViewOf, SameRest
<1>7. v2.chan = [v.chan EXCEPT ![e] = Tail(@)]
  BY <1>2, <1>5, <1>6, ProcFacts
<1>8. v2.sock = v.sock
  BY <1>3 DEF View
<1>9. e = "host" /\ Head(v.chan[e]).cmd = "OKAY" =>
           ~(/\ v.sock["host"][Head(v.chan[e]).arg1].st = "live"
             /\ v.sock["host"][Head(v.chan[e]).arg1].peer = None)
  BY <1>6
<1>10. Sound(v) /\ v.chan[e] # <<>> /\ Head(v.chan[e]).cmd # "SYNC"
  BY <1>1, <1>3, <1>6
<1>11. Sound(v2)
  BY <1>5, <1>6, <1>7, <1>8, <1>9, <1>10, PopKeeps
<1> QED
  BY <1>1, <1>2, <1>3, <1>11 DEF Fits

\* What the handler can rely on about the packet.
LEMMA FitHead ==
  ASSUME V \in Views, NEW e \in Procs, NEW w, NEW c, Fits(e, w, c), c # <<>>
  PROVE  /\ Head(c) \in Packets
         /\ e = "host" => /\ Head(c).cmd # "OPEN"
                          /\ Head(c).cmd \in {"OKAY", "WRTE"} => Known(View(e, w, c), Head(c).arg1)
         /\ e = "device" /\ Head(c).cmd \in {"OPEN", "OKAY", "WRTE"} => Known(View(e, w, c), Head(c).arg0)
         /\ \A j \in Ids : e = "host" /\ w.sock[j].st = "live" /\ w.sock[j].peer = None =>
              /\ ~(Head(c).cmd = "WRTE" /\ Head(c).arg1 = j)
              /\ online[e]
<1>1. w \in Worlds /\ c \in Seq(Packets) /\ Sound(View(e, w, c))
  BY DEF Fits
<1>2. PICK v : v = View(e, w, c)
  OBVIOUS
<1>3. ViewOf(e, w, c, v)
  BY <1>1, <1>2, ViewParts, Zenon
<1>4. v.chan[e] = c /\ v.sock[e] = w.sock /\ v.online = online /\ v.state = state /\ v.leaving = leaving
      /\ Sound(v) /\ v \in Views
  BY <1>1, <1>2, <1>3 DEF ViewOf
<1>5. /\ Head(c) \in Packets /\ Head(c) \in Elements(c)
      /\ \A A, B : Before(c, A, B) => Head(c) \notin B
  BY <1>1, PopFacts
<1>6. KnownOK(v) /\ OrderOK(v) /\ LinkOK(v, e) /\ SocketsOK(v)
  BY <1>4 DEF Sound
<1>7. ASSUME NEW j \in Ids, e = "host", w.sock[j].st = "live", w.sock[j].peer = None
      PROVE  ~(Head(c).cmd = "WRTE" /\ Head(c).arg1 = j) /\ online[e]
  <2>1. Before(c, OkaysTo(j), WrtesTo(j))
    BY <1>4, <1>6, <1>7 DEF OrderOK
  <2>2. ~(Head(c).cmd = "WRTE" /\ Head(c).arg1 = j)
    BY <1>5, <2>1 DEF WrtesTo
  <2>3. w.sock[j].transport
    BY <1>4, <1>6, <1>7 DEF SocketsOK, SocketOK, LiveOK
  <2>4. ~leaving[e]
    BY <1>4, <1>6 DEF LinkOK
  <2>5. state[e] # "offline" /\ state[e] \in {"offline", "connected"}
    BY <1>4, <1>6, <1>7, <2>3, <2>4, ViewFacts DEF LinkOK
  <2>6. online[e]
    BY <1>4, <1>6, <2>5 DEF LinkOK
  <2> QED
    BY <2>2, <2>6
<1>8. /\ e = "host" => /\ Head(c).cmd # "OPEN"
                       /\ Head(c).cmd \in {"OKAY", "WRTE"} => Known(v, Head(c).arg1)
      /\ e = "device" /\ Head(c).cmd \in {"OPEN", "OKAY", "WRTE"} => Known(v, Head(c).arg0)
  BY <1>4, <1>5, <1>6 DEF KnownOK
<1> QED
  BY <1>2, <1>5, <1>7, <1>8

\* A socket is created.
LEMMA FitCreated ==
  ASSUME V \in Views, NEW e \in Procs, NEW w, NEW c, Fits(e, w, c), w.next \in Ids, NEW x, NEW t, NEW w2,
         IsCreated(w, x, t, w2), t.st = "live", SocketOK(e, t),
         (t.peer = Smart /\ ~t.transport) \/ online[e],
         e = "host" => t.peer \in {None, Smart},
         \A j \in Ids : t.peer = Remote(j) =>
           /\ Known(View(e, w, c), j)
           /\ link => Has(View(e, w, c).chan["host"], OkaysTo(j))
  PROVE  Fits(e, w2, c) /\ w2.sock[w.next] = t
<1>1. /\ w \in Worlds /\ w2 \in Worlds /\ c \in Seq(Packets) /\ w2.out = w.out /\ w2.next = w.next + 1
      /\ w2.sock = [w.sock EXCEPT ![w.next] = t] /\ w.sock \in [Ids -> Sockets]
  BY WorldFacts DEF Fits, IsCreated
<1>2. PICK i \in Ids : i = w.next
  OBVIOUS
<1>3. PICK v, v2 : v = View(e, w, c) /\ v2 = View(e, w2, c)
  OBVIOUS
<1>4. Change(e, w, w2, c, v, v2) /\ Sound(v) /\ ViewOf(e, w, c, v)
  BY <1>1, <1>3, ViewChange, ViewParts, Zenon DEF Fits
<1>5. /\ v2 \in Views /\ SameRest(v, v2) /\ v2.next = [v.next EXCEPT ![e] = i + 1]
      /\ v2.chan = v.chan /\ i = v.next[e] /\ v.online = online /\ v.link = link
      /\ v.sock[e] = w.sock /\ v2.sock[e] = w2.sock
      /\ \A f \in Procs : f # e => v2.sock[f] = v.sock[f]
  BY <1>1, <1>2, <1>4 DEF Change, ViewOf
<1>6. OneSocket(v, v2, e, i, t)
  <2>1. w2.sock[i] = t /\ \A k \in Ids : k # i => w2.sock[k] = w.sock[k]
    BY <1>1, <1>2
  <2> QED
    BY <1>5, <2>1 DEF OneSocket
<1>7. (t.peer = Smart /\ ~t.transport) \/ v.online[e]
  BY <1>5
<1>8. \A j \in Ids : t.peer = Remote(j) =>
           Known(v, j) /\ (v.link => Has(v.chan["host"], OkaysTo(j)))
  BY <1>3, <1>5
<1>9. Sound(v2)
  BY <1>4, <1>5, <1>6, <1>7, <1>8, CreateKeeps
<1> QED
  BY <1>1, <1>3, <1>9 DEF Fits

Connected(w, i, k) == [w EXCEPT !.sock[i].peer = Remote(k)]

\* The first OKAY connects a socket to the other end.
LEMMA FitConnected ==
  ASSUME V \in Views, NEW e \in Procs, NEW w, NEW c, Fits(e, w, c), NEW i \in Ids, NEW k \in Ids,
         w.sock[i].st = "live", w.sock[i].peer = None, online[e],
         NEW w2, w2 = Connected(w, i, k)
  PROVE  Fits(e, w2, c) /\ w2.sock[i].st = "live" /\ w2.sock[i].peer = Remote(k)
<1>1. /\ w \in Worlds /\ c \in Seq(Packets) /\ w.sock[i] \in Sockets /\ SocketOK(e, w.sock[i])
      /\ w.sock \in [Ids -> Sockets]
  BY FitFacts, WorldFacts DEF Fits
<1>2. PICK t : t = [w.sock[i] EXCEPT !.peer = Remote(k)]
  OBVIOUS
<1>3. /\ t \in Sockets /\ t.st = "live" /\ t.peer = Remote(k) /\ t.transport = w.sock[i].transport
      /\ t.want = w.sock[i].want /\ t.evs = w.sock[i].evs /\ t.pkts = w.sock[i].pkts
      /\ t.end = w.sock[i].end
  BY <1>1, <1>2, PeerKinds DEF Sockets
<1>4. w.sock[i].transport /\ e # "device"
  BY <1>1, PeerKinds DEF SocketOK, LiveOK, IsRemote
<1>5. SocketOK(e, t)
  BY <1>1, <1>3, <1>4, PeerKinds DEF SocketOK, LiveOK, IsRemote, IsLocal
<1>6. w2 = [w EXCEPT !.sock[i] = t]
  BY <1>1, <1>2 DEF Worlds, Connected
<1>7. Touched(w, i, t, w2)
  BY <1>1, <1>3, <1>6, TouchFacts, Zenon
<1>8. PICK v, v2 : v = View(e, w, c) /\ v2 = View(e, w2, c)
  OBVIOUS
<1>9. Change(e, w, w2, c, v, v2) /\ Sound(v) /\ ViewOf(e, w, c, v)
  BY <1>1, <1>7, <1>8, ViewChange, ViewParts, Zenon DEF Fits, Touched
<1>10. /\ v2 \in Views /\ SameRest(v, v2) /\ v2.next = v.next /\ v2.chan = v.chan
       /\ v.sock[e] = w.sock /\ v2.sock[e] = w2.sock /\ v.online = online
       /\ \A f \in Procs : f # e => v2.sock[f] = v.sock[f]
  BY <1>7, <1>9 DEF Change, Touched, SameWorldData, ViewOf
<1>11. OneSocket(v, v2, e, i, t) /\ e = "host"
  BY <1>1, <1>4, <1>7, <1>10 DEF OneSocket, Touched, Procs
<1>12. v.sock["host"][i].st = "live" /\ v.sock["host"][i].peer = None /\ v.online["host"]
  BY <1>10, <1>11
<1>13. OneSocket(v, v2, "host", i, t) /\ SocketOK("host", t)
  BY <1>5, <1>11
<1>14. Sound(v2)
  BY <1>3, <1>9, <1>10, <1>12, <1>13, ConnectKeeps
<1> QED
  BY <1>1, <1>3, <1>7, <1>8, <1>14 DEF Fits, Touched

\* Several sockets lose the connection.
IsCut(w, lost, w2) ==
  /\ w2 \in Worlds /\ SameWorldData(w, w2) /\ w2.out = w.out
  /\ w2.sock = [i \in Ids |-> IF i \in lost THEN Dying(w.sock[i], "lost") ELSE w.sock[i]]
  /\ w2.fin = [x \in Ends |->
                 IF ~\E i \in lost : w.sock[i].end = x THEN w.fin[x]
                 ELSE IF \E i \in lost : w.sock[i].end = x /\ Destroyed(w.sock[i]) THEN "lost"
                 ELSE "ending"]

\* The loss of the connection cuts the sockets that used it.
LEMMA DisconnectFacts ==
  ASSUME NEW w \in Worlds, NEW lost \in SUBSET Ids, \A i \in lost : w.sock[i].end \in Ends,
         NEW w2, w2 = Disconnect(w, lost)
  PROVE  IsCut(w, lost, w2)
<1>1. PICK y \in Promise!Closed : y = "lost"
  BY DEF Promise!Closed
<1>2. /\ w.sock \in [Ids -> Sockets] /\ w.fin \in [Ends -> Promise!Fins]
  BY WorldFacts
<1>3. ASSUME NEW i \in lost PROVE /\ Shut(w, i, "lost").sock[i] = Dying(w.sock[i], "lost")
                                  /\ Dying(w.sock[i], "lost") \in Sockets
  <2>1. i \in Ids /\ w.sock[i].end \in Ends /\ w.sock[i] \in Sockets
    BY <1>2
  <2>2. PICK z : z = Shut(w, i, y)
    OBVIOUS
  <2>3. IsShut(w, i, y, z)
    BY <2>1, <2>2, ShutFacts, Zenon
  <2>4. z.sock[i] = Dying(w.sock[i], y)
    BY <1>2, <2>1, <2>3 DEF IsShut
  <2>5. Dying(w.sock[i], y) \in Sockets
    BY <2>1, DyingFacts
  <2> QED
    BY <1>1, <2>2, <2>4, <2>5
<1>4. PICK s : s = [i \in Ids |-> IF i \in lost THEN Dying(w.sock[i], "lost") ELSE w.sock[i]]
  OBVIOUS
<1>5. PICK f : f = [x \in Ends |->
                 IF ~\E i \in lost : w.sock[i].end = x THEN w.fin[x]
                 ELSE IF \E i \in lost : w.sock[i].end = x /\ Destroyed(w.sock[i]) THEN "lost"
                 ELSE "ending"]
  OBVIOUS
<1>6. s \in [Ids -> Sockets]
  BY <1>2, <1>3, <1>4
<1>7. f \in [Ends -> Promise!Fins]
  BY <1>2, <1>5 DEF Promise!Fins, Promise!Closed
<1>8. [i \in Ids |-> IF i \in lost THEN Shut(w, i, "lost").sock[i] ELSE w.sock[i]] = s
  BY <1>3, <1>4
<1>9. [x \in Ends |-> IF {i \in lost : w.sock[i].end = x} = {} THEN w.fin[x]
                      ELSE IF \E i \in {i \in lost : w.sock[i].end = x} :
                                i \in lost /\ (w.sock[i].st = "closing" \/ w.sock[i].pkts = <<>>)
                           THEN "lost"
                      ELSE "ending"] = f
  BY <1>5 DEF Destroyed
<1>10. w2 = [w EXCEPT !.sock = s, !.fin = f]
  BY <1>8, <1>9 DEF Disconnect
<1>11. PICK z : z = [w EXCEPT !.sock = s, !.fin = f]
  OBVIOUS
<1>12. z \in Worlds /\ SameWorldData(w, z) /\ z.out = w.out /\ z.sock = s /\ z.fin = f
  BY <1>6, <1>7, <1>11 DEF Worlds, SameWorldData
<1>13. IsCut(w, lost, z)
  BY <1>4, <1>5, <1>12 DEF IsCut
<1> QED
  BY <1>10, <1>11, <1>13, Zenon

\* The world fits after the sockets of the transport were closed.
LEMMA FitCut ==
  ASSUME V \in Views, NEW e \in Procs, NEW w, NEW c, Fits(e, w, c), NEW lost \in SUBSET Ids,
         \A i \in lost : w.sock[i].st = "live" /\ ~IsLocal(w.sock[i].peer),
         NEW w2, w2 = Disconnect(w, lost)
  PROVE  /\ Fits(e, w2, c) /\ IsCut(w, lost, w2)
         /\ \A i \in Ids : IF i \in lost THEN w2.sock[i].st # "live" /\ w2.sock[i].peer = None
                           ELSE w2.sock[i] = w.sock[i]
<1>1. /\ w \in Worlds /\ \A i \in lost : w.sock[i].end \in Ends
  BY FitFacts DEF SocketOK
<1>2. IsCut(w, lost, w2)
  BY <1>1, DisconnectFacts
<1>3. /\ w2 \in Worlds /\ w2.next = w.next /\ w2.out = w.out
      /\ \A i \in Ids : w2.sock[i] = IF i \in lost THEN Dying(w.sock[i], "lost") ELSE w.sock[i]
  BY <1>2 DEF IsCut, SameWorldData
<1>4. PICK y \in Promise!Closed : y = "lost"
  BY DEF Promise!Closed
<1>5. ASSUME NEW i \in lost
      PROVE  /\ w2.sock[i].st \in {"closing", "gone"} /\ SocketOK(e, w2.sock[i]) /\ w2.sock[i].peer = None
             /\ i \in Ids
  <2>1. w.sock[i] \in Sockets /\ w.sock[i].end \in Ends
    BY <1>1, WorldFacts
  <2>2. PICK t : t = Dying(w.sock[i], y)
    OBVIOUS
  <2>3. t.peer = None /\ t.st \in {"gone", "closing"} /\ SocketOK(e, t)
    BY <2>1, <2>2, DyingFacts
  <2> QED
    BY <1>3, <1>4, <2>2, <2>3
<1>6. Die(e, w, w2, lost)
  BY <1>3, <1>5 DEF Die, IsLocal
<1>7. Fits(e, w2, c)
  BY <1>3, <1>6, FitDeaths, Zenon
<1> QED
  BY <1>2, <1>3, <1>5, <1>7

-----------------------------------------------------------------------------
(* The connection, as the two processes see it. *)

\* The flags of process e are f, and nothing else changes.
Flags(v, v2, e, up, leaves) ==
  /\ v2.sock = v.sock /\ v2.next = v.next /\ v2.link = v.link
  /\ v2.online[e] = up /\ v2.state[e] = (IF up THEN "connected" ELSE "offline")
  /\ v2.leaving[e] = leaves
  /\ \A f \in Procs : f # e => /\ v2.online[f] = v.online[f] /\ v2.state[f] = v.state[f]
                               /\ v2.leaving[f] = v.leaving[f]

\* The SYNC, after the streams over the transport are gone: the process is
\* offline, and its input thread leaves.
LEMMA SyncKeeps ==
  ASSUME NEW v, NEW v2 \in Views, Sound(v), NEW e \in Procs, Flags(v, v2, e, FALSE, TRUE),
         v.chan[e] # <<>>, Head(v.chan[e]).cmd = "SYNC", v2.chan = [v.chan EXCEPT ![e] = Tail(@)],
         \A i \in Ids : ~IsRemote(v.sock[e][i].peer)
  PROVE  Sound(v2)
<1> DEFINE c == v.chan[e]
<1>1. /\ c \in Seq(Packets) /\ v2.chan[e] = Tail(c) /\ \A g \in Procs : g # e => v2.chan[g] = v.chan[g]
      /\ "host" \in Procs /\ "device" \in Procs
  BY ViewFacts DEF Sound
<1>2. /\ Len(c) \in Nat /\ Len(c) >= 1 /\ DOMAIN c = 1..Len(c) /\ Head(c) = c[1]
      /\ Tail(c) \in Seq(Packets) /\ Len(Tail(c)) = Len(c) - 1
  BY <1>1, HeadTailProperties, EmptySeq
<1>3. c[1] = Sync /\ Sync \in Elements(c)
  BY <1>1, <1>2, PopFacts, PacketFacts
<1>4. SyncLast(c) /\ ~v.link
  BY <1>3 DEF Sound, LinkOK
<1> HIDE DEF c
<1>5. Len(c) = 1
  <2>1. 1 \in DOMAIN c
    BY <1>2
  <2> QED
    BY <1>3, <1>4, <2>1 DEF SyncLast
<1>6. v2.chan[e] = <<>>
  <2>1. PICK d \in Seq(Packets) : d = Tail(c)
    BY <1>2
  <2>2. Len(d) = 0
    BY <1>2, <1>5, <2>1
  <2>3. d = <<>>
    BY <2>2, EmptySeq
  <2> QED
    BY <1>1, <2>1, <2>3
<1>7. Elements(<<>>) = {} /\ SyncLast(<<>>) /\ \A A, B : Before(<<>>, A, B)
  BY DEF Elements, SyncLast, Before
<1>8. SocketsOK(v2) /\ PairsOK(v2)
  BY DEF Sound, SocketsOK, PairsOK, Flags
<1>9. \A j : Known(v, j) <=> Known(v2, j)
  BY DEF Known, Flags
<1>10. KnownOK(v2)
  <2>1. \A g \in Procs : Elements(v2.chan[g]) \subseteq Elements(v.chan[g])
    BY <1>1, <1>6, <1>7
  <2>2. v2.sock = v.sock /\ Elements(v2.chan["host"]) \subseteq Elements(v.chan["host"])
        /\ Elements(v2.chan["device"]) \subseteq Elements(v.chan["device"])
    BY <1>1, <2>1 DEF Flags
  <2>3. KnownOK(v)
    BY DEF Sound
  <2> QED
    BY <1>9, <2>2, <2>3 DEF KnownOK
<1>11. OrderOK(v2)
  <2>1. \A j \in Ids : Before(v.chan["host"], OkaysTo(j), WrtesTo(j)) =>
                         Before(v2.chan["host"], OkaysTo(j), WrtesTo(j))
    <3>1. CASE e = "host"
      <4>1. v2.chan["host"] = <<>>
        BY <1>6, <3>1
      <4>2. \A A, B : Before(v2.chan["host"], A, B)
        BY <4>1 DEF Before
      <4> QED
        BY <4>2
    <3>2. CASE e # "host"
      BY <1>1, <3>2
    <3> QED
      BY <3>1, <3>2
  <2> QED
    BY <1>4, <2>1 DEF Sound, OrderOK, Flags
<1>12. LinkOK(v2, e)
  BY <1>4, <1>6, <1>7 DEF LinkOK, Flags
<1>13. \A f \in Procs : f # e => LinkOK(v2, f)
  BY <1>1 DEF Sound, LinkOK, Flags
<1> QED
  BY <1>8, <1>10, <1>11, <1>12, <1>13 DEF Sound

\* A process comes online while packets of the connection are there.
LEMMA OnlineKeeps ==
  ASSUME NEW v, NEW v2 \in Views, Sound(v), NEW e \in Procs, Flags(v, v2, e, TRUE, v.leaving[e]),
         v.chan[e] # <<>>, v2.chan = v.chan
  PROVE  Sound(v2)
<1>1. SocketsOK(v2) /\ PairsOK(v2)
  BY DEF Sound, SocketsOK, PairsOK, Flags
<1>2. \A j : Known(v, j) <=> Known(v2, j)
  BY DEF Known, Flags
<1>3. KnownOK(v2) /\ OrderOK(v2)
  BY <1>2 DEF Sound, KnownOK, OrderOK, Flags
<1>4. LinkOK(v2, e)
  BY DEF Sound, LinkOK, Flags
<1>5. \A f \in Procs : f # e => LinkOK(v2, f)
  BY DEF Sound, LinkOK, Flags
<1> QED
  BY <1>1, <1>3, <1>4, <1>5 DEF Sound

\* The input thread has left, with the last sockets of the transport.
LEMMA LeaveKeeps ==
  ASSUME NEW v, NEW v2 \in Views, Sound(v), NEW e \in Procs, v.leaving[e], v.state[e] = "offline",
         Flags(v, v2, e, FALSE, FALSE), v2.chan = v.chan,
         \A i \in Ids : ~(v.sock[e][i].st = "live" /\ v.sock[e][i].transport)
  PROVE  Sound(v2)
<1>1. SocketsOK(v2) /\ PairsOK(v2)
  BY DEF Sound, SocketsOK, PairsOK, Flags
<1>2. \A j : Known(v, j) <=> Known(v2, j)
  BY DEF Known, Flags
<1>3. KnownOK(v2) /\ OrderOK(v2)
  BY <1>2 DEF Sound, KnownOK, OrderOK, Flags
<1>4. LinkOK(v2, e)
  BY DEF Sound, LinkOK, Flags
<1>5. \A f \in Procs : f # e => LinkOK(v2, f)
  BY DEF Sound, LinkOK, Flags
<1> QED
  BY <1>1, <1>3, <1>4, <1>5 DEF Sound

\* fdevent_process puts events on the list.
LEMMA EventsKeep ==
  ASSUME NEW v, NEW v2 \in Views, Sound(v), SameRest(v, v2), v2.next = v.next, v2.chan = v.chan,
         \A f \in Procs, k \in Ids :
           LET s == v.sock[f][k] t == v2.sock[f][k]
           IN /\ t.st = s.st /\ t.peer = s.peer /\ t.transport = s.transport /\ t.pkts = s.pkts
              /\ t.want = s.want /\ t.end = s.end /\ (t.evs = s.evs \/ t.evs \subseteq s.want)
  PROVE  Sound(v2)
<1>1. \A f \in Procs, k \in Ids :
           /\ v2.sock[f][k].st = v.sock[f][k].st /\ v2.sock[f][k].peer = v.sock[f][k].peer
           /\ v2.sock[f][k].transport = v.sock[f][k].transport /\ v2.sock[f][k].pkts = v.sock[f][k].pkts
           /\ v2.sock[f][k].want = v.sock[f][k].want /\ v2.sock[f][k].end = v.sock[f][k].end
           /\ v2.sock[f][k].evs = v.sock[f][k].evs \/ v2.sock[f][k].evs \subseteq v.sock[f][k].want
  OBVIOUS
<1>2. "host" \in Procs /\ "device" \in Procs
  BY DEF Procs
<1>3. SocketsOK(v2)
  <2>1. ASSUME NEW f \in Procs, NEW k \in Ids PROVE SocketOK(f, v2.sock[f][k])
    <3>1. SocketOK(f, v.sock[f][k])
      BY DEF Sound, SocketsOK
    <3> QED
      BY <1>1, <3>1 DEF SocketOK, LiveOK
  <2> QED
    BY <1>1, <2>1 DEF Sound, SocketsOK
<1>4. PairsOK(v2)
  BY <1>1, <1>2 DEF Sound, PairsOK
<1>5. \A j \in Ids : Known(v, j) => Known(v2, j)
  BY <1>1, <1>2 DEF Known
<1>6. \A f \in Procs : \A p \in Elements(v.chan[f]) : p \in Packets
  BY ElementsType, ViewFacts DEF Sound
<1>7. KnownOK(v2)
  BY <1>1, <1>2, <1>5, <1>6, PacketFacts DEF Sound, KnownOK
<1>8. OrderOK(v2)
  BY <1>1, <1>2 DEF Sound, OrderOK, SameRest
<1>9. \A f \in Procs : LinkOK(v2, f)
  BY <1>1 DEF Sound, LinkOK, SameRest
<1> QED
  BY <1>3, <1>4, <1>7, <1>8, <1>9 DEF Sound

\* A channel that was cut and closed by a SYNC.
LEMMA CutChannel ==
  ASSUME NEW c \in Seq(Packets), Sync \notin Elements(c), NEW h \in Prefixes(c),
         NEW d, d = Append(h, Sync)
  PROVE  /\ d \in Seq(Packets) /\ d # <<>> /\ Sync \in Elements(d) /\ SyncLast(d)
         /\ Elements(d) \subseteq Elements(c) \cup {Sync}
         /\ \A j \in Ids : Before(c, OkaysTo(j), WrtesTo(j)) => Before(d, OkaysTo(j), WrtesTo(j))
<1>1. /\ h \in Seq(Packets) /\ Elements(h) \subseteq Elements(c)
      /\ \A A, B : Before(c, A, B) => Before(h, A, B)
  BY CutFacts
<1>2. Sync \in Packets /\ Sync.cmd = "SYNC"
  BY PacketFacts
<1>3. /\ d \in Seq(Packets) /\ Elements(d) = Elements(h) \cup {Sync}
      /\ \A A, B : Before(h, A, B) /\ (Sync \in B => Has(h, A)) => Before(d, A, B)
  BY <1>1, <1>2, PushFacts
<1>4. /\ Len(h) \in Nat /\ Len(d) = Len(h) + 1 /\ DOMAIN d = 1..(Len(h) + 1) /\ DOMAIN h = 1..Len(h)
      /\ \A k \in 1..Len(h) : d[k] = h[k]
  BY <1>1
<1>5. \A k \in 1..Len(h) : d[k] # Sync
  BY <1>1, <1>4 DEF Elements
<1>6. SyncLast(d) /\ d # <<>>
  <2>1. \A k \in 1..(Len(h) + 1) : k \in 1..Len(h) \/ k = Len(h) + 1
    BY <1>4
  <2>2. d # <<>>
    BY <1>3 DEF Elements
  <2> QED
    BY <1>4, <1>5, <2>1, <2>2 DEF SyncLast
<1>7. \A j \in Ids : Sync \notin WrtesTo(j)
  BY <1>2 DEF WrtesTo
<1> QED
  BY <1>1, <1>3, <1>6, <1>7

\* Both channels lose what was not yet delivered, and end in SYNC.
CutOff(v, v2) == \A e \in Procs : \E h \in Prefixes(v.chan[e]) : v2.chan[e] = Append(h, Sync)

\* The connection is lost for both processes; the device may have restarted.
LEMMA UnplugKeeps ==
  ASSUME NEW v, NEW v2 \in Views, Sound(v), v.link, ~v2.link, v2.sock = v.sock, v2.next = v.next,
         v2.state = v.state, v2.online = v.online, v2.leaving = v.leaving, CutOff(v, v2)
  PROVE  Sound(v2)
<1>1. ASSUME NEW e \in Procs
      PROVE  /\ v2.chan[e] # <<>> /\ Sync \in Elements(v2.chan[e]) /\ SyncLast(v2.chan[e])
             /\ Elements(v2.chan[e]) \subseteq Elements(v.chan[e]) \cup {Sync}
             /\ \A j \in Ids : Before(v.chan[e], OkaysTo(j), WrtesTo(j)) =>
                  Before(v2.chan[e], OkaysTo(j), WrtesTo(j))
  <2>1. Sync \notin Elements(v.chan[e]) /\ v.chan[e] \in Seq(Packets)
    BY ViewFacts DEF Sound, LinkOK
  <2>2. PICK h \in Prefixes(v.chan[e]) : v2.chan[e] = Append(h, Sync)
    BY DEF CutOff
  <2> QED
    BY <2>1, <2>2, CutChannel
<1>2. "host" \in Procs /\ "device" \in Procs /\ Sync.cmd = "SYNC"
  BY PacketFacts DEF Procs
<1>3. SocketsOK(v2) /\ PairsOK(v2)
  BY DEF Sound, SocketsOK, PairsOK
<1>4. \A j : Known(v, j) <=> Known(v2, j)
  BY DEF Known
<1>5. KnownOK(v2)
  BY <1>1, <1>2, <1>4 DEF Sound, KnownOK
<1>6. OrderOK(v2)
  BY <1>1, <1>2 DEF Sound, OrderOK
<1>7. \A e \in Procs : LinkOK(v2, e)
  BY <1>1 DEF Sound, LinkOK
<1> QED
  BY <1>3, <1>5, <1>6, <1>7 DEF Sound

\* adbd dies and comes back empty: what the host knows stays sound.
LEMMA RestartKeeps ==
  ASSUME NEW v, NEW v2 \in Views, Sound(v), v.link, ~v2.link,
         v2.sock["host"] = v.sock["host"], \A k \in Ids : v2.sock["device"][k] = NoSocket,
         v2.next["host"] = v.next["host"],
         v2.state["host"] = v.state["host"], v2.online["host"] = v.online["host"],
         v2.leaving["host"] = v.leaving["host"],
         v2.state["device"] = "offline", ~v2.online["device"], ~v2.leaving["device"],
         v2.chan["device"] = <<>>,
         \E h \in Prefixes(v.chan["host"]) : v2.chan["host"] = Append(h, Sync)
  PROVE  Sound(v2)
<1>1. /\ v2.chan["host"] # <<>> /\ Sync \in Elements(v2.chan["host"]) /\ SyncLast(v2.chan["host"])
      /\ Elements(v2.chan["host"]) \subseteq Elements(v.chan["host"]) \cup {Sync}
      /\ \A j \in Ids : Before(v.chan["host"], OkaysTo(j), WrtesTo(j)) =>
                  Before(v2.chan["host"], OkaysTo(j), WrtesTo(j))
  <2>1. Sync \notin Elements(v.chan["host"]) /\ v.chan["host"] \in Seq(Packets)
    BY ViewFacts DEF Sound, LinkOK
  <2>2. PICK h \in Prefixes(v.chan["host"]) : v2.chan["host"] = Append(h, Sync)
    OBVIOUS
  <2> QED
    BY <2>1, <2>2, CutChannel
<1>2. "host" \in Procs /\ "device" \in Procs /\ Sync.cmd = "SYNC" /\ \A e \in Procs : e = "host" \/ e = "device"
  BY PacketFacts DEF Procs
<1>3. \A e : SocketOK(e, NoSocket)
  BY GoneFacts DEF SocketOK
<1>4. SocketsOK(v2)
  <2>1. ASSUME NEW i \in Ids PROVE /\ SocketOK("host", v2.sock["host"][i])
                                   /\ i >= v2.next["host"] => v2.sock["host"][i].st = "none"
                                   /\ SocketOK("device", v2.sock["device"][i])
                                   /\ v2.sock["device"][i].st = "none"
    BY <1>2, <1>3, GoneFacts DEF Sound, SocketsOK
  <2> QED
    BY <1>2, <2>1 DEF SocketsOK
<1>5. PairsOK(v2)
  BY DEF Sound, PairsOK
<1>6. \A j : Known(v, j) <=> Known(v2, j)
  BY DEF Known
<1>7. \A j, k \in Ids : v2.sock["device"][k].peer # Remote(j)
  BY GoneFacts, PeerKinds
<1>8. KnownOK(v2)
  <2>1. Elements(v2.chan["device"]) = {}
    BY DEF Elements
  <2> QED
    BY <1>1, <1>2, <1>6, <1>7, <2>1 DEF Sound, KnownOK
<1>9. OrderOK(v2)
  BY <1>1, <1>2 DEF Sound, OrderOK
<1>10. LinkOK(v2, "host")
  BY <1>1, <1>2 DEF Sound, LinkOK
<1>11. LinkOK(v2, "device")
  <2>1. \A i \in Ids : ~IsRemote(v2.sock["device"][i].peer) /\ v2.sock["device"][i].st # "live"
    BY <1>7, GoneFacts DEF IsRemote
  <2>2. SyncLast(<<>>) /\ Elements(<<>>) = {}
    BY DEF SyncLast, Elements
  <2> QED
    BY <2>1, <2>2 DEF LinkOK
<1> QED
  BY <1>2, <1>4, <1>5, <1>8, <1>9, <1>10, <1>11 DEF Sound

\* A new connection, with the CNXN of the host on its way.
LEMMA ReplugKeeps ==
  ASSUME NEW v, NEW v2 \in Views, Sound(v), ~v.link, v2.link, v2.sock = v.sock, v2.next = v.next,
         v2.state = v.state, v2.online = v.online, v2.leaving = v.leaving,
         \A e \in Procs : v.chan[e] = <<>> /\ ~v.leaving[e],
         v2.chan["host"] = <<>>, v2.chan["device"] = <<Cnxn>>
  PROVE  Sound(v2)
<1>1. "host" \in Procs /\ "device" \in Procs /\ \A e \in Procs : e = "host" \/ e = "device"
  BY DEF Procs
<1>2. /\ Elements(<<>>) = {} /\ SyncLast(<<>>) /\ Elements(<<Cnxn>>) = {Cnxn}
      /\ \A A, B : Before(<<>>, A, B)
  BY DEF Elements, SyncLast, Before
<1>3. Cnxn.cmd = "CNXN" /\ Cnxn # Sync
  BY PacketFacts
<1>4. SyncLast(<<Cnxn>>)
  BY <1>3 DEF SyncLast
<1>5. \A e \in Procs : v.state[e] = "offline" /\ \A i \in Ids : ~IsRemote(v.sock[e][i].peer)
  BY DEF Sound, LinkOK
<1>6. SocketsOK(v2) /\ PairsOK(v2)
  BY DEF Sound, SocketsOK, PairsOK
<1>7. \A j, k \in Ids : v2.sock["device"][k].peer # Remote(j)
  BY <1>1, <1>5 DEF IsRemote
<1>8. KnownOK(v2)
  BY <1>2, <1>3, <1>7 DEF KnownOK
<1>9. OrderOK(v2)
  BY <1>2, <1>7 DEF OrderOK
<1>10. ASSUME NEW e \in Procs PROVE LinkOK(v2, e)
  BY <1>1, <1>2, <1>3, <1>4 DEF Sound, LinkOK
<1> QED
  BY <1>6, <1>8, <1>9, <1>10 DEF Sound

-----------------------------------------------------------------------------
(* The steps. *)

\* What holds in every state: the sockets are sound, and a packet is announced
\* only if there is one. The host process has not restarted.
AdbInd ==
  /\ Sound(V) /\ freedUse \in BOOLEAN
  /\ pending \in [Procs -> BOOLEAN] /\ \A e \in Procs : pending[e] => chan[e] # <<>>
  /\ session = 0 /\ losses \in 0..MaxLoss

\* A step of the loop that takes no packet.
LEMMA LoopStep ==
  ASSUME AdbInd, NEW e \in Procs, NEW w, Fits(e, w, chan[e]), Commit(e, w, chan[e]),
         UNCHANGED <<transportVars, linkVars>>
  PROVE  AdbInd'
<1>1. V \in Views /\ link' = link /\ online' = online /\ state' = state /\ leaving' = leaving
      /\ pending' = pending /\ session' = session /\ losses' = losses
  BY DEF AdbInd, Sound, transportVars, linkVars
<1>2. /\ V' = View(e, w, chan[e]) /\ freedUse' \in BOOLEAN
      /\ \A f \in Procs : f # e /\ chan[f] # <<>> => chan'[f] # <<>>
      /\ chan'[e] = chan[e]
  BY <1>1, CommitView
<1>3. Sound(V)'
  BY <1>2 DEF Fits
<1> QED
  BY <1>1, <1>2, <1>3 DEF AdbInd

\* A step that handles a packet other than SYNC and CNXN.
LEMMA PacketStep ==
  ASSUME AdbInd, NEW e \in Procs, NEW w, Fits(e, w, Tail(chan[e])), Handled(e, w),
         UNCHANGED <<online, state, leaving, linkVars>>
  PROVE  AdbInd'
<1>1. V \in Views /\ link' = link /\ online' = online /\ state' = state /\ leaving' = leaving
      /\ session' = session /\ losses' = losses
      /\ Commit(e, w, Tail(chan[e])) /\ pending' = [pending EXCEPT ![e] = FALSE]
  BY DEF AdbInd, Sound, transportVars, linkVars, Handled
<1>2. /\ V' = View(e, w, Tail(chan[e])) /\ freedUse' \in BOOLEAN
      /\ \A f \in Procs : f # e /\ chan[f] # <<>> => chan'[f] # <<>>
  BY <1>1, CommitView
<1>3. Sound(V)'
  BY <1>2 DEF Fits
<1>4. pending' \in [Procs -> BOOLEAN] /\ \A f \in Procs : pending'[f] => chan'[f] # <<>>
  BY <1>1, <1>2 DEF AdbInd
<1> QED
  BY <1>1, <1>2, <1>3, <1>4 DEF AdbInd

\* What a handler starts with, when packet p arrives.
LEMMA Arrival ==
  ASSUME AdbInd, NEW e \in Procs, NEW cmd, Arrives(e, cmd)
  PROVE  /\ V \in Views /\ World(e) \in Worlds /\ Fits(e, World(e), chan[e])
         /\ chan[e] \in Seq(Packets) /\ chan[e] # <<>>
         /\ Head(chan[e]) \in Packets /\ Head(chan[e]).cmd = cmd
         /\ World(e).sock = sock[e] /\ World(e).next = next[e] /\ World(e).out = <<>>
<1>1. /\ V \in Views /\ Fits(e, World(e), chan[e]) /\ World(e) \in Worlds
      /\ World(e).sock = sock[e] /\ World(e).next = next[e] /\ World(e).out = <<>>
      /\ chan[e] \in Seq(Packets)
  BY WorldFits DEF AdbInd
<1>2. chan[e] # <<>> /\ Head(chan[e]).cmd = cmd
  BY DEF AdbInd, Arrives
<1> QED
  BY <1>1, <1>2, PopFacts

\* The near end of a stream of this session.
LEMMA NearEndFacts ==
  ASSUME AdbInd, next["host"] <= HostIds
  PROVE  NearEnd \in Ends /\ next["host"] \in Ids
<1>1. next["host"] \in Nat \ {0}
  BY DEF AdbInd, Sound, Views, V, Procs
<1>2. next["host"] \in 1..HostIds
  BY <1>1, BoundsAssumption
<1>3. session \in 0..MaxSession
  BY BoundsAssumption DEF AdbInd
<1> QED
  BY <1>2, <1>3 DEF NearEnd, Ends, Promise!StreamEnds, Streams, Ids

\* A client of the host is accepted.
LEMMA AcceptKeeps ==
  ASSUME AdbInd, Accept
  PROVE  AdbInd'
<1>1. PICK e \in Procs : e = "host"
  BY DEF Procs
<1>2. PICK w : w = World(e)
  OBVIOUS
<1>3. /\ V \in Views /\ Fits(e, w, chan[e]) /\ w \in Worlds /\ w.next = next[e]
  BY <1>2, WorldFits DEF AdbInd
<1>4. NearEnd \in Ends /\ next["host"] \in Ids
  BY NearEndFacts DEF Accept
<1>5. PICK x \in Ends, p \in Peers, want \in SUBSET {"R", "W"}, tr \in BOOLEAN :
        x = NearEnd /\ p = Smart /\ want = {"R"} /\ tr = FALSE
  BY <1>4, PeerKinds
<1>6. PICK w2 : w2 = Create(w, x, p, want, tr)
  OBVIOUS
<1>7. PICK t : t = New(x, p, want, tr)
  OBVIOUS
<1>8. w.next \in Ids
  BY <1>1, <1>3, <1>4
<1>9. IsCreated(w, x, New(x, p, want, tr), w2)
  BY <1>3, <1>6, <1>8, CreateFacts, Zenon
<1>10. IsCreated(w, x, t, w2)
  BY <1>7, <1>9, Zenon
<1>11. /\ t \in Sockets /\ t.st = "live" /\ t.peer = Smart /\ t.want = {"R"} /\ t.end = x
       /\ t.transport = FALSE /\ t.pkts = <<>> /\ t.evs = {}
  <2>1. /\ t \in Sockets /\ t.st = "live" /\ t.peer = p /\ t.want = want /\ t.end = x
        /\ t.transport = tr /\ t.pkts = <<>> /\ t.evs = {} /\ t.why = "own"
    BY <1>7, NewFacts
  <2> QED
    BY <1>5, <2>1
<1>12. SocketOK(e, t)
  BY <1>1, <1>11, PeerKinds DEF SocketOK, LiveOK, IsRemote, IsLocal
<1>13. \A j \in Ids : t.peer # Remote(j)
  BY <1>11, PeerKinds
<1>14. Fits(e, w2, chan[e])
  BY <1>3, <1>8, <1>10, <1>11, <1>12, <1>13, FitCreated
<1>15. Commit(e, w2, chan[e]) /\ UNCHANGED <<transportVars, linkVars>>
  BY <1>1, <1>2, <1>5, <1>6 DEF Accept
<1> QED
  BY <1>14, <1>15, LoopStep

\* A connection to a forwarded port.
LEMMA ForwardKeeps ==
  ASSUME AdbInd, Forward
  PROVE  AdbInd'
<1>1. PICK e \in Procs : e = "host"
  BY DEF Procs
<1>2. PICK w : w = World(e)
  OBVIOUS
<1>3. /\ V \in Views /\ Fits(e, w, chan[e]) /\ w \in Worlds /\ w.next = next[e]
  BY <1>2, WorldFits DEF AdbInd
<1>4. NearEnd \in Ends /\ next["host"] \in Ids /\ online[e]
  BY <1>1, NearEndFacts DEF Forward
<1>5. PICK x \in Ends, p \in Peers, want \in SUBSET {"R", "W"}, tr \in BOOLEAN :
        x = NearEnd /\ p = None /\ want = {} /\ tr = TRUE
  BY <1>4, PeerKinds
<1>6. PICK w2 : w2 = Create(w, x, p, want, tr)
  OBVIOUS
<1>7. PICK t : t = New(x, p, want, tr)
  OBVIOUS
<1>8. PICK i \in Ids : i = w.next
  BY <1>1, <1>3, <1>4
<1>9. IsCreated(w, x, New(x, p, want, tr), w2)
  BY <1>3, <1>6, <1>8, CreateFacts, Zenon
<1>10. IsCreated(w, x, t, w2)
  BY <1>7, <1>9, Zenon
<1>11. /\ t \in Sockets /\ t.st = "live" /\ t.peer = None /\ t.want = {} /\ t.end = x
       /\ t.transport = TRUE /\ t.pkts = <<>> /\ t.evs = {}
  <2>1. /\ t \in Sockets /\ t.st = "live" /\ t.peer = p /\ t.want = want /\ t.end = x
        /\ t.transport = tr /\ t.pkts = <<>> /\ t.evs = {} /\ t.why = "own"
    BY <1>7, NewFacts
  <2> QED
    BY <1>5, <2>1
<1>12. SocketOK(e, t)
  BY <1>1, <1>11, PeerKinds DEF SocketOK, LiveOK, IsRemote, IsLocal
<1>13. \A j \in Ids : t.peer # Remote(j)
  BY <1>11, PeerKinds
<1>14. Fits(e, w2, chan[e]) /\ w2.sock[i] = t
  BY <1>3, <1>4, <1>8, <1>10, <1>11, <1>12, <1>13, FitCreated
<1>15. PICK q \in Packets : q = OpenPacket(i, FarOf(x))
  BY EndFacts, SentPackets DEF OpenPacket
<1>16. PICK w3 : w3 = SendPacket(w2, q)
  OBVIOUS
<1>17. Known(View(e, w2, chan[e]), i)
  <2>1. w2 \in Worlds /\ chan[e] \in Seq(Packets)
    BY <1>14 DEF Fits
  <2>2. ViewOf(e, w2, chan[e], View(e, w2, chan[e]))
    BY <1>3, <2>1, ViewParts, Zenon
  <2>3. View(e, w2, chan[e]).sock["host"] = w2.sock
    BY <1>1, <2>2 DEF ViewOf
  <2> QED
    BY <1>11, <1>14, <2>3, PeerKinds DEF Known
<1>18. /\ w3 \in Worlds /\ w3.next = w2.next /\ w3.out = Append(w2.out, q) /\ w3.sock = w2.sock
  <2>1. w2 \in Worlds
    BY <1>14 DEF Fits
  <2> QED
    BY <1>16, <2>1, SendFacts DEF SameWorldData
<1>19. /\ q.cmd # "SYNC" /\ e # "device"
       /\ e = "host" /\ q.cmd \in {"OPEN", "OKAY", "WRTE"} => Known(View(e, w2, chan[e]), q.arg0)
  BY <1>1, <1>15, <1>17 DEF OpenPacket
<1>20. Fits(e, w3, chan[e])
  BY <1>3, <1>14, <1>18, <1>19, FitPush, Zenon
<1>21. w3 = ConnectToRemote(w2, i)
  BY <1>11, <1>14, <1>15, <1>16 DEF ConnectToRemote, OpenPacket
<1>22. Commit(e, w3, chan[e]) /\ UNCHANGED <<transportVars, linkVars>>
  BY <1>1, <1>2, <1>3, <1>5, <1>6, <1>8, <1>21 DEF Forward
<1> QED
  BY <1>20, <1>22, LoopStep

\* fdevent_process takes the ready events of the sockets.
LEMMA ProcessKeeps ==
  ASSUME AdbInd, NEW e \in Procs, FdeventProcess(e)
  PROVE  AdbInd'
<1>1. PICK ready \in Ready(e) :
        sock' = [sock EXCEPT ![e] = [i \in Ids |-> [@[i] EXCEPT !.evs = ready[i]]]]
  BY DEF FdeventProcess
<1>2. /\ pending' = [pending EXCEPT ![e] = chan[e] # <<>>]
      /\ UNCHANGED <<next, online, state, leaving, chan, link, session, losses, sent, rcvd, fin, freedUse>>
  BY DEF FdeventProcess, linkVars
<1>3. ready \in [Ids -> SUBSET {"R", "W"}] /\ \A i \in Ids : ready[i] \subseteq sock[e][i].want
  BY <1>1 DEF Ready
<1>4. sock \in [Procs -> [Ids -> Sockets]] /\ V \in Views
  BY DEF AdbInd, Sound, Views, V
<1>5. /\ sock' \in [Procs -> [Ids -> Sockets]]
      /\ \A f \in Procs, k \in Ids :
           sock'[f][k] = IF f = e THEN [sock[f][k] EXCEPT !.evs = ready[k]] ELSE sock[f][k]
  <2>1. \A k \in Ids : [sock[e][k] EXCEPT !.evs = ready[k]] \in Sockets
    <3>1. ASSUME NEW s \in Sockets, NEW r \in SUBSET {"R", "W"} PROVE [s EXCEPT !.evs = r] \in Sockets
      BY DEF Sockets
    <3>2. \A k \in Ids : sock[e][k] \in Sockets /\ ready[k] \in SUBSET {"R", "W"}
      BY <1>3, <1>4
    <3> QED
      BY <3>1, <3>2
  <2>2. PICK g \in [Ids -> Sockets] : g = [i \in Ids |-> [sock[e][i] EXCEPT !.evs = ready[i]]]
    BY <2>1
  <2>3. sock' = [sock EXCEPT ![e] = g]
    BY <1>1, <1>4, <2>2
  <2>4. /\ sock' \in [Procs -> [Ids -> Sockets]]
        /\ \A f \in Procs : sock'[f] = IF f = e THEN g ELSE sock[f]
    BY <1>4, <2>2, <2>3
  <2>5. \A k \in Ids : g[k] = [sock[e][k] EXCEPT !.evs = ready[k]]
    BY <2>2
  <2> QED
    BY <2>4, <2>5
<1>6. ASSUME NEW f \in Procs, NEW k \in Ids
      PROVE  /\ sock'[f][k].st = sock[f][k].st /\ sock'[f][k].peer = sock[f][k].peer
             /\ sock'[f][k].transport = sock[f][k].transport /\ sock'[f][k].pkts = sock[f][k].pkts
             /\ sock'[f][k].want = sock[f][k].want /\ sock'[f][k].end = sock[f][k].end
             /\ sock'[f][k].evs = sock[f][k].evs \/ sock'[f][k].evs \subseteq sock[f][k].want
  <2>1. sock[f][k] \in Sockets
    BY <1>4
  <2>2. CASE f = e
    <3>1. sock'[f][k] = [sock[f][k] EXCEPT !.evs = ready[k]]
      BY <1>5, <2>2
    <3>2. ready[k] \subseteq sock[f][k].want
      BY <1>3, <2>2
    <3> QED
      BY <2>1, <3>1, <3>2 DEF Sockets
  <2>3. CASE f # e
    BY <1>5, <2>3
  <2> QED
    BY <2>2, <2>3
<1>7. PICK v, v2 : v = V /\ v2 = V'
  OBVIOUS
<1>8. /\ v.sock = sock /\ v2.sock = sock' /\ SameRest(v, v2) /\ v2.next = v.next /\ v2.chan = v.chan
      /\ Sound(v)
  BY <1>2, <1>7 DEF V, SameRest, AdbInd
<1>9. v2 \in Views
  BY <1>2, <1>4, <1>5, <1>7 DEF V, Views
<1>10. \A f \in Procs, k \in Ids :
           LET s == v.sock[f][k] t == v2.sock[f][k]
           IN /\ t.st = s.st /\ t.peer = s.peer /\ t.transport = s.transport /\ t.pkts = s.pkts
              /\ t.want = s.want /\ t.end = s.end /\ (t.evs = s.evs \/ t.evs \subseteq s.want)
  BY <1>6, <1>8
<1>11. Sound(v2)
  BY <1>8, <1>9, <1>10, EventsKeep, Zenon
<1>12. pending' \in [Procs -> BOOLEAN] /\ \A f \in Procs : pending'[f] => chan'[f] # <<>>
  BY <1>2 DEF AdbInd
<1> QED
  BY <1>2, <1>7, <1>11, <1>12 DEF AdbInd

\* A pending event of a socket is handled.
LEMMA EventKeeps ==
  ASSUME AdbInd, NEW e \in Procs, NEW i \in Ids, EventFunc(e, i)
  PROVE  AdbInd'
<1>1. PICK w : w = World(e)
  OBVIOUS
<1>2. /\ V \in Views /\ Fits(e, w, chan[e]) /\ w \in Worlds /\ w.sock = sock[e]
  BY <1>1, WorldFits DEF AdbInd
<1>3. PICK events : events = sock[e][i].evs /\ events # {}
  BY DEF EventFunc
<1>4. PICK w0 : w0 = [w EXCEPT !.sock[i].evs = {}]
  OBVIOUS
<1>5. PICK t : t = [w.sock[i] EXCEPT !.evs = {}]
  OBVIOUS
<1>6. w.sock[i] \in Sockets /\ w.sock \in [Ids -> Sockets] /\ SocketOK(e, w.sock[i])
  BY <1>2, WorldFacts, FitFacts
<1>7. /\ t \in Sockets /\ t.st = w.sock[i].st /\ t.peer = w.sock[i].peer /\ t.end = w.sock[i].end
      /\ t.transport = w.sock[i].transport /\ t.want = w.sock[i].want /\ t.pkts = w.sock[i].pkts
      /\ t.evs = {}
  BY <1>5, <1>6 DEF Sockets
<1>8. SocketOK(e, t)
  BY <1>6, <1>7 DEF SocketOK, LiveOK
<1>9. w0 = [w EXCEPT !.sock[i] = t]
  BY <1>2, <1>4, <1>5, <1>6 DEF Worlds
<1>10. Touched(w, i, t, w0)
  BY <1>2, <1>7, <1>9, TouchFacts, Zenon
<1>11. Fits(e, w0, chan[e])
  BY <1>2, <1>7, <1>8, <1>10, FitTouched, Zenon
<1>12. w0.sock[i].st \in {"live", "closing"} /\ w0.sock[i].evs = {}
  BY <1>2, <1>3, <1>6, <1>7, <1>10, SocketFacts DEF SocketOK, Touched
<1>13. PICK w2 \in Outcomes(e, i, events, w0) : Commit(e, w2, chan[e])
  BY <1>1, <1>3, <1>4 DEF EventFunc, Outcomes
<1>14. Fits(e, w2, chan[e])
  BY <1>2, <1>11, <1>12, <1>13, FitEvent
<1>15. UNCHANGED <<transportVars, linkVars>>
  BY DEF EventFunc
<1> QED
  BY <1>13, <1>14, <1>15, LoopStep

\* A_OKAY arrives.
LEMMA OkayKeeps ==
  ASSUME AdbInd, NEW e \in Procs, HandleOkay(e)
  PROVE  AdbInd'
<1>1. Arrives(e, "OKAY")
  BY DEF HandleOkay
<1>2. PICK w, c, p : w = World(e) /\ c = chan[e] /\ p = Head(chan[e])
  OBVIOUS
<1>3. /\ V \in Views /\ w \in Worlds /\ Fits(e, w, c) /\ c \in Seq(Packets) /\ c # <<>>
      /\ p \in Packets /\ p.cmd = "OKAY" /\ w.sock = sock[e] /\ p = Head(c)
  BY <1>1, <1>2, Arrival
<1>4. p.arg0 \in Ids /\ p.arg1 \in Ids
  BY <1>3, PacketFacts
<1>5. PICK i \in Ids, k \in Ids : i = p.arg1 /\ k = p.arg0
  BY <1>4
<1>6. CASE Target(e) = {}
  <2>1. ~(online[e] /\ w.sock[i].st = "live")
    BY <1>2, <1>3, <1>5, <1>6 DEF Target
  <2>2. e = "host" => ~(w.sock[i].st = "live" /\ w.sock[i].peer = None)
    BY <1>3, <2>1, FitHead
  <2>3. Fits(e, w, Tail(c))
    BY <1>3, <1>5, <2>2, FitPop
  <2>4. Handled(e, w) /\ UNCHANGED <<online, state, leaving, linkVars>>
    BY <1>2, <1>6 DEF HandleOkay
  <2> QED
    BY <1>2, <2>3, <2>4, PacketStep
<1>7. CASE Target(e) # {}
  <2>1. online[e] /\ w.sock[i].st = "live"
    BY <1>2, <1>3, <1>5, <1>7 DEF Target
  <2>2. PICK w1 : w1 = IF w.sock[i].peer = None THEN [w EXCEPT !.sock[i].peer = Remote(k)] ELSE w
    OBVIOUS
  <2>3. Fits(e, w1, c) /\ w1.sock[i].st = "live" /\ w1.sock[i].peer # None
    <3>1. CASE w.sock[i].peer = None
      <4>1. w1 = Connected(w, i, k)
        BY <2>2, <3>1 DEF Connected
      <4>2. Fits(e, w1, c) /\ w1.sock[i].st = "live" /\ w1.sock[i].peer = Remote(k)
        BY <1>3, <2>1, <3>1, <4>1, FitConnected, SMTT(20)
      <4> QED
        BY <4>2, PeerKinds
    <3>2. CASE w.sock[i].peer # None
      BY <1>3, <2>1, <2>2, <3>2
    <3> QED
      BY <3>1, <3>2
  <2>4. PICK w2 : w2 = SocketReady(w1, i)
    OBVIOUS
  <2>5. Fits(e, w2, c) /\ Touched(w1, i, Started(w1.sock[i]), w2)
    BY <1>3, <2>3, <2>4, FitReady, Zenon
  <2>6. w2.sock[i].peer # None
    <3>1. PICK s, t : s = w1.sock[i] /\ t = Started(s)
      OBVIOUS
    <3>2. s \in Sockets
      BY <2>3, <3>1, WorldFacts DEF Fits
    <3>3. t.peer = s.peer
      BY <3>1, <3>2, StartedFacts
    <3>4. w2.sock[i] = t
      BY <2>5, <3>1 DEF Touched
    <3> QED
      BY <2>3, <3>1, <3>3, <3>4
  <2>7. Fits(e, w2, Tail(c))
    BY <1>3, <1>5, <2>5, <2>6, FitPop
  <2>8. Handled(e, w2) /\ UNCHANGED <<online, state, leaving, linkVars>>
    BY <1>2, <1>5, <1>7, <2>2, <2>4 DEF HandleOkay
  <2> QED
    BY <1>2, <2>7, <2>8, PacketStep
<1> QED
  BY <1>6, <1>7

\* A_CLSE arrives.
LEMMA ClseKeeps ==
  ASSUME AdbInd, NEW e \in Procs, HandleClse(e)
  PROVE  AdbInd'
<1>1. Arrives(e, "CLSE") /\ UNCHANGED <<online, state, leaving, linkVars>>
  BY DEF HandleClse
<1>2. PICK w, c, p : w = World(e) /\ c = chan[e] /\ p = Head(chan[e])
  OBVIOUS
<1>3. /\ V \in Views /\ w \in Worlds /\ Fits(e, w, c) /\ c \in Seq(Packets) /\ c # <<>>
      /\ p \in Packets /\ p.cmd = "CLSE" /\ w.sock = sock[e] /\ p = Head(c)
  BY <1>1, <1>2, Arrival
<1>4. PICK i \in Ids : i = p.arg1
  BY <1>3, PacketFacts
<1>5. PICK w2 : w2 = IF Target(e) = {} THEN w ELSE Close(w, i, "peer")
  OBVIOUS
<1>6. Fits(e, w2, c)
  <2>1. CASE Target(e) = {}
    BY <1>3, <1>5, <2>1
  <2>2. CASE Target(e) # {}
    <3>1. w.sock[i].st = "live"
      BY <1>2, <1>3, <1>4, <2>2 DEF Target
    <3>2. PICK y \in Promise!Closed : y = "peer"
      BY DEF Promise!Closed
    <3>3. w2 = Close(w, i, y)
      BY <1>5, <2>2, <3>2
    <3> QED
      BY <1>3, <3>1, <3>3, FitClose, SMTT(20)
  <2> QED
    BY <2>1, <2>2
<1>7. Fits(e, w2, Tail(c))
  BY <1>3, <1>6, FitPop
<1>8. Handled(e, w2)
  BY <1>2, <1>4, <1>5 DEF HandleClse
<1> QED
  BY <1>1, <1>2, <1>7, <1>8, PacketStep

\* A_WRTE arrives.
LEMMA WrteKeeps ==
  ASSUME AdbInd, NEW e \in Procs, HandleWrte(e)
  PROVE  AdbInd'
<1>1. Arrives(e, "WRTE") /\ UNCHANGED <<online, state, leaving, linkVars>>
  BY DEF HandleWrte
<1>2. PICK w, c, p : w = World(e) /\ c = chan[e] /\ p = Head(chan[e])
  OBVIOUS
<1>3. /\ V \in Views /\ w \in Worlds /\ Fits(e, w, c) /\ c \in Seq(Packets) /\ c # <<>>
      /\ p \in Packets /\ p.cmd = "WRTE" /\ w.sock = sock[e] /\ p = Head(c)
  BY <1>1, <1>2, Arrival
<1>4. PICK i \in Ids, k \in Ids, d \in Data : i = p.arg1 /\ k = p.arg0 /\ d = p.data
  BY <1>3, PacketFacts
<1>5. CASE Handled(e, w)
  <2>1. Fits(e, w, Tail(c))
    BY <1>3, FitPop
  <2> QED
    BY <1>1, <1>2, <1>5, <2>1, PacketStep
<1>6. ASSUME NEW res \in WriteResults, Target(e) # {}, NEW q, q = Enqueue(w, i, d, res), NEW w2,
             w2 = (IF q.r = 0 THEN SendPacket(q.w, Okay(i, k)) ELSE q.w), Handled(e, w2)
      PROVE  AdbInd'
  <2>1. w.sock[i].st = "live"
    BY <1>2, <1>3, <1>4, <1>6 DEF Target
  <2>2. w.sock[i].peer \notin {None, Smart}
    <3>1. SocketOK(e, w.sock[i])
      BY <1>3, FitFacts
    <3>2. CASE e = "device"
      BY <2>1, <3>1, <3>2, PeerKinds DEF SocketOK, LiveOK, IsRemote
    <3>3. CASE e = "host"
      <4>1. w.sock[i].peer # None
        BY <1>3, <1>4, <2>1, <3>3, FitHead
      <4>2. Known(View(e, w, c), i)
        BY <1>3, <1>4, <3>3, FitHead
      <4>3. ViewOf(e, w, c, View(e, w, c))
        BY <1>3, ViewParts, Zenon
      <4>4. View(e, w, c).sock["host"] = w.sock
        BY <3>3, <4>3 DEF ViewOf
      <4>5. w.sock[i].peer # Smart
        BY <2>1, <4>2, <4>4 DEF Known
      <4> QED
        BY <4>1, <4>5
    <3> QED
      BY <3>2, <3>3 DEF Procs
  <2>3. Fits(e, q.w, c) /\ q.r \in {0, 1} /\ (q.r = 0 => q.w.sock = w.sock)
    BY <1>3, <1>6, <2>1, <2>2, FitEnqueue, SMTT(20)
  <2>4. Fits(e, w2, c)
    <3>1. CASE q.r # 0
      BY <1>6, <2>3, <3>1
    <3>2. CASE q.r = 0
      <4>1. PICK w1 \in Worlds : w1 = q.w
        BY <2>3 DEF Fits
      <4>2. PICK y \in Packets : y = Okay(i, k)
        BY SentPackets DEF Okay
      <4>3. w2 = SendPacket(w1, y)
        BY <1>6, <3>2, <4>1, <4>2
      <4>4. /\ w2 \in Worlds /\ w2.next = w1.next /\ w2.out = Append(w1.out, y) /\ w2.sock = w1.sock
        BY <4>3, SendFacts DEF SameWorldData
      <4>5. Fits(e, w1, c)
        BY <2>3, <4>1
      <4>6. /\ e = "host" => Known(View(e, w1, c), i)
            /\ e = "device" => Known(View(e, w1, c), k)
        BY <1>3, <1>4, <4>5, FitHead
      <4>7. y.cmd = "OKAY" /\ y.arg0 = i /\ y.arg1 = k
        BY <4>2 DEF Okay
      <4>8. /\ y.cmd # "SYNC"
            /\ e = "device" => /\ y.cmd # "OPEN"
                               /\ y.cmd \in {"OKAY", "WRTE"} => Known(View(e, w1, c), y.arg1)
                               /\ y.cmd = "WRTE" => \E n \in Ids : w1.sock[n].peer = Remote(y.arg1)
            /\ e = "host" /\ y.cmd \in {"OPEN", "OKAY", "WRTE"} => Known(View(e, w1, c), y.arg0)
        BY <4>6, <4>7
      <4> QED
        BY <1>3, <4>4, <4>5, <4>8, FitPush, Zenon
    <3> QED
      BY <3>1, <3>2
  <2>5. Fits(e, w2, Tail(c))
    BY <1>3, <2>4, FitPop
  <2> QED
    BY <1>1, <1>2, <1>6, <2>5, PacketStep
<1>7. Handled(e, w) \/ \E res \in WriteResults : \E q, w2 :
        /\ Target(e) # {} /\ q = Enqueue(w, i, d, res)
        /\ w2 = (IF q.r = 0 THEN SendPacket(q.w, Okay(i, k)) ELSE q.w) /\ Handled(e, w2)
  BY <1>2, <1>4 DEF HandleWrte, Okay
<1> QED
  BY <1>5, <1>6, <1>7

\* A_OPEN arrives.
LEMMA OpenKeeps ==
  ASSUME AdbInd, NEW e \in Procs, HandleOpen(e)
  PROVE  AdbInd'
<1>1. Arrives(e, "OPEN") /\ UNCHANGED <<online, state, leaving, linkVars>>
  BY DEF HandleOpen
<1>2. PICK w, c, p : w = World(e) /\ c = chan[e] /\ p = Head(chan[e])
  OBVIOUS
<1>3. /\ V \in Views /\ w \in Worlds /\ Fits(e, w, c) /\ c \in Seq(Packets) /\ c # <<>>
      /\ p \in Packets /\ p.cmd = "OPEN" /\ w.sock = sock[e] /\ w.next = next[e] /\ w.out = <<>>
      /\ p = Head(c)
  BY <1>1, <1>2, Arrival
<1>4. PICK j \in Ids, x \in Ends : j = p.arg0 /\ x = p.end
  BY <1>3, PacketFacts
<1>5. e = "device" /\ Known(View(e, w, c), j)
  BY <1>3, <1>4, FitHead DEF Procs
<1>6. ASSUME NEW y \in Packets, NEW w2, w2 = SendPacket(w, y), y.cmd \in {"CLSE", "OKAY"},
             y.cmd = "OKAY" => y.arg1 = j
      PROVE  /\ Fits(e, w2, c) /\ w2 \in Worlds /\ SameWorldData(w, w2) /\ w2.sock = w.sock
             /\ w2.fin = w.fin /\ w2.out = Append(w.out, y)
  <2>1. /\ w2 \in Worlds /\ SameWorldData(w, w2) /\ w2.out = Append(w.out, y) /\ w2.sock = w.sock
        /\ w2.next = w.next /\ w2.fin = w.fin
    BY <1>3, <1>6, SendFacts DEF SameWorldData
  <2>2. /\ y.cmd # "SYNC"
        /\ e = "device" => /\ y.cmd # "OPEN"
                           /\ y.cmd \in {"OKAY", "WRTE"} => Known(View(e, w, c), y.arg1)
                           /\ y.cmd = "WRTE" => \E n \in Ids : w.sock[n].peer = Remote(y.arg1)
        /\ e # "host"
    BY <1>5, <1>6
  <2>3. Fits(e, w2, c)
    BY <1>3, <2>1, <2>2, FitPush, Zenon
  <2> QED
    BY <2>1, <2>3
<1>7. CASE Handled(e, w)
  <2>1. Fits(e, w, Tail(c))
    BY <1>3, FitPop
  <2> QED
    BY <1>1, <1>2, <1>7, <2>1, PacketStep
<1>8. CASE Handled(e, SendPacket(w, [cmd |-> "CLSE", arg0 |-> 0, arg1 |-> j]))
  <2>1. PICK y \in Packets : y = Clse(j)
    BY SentPackets DEF Clse
  <2>2. y.cmd = "CLSE"
    BY <2>1 DEF Clse
  <2>3. PICK w2 : w2 = SendPacket(w, y)
    OBVIOUS
  <2>4. Fits(e, w2, c)
    BY <1>6, <2>2, <2>3
  <2>5. Fits(e, w2, Tail(c))
    BY <1>3, <2>4, FitPop
  <2>6. Handled(e, w2)
    BY <1>8, <2>1, <2>3 DEF Clse
  <2> QED
    BY <1>1, <1>2, <2>5, <2>6, PacketStep
<1>9. ASSUME online[e], w.next <= MaxId(e),
             Handled(e, SendPacket(Create(w, x, Remote(j), {"R"}, FALSE),
                                   [cmd |-> "OKAY", arg0 |-> w.next, arg1 |-> j]))
      PROVE  AdbInd'
  <2>1. w.next \in Ids
    <3>1. w.next \in Nat \ {0} /\ MaxId(e) \in Nat
      BY <1>3, WorldFacts, BoundsAssumption DEF MaxId
    <3>2. w.next \in 1..MaxId(e)
      BY <1>9, <3>1
    <3> QED
      BY <3>2 DEF MaxId, Ids
  <2>2. PICK pr \in Peers, want \in SUBSET {"R", "W"}, tr \in BOOLEAN :
          pr = Remote(j) /\ want = {"R"} /\ tr = FALSE
    BY PeerKinds
  <2>3. PICK y \in Packets : y = Okay(w.next, j)
    BY <2>1, SentPackets DEF Okay
  <2>4. y.cmd = "OKAY" /\ y.arg1 = j /\ y \in OkaysTo(j)
    BY <2>3 DEF Okay, OkaysTo
  <2>5. PICK w1 : w1 = SendPacket(w, y)
    OBVIOUS
  <2>6. /\ Fits(e, w1, c) /\ w1 \in Worlds /\ SameWorldData(w, w1) /\ w1.sock = w.sock
        /\ w1.fin = w.fin /\ w1.out = Append(w.out, y)
    BY <1>6, <2>4, <2>5
  <2>7. PICK wc : wc = Create(w, x, pr, want, tr)
    OBVIOUS
  <2>8. PICK t : t = New(x, pr, want, tr)
    OBVIOUS
  <2>9. IsCreated(w, x, New(x, pr, want, tr), wc)
    BY <1>3, <2>1, <2>7, CreateFacts, Zenon
  <2>10. IsCreated(w, x, t, wc)
    BY <2>8, <2>9, Zenon
  <2>11. PICK w2 : w2 = SendPacket(wc, y)
    OBVIOUS
  <2>12. IsCreated(w1, x, t, w2)
    <3>1. wc \in Worlds
      BY <2>10 DEF IsCreated
    <3>2. /\ w2 \in Worlds /\ SameWorldData(wc, w2) /\ w2.sock = wc.sock /\ w2.fin = wc.fin
          /\ w2.out = Append(wc.out, y)
      BY <2>11, <3>1, SendFacts
    <3> QED
      BY <2>6, <2>10, <3>2 DEF IsCreated, SameWorldData
  <2>13. /\ t \in Sockets /\ t.st = "live" /\ t.peer = Remote(j) /\ t.want = {"R"} /\ t.end = x
         /\ t.transport = FALSE /\ t.pkts = <<>> /\ t.evs = {}
    <3>1. IsNew(t, x, pr, want, tr)
      BY <2>8, NewSocket, Zenon
    <3> QED
      BY <2>2, <3>1 DEF IsNew
  <2>14. SocketOK(e, t)
    BY <1>5, <2>13, PeerKinds DEF SocketOK, LiveOK, IsRemote, IsLocal
  <2>15. Known(View(e, w1, c), j)
    BY <1>3, <1>4, <1>5, <2>6, FitHead
  <2>16. link => Has(View(e, w1, c).chan["host"], OkaysTo(j))
    <3>1. ViewOf(e, w1, c, View(e, w1, c))
      BY <1>3, <2>6, ViewParts, Zenon
    <3>2. Other(e) = "host" /\ chan["host"] \in Seq(Packets)
      BY <1>3, <1>5, ProcFacts DEF Views, V, Procs
    <3>3. link => View(e, w1, c).chan["host"] = chan["host"] \o w1.out
      BY <3>1, <3>2 DEF ViewOf
    <3>4. w1.out = Append(<<>>, y)
      BY <1>3, <2>6
    <3>5. chan["host"] \o w1.out = Append(chan["host"], y)
      <4>1. <<>> \in Seq(Packets) /\ chan["host"] \o <<>> = chan["host"]
        BY <3>2, ConcatProperties
      <4>2. chan["host"] \o Append(<<>>, y) = Append(chan["host"] \o <<>>, y)
        BY <3>2, <4>1, AppendConcat
      <4> QED
        BY <3>4, <4>1, <4>2
    <3>6. Elements(Append(chan["host"], y)) = Elements(chan["host"]) \cup {y}
      BY <3>2, PushFacts
    <3> QED
      BY <2>4, <3>3, <3>5, <3>6 DEF Has
  <2>17. \A m \in Ids : t.peer = Remote(m) =>
           /\ Known(View(e, w1, c), m)
           /\ link => Has(View(e, w1, c).chan["host"], OkaysTo(m))
    <3>1. \A m \in Ids : t.peer = Remote(m) => m = j
      BY <2>13, PeerKinds
    <3> QED
      BY <2>15, <2>16, <3>1
  <2>18. w1.next \in Ids /\ e # "host"
    BY <1>5, <2>1, <2>6 DEF SameWorldData
  <2>19. Fits(e, w2, c)
    BY <1>3, <1>9, <2>6, <2>12, <2>13, <2>14, <2>17, <2>18, FitCreated
  <2>20. Fits(e, w2, Tail(c))
    BY <1>3, <2>19, FitPop
  <2>21. Handled(e, w2)
    BY <1>9, <2>2, <2>3, <2>7, <2>11 DEF Okay
  <2> QED
    BY <1>1, <1>2, <2>20, <2>21, PacketStep
<1>10. \/ Handled(e, w)
       \/ Handled(e, SendPacket(w, [cmd |-> "CLSE", arg0 |-> 0, arg1 |-> j]))
       \/ /\ online[e] /\ w.next <= MaxId(e)
          /\ Handled(e, SendPacket(Create(w, x, Remote(j), {"R"}, FALSE),
                                   [cmd |-> "OKAY", arg0 |-> w.next, arg1 |-> j]))
  BY <1>2, <1>4 DEF HandleOpen
<1> QED
  BY <1>7, <1>8, <1>9, <1>10

\* The sockets that are connected to the other side.
LEMMA OverFacts ==
  ASSUME V \in Views, NEW e \in Procs, NEW w, NEW c, Fits(e, w, c)
  PROVE  /\ OverTransport(w) \in SUBSET Ids
         /\ \A i \in Ids : i \in OverTransport(w) <=> IsRemote(w.sock[i].peer)
         /\ \A i \in OverTransport(w) : w.sock[i].st = "live" /\ ~IsLocal(w.sock[i].peer)
<1>1. \A i \in Ids : w.sock[i] \in Sockets /\ SocketOK(e, w.sock[i])
  BY FitFacts
<1>2. ASSUME NEW i \in Ids PROVE /\ w.sock[i].peer[1] = "remote" <=> IsRemote(w.sock[i].peer)
                                 /\ IsRemote(w.sock[i].peer) =>
                                      w.sock[i].st = "live" /\ ~IsLocal(w.sock[i].peer)
  <2>1. PICK p \in Peers : p = w.sock[i].peer
    BY <1>1, SocketFacts
  <2>2. p[1] = "remote" <=> IsRemote(p)
    BY PeerParts
  <2>3. IsRemote(p) => ~IsLocal(p) /\ p # None
    BY PeerKinds DEF IsRemote, IsLocal
  <2> QED
    BY <1>1, <2>1, <2>2, <2>3 DEF SocketOK
<1> QED
  BY <1>2 DEF OverTransport

FlagsSet(e, up, leaves) ==
  /\ online' = [online EXCEPT ![e] = up]
  /\ state' = [state EXCEPT ![e] = IF up THEN "connected" ELSE "offline"]
  /\ leaving' = [leaving EXCEPT ![e] = leaves]
Flagged(e, w, c, v, v2, up, leaves) ==
  /\ Flags(v, v2, e, up, leaves) /\ v2.chan = v.chan /\ v2 \in Views /\ ViewOf(e, w, c, v)
  /\ freedUse' \in BOOLEAN
  /\ \A f \in Procs : f # e /\ chan[f] # <<>> => chan'[f] # <<>>

\* The flags of a process change with a step of its handler.
LEMMA FlagStep ==
  ASSUME V \in Views, NEW e \in Procs, NEW w, NEW c, Fits(e, w, c), Commit(e, w, c), link' = link,
         NEW up \in BOOLEAN, NEW leaves \in BOOLEAN,
         FlagsSet(e, up, leaves), NEW v, v = View(e, w, c), NEW v2, v2 = V'
  PROVE  Flagged(e, w, c, v, v2, up, leaves)
<1>1. w \in Worlds /\ c \in Seq(Packets)
  BY DEF Fits
<1>2. ViewOf(e, w, c, v)
  BY <1>1, ViewParts, Zenon
<1>3. v \in Views /\ v.link = link /\ v.online = online /\ v.state = state /\ v.leaving = leaving
      /\ v.sent = w.sent /\ v.rcvd = w.rcvd /\ v.fin = w.fin
  BY <1>2 DEF ViewOf
<1>4. /\ Committed(e, w, c, V') /\ freedUse' \in BOOLEAN
      /\ \A f \in Procs : f # e /\ chan[f] # <<>> => chan'[f] # <<>>
  BY CommitView
<1>5. /\ v2.sock = v.sock /\ v2.next = v.next /\ v2.chan = v.chan
      /\ v2.sent = v.sent /\ v2.rcvd = v.rcvd /\ v2.fin = v.fin
  BY <1>3, <1>4 DEF Committed
<1>6. /\ v2.link = v.link /\ v2.online = online' /\ v2.state = state' /\ v2.leaving = leaving'
      /\ v2 = [sock |-> v2.sock, next |-> v2.next, chan |-> v2.chan, sent |-> v2.sent,
               rcvd |-> v2.rcvd, fin |-> v2.fin, link |-> v2.link, state |-> v2.state,
               online |-> v2.online, leaving |-> v2.leaving]
  BY <1>3 DEF V
<1>7. /\ online \in [Procs -> BOOLEAN] /\ state \in [Procs -> {"offline", "connected"}]
      /\ leaving \in [Procs -> BOOLEAN]
  BY DEF Views, V
<1>8. /\ online' \in [Procs -> BOOLEAN] /\ state' \in [Procs -> {"offline", "connected"}]
      /\ leaving' \in [Procs -> BOOLEAN]
      /\ online'[e] = up /\ state'[e] = (IF up THEN "connected" ELSE "offline") /\ leaving'[e] = leaves
      /\ \A f \in Procs : f # e => /\ online'[f] = online[f] /\ state'[f] = state[f]
                                   /\ leaving'[f] = leaving[f]
  BY <1>7 DEF FlagsSet
<1>9. Flags(v, v2, e, up, leaves)
  BY <1>3, <1>5, <1>6, <1>8 DEF Flags
<1>10. v2 \in Views
  BY <1>3, <1>5, <1>6, <1>8 DEF Views
<1> QED
  BY <1>2, <1>4, <1>5, <1>9, <1>10 DEF Flagged

\* The input thread leaves, and closes what still uses the transport.
LEMMA ExitKeeps ==
  ASSUME AdbInd, NEW e \in Procs, InputThreadExit(e)
  PROVE  AdbInd'
<1>1. PICK w, c : w = World(e) /\ c = chan[e]
  OBVIOUS
<1>2. /\ V \in Views /\ Fits(e, w, c) /\ w \in Worlds /\ w.sock = sock[e] /\ c \in Seq(Packets)
  BY <1>1, WorldFits DEF AdbInd
<1>3. PICK lost : lost = {i \in Ids : w.sock[i].st = "live" /\ w.sock[i].transport} \cup OverTransport(w)
  OBVIOUS
<1>4. lost \in SUBSET Ids /\ \A i \in lost : w.sock[i].st = "live" /\ ~IsLocal(w.sock[i].peer)
  <2>1. /\ OverTransport(w) \in SUBSET Ids
        /\ \A i \in OverTransport(w) : w.sock[i].st = "live" /\ ~IsLocal(w.sock[i].peer)
    BY <1>2, OverFacts
  <2>2. \A i \in Ids : w.sock[i].st = "live" /\ w.sock[i].transport => ~IsLocal(w.sock[i].peer)
    BY <1>2, FitFacts DEF SocketOK, LiveOK
  <2> QED
    BY <1>3, <2>1, <2>2
<1>5. PICK w2 : w2 = Disconnect(w, lost)
  OBVIOUS
<1>6. /\ Fits(e, w2, c)
      /\ \A i \in Ids : IF i \in lost THEN w2.sock[i].st # "live" /\ w2.sock[i].peer = None
                        ELSE w2.sock[i] = w.sock[i]
  BY <1>2, <1>4, <1>5, FitCut
<1>7. Commit(e, w2, c) /\ leaving[e] /\ leaving' = [leaving EXCEPT ![e] = FALSE]
      /\ online' = online /\ state' = state /\ pending' = pending
      /\ link' = link /\ session' = session /\ losses' = losses
  BY <1>1, <1>3, <1>5 DEF InputThreadExit, linkVars
<1>8. PICK v, v2 : v = View(e, w2, c) /\ v2 = V'
  OBVIOUS
<1>9. LinkOK(V, e) /\ V.leaving = leaving /\ V.state = state /\ V.online = online /\ V.link = link
      /\ V.chan = chan
  BY DEF AdbInd, Sound, V
<1>10. ~link /\ chan[e] = <<>> /\ state[e] = "offline" /\ ~online[e]
  BY <1>7, <1>9 DEF LinkOK
<1>11. /\ online \in [Procs -> BOOLEAN] /\ state \in [Procs -> {"offline", "connected"}]
  BY <1>2 DEF Views, V
<1>12. PICK up \in BOOLEAN, leaves \in BOOLEAN : up = FALSE /\ leaves = FALSE
  OBVIOUS
<1>13. FlagsSet(e, up, leaves)
  BY <1>7, <1>10, <1>11, <1>12 DEF FlagsSet
<1>14. /\ Flags(v, v2, e, up, leaves) /\ v2.chan = v.chan /\ v2 \in Views /\ ViewOf(e, w2, c, v)
       /\ freedUse' \in BOOLEAN
       /\ \A f \in Procs : f # e /\ chan[f] # <<>> => chan'[f] # <<>>
  <2>1. Flagged(e, w2, c, v, v2, up, leaves)
    BY <1>2, <1>6, <1>7, <1>8, <1>13, FlagStep, Zenon
  <2> QED
    BY <2>1 DEF Flagged
<1>15. /\ v.sock[e] = w2.sock /\ v.state = state /\ v.leaving = leaving /\ Sound(v)
  BY <1>6, <1>8, <1>14 DEF ViewOf, Fits
<1>16. \A i \in Ids : ~(v.sock[e][i].st = "live" /\ v.sock[e][i].transport)
  BY <1>3, <1>6, <1>15
<1>17. Flags(v, v2, e, FALSE, FALSE) /\ v.leaving[e] /\ v.state[e] = "offline"
  BY <1>7, <1>10, <1>12, <1>14, <1>15
<1>18. Sound(v2)
  BY <1>14, <1>15, <1>16, <1>17, LeaveKeeps
<1>19. \A f \in Procs : pending'[f] => chan'[f] # <<>>
  BY <1>7, <1>10, <1>14 DEF AdbInd
<1> QED
  BY <1>7, <1>8, <1>14, <1>18, <1>19 DEF AdbInd

Popped(e, w, v, v2, up, leaves) ==
  /\ Flags(v, v2, e, up, leaves) /\ v2.chan = [v.chan EXCEPT ![e] = Tail(@)]
  /\ v \in Views /\ v2 \in Views /\ ViewOf(e, w, chan[e], v)
  /\ Sound(v2) => AdbInd'

\* The flags of a process change with a packet.
LEMMA FlagPop ==
  ASSUME AdbInd, NEW e \in Procs, NEW w, Fits(e, w, chan[e]), chan[e] # <<>>, Handled(e, w),
         UNCHANGED linkVars, NEW up \in BOOLEAN, NEW leaves \in BOOLEAN, FlagsSet(e, up, leaves),
         NEW v, v = View(e, w, chan[e]), NEW v2, v2 = V'
  PROVE  Popped(e, w, v, v2, up, leaves)
<1>1. PICK c, d : c = chan[e] /\ d = Tail(chan[e])
  OBVIOUS
<1>2. V \in Views /\ w \in Worlds /\ c \in Seq(Packets) /\ c # <<>> /\ d = Tail(c) /\ d \in Seq(Packets)
  <2>1. V \in Views /\ w \in Worlds /\ c \in Seq(Packets) /\ c # <<>> /\ d = Tail(c)
    BY <1>1 DEF AdbInd, Sound, Fits
  <2> QED
    BY <2>1, PopFacts
<1>3. /\ Commit(e, w, d) /\ pending' = [pending EXCEPT ![e] = FALSE]
      /\ link' = link /\ session' = session /\ losses' = losses
  BY <1>1 DEF Handled, linkVars
<1>4. v = View(e, w, c)
  BY <1>1
<1>5. ViewOf(e, w, c, v)
  BY <1>2, <1>4, ViewParts, Zenon
<1>6. /\ v \in Views /\ v.sock[e] = w.sock /\ v.chan[e] = c
      /\ v.link = link /\ v.online = online /\ v.state = state /\ v.leaving = leaving
      /\ v.sent = w.sent /\ v.rcvd = w.rcvd /\ v.fin = w.fin
  BY <1>5 DEF ViewOf
<1>7. /\ v2.sock = v.sock /\ v2.next = v.next /\ v2.sent = v.sent /\ v2.rcvd = v.rcvd
      /\ v2.fin = v.fin /\ v2.link = v.link /\ v2.online = online' /\ v2.state = state'
      /\ v2.leaving = leaving' /\ v2.chan = chan'
      /\ v2 = [sock |-> v2.sock, next |-> v2.next, chan |-> v2.chan, sent |-> v2.sent,
               rcvd |-> v2.rcvd, fin |-> v2.fin, link |-> v2.link, state |-> v2.state,
               online |-> v2.online, leaving |-> v2.leaving]
  BY <1>3, <1>4, <1>6 DEF V, View, Commit
<1>8. v2.chan = [v.chan EXCEPT ![e] = Tail(@)]
  <2>1. chan \in [Procs -> Seq(Packets)] /\ Other(e) \in Procs /\ Other(e) # e
    BY <1>2, ProcFacts DEF Views, V
  <2>2. PICK o : o = IF link THEN chan[Other(e)] \o w.out ELSE chan[Other(e)]
    OBVIOUS
  <2>3. chan' = [chan EXCEPT ![e] = d, ![Other(e)] = o]
    BY <1>3, <2>1, <2>2 DEF Commit
  <2>4. v.chan = [chan EXCEPT ![e] = c, ![Other(e)] = o]
    <3>1. PICK z : z = View(e, w, c)
      OBVIOUS
    <3>2. z.chan = [chan EXCEPT ![e] = c, ![Other(e)] = IF link THEN @ \o w.out ELSE @]
      BY <3>1 DEF View
    <3>3. z.chan = [chan EXCEPT ![e] = c, ![Other(e)] = o]
      BY <2>1, <2>2, <3>2
    <3> QED
      BY <1>4, <3>1, <3>3
  <2> QED
    BY <1>2, <1>7, <2>1, <2>3, <2>4
<1>9. /\ online \in [Procs -> BOOLEAN] /\ state \in [Procs -> {"offline", "connected"}]
      /\ leaving \in [Procs -> BOOLEAN]
  BY <1>2 DEF Views, V
<1>10. /\ online' \in [Procs -> BOOLEAN] /\ state' \in [Procs -> {"offline", "connected"}]
       /\ leaving' \in [Procs -> BOOLEAN]
       /\ online'[e] = up /\ state'[e] = (IF up THEN "connected" ELSE "offline") /\ leaving'[e] = leaves
       /\ \A f \in Procs : f # e => /\ online'[f] = online[f] /\ state'[f] = state[f]
                                    /\ leaving'[f] = leaving[f]
  BY <1>9 DEF FlagsSet
<1>11. Flags(v, v2, e, up, leaves)
  BY <1>6, <1>7, <1>10 DEF Flags
<1>12. v2 \in Views
  <2>1. v2.chan \in [Procs -> Seq(Packets)]
    BY <1>2, <1>6, <1>8, ViewFacts
  <2> QED
    BY <1>6, <1>7, <1>10, <2>1 DEF Views
<1>13. freedUse' \in BOOLEAN
  BY <1>2, <1>3, WorldFacts DEF Commit
<1>14. \A f \in Procs : pending'[f] => chan'[f] # <<>>
  <2>1. ASSUME NEW f \in Procs, f # e PROVE chan[f] # <<>> => chan'[f] # <<>>
    <3>1. v.chan[f] = IF link THEN chan[f] \o w.out ELSE chan[f]
      BY <1>5, <2>1, ProcFacts DEF ViewOf
    <3>2. chan'[f] = v.chan[f]
      BY <1>6, <1>7, <1>8, <2>1, ViewFacts
    <3>3. chan[f] \in Seq(Packets) /\ w.out \in Seq(Packets)
      BY <1>2, WorldFacts DEF Views, V
    <3>4. chan[f] # <<>> => chan[f] \o w.out # <<>>
      BY <3>3, ConcatProperties
    <3> QED
      BY <3>1, <3>2, <3>4
  <2> QED
    BY <1>3, <2>1 DEF AdbInd
<1>15. pending' \in [Procs -> BOOLEAN]
  BY <1>3 DEF AdbInd
<1>16. Sound(v2) => AdbInd'
  BY <1>3, <1>13, <1>14, <1>15 DEF AdbInd
<1> QED
  BY <1>1, <1>5, <1>6, <1>8, <1>11, <1>12, <1>16 DEF Popped

\* A_SYNC arrives: the transport is offline.
LEMMA SyncStep ==
  ASSUME AdbInd, NEW e \in Procs, HandleSync(e)
  PROVE  AdbInd'
<1>1. Arrives(e, "SYNC")
  BY DEF HandleSync
<1>2. PICK w, c : w = World(e) /\ c = chan[e]
  OBVIOUS
<1>3. /\ V \in Views /\ w \in Worlds /\ Fits(e, w, c) /\ c # <<>> /\ Head(c).cmd = "SYNC"
  BY <1>1, <1>2, Arrival
<1>4. PICK lost : lost = OverTransport(w)
  OBVIOUS
<1>5. /\ lost \in SUBSET Ids /\ \A i \in lost : w.sock[i].st = "live" /\ ~IsLocal(w.sock[i].peer)
      /\ \A i \in Ids : i \in lost <=> IsRemote(w.sock[i].peer)
  BY <1>3, <1>4, OverFacts
<1>6. PICK w2 : w2 = Disconnect(w, lost)
  OBVIOUS
<1>7. /\ Fits(e, w2, c)
      /\ \A i \in Ids : IF i \in lost THEN w2.sock[i].st # "live" /\ w2.sock[i].peer = None
                        ELSE w2.sock[i] = w.sock[i]
  BY <1>3, <1>5, <1>6, FitCut
<1>8. Handled(e, w2) /\ UNCHANGED linkVars
  BY <1>2, <1>4, <1>6 DEF HandleSync
<1>9. PICK v, v2 : v = View(e, w2, c) /\ v2 = V'
  OBVIOUS
<1>10. PICK up \in BOOLEAN, leaves \in BOOLEAN : up = FALSE /\ leaves = TRUE
  OBVIOUS
<1>11. FlagsSet(e, up, leaves)
  BY <1>10 DEF HandleSync, FlagsSet
<1>12. Popped(e, w2, v, v2, up, leaves)
  <2>1. v = View(e, w2, chan[e]) /\ Fits(e, w2, chan[e]) /\ chan[e] # <<>>
    BY <1>2, <1>3, <1>7, <1>9
  <2> QED
    BY <1>8, <1>9, <1>11, <2>1, FlagPop, Zenon
<1>13. /\ Flags(v, v2, e, FALSE, TRUE) /\ v2.chan = [v.chan EXCEPT ![e] = Tail(@)]
       /\ v2 \in Views /\ v.chan[e] = c /\ v.sock[e] = w2.sock /\ Sound(v2) => AdbInd'
  BY <1>2, <1>10, <1>12 DEF Popped, ViewOf
<1>14. \A i \in Ids : ~IsRemote(v.sock[e][i].peer)
  BY <1>5, <1>7, <1>12, PeerKinds DEF IsRemote, Popped, ViewOf
<1>15. Sound(v)
  BY <1>7, <1>9 DEF Fits
<1>16. Flags(v, v2, e, FALSE, TRUE) /\ v2.chan = [v.chan EXCEPT ![e] = Tail(@)]
       /\ v2 \in Views /\ v.chan[e] # <<>> /\ Head(v.chan[e]).cmd = "SYNC"
  BY <1>2, <1>3, <1>10, <1>12 DEF Popped, ViewOf
<1>17. Sound(v2)
  BY <1>14, <1>15, <1>16, SyncKeeps
<1> QED
  BY <1>12, <1>17 DEF Popped

\* A_CNXN arrives: the transport is online again.
LEMMA CnxnStep ==
  ASSUME AdbInd, NEW e \in Procs, HandleCnxn(e)
  PROVE  AdbInd'
<1>1. Arrives(e, "CNXN") /\ UNCHANGED linkVars
  BY DEF HandleCnxn
<1>2. PICK w, c : w = World(e) /\ c = chan[e]
  OBVIOUS
<1>3. /\ V \in Views /\ w \in Worlds /\ Fits(e, w, c) /\ c # <<>> /\ Head(c).cmd = "CNXN"
  BY <1>1, <1>2, Arrival
<1>4. PICK lost : lost = OverTransport(w)
  OBVIOUS
<1>5. /\ lost \in SUBSET Ids /\ \A i \in lost : w.sock[i].st = "live" /\ ~IsLocal(w.sock[i].peer)
  BY <1>3, <1>4, OverFacts
<1>6. PICK w1 : w1 = IF state[e] = "offline" THEN w ELSE Disconnect(w, lost)
  OBVIOUS
<1>7. Fits(e, w1, c)
  <2>1. CASE state[e] = "offline"
    BY <1>3, <1>6, <2>1
  <2>2. CASE state[e] # "offline"
    <3>1. w1 = Disconnect(w, lost)
      BY <1>6, <2>2
    <3> QED
      BY <1>3, <1>5, <3>1, FitCut
  <2> QED
    BY <2>1, <2>2
<1>8. PICK w2 : w2 = IF e = "host" THEN w1 ELSE SendPacket(w1, Cnxn)
  OBVIOUS
<1>9. Fits(e, w2, c)
  <2>1. CASE e = "host"
    BY <1>7, <1>8, <2>1
  <2>2. CASE e # "host"
    <3>1. w1 \in Worlds /\ Cnxn \in Packets /\ Cnxn.cmd = "CNXN" /\ w2 = SendPacket(w1, Cnxn)
      BY <1>7, <1>8, <2>2, PacketFacts DEF Fits
    <3>2. PICK p \in Packets : p = Cnxn
      BY <3>1
    <3>3. /\ w2 \in Worlds /\ w2.next = w1.next /\ w2.out = Append(w1.out, p) /\ w2.sock = w1.sock
      BY <3>1, <3>2, SendFacts DEF SameWorldData
    <3>4. p.cmd \notin {"SYNC", "OPEN", "OKAY", "WRTE"} /\ p.cmd # "SYNC" /\ p.cmd # "OPEN"
          /\ p.cmd # "WRTE"
      BY <3>1, <3>2
    <3>5. /\ p.cmd # "SYNC"
          /\ e = "device" => /\ p.cmd # "OPEN"
                             /\ p.cmd \in {"OKAY", "WRTE"} => Known(View(e, w1, c), p.arg1)
                             /\ p.cmd = "WRTE" => \E n \in Ids : w1.sock[n].peer = Remote(p.arg1)
          /\ e = "host" /\ p.cmd \in {"OPEN", "OKAY", "WRTE"} => Known(View(e, w1, c), p.arg0)
      BY <3>4
    <3> QED
      BY <1>3, <1>7, <3>3, <3>5, FitPush, Zenon
  <2> QED
    BY <2>1, <2>2
<1>10. Handled(e, w2)
  BY <1>2, <1>4, <1>6, <1>8 DEF HandleCnxn, Cnxn
<1>11. PICK v, v2 : v = View(e, w2, c) /\ v2 = V'
  OBVIOUS
<1>12. leaving \in [Procs -> BOOLEAN]
  BY <1>3 DEF Views, V
<1>13. PICK up \in BOOLEAN, leaves \in BOOLEAN : up = TRUE /\ leaves = leaving[e]
  BY <1>12
<1>14. FlagsSet(e, up, leaves)
  <2>1. /\ online' = [online EXCEPT ![e] = TRUE] /\ state' = [state EXCEPT ![e] = "connected"]
        /\ leaving' = leaving
    BY DEF HandleCnxn
  <2>2. leaving = [leaving EXCEPT ![e] = leaves]
    BY <1>12, <1>13
  <2> QED
    BY <1>13, <2>1, <2>2 DEF FlagsSet
<1>15. Popped(e, w2, v, v2, up, leaves)
  <2>1. v = View(e, w2, chan[e]) /\ Fits(e, w2, chan[e]) /\ chan[e] # <<>>
    BY <1>2, <1>3, <1>9, <1>11
  <2> QED
    BY <1>1, <1>10, <1>11, <1>14, <2>1, FlagPop, Zenon
<1>16. /\ Flags(v, v2, e, TRUE, v.leaving[e]) /\ v2.chan = [v.chan EXCEPT ![e] = Tail(@)]
       /\ v \in Views /\ v2 \in Views /\ v.chan[e] = c /\ v.leaving = leaving
  BY <1>2, <1>13, <1>15 DEF Popped, ViewOf
<1>17. Sound(v)
  BY <1>9, <1>11 DEF Fits
<1>18. PICK v1 : v1 = [v2 EXCEPT !.chan = v.chan]
  OBVIOUS
<1>19. /\ v1 \in Views /\ v1.chan = v.chan /\ v1.sock = v2.sock /\ v1.next = v2.next
       /\ SameRest(v1, v2)
  BY <1>16, <1>18 DEF Views, SameRest
<1>20. Flags(v, v1, e, TRUE, v.leaving[e])
  BY <1>16, <1>19 DEF Flags, SameRest
<1>21. v.chan[e] # <<>>
  BY <1>3, <1>16
<1>22. Sound(v1)
  BY <1>17, <1>19, <1>20, <1>21, OnlineKeeps
<1>23. /\ SameRest(v1, v2) /\ v2.next = v1.next /\ v2.sock = v1.sock /\ v1.chan[e] # <<>>
       /\ v2.chan = [v1.chan EXCEPT ![e] = Tail(@)] /\ Head(v1.chan[e]).cmd = "CNXN"
  BY <1>3, <1>16, <1>19
<1>24. Sound(v2)
  BY <1>16, <1>22, <1>23, PopKeeps
<1> QED
  BY <1>15, <1>24 DEF Popped

\* The connection is lost.
LEMMA UnplugStep ==
  ASSUME AdbInd, Unplug
  PROVE  AdbInd'
<1>1. /\ link /\ link' = FALSE /\ losses < MaxLoss /\ losses' = losses + 1
      /\ \E h \in Prefixes(chan["host"]), d \in Prefixes(chan["device"]) :
           chan' = [host |-> Append(h, [cmd |-> "SYNC"]), device |-> Append(d, [cmd |-> "SYNC"])]
      /\ UNCHANGED <<sock, next, online, state, pending, leaving, session, sent, rcvd, fin, freedUse>>
  BY DEF Unplug, transportVars
<1>2. PICK h \in Prefixes(chan["host"]), d \in Prefixes(chan["device"]) :
        chan' = [host |-> Append(h, Sync), device |-> Append(d, Sync)]
  BY <1>1 DEF Sync
<1>3. chan'["host"] = Append(h, Sync) /\ chan'["device"] = Append(d, Sync) /\ DOMAIN chan' = Procs
      /\ chan' = [e \in Procs |-> chan'[e]]
  BY <1>2 DEF Procs
<1>4. V \in Views /\ Sound(V) /\ \A e \in Procs : chan[e] \in Seq(Packets) /\ Sync \notin Elements(chan[e])
  <2>1. V \in Views /\ V.link = link /\ V.chan = chan
    BY DEF AdbInd, Sound, V
  <2> QED
    BY <1>1, <2>1, ViewFacts DEF AdbInd, Sound, LinkOK
<1>5. \A e \in Procs : e = "host" \/ e = "device"
  BY DEF Procs
<1>6. ASSUME NEW e \in Procs
      PROVE  /\ \E k \in Prefixes(chan[e]) : chan'[e] = Append(k, Sync)
             /\ chan'[e] \in Seq(Packets) /\ chan'[e] # <<>>
  <2>1. PICK k \in Prefixes(chan[e]) : chan'[e] = Append(k, Sync)
    BY <1>2, <1>3, <1>5
  <2> QED
    BY <1>4, <2>1, CutChannel
<1>7. PICK v, v2 : v = V /\ v2 = V'
  OBVIOUS
<1>8. /\ v.link /\ ~v2.link /\ v2.sock = v.sock /\ v2.next = v.next
      /\ v2.state = v.state /\ v2.online = v.online /\ v2.leaving = v.leaving
      /\ v.chan = chan /\ v2.chan = chan'
  BY <1>1, <1>7 DEF V
<1>9. v2 \in Views
  <2>1. chan' \in [Procs -> Seq(Packets)]
    BY <1>3, <1>6
  <2> QED
    BY <1>1, <1>4, <1>7, <2>1 DEF V, Views
<1>10. CutOff(v, v2) /\ Sound(v)
  <2>1. \A e \in Procs : \E k \in Prefixes(v.chan[e]) : v2.chan[e] = Append(k, Sync)
    BY <1>6, <1>8
  <2> QED
    BY <1>4, <1>7, <2>1 DEF CutOff
<1>11. Sound(v2)
  BY <1>8, <1>9, <1>10, UnplugKeeps, Zenon
<1>12. losses' \in 0..MaxLoss
  BY <1>1, BoundsAssumption DEF AdbInd
<1> QED
  BY <1>1, <1>6, <1>7, <1>11, <1>12 DEF AdbInd

\* A connection is made anew.
LEMMA ReplugStep ==
  ASSUME AdbInd, Replug
  PROVE  AdbInd'
<1>1. /\ ~link /\ chan = [e \in Procs |-> <<>>] /\ leaving = [e \in Procs |-> FALSE] /\ link' = TRUE
      /\ chan' = [chan EXCEPT !["device"] = <<[cmd |-> "CNXN"]>>]
      /\ UNCHANGED <<sock, next, online, state, pending, leaving, session, losses, sent, rcvd, fin, freedUse>>
  BY DEF Replug, transportVars
<1>2. "host" \in Procs /\ "device" \in Procs /\ "host" # "device"
  BY DEF Procs
<1>3. chan'["host"] = <<>> /\ chan'["device"] = <<Cnxn>> /\ chan' \in [Procs -> Seq(Packets)]
  <2>1. <<>> \in Seq(Packets) /\ <<Cnxn>> \in Seq(Packets)
    BY PacketFacts
  <2>2. chan \in [Procs -> Seq(Packets)]
    BY <1>1, <2>1
  <2>3. chan' = [chan EXCEPT !["device"] = <<Cnxn>>]
    BY <1>1 DEF Cnxn
  <2> QED
    BY <1>1, <1>2, <2>1, <2>2, <2>3
<1>4. PICK v, v2 : v = V /\ v2 = V'
  OBVIOUS
<1>5. /\ ~v.link /\ v2.link /\ v2.sock = v.sock /\ v2.next = v.next
      /\ v2.state = v.state /\ v2.online = v.online /\ v2.leaving = v.leaving
      /\ v.chan = chan /\ v2.chan = chan' /\ v.leaving = leaving /\ Sound(v) /\ v \in Views
  BY <1>1, <1>4 DEF V, AdbInd, Sound
<1>6. v2 \in Views
  BY <1>1, <1>3, <1>4, <1>5 DEF V, Views
<1>7. \A e \in Procs : v.chan[e] = <<>> /\ ~v.leaving[e]
  BY <1>1, <1>5
<1>8. Sound(v2)
  BY <1>3, <1>5, <1>6, <1>7, ReplugKeeps
<1>9. \A e \in Procs : ~pending[e]
  BY <1>1 DEF AdbInd
<1> QED
  BY <1>1, <1>4, <1>8, <1>9 DEF AdbInd

\* adbd dies, with all its sockets, and restarts.
LEMMA RestartStep ==
  ASSUME AdbInd, DeviceRestart
  PROVE  AdbInd'
<1>1. /\ link /\ losses < MaxLoss /\ link' = FALSE /\ losses' = losses + 1
      /\ sock' = [sock EXCEPT !["device"] = [i \in Ids |-> NoSocket]]
      /\ next' = [next EXCEPT !["device"] = 1]
      /\ online' = [online EXCEPT !["device"] = FALSE]
      /\ state' = [state EXCEPT !["device"] = "offline"]
      /\ pending' = [pending EXCEPT !["device"] = FALSE]
      /\ leaving' = [leaving EXCEPT !["device"] = FALSE]
      /\ UNCHANGED <<session, sent, rcvd, freedUse>>
  BY DEF DeviceRestart, Restart
<1>2. fin' \in [Ends -> Promise!Fins]
  <2>1. fin \in [Ends -> Promise!Fins] /\ "lost" \in Promise!Fins
    BY DEF AdbInd, Sound, Views, V, Promise!Fins, Promise!Closed
  <2>2. fin' = [x \in Ends |->
              IF \E i \in Ids : sock["device"][i].end = x /\ sock["device"][i].st \in {"live", "closing"}
              THEN "lost" ELSE fin[x]]
    BY DEF DeviceRestart, Restart
  <2> QED
    BY <2>1, <2>2
<1>3. PICK h \in Prefixes(chan["host"]) : chan' = [host |-> Append(h, Sync), device |-> <<>>]
  BY DEF DeviceRestart, Sync
<1>4. chan'["host"] = Append(h, Sync) /\ chan'["device"] = <<>> /\ chan' = [e \in Procs |-> chan'[e]]
      /\ "host" \in Procs /\ "device" \in Procs /\ \A e \in Procs : e = "host" \/ e = "device"
  BY <1>3 DEF Procs
<1>5. /\ V \in Views /\ V.link = link /\ V.chan = chan
      /\ chan["host"] \in Seq(Packets) /\ Sync \notin Elements(chan["host"])
  <2>1. V \in Views /\ V.link = link /\ V.chan = chan
    BY DEF AdbInd, Sound, V
  <2> QED
    BY <1>1, <1>4, <2>1, ViewFacts DEF AdbInd, Sound, LinkOK
<1>6. chan'["host"] \in Seq(Packets) /\ chan'["host"] # <<>>
  BY <1>4, <1>5, CutChannel
<1>7. chan' \in [Procs -> Seq(Packets)]
  <2>1. <<>> \in Seq(Packets)
    OBVIOUS
  <2>2. \A e \in Procs : chan'[e] \in Seq(Packets)
    BY <1>4, <1>6, <2>1
  <2> QED
    BY <1>4, <2>2
<1>8. /\ sock \in [Procs -> [Ids -> Sockets]] /\ next \in [Procs -> Nat \ {0}]
      /\ online \in [Procs -> BOOLEAN] /\ state \in [Procs -> {"offline", "connected"}]
      /\ leaving \in [Procs -> BOOLEAN] /\ pending \in [Procs -> BOOLEAN]
      /\ sent \in [Ends -> Seq(Data)] /\ rcvd \in [Ends -> Seq(Data)]
  BY <1>5 DEF AdbInd, Views, V
<1>9. /\ sock'["host"] = sock["host"] /\ next'["host"] = next["host"] /\ online'["host"] = online["host"]
      /\ state'["host"] = state["host"] /\ leaving'["host"] = leaving["host"]
      /\ next'["device"] = 1 /\ state'["device"] = "offline" /\ ~online'["device"]
      /\ ~leaving'["device"] /\ ~pending'["device"] /\ pending'["host"] = pending["host"]
  BY <1>1, <1>4, <1>8
<1>10. \A k \in Ids : sock'["device"][k] = NoSocket
  BY <1>1, <1>4, <1>8
<1>11. /\ sock' \in [Procs -> [Ids -> Sockets]] /\ next' \in [Procs -> Nat \ {0}]
       /\ online' \in [Procs -> BOOLEAN] /\ state' \in [Procs -> {"offline", "connected"}]
       /\ leaving' \in [Procs -> BOOLEAN] /\ pending' \in [Procs -> BOOLEAN]
  <2>1. [i \in Ids |-> NoSocket] \in [Ids -> Sockets]
    BY GoneFacts
  <2>2. sock' \in [Procs -> [Ids -> Sockets]]
    BY <1>1, <1>8, <2>1
  <2> QED
    BY <1>1, <1>8, <2>2
<1>12. PICK v, v2 : v = V /\ v2 = V'
  OBVIOUS
<1>13. v2 \in Views
  BY <1>1, <1>2, <1>7, <1>8, <1>11, <1>12 DEF V, Views
<1>14. /\ v.link /\ ~v2.link /\ v.sock = sock /\ v2.sock = sock' /\ v.next = next /\ v2.next = next'
       /\ v.state = state /\ v2.state = state' /\ v.online = online /\ v2.online = online'
       /\ v.leaving = leaving /\ v2.leaving = leaving' /\ v.chan = chan /\ v2.chan = chan' /\ Sound(v)
  BY <1>1, <1>12 DEF V, AdbInd
<1>15. Sound(v2)
  <2>1. /\ v2.sock["host"] = v.sock["host"] /\ \A k \in Ids : v2.sock["device"][k] = NoSocket
        /\ v2.next["host"] = v.next["host"]
        /\ v2.state["host"] = v.state["host"] /\ v2.online["host"] = v.online["host"]
        /\ v2.leaving["host"] = v.leaving["host"]
        /\ v2.state["device"] = "offline" /\ ~v2.online["device"] /\ ~v2.leaving["device"]
        /\ v2.chan["device"] = <<>>
    BY <1>4, <1>9, <1>10, <1>14
  <2>2. \E k \in Prefixes(v.chan["host"]) : v2.chan["host"] = Append(k, Sync)
    BY <1>3, <1>4, <1>14
  <2> QED
    BY <1>13, <1>14, <2>1, <2>2, RestartKeeps
<1>16. \A e \in Procs : pending'[e] => chan'[e] # <<>>
  BY <1>4, <1>6, <1>9
<1>17. losses' \in 0..MaxLoss
  BY <1>1, BoundsAssumption DEF AdbInd
<1> QED
  BY <1>1, <1>11, <1>12, <1>15, <1>16, <1>17 DEF AdbInd

\* The two processes at first, with no socket.
LEMMA InitSound ==
  ASSUME Init
  PROVE  AdbInd
<1>1. /\ sock = [e \in Procs |-> [i \in Ids |-> NoSocket]] /\ next = [e \in Procs |-> 1]
      /\ online = [e \in Procs |-> FALSE] /\ state = [e \in Procs |-> "offline"]
      /\ pending = [e \in Procs |-> FALSE] /\ leaving = [e \in Procs |-> FALSE]
      /\ chan = [host |-> <<>>, device |-> <<Cnxn>>] /\ link = TRUE /\ session = 0 /\ losses = 0
      /\ sent = [x \in Ends |-> <<>>] /\ rcvd = [x \in Ends |-> <<>>] /\ fin = [x \in Ends |-> "none"]
      /\ freedUse = FALSE
  BY DEF Init, Promise!StreamInit, Ends, Cnxn
<1>2. "host" \in Procs /\ "device" \in Procs /\ \A e \in Procs : e = "host" \/ e = "device"
  BY DEF Procs
<1>3. chan["host"] = <<>> /\ chan["device"] = <<Cnxn>> /\ chan \in [Procs -> Seq(Packets)]
  <2>1. <<>> \in Seq(Packets) /\ <<Cnxn>> \in Seq(Packets)
    BY PacketFacts
  <2>2. chan["host"] = <<>> /\ chan["device"] = <<Cnxn>> /\ chan = [e \in Procs |-> chan[e]]
    BY <1>1 DEF Procs
  <2>3. \A e \in Procs : chan[e] \in Seq(Packets)
    BY <1>2, <2>1, <2>2
  <2> QED
    BY <2>2, <2>3
<1>4. PICK v : v = V
  OBVIOUS
<1>5. /\ v.sock = sock /\ v.next = next /\ v.online = online /\ v.state = state /\ v.leaving = leaving
      /\ v.chan = chan /\ v.link = link
  BY <1>4 DEF V
<1>6. v \in Views
  <2>1. sock \in [Procs -> [Ids -> Sockets]]
    BY <1>1, GoneFacts
  <2>2. <<>> \in Seq(Data) /\ "none" \in Promise!Fins
    BY DEF Promise!Fins
  <2>3. next \in [Procs -> Nat \ {0}]
    BY <1>1
  <2>4. online \in [Procs -> BOOLEAN] /\ leaving \in [Procs -> BOOLEAN]
    BY <1>1
  <2>5. state \in [Procs -> {"offline", "connected"}]
    BY <1>1
  <2>6. sent \in [Ends -> Seq(Data)] /\ rcvd \in [Ends -> Seq(Data)]
    BY <1>1, <2>2
  <2>7. fin \in [Ends -> Promise!Fins]
    BY <1>1, <2>2
  <2>8. link \in BOOLEAN /\ freedUse \in BOOLEAN
    BY <1>1
  <2> QED
    BY <1>3, <1>4, <2>1, <2>3, <2>4, <2>5, <2>6, <2>7, <2>8 DEF V, Views
<1>7. \A e \in Procs, i \in Ids : v.sock[e][i] = NoSocket
  BY <1>1, <1>5
<1>8. NoSocket.st = "none" /\ NoSocket.peer = None /\ \A e : SocketOK(e, NoSocket)
  BY GoneFacts DEF SocketOK
<1>9. SocketsOK(v) /\ PairsOK(v)
  BY <1>2, <1>7, <1>8, PeerKinds DEF SocketsOK, PairsOK
<1>10. /\ Elements(<<>>) = {} /\ SyncLast(<<>>) /\ Elements(<<Cnxn>>) = {Cnxn}
  BY DEF Elements, SyncLast
<1>11. Cnxn.cmd = "CNXN" /\ Cnxn # Sync
  BY PacketFacts
<1>12. SyncLast(<<Cnxn>>)
  BY <1>11 DEF SyncLast
<1>13. KnownOK(v) /\ OrderOK(v)
  BY <1>2, <1>3, <1>5, <1>7, <1>8, <1>10, <1>11, PeerKinds DEF KnownOK, OrderOK
<1>14. \A e \in Procs : LinkOK(v, e)
  <2> SUFFICES ASSUME NEW e \in Procs PROVE LinkOK(v, e)
    OBVIOUS
  <2>1. ~v.online[e] /\ v.state[e] = "offline" /\ ~v.leaving[e] /\ v.link
    BY <1>1, <1>5
  <2>2. Sync \notin Elements(v.chan[e]) /\ SyncLast(v.chan[e])
    BY <1>2, <1>3, <1>5, <1>10, <1>11, <1>12
  <2>3. \A i \in Ids : ~IsRemote(v.sock[e][i].peer)
    BY <1>7, <1>8, PeerKinds DEF IsRemote
  <2>4. \A p \in Elements(v.chan[e]) : p = Cnxn
    BY <1>2, <1>3, <1>5, <1>10
  <2> QED
    BY <1>7, <1>8, <1>11, <2>1, <2>2, <2>3, <2>4 DEF LinkOK
<1>15. Sound(V)
  BY <1>4, <1>6, <1>9, <1>13, <1>14 DEF Sound
<1>16. pending \in [Procs -> BOOLEAN] /\ \A e \in Procs : ~pending[e]
  BY <1>1
<1>17. losses \in 0..MaxLoss /\ session = 0
  BY <1>1, BoundsAssumption
<1> QED
  BY <1>1, <1>15, <1>16, <1>17 DEF AdbInd

\* Nothing that happens unsettles the sockets.
LEMMA StepSound ==
  ASSUME MaxSession = 0, AdbInd, [Next]_vars
  PROVE  AdbInd'
<1>1. CASE UNCHANGED vars
  BY <1>1 DEF vars, transportVars, linkVars, AdbInd, V
<1>2. CASE Accept
  BY <1>2, AcceptKeeps
<1>3. CASE Forward
  BY <1>3, ForwardKeeps
<1>4. ASSUME NEW e \in Procs, Loop(e) PROVE AdbInd'
  <2>1. CASE FdeventProcess(e)
    BY <2>1, ProcessKeeps
  <2>2. CASE HandleSync(e)
    BY <2>2, SyncStep
  <2>3. CASE HandleCnxn(e)
    BY <2>3, CnxnStep
  <2>4. CASE HandleOpen(e)
    BY <2>4, OpenKeeps
  <2>5. CASE HandleOkay(e)
    BY <2>5, OkayKeeps
  <2>6. CASE HandleClse(e)
    BY <2>6, ClseKeeps
  <2>7. CASE HandleWrte(e)
    BY <2>7, WrteKeeps
  <2>8. ASSUME NEW i \in Ids, EventFunc(e, i) PROVE AdbInd'
    BY <2>8, EventKeeps
  <2> QED
    BY <1>4, <2>1, <2>2, <2>3, <2>4, <2>5, <2>6, <2>7, <2>8 DEF Loop, HandlePacket
<1>5. ASSUME NEW e \in Procs, InputThreadExit(e) PROVE AdbInd'
  BY <1>5, ExitKeeps
<1>6. CASE Unplug
  BY <1>6, UnplugStep
<1>7. CASE Replug
  BY <1>7, ReplugStep
<1>8. CASE HostRestart
  BY <1>8 DEF HostRestart, AdbInd
<1>9. CASE DeviceRestart
  BY <1>9, RestartStep
<1> QED
  BY <1>1, <1>2, <1>3, <1>4, <1>5, <1>6, <1>7, <1>8, <1>9 DEF Next

\* What the sockets being sound means for the code.
LEMMA SoundSockets ==
  ASSUME AdbInd
  PROVE  SocketsInv
<1>1. /\ V \in Views /\ SocketsOK(V) /\ \A e \in Procs : LinkOK(V, e)
      /\ V.sock = sock /\ V.leaving = leaving /\ V.state = state /\ V.chan = chan /\ V.link = link
  BY DEF AdbInd, Sound, V
<1>2. TypeOK
  BY <1>1, BoundsAssumption DEF AdbInd, TypeOK, Views, V
<1>3. \A e \in Procs, i \in Ids : sock[e][i] \in Sockets /\ SocketOK(e, sock[e][i])
  BY <1>1, <1>2 DEF SocketsOK, TypeOK
<1>4. DrainHasPeer
  BY <1>3 DEF DrainHasPeer, SocketOK, LiveOK
<1>5. InputThreadAlone
  <2> SUFFICES ASSUME NEW e \in Procs, NEW i \in Ids, leaving[e], sock[e][i].st = "live",
                      sock[e][i].peer # Smart,
                      sock[e][i].transport \/ sock[e][i].peer[1] = "remote"
               PROVE  sock[e][i].want = {} /\ sock[e][i].evs = {}
    BY DEF InputThreadAlone
  <2>1. chan[e] = <<>> /\ ~link /\ state[e] = "offline"
    BY <1>1 DEF LinkOK
  <2>2. PICK p \in Peers : p = sock[e][i].peer
    BY <1>3, SocketFacts
  <2>3. ~IsRemote(p)
    BY <1>1, <2>1, <2>2 DEF LinkOK
  <2>4. p[1] # "remote"
    BY <2>3, PeerParts
  <2>5. sock[e][i].transport /\ LiveOK(e, sock[e][i])
    BY <1>3, <2>2, <2>4 DEF SocketOK
  <2>6. p = None
    BY <2>2, <2>3, <2>5, PeerKinds DEF LiveOK
  <2> QED
    BY <2>2, <2>5, <2>6 DEF LiveOK
<1> QED
  BY <1>2, <1>4, <1>5 DEF SocketsInv

\* In every behaviour in which the host process lives on, whatever happens to
\* the connection and to adbd: a live socket that has packets to write has the
\* peer that local_socket_event_func calls when they are written, and
\* close_all_sockets, in the input thread, meets no socket that the loop could
\* be using.
THEOREM SocketsSound == MaxSession = 0 /\ Spec => []SocketsInv
<1> SUFFICES ASSUME MaxSession = 0 PROVE Spec => []SocketsInv
  OBVIOUS
<1>1. Init => AdbInd
  BY InitSound
<1>2. AdbInd /\ [Next]_vars => AdbInd'
  BY StepSound
<1>3. AdbInd => SocketsInv
  BY SoundSockets
<1> QED
  BY <1>1, <1>2, <1>3, PTL DEF Spec
-----------------------------------------------------------------------------
(* The promise: what follows from AdbStream for the streams of any ids and   *)
(* any data.                                                                 *)

\* Every end has an opposite, whose opposite it is.
LEMMA OppositeEnds ==
  ASSUME NEW x \in Promise!StreamEnds
  PROVE  /\ Promise!Opposite(x) \in Promise!StreamEnds
         /\ Promise!Opposite(Promise!Opposite(x)) = x
  BY DEF Promise!StreamEnds, Promise!Opposite

\* The sequences are sequences of data; a step keeps them so.
SeqsOK == \A x \in Promise!StreamEnds : sent[x] \in Seq(Data) /\ rcvd[x] \in Seq(Data)

\* A far end never comes before its near end.
NearFirst ==
  \A x \in Promise!StreamEnds : x[2] = "far" /\ fin[x] # "none" => fin[Promise!Opposite(x)] # "none"

PromiseInv == SeqsOK /\ NearFirst /\ Promise!InOrder /\ Promise!CompleteWhenPeerClosed

\* The promise holds nothing back at first.
LEMMA PromiseInit == Promise!StreamInit => PromiseInv
  BY OppositeEnds DEF Promise!StreamInit, PromiseInv, SeqsOK, NearFirst, Promise!InOrder, Promise!CompleteWhenPeerClosed

\* Each step keeps the streams in order: a packet is taken only when the last
\* one arrived, so there is exactly one that can be delivered next.
LEMMA PromiseNext == PromiseInv /\ Promise!StreamNext => PromiseInv'
<1> SUFFICES ASSUME PromiseInv, Promise!StreamNext PROVE PromiseInv'
  OBVIOUS
<1>0. \A x \in Promise!StreamEnds : Promise!SendStep(x) /\ Promise!DeliverStep(x) /\ Promise!FinStep(x)
  BY DEF Promise!StreamNext
<1>1. \A x \in Promise!StreamEnds : sent'[x] \in Seq(Data)
  <2> TAKE x \in Promise!StreamEnds
  <2>1. sent[x] \in Seq(Data)
    BY DEF PromiseInv, SeqsOK
  <2>2. sent'[x] = sent[x] \/ \E d \in Data : sent'[x] = Append(sent[x], d)
    BY <1>0 DEF Promise!SendStep
  <2> QED
    BY <2>1, <2>2, SMTT(30)
<1>2. \A x \in Promise!StreamEnds : rcvd'[x] \in Seq(Data)
  <2> TAKE x \in Promise!StreamEnds
  <2> DEFINE o == Promise!Opposite(x)
  <2>1. o \in Promise!StreamEnds
    BY OppositeEnds
  <2>2. sent'[o] \in Seq(Data) /\ rcvd[x] \in Seq(Data)
    BY <1>1, <2>1 DEF PromiseInv, SeqsOK
  <2>3. CASE rcvd'[x] = rcvd[x]
    BY <2>2, <2>3
  <2>4. CASE /\ Len(rcvd[x]) < Len(sent'[o])
             /\ rcvd'[x] = Append(rcvd[x], sent'[o][Len(rcvd[x]) + 1])
    <3>1. sent'[o][Len(rcvd[x]) + 1] \in Data
      BY <2>2, <2>4
    <3> QED
      BY <3>1, <2>2, <2>4
  <2> QED
    BY <1>0, <2>3, <2>4 DEF Promise!DeliverStep
<1>5. NearFirst'
  <2> SUFFICES ASSUME NEW x \in Promise!StreamEnds, x[2] = "far", fin'[x] # "none"
               PROVE  fin'[Promise!Opposite(x)] # "none"
    BY DEF NearFirst
  <2>1. Promise!Opposite(x) \in Promise!StreamEnds
    BY OppositeEnds
  <2>2. fin[Promise!Opposite(x)] # "none"
    BY <1>0 DEF PromiseInv, NearFirst, Promise!FinStep, Promise!CanOpen
  <2> QED
    BY <1>0, <2>1, <2>2 DEF Promise!FinStep, Promise!CanOpen, Promise!Closed
<1>3. Promise!InOrder'
  <2> SUFFICES ASSUME NEW x \in Promise!StreamEnds
               PROVE  \/ rcvd'[x] = sent'[Promise!Opposite(x)]
                      \/ \E d \in Data : sent'[Promise!Opposite(x)] = Append(rcvd'[x], d)
    BY DEF Promise!InOrder
  <2> DEFINE o == Promise!Opposite(x)
  <2>1. o \in Promise!StreamEnds /\ Promise!Opposite(o) = x
    BY OppositeEnds
  <2>2. /\ sent[o] \in Seq(Data) /\ rcvd[x] \in Seq(Data)
        /\ sent'[o] \in Seq(Data) /\ rcvd'[x] \in Seq(Data)
    BY <1>1, <1>2, <2>1 DEF PromiseInv, SeqsOK
  <2>3. rcvd[x] = sent[o] \/ \E d \in Data : sent[o] = Append(rcvd[x], d)
    BY <2>1 DEF PromiseInv, Promise!InOrder
  <2>4. \/ sent'[o] = sent[o]
        \/ Len(sent[o]) = Len(rcvd[x]) /\ \E d \in Data : sent'[o] = Append(sent[o], d)
    BY <1>0, <2>1 DEF Promise!SendStep
  <2>5. \/ rcvd'[x] = sent'[o] /\ rcvd'[x] = rcvd[x]
        \/ rcvd[x] = sent'[o]
        \/ \E d \in Data : sent'[o] = Append(rcvd[x], d)
    <3>1. CASE sent'[o] = sent[o]
      BY <2>3, <3>1
    <3>2. CASE Len(sent[o]) = Len(rcvd[x]) /\ \E d \in Data : sent'[o] = Append(sent[o], d)
      <4>1. rcvd[x] = sent[o]
        <5>1. ASSUME NEW d \in Data, sent[o] = Append(rcvd[x], d)
              PROVE  FALSE
          BY <5>1, <3>2, <2>2
        <5> QED
          BY <2>3, <5>1
      <4> QED
        BY <4>1, <3>2
    <3> QED
      BY <2>4, <3>1, <3>2
  <2>6. CASE rcvd'[x] = rcvd[x]
    BY <2>5, <2>6
  <2>7. CASE /\ Len(rcvd[x]) < Len(sent'[o])
             /\ rcvd'[x] = Append(rcvd[x], sent'[o][Len(rcvd[x]) + 1])
    <3>1. PICK d \in Data : sent'[o] = Append(rcvd[x], d)
      BY <2>5, <2>7, <2>2
    <3>2. sent'[o][Len(rcvd[x]) + 1] = d
      BY <3>1, <2>2
    <3> QED
      BY <3>1, <3>2, <2>7
  <2> QED
    BY <1>0, <2>6, <2>7 DEF Promise!DeliverStep
<1>4. Promise!CompleteWhenPeerClosed'
  <2> SUFFICES ASSUME NEW x \in Promise!StreamEnds, fin'[x] = "peer"
               PROVE  fin'[Promise!Opposite(x)] # "open" /\ rcvd'[x] = sent'[Promise!Opposite(x)]
    BY DEF Promise!CompleteWhenPeerClosed
  <2> DEFINE o == Promise!Opposite(x)
  <2>1. o \in Promise!StreamEnds /\ Promise!Opposite(o) = x
    BY OppositeEnds
  <2>2. CASE fin[x] # "peer"
    BY <1>0, <2>2 DEF Promise!FinStep, Promise!CanOpen, Promise!Closed
  <2>3. CASE fin[x] = "peer"
    <3>1. fin[o] # "open" /\ rcvd[x] = sent[o]
      BY <2>3, <2>1 DEF PromiseInv, Promise!CompleteWhenPeerClosed
    <3>2. sent'[o] = sent[o]
      BY <1>0, <2>1, <3>1 DEF Promise!SendStep
    <3>3. rcvd'[x] = rcvd[x]
      BY <1>0, <2>3 DEF Promise!DeliverStep
    <3>4. x[2] \in {"near", "far"} /\ o[2] \in {"near", "far"} /\ o[2] # x[2]
      BY <2>1 DEF Promise!StreamEnds, Promise!Opposite
    <3>5. fin'[o] # "open"
      <4>1. x[2] = "far" => fin[o] # "none"
        BY <2>3 DEF PromiseInv, NearFirst
      <4>2. ~Promise!CanOpen(o)
        BY <4>1, <2>1, <2>3, <3>4 DEF Promise!CanOpen
      <4> QED
        BY <1>0, <2>1, <2>3, <3>1, <4>2 DEF Promise!FinStep, Promise!Closed
    <3> QED
      BY <3>1, <3>2, <3>3, <3>5
  <2> QED
    BY <2>2, <2>3
<1> QED
  BY <1>1, <1>2, <1>5, <1>3, <1>4 DEF PromiseInv, SeqsOK

\* A stuttering step keeps the invariant.
LEMMA PromiseStutter == PromiseInv /\ UNCHANGED Promise!streamVars => PromiseInv'
  BY DEF PromiseInv, Promise!streamVars, SeqsOK, NearFirst, Promise!InOrder, Promise!CompleteWhenPeerClosed

\* In every stream adb carries, what arrives is what was sent, in order, with
\* at most one packet (A_WRTE without its A_OKAY) under way.
THEOREM StreamsInOrder == Promise!StreamSpec => []Promise!InOrder
<1>1. PromiseInv => Promise!InOrder
  BY DEF PromiseInv
<1> QED
  BY PromiseInit, PromiseNext, PromiseStutter, <1>1, PTL DEF Promise!StreamSpec

\* An end that adb closes because the other end was closed has received all of
\* its data: local_socket_close_locked keeps a socket until it is written.
THEOREM NothingTruncated == Promise!StreamSpec => []Promise!CompleteWhenPeerClosed
<1>1. PromiseInv => Promise!CompleteWhenPeerClosed
  BY DEF PromiseInv
<1> QED
  BY PromiseInit, PromiseNext, PromiseStutter, <1>1, PTL DEF Promise!StreamSpec

-----------------------------------------------------------------------------
(* The streams. The invariant of what the sockets carry, beside Sound. *)

HostSide == 1..HostIds
Near(j) == <<<<0, j>>, "near">>
Far(j) == <<<<0, j>>, "far">>
Live(v, e, i) == v.sock[e][i].st = "live"
Used(v, e, i) == v.sock[e][i].st \in {"live", "closing"}
ClsesTo(i) == {p \in Packets : p.cmd = "CLSE" /\ p.arg1 = i}
OpensOf(j) == {p \in Packets : p.cmd = "OPEN" /\ p.arg0 = j}

\* Each end is served by one socket, which holds at most one packet for it.
EndOK(v, e, i) ==
  /\ v.sock[e][i].st = "live" => v.fin[v.sock[e][i].end] = "open"
  /\ v.sock[e][i].st = "closing" => v.fin[v.sock[e][i].end] = "ending"
  /\ v.sock[e][i].pkts # <<>> => \E d \in Data : v.sock[e][i].pkts = <<d>>
  /\ e = "host" /\ v.sock[e][i].st = "live" =>
       \/ i \in HostSide /\ v.sock[e][i].end = Near(i)
       \/ \E j \in HostSide : v.sock[e][i].end = Far(j) /\ v.sock[e][i].peer = Local(j)
  /\ e = "device" /\ v.sock[e][i].st = "live" =>
       \E j \in HostSide : v.sock[e][i].end = Far(j) /\ v.sock[e][i].peer = Remote(j)
OneEach(v) ==
  \A e, f \in Procs, i, k \in Ids :
    Used(v, e, i) /\ Used(v, f, k) /\ v.sock[e][i].end = v.sock[f][k].end => e = f /\ i = k
PairEnds(v) ==
  \A i, m \in Ids : v.sock["host"][i].peer = Local(m) =>
    v.sock["host"][m].end = FarOf(v.sock["host"][i].end)
EndsOK(v) == /\ \A e \in Procs, i \in Ids : EndOK(v, e, i)
             /\ OneEach(v) /\ PairEnds(v)

\* What has not begun: ends of sockets to come, and far ends before the OPEN.
FreshOK(v) ==
  /\ \A j \in HostSide : /\ j >= v.next["host"] => v.fin[Near(j)] = "none"
                         /\ v.fin[Near(j)] = "none" => v.fin[Far(j)] = "none"
  /\ \A j \in Ids : v.sock["host"][j].st = "live" =>
       /\ v.sock["host"][j].peer = Smart => v.fin[Far(j)] = "none"
       /\ v.sock["host"][j].peer \in {None, Smart} => v.sent[Near(j)] = <<>>
       /\ IsRemote(v.sock["host"][j].peer) => v.fin[Far(j)] # "none"

\* What the programs have seen, at each end.
SeenOK(v, x) ==
  /\ v.fin[x] = "none" => v.sent[x] = <<>> /\ v.rcvd[x] = <<>>
  /\ v.rcvd[x] = v.sent[FarOf(x)] \/ \E d \in Data : v.sent[FarOf(x)] = Append(v.rcvd[x], d)
  /\ v.fin[x] = "peer" => v.fin[FarOf(x)] # "open" /\ v.rcvd[x] = v.sent[FarOf(x)]
DataOK(v) == \A x \in Ends : SeenOK(v, x)

\* The ids in packets and remote sockets are those of the two ends of one
\* stream, and adbd has used them up.
ToHostOK(v, p) ==
  /\ p.cmd = "CLSE" => Known(v, p.arg1)
  /\ p.cmd \in {"OKAY", "WRTE"} =>
       /\ p.arg1 \in HostSide /\ v.fin[Far(p.arg1)] # "none"
       /\ v.sock["device"][p.arg0].st = "live" => v.sock["device"][p.arg0].peer = Remote(p.arg1)
       /\ v.state["device"] = "connected" => p.arg0 < v.next["device"]
ToDeviceOK(v, p) ==
  /\ p.cmd \in {"CLSE", "OKAY", "WRTE"} => p.arg1 < v.next["device"]
  /\ p.cmd \in {"OKAY", "WRTE"} /\ v.sock["device"][p.arg1].st = "live" =>
       v.sock["device"][p.arg1].peer = Remote(p.arg0)
  /\ p.cmd = "OPEN" => /\ p.arg0 \in HostSide /\ p.end = Far(p.arg0)
                       /\ v.fin[Far(p.arg0)] = "none" /\ v.fin[Near(p.arg0)] \notin {"none", "peer"}
NamesOK(v) ==
  /\ \A p \in Elements(v.chan["host"]) : ToHostOK(v, p)
  /\ \A p \in Elements(v.chan["device"]) : ToDeviceOK(v, p)
  /\ \A j \in Ids : AtMostOne(v.chan["device"], OpensOf(j))
  /\ \A j, k \in Ids : v.sock["host"][j].peer = Remote(k) =>
       /\ v.sock["device"][k].st = "live" => v.sock["device"][k].peer = Remote(j)
       /\ v.state["device"] = "connected" => k < v.next["device"]

\* A_CNXN comes once, to an adbd that nobody talks to yet.
CnxnOK(v) ==
  /\ AtMostOne(v.chan["device"], {Cnxn})
  /\ v.link /\ v.state["device"] = "offline" => Cnxn \in Elements(v.chan["device"])
  /\ Cnxn \in Elements(v.chan["device"]) =>
       /\ v.state["device"] = "offline"
       /\ \A i \in Ids : ~IsRemote(v.sock["host"][i].peer)
       /\ \A p \in Elements(v.chan["host"]) : p.cmd \notin {"OKAY", "WRTE"}

\* What socket s of id i has yet to write of the data sent to it, got being
\* what its program received: one packet, in its queue or in the channel c.
\* After the A_CLSE nothing comes, and nothing is missing. (far is the state of
\* the other end; joined says that a socket over there names this one; opens,
\* that the A_OPEN of this socket is still under way.)
Receives(s, i, c, to, got, far, joined, opens) ==
  /\ s.st \in {"live", "closing"} /\ s.pkts # <<>> => to = got \o s.pkts
  /\ s.st = "closing" /\ s.why = "peer" => far # "open" /\ (s.pkts = <<>> => to = got /\ far # "none")
  /\ s.st = "live" =>
       /\ \A p \in Elements(c) \cap WrtesTo(i) : to = Append(got, p.data) /\ s.pkts = <<>>
       /\ AtMostOne(c, WrtesTo(i))
       /\ Has(c, ClsesTo(i)) =>
            /\ far # "open" /\ ~opens
            /\ to = got \/ s.pkts # <<>> \/ Before(c, WrtesTo(i), ClsesTo(i))
       /\ joined => to = got \/ s.pkts # <<>> \/ Has(c, WrtesTo(i))
       /\ IsLocal(s.peer) /\ s.pkts = <<>> => to = got
Joined(v, e, i) == v.link /\ \E k \in Ids : v.sock[Other(e)][k].peer = Remote(i)
Opens(v, e, i) == e = "host" /\ Has(v.chan["device"], OpensOf(i))
RecvOK(v, e, i) ==
  Receives(v.sock[e][i], i, v.chan[e], v.sent[FarOf(v.sock[e][i].end)], v.rcvd[v.sock[e][i].end],
           v.fin[FarOf(v.sock[e][i].end)], Joined(v, e, i), Opens(v, e, i))

\* A socket that reads from its program, or will when the A_OKAY in the channel
\* arrives, has nothing under way: from is what it sent, gone what arrived.
Sends(s, i, c, from, gone) ==
  s.st = "live" =>
    /\ "R" \in s.want /\ s.peer \notin {None, Smart} => from = gone
    /\ Has(c, OkaysTo(i)) => "R" \notin s.want /\ from = gone
    /\ AtMostOne(c, OkaysTo(i))
SendOK(v, e, i) ==
  Sends(v.sock[e][i], i, v.chan[e], v.sent[v.sock[e][i].end], v.rcvd[FarOf(v.sock[e][i].end)])

Flow(v) == \A e \in Procs, i \in Ids : RecvOK(v, e, i) /\ SendOK(v, e, i)
Carried(v) == EndsOK(v) /\ FreshOK(v) /\ DataOK(v) /\ NamesOK(v) /\ CnxnOK(v) /\ Flow(v)

-----------------------------------------------------------------------------
(* Channels and ends *)

\* The packets for socket i; what one channel tells it is what another does.
PacketsTo(i) == OkaysTo(i) \cup WrtesTo(i) \cup ClsesTo(i)
Alike(c, d, A) == (Has(d, A) <=> Has(c, A)) /\ (AtMostOne(c, A) => AtMostOne(d, A))
SameFor(c, d, i) ==
  /\ Elements(d) \cap WrtesTo(i) = Elements(c) \cap WrtesTo(i)
  /\ Alike(c, d, WrtesTo(i)) /\ Alike(c, d, OkaysTo(i)) /\ Alike(c, d, ClsesTo(i))
  /\ Before(c, WrtesTo(i), ClsesTo(i)) => Before(d, WrtesTo(i), ClsesTo(i))

\* A channel tells the same as itself.
LEMMA SameSelf ==
  ASSUME NEW c, NEW i
  PROVE  SameFor(c, c, i)
  BY DEF SameFor, Alike

\* A packet for another socket, or none, is added at the end.
LEMMA PushSame ==
  ASSUME NEW c \in Seq(Packets), NEW p \in Packets, NEW i, p \notin PacketsTo(i), NEW d, d = Append(c, p)
  PROVE  SameFor(c, d, i)
<1>1. /\ Elements(d) = Elements(c) \cup {p}
      /\ \A A : AtMostOne(c, A) /\ (p \in A => ~Has(c, A)) => AtMostOne(d, A)
      /\ \A A, B : Before(c, A, B) /\ (p \in B => Has(c, A)) => Before(d, A, B)
  BY PushFacts
<1>2. p \notin OkaysTo(i) /\ p \notin WrtesTo(i) /\ p \notin ClsesTo(i)
  BY DEF PacketsTo
<1>3. \A A : p \notin A => Elements(d) \cap A = Elements(c) \cap A
  BY <1>1
<1>4. \A A : p \notin A => Alike(c, d, A)
  BY <1>1, <1>3 DEF Alike, Has
<1> QED
  BY <1>1, <1>2, <1>3, <1>4 DEF SameFor

\* A packet for another socket is taken.
LEMMA PopSame ==
  ASSUME NEW c \in Seq(Packets), c # <<>>, NEW i, Head(c) \notin PacketsTo(i), NEW d, d = Tail(c)
  PROVE  SameFor(c, d, i)
<1>1. /\ Elements(c) = {Head(c)} \cup Elements(d)
      /\ \A A : AtMostOne(c, A) => AtMostOne(d, A)
      /\ \A A, B : Before(c, A, B) /\ Head(c) \notin A => Before(d, A, B)
  BY PopFacts
<1>2. Head(c) \notin OkaysTo(i) /\ Head(c) \notin WrtesTo(i) /\ Head(c) \notin ClsesTo(i)
  BY DEF PacketsTo
<1>3. \A A : Head(c) \notin A => Elements(d) \cap A = Elements(c) \cap A
  BY <1>1
<1>4. \A A : Head(c) \notin A => Alike(c, d, A)
  BY <1>1, <1>3 DEF Alike, Has
<1> QED
  BY <1>1, <1>2, <1>3, <1>4 DEF SameFor

\* A socket that did not change still receives what it did, if the channel
\* tells it the same and the other end did not open meanwhile.
LEMMA ReceivesSame ==
  ASSUME NEW s, NEW t, NEW i, NEW c, NEW d, NEW to, NEW got, NEW far, NEW far2, NEW joined \in BOOLEAN,
         NEW joined2 \in BOOLEAN, NEW opens \in BOOLEAN, NEW opens2 \in BOOLEAN,
         Receives(s, i, c, to, got, far, joined, opens),
         t.st = s.st, t.pkts = s.pkts, t.why = s.why, t.peer = s.peer,
         s.st = "live" => SameFor(c, d, i), far2 = "open" => far = "open",
         far2 = "none" => far = "none", joined2 => joined, opens2 => opens
  PROVE  Receives(t, i, d, to, got, far2, joined2, opens2)
  BY DEF Receives, SameFor, Alike

\* And it sends as it did, if it does not begin to read.
LEMMA SendsSame ==
  ASSUME NEW s, NEW t, NEW i, NEW c, NEW d, NEW from, NEW gone, Sends(s, i, c, from, gone),
         t.st = s.st, t.peer = s.peer, "R" \in t.want => "R" \in s.want,
         s.st = "live" => SameFor(c, d, i)
  PROVE  Sends(t, i, d, from, gone)
  BY DEF Sends, SameFor, Alike

\* The ends of the streams of this session.
LEMMA SideFacts ==
  /\ \A j \in HostSide : /\ j \in Ids /\ Near(j) \in Ends /\ Far(j) \in Ends
                         /\ FarOf(Near(j)) = Far(j) /\ FarOf(Far(j)) = Near(j)
  /\ \A j, k : Near(j) # Far(k) /\ (Near(j) = Near(k) => j = k) /\ (Far(j) = Far(k) => j = k)
<1>1. ASSUME NEW j \in HostSide
      PROVE  /\ j \in Ids /\ Near(j) \in Ends /\ Far(j) \in Ends
             /\ FarOf(Near(j)) = Far(j) /\ FarOf(Far(j)) = Near(j)
  <2>1. <<0, j>> \in Streams
    BY BoundsAssumption DEF Streams, HostSide
  <2> QED
    BY <2>1 DEF HostSide, Ids, Near, Far, Ends, FarOf, Promise!StreamEnds, Promise!Opposite
<1>2. \A j, k : Near(j) # Far(k) /\ (Near(j) = Near(k) => j = k) /\ (Far(j) = Far(k) => j = k)
  BY DEF Near, Far
<1> QED
  BY <1>1, <1>2

\* A list with one more element is another list.
LEMMA Longer ==
  ASSUME NEW c \in Seq(Data), NEW d \in Data
  PROVE  /\ Append(c, d) # c /\ Append(c, d) # <<>> /\ c \o <<d>> = Append(c, d) /\ <<d>> # <<>>
         /\ Append(c, d) \in Seq(Data)
<1>1. Len(Append(c, d)) = Len(c) + 1 /\ Len(c) \in Nat /\ Append(c, d) \in Seq(Data)
  OBVIOUS
<1>2. c \o <<d>> = Append(c, d)
  OBVIOUS
<1> QED
  BY <1>1, <1>2

-----------------------------------------------------------------------------
(* What a step leaves alone *)

\* A socket stays as it is, as far as the streams are concerned.
Steady(s, t) == /\ t.st = s.st /\ t.pkts = s.pkts /\ t.why = s.why /\ t.peer = s.peer /\ t.end = s.end
                /\ "R" \in t.want => "R" \in s.want

\* What the programs at both ends of x see stays.
SameData(v, v2, x) == /\ v2.sent[x] = v.sent[x] /\ v2.sent[FarOf(x)] = v.sent[FarOf(x)]
                      /\ v2.rcvd[x] = v.rcvd[x] /\ v2.rcvd[FarOf(x)] = v.rcvd[FarOf(x)]

\* A socket is left alone.
Alone(v, v2, e, i) ==
  /\ Steady(v.sock[e][i], v2.sock[e][i])
  /\ v.sock[e][i].st = "live" => SameFor(v.chan[e], v2.chan[e], i)
  /\ Used(v, e, i) => /\ SameData(v, v2, v.sock[e][i].end)
                      /\ v2.fin[FarOf(v.sock[e][i].end)] = "open" => v.fin[FarOf(v.sock[e][i].end)] = "open"
                      /\ v2.fin[FarOf(v.sock[e][i].end)] = "none" => v.fin[FarOf(v.sock[e][i].end)] = "none"
  /\ Joined(v2, e, i) => Joined(v, e, i)
  /\ Opens(v2, e, i) => Opens(v, e, i)

\* A socket that is not in use has nothing to send or receive.
LEMMA FlowUnused ==
  ASSUME NEW v, NEW e, NEW i, ~Used(v, e, i)
  PROVE  RecvOK(v, e, i) /\ SendOK(v, e, i)
  BY DEF Used, RecvOK, Receives, SendOK, Sends

\* A socket that is left alone sends and receives as before.
LEMMA FlowAlone ==
  ASSUME NEW v, NEW v2, NEW e, NEW i, RecvOK(v, e, i), SendOK(v, e, i), Alone(v, v2, e, i)
  PROVE  RecvOK(v2, e, i) /\ SendOK(v2, e, i)
<1>1. CASE ~Used(v, e, i)
  <2>1. ~Used(v2, e, i)
    BY <1>1 DEF Alone, Steady, Used
  <2> QED
    BY <2>1, FlowUnused
<1>2. CASE Used(v, e, i)
  <2> DEFINE s == v.sock[e][i]
             t == v2.sock[e][i]
             x == s.end
             y == FarOf(x)
  <2>1. /\ t.st = s.st /\ t.pkts = s.pkts /\ t.why = s.why /\ t.peer = s.peer /\ t.end = x
        /\ "R" \in t.want => "R" \in s.want
        /\ s.st = "live" => SameFor(v.chan[e], v2.chan[e], i)
        /\ v2.sent[x] = v.sent[x] /\ v2.sent[y] = v.sent[y] /\ v2.rcvd[x] = v.rcvd[x] /\ v2.rcvd[y] = v.rcvd[y]
        /\ v2.fin[y] = "open" => v.fin[y] = "open"
        /\ v2.fin[y] = "none" => v.fin[y] = "none"
        /\ Joined(v2, e, i) => Joined(v, e, i)
        /\ Opens(v2, e, i) => Opens(v, e, i)
    BY <1>2 DEF Alone, Steady, SameData
  <2>2. Joined(v, e, i) \in BOOLEAN /\ Joined(v2, e, i) \in BOOLEAN /\ Opens(v, e, i) \in BOOLEAN /\ Opens(v2, e, i) \in BOOLEAN
    BY DEF Joined, Opens
  <2>3. Receives(s, i, v.chan[e], v.sent[y], v.rcvd[x], v.fin[y], Joined(v, e, i), Opens(v, e, i))
    BY DEF RecvOK
  <2>4. Sends(s, i, v.chan[e], v.sent[x], v.rcvd[y])
    BY DEF SendOK
  <2> HIDE DEF s, t, x, y
  <2>5. Receives(t, i, v2.chan[e], v.sent[y], v.rcvd[x], v2.fin[y], Joined(v2, e, i), Opens(v2, e, i))
    BY <2>1, <2>2, <2>3, ReceivesSame
  <2>6. Sends(t, i, v2.chan[e], v.sent[x], v.rcvd[y])
    BY <2>1, <2>4, SendsSame
  <2>7. RecvOK(v2, e, i)
    BY <2>1, <2>5 DEF RecvOK, s, t, x, y
  <2>8. SendOK(v2, e, i)
    BY <2>1, <2>6 DEF SendOK, s, t, x, y
  <2> QED
    BY <2>7, <2>8
<1> QED
  BY <1>1, <1>2

\* Sockets lose their peers, and connections are lost: nothing is joined anew.
LEMMA JoinedLess ==
  ASSUME NEW v, NEW v2, v2.link => v.link,
         \A f \in Procs, k, m \in Ids : v2.sock[f][k].peer = Remote(m) => v.sock[f][k].peer = Remote(m)
  PROVE  \A e \in Procs, i \in Ids : Joined(v2, e, i) => Joined(v, e, i)
  BY ProcFacts DEF Joined

\* The ends of sockets that did not change.
LEMMA EndSame ==
  ASSUME NEW v, NEW v2, NEW e, NEW i, EndOK(v, e, i), Steady(v.sock[e][i], v2.sock[e][i]),
         Used(v, e, i) => v2.fin[v.sock[e][i].end] = v.fin[v.sock[e][i].end]
  PROVE  EndOK(v2, e, i)
  BY DEF EndOK, Steady, Used

\* No socket begins to use an end.
LEMMA EndsLess ==
  ASSUME NEW v, NEW v2, EndsOK(v), \A e \in Procs, i \in Ids : EndOK(v2, e, i),
         \A e \in Procs, i \in Ids : Used(v2, e, i) => Used(v, e, i) /\ v2.sock[e][i].end = v.sock[e][i].end,
         \A i, m \in Ids : v2.sock["host"][i].peer = Local(m) =>
           /\ v.sock["host"][i].peer = Local(m)
           /\ v2.sock["host"][i].end = v.sock["host"][i].end /\ v2.sock["host"][m].end = v.sock["host"][m].end
  PROVE  EndsOK(v2)
<1>1. OneEach(v2)
  BY DEF EndsOK, OneEach
<1>2. PairEnds(v2)
  BY DEF EndsOK, PairEnds
<1> QED
  BY <1>1, <1>2 DEF EndsOK

\* No end opens, and no socket gets a new kind of peer: what is to come is
\* still to come.
LEMMA FreshLess ==
  ASSUME NEW v, NEW v2, FreshOK(v), v2.next["host"] = v.next["host"],
         \A j \in HostSide : v2.fin[Near(j)] = "none" <=> v.fin[Near(j)] = "none",
         \A j \in HostSide : v2.fin[Far(j)] = "none" <=> v.fin[Far(j)] = "none",
         \A j \in Ids : v2.sock["host"][j].st = "live" =>
           /\ v.sock["host"][j].st = "live" /\ v2.sock["host"][j].peer = v.sock["host"][j].peer
           /\ v2.sock["host"][j].peer \in {None, Smart} => v2.sent[Near(j)] = v.sent[Near(j)],
         \A j \in Ids : v2.sock["host"][j].st = "live" /\ ~IsLocal(v2.sock["host"][j].peer) => j \in HostSide
  PROVE  FreshOK(v2)
<1>1. \A j : (Smart # None /\ ~IsLocal(None) /\ ~IsLocal(Smart)) /\ (IsRemote(j) => ~IsLocal(j))
  BY PeerKinds DEF IsLocal, IsRemote
<1> QED
  BY <1>1 DEF FreshOK

\* The names in what was under way are still right.
LEMMA NamesLess ==
  ASSUME NEW v, NEW v2, NamesOK(v), v2.next["device"] = v.next["device"],
         v2.state["device"] = v.state["device"],
         \A p \in Elements(v2.chan["host"]) : p \in Elements(v.chan["host"]) \/ ToHostOK(v2, p),
         \A p \in Elements(v2.chan["device"]) : p \in Elements(v.chan["device"]) \/ ToDeviceOK(v2, p),
         \A p \in Elements(v.chan["host"]) \cup Elements(v.chan["device"]) : p \in Packets,
         \A j \in Ids : AtMostOne(v2.chan["device"], OpensOf(j)),
         \A j \in Ids : Known(v, j) => Known(v2, j),
         \A k \in Ids : v2.sock["device"][k].st = "live" =>
           v.sock["device"][k].st = "live" /\ v2.sock["device"][k].peer = v.sock["device"][k].peer,
         \A j, k \in Ids : v2.sock["host"][j].peer = Remote(k) =>
           \/ v.sock["host"][j].peer = Remote(k)
           \/ /\ v2.sock["device"][k].st = "live" => v2.sock["device"][k].peer = Remote(j)
              /\ v2.state["device"] = "connected" => k < v2.next["device"],
         \A j \in HostSide : v2.fin[Far(j)] = "none" => v.fin[Far(j)] = "none",
         \A p \in Elements(v2.chan["device"]) : p.cmd = "OPEN" =>
           /\ v.fin[Far(p.arg0)] = "none" => v2.fin[Far(p.arg0)] = "none"
           /\ v2.fin[Near(p.arg0)] \in {"none", "peer"} => v.fin[Near(p.arg0)] \in {"none", "peer"}
  PROVE  NamesOK(v2)
<1>1. ASSUME NEW p \in Elements(v2.chan["host"]) PROVE ToHostOK(v2, p)
  <2>1. CASE p \in Elements(v.chan["host"])
    <3>1. ToHostOK(v, p) /\ p \in Packets
      BY <2>1 DEF NamesOK
    <3> QED
      BY <3>1, PacketFacts DEF ToHostOK
  <2> QED
    BY <2>1
<1>2. ASSUME NEW p \in Elements(v2.chan["device"]) PROVE ToDeviceOK(v2, p)
  <2>1. CASE p \in Elements(v.chan["device"])
    <3>1. ToDeviceOK(v, p) /\ p \in Packets
      BY <2>1 DEF NamesOK
    <3> QED
      BY <1>2, <3>1, PacketFacts DEF ToDeviceOK
  <2> QED
    BY <2>1
<1>3. ASSUME NEW j \in Ids, NEW k \in Ids, v2.sock["host"][j].peer = Remote(k)
      PROVE  /\ v2.sock["device"][k].st = "live" => v2.sock["device"][k].peer = Remote(j)
             /\ v2.state["device"] = "connected" => k < v2.next["device"]
  BY <1>3 DEF NamesOK
<1> QED
  BY <1>1, <1>2, <1>3 DEF NamesOK

\* The connection is no younger than it was.
LEMMA CnxnLess ==
  ASSUME NEW v, NEW v2, CnxnOK(v), v2.link = v.link, v2.state["device"] = v.state["device"],
         AtMostOne(v2.chan["device"], {Cnxn}),
         Cnxn \in Elements(v2.chan["device"]) <=> Cnxn \in Elements(v.chan["device"]),
         \A i \in Ids : IsRemote(v2.sock["host"][i].peer) =>
           IsRemote(v.sock["host"][i].peer) \/ Cnxn \notin Elements(v.chan["device"]),
         \A p \in Elements(v2.chan["host"]) : p.cmd \in {"OKAY", "WRTE"} =>
           p \in Elements(v.chan["host"]) \/ Cnxn \notin Elements(v.chan["device"])
  PROVE  CnxnOK(v2)
  BY DEF CnxnOK

-----------------------------------------------------------------------------
(* The steps the handlers are made of keep it. *)

Good(v) == Sound(v) /\ Carried(v)
SameSeen(v, v2) == v2.sent = v.sent /\ v2.rcvd = v.rcvd /\ v2.fin = v.fin

\* What a good view says about one socket.
LEMMA GoodFacts ==
  ASSUME NEW v, Good(v)
  PROVE  /\ v \in Views /\ Sound(v) /\ EndsOK(v) /\ FreshOK(v) /\ DataOK(v) /\ NamesOK(v) /\ CnxnOK(v)
         /\ \A e \in Procs, i \in Ids :
              /\ v.sock[e][i] \in Sockets /\ SocketOK(e, v.sock[e][i]) /\ EndOK(v, e, i)
              /\ RecvOK(v, e, i) /\ SendOK(v, e, i)
              /\ Used(v, e, i) => v.sock[e][i].end \in Ends
         /\ \A f \in Procs : /\ v.chan[f] \in Seq(Packets)
                             /\ \A p \in Elements(v.chan[f]) : p \in Packets
         /\ \A p \in Elements(v.chan["host"]) \cup Elements(v.chan["device"]) : p \in Packets
         /\ \A x \in Ends : /\ v.sent[x] \in Seq(Data) /\ v.rcvd[x] \in Seq(Data)
                            /\ v.fin[x] \in Promise!Fins /\ SeenOK(v, x)
<1>1. v \in Views /\ Sound(v)
  BY DEF Good, Sound
<1>2. /\ \A e \in Procs, i \in Ids : v.sock[e][i] \in Sockets
      /\ \A f \in Procs : v.chan[f] \in Seq(Packets)
      /\ \A x \in Ends : v.sent[x] \in Seq(Data) /\ v.rcvd[x] \in Seq(Data) /\ v.fin[x] \in Promise!Fins
      /\ "host" \in Procs /\ "device" \in Procs
  BY <1>1, ViewFacts
<1>3. EndsOK(v) /\ FreshOK(v) /\ DataOK(v) /\ NamesOK(v) /\ CnxnOK(v) /\ Flow(v)
  BY DEF Good, Carried
<1>4. \A e \in Procs, i \in Ids : SocketOK(e, v.sock[e][i])
  BY <1>1 DEF Sound, SocketsOK
<1>5. \A e \in Procs, i \in Ids : Used(v, e, i) => v.sock[e][i].end \in Ends
  BY <1>4 DEF SocketOK, Used
<1>6. \A e \in Procs, i \in Ids : EndOK(v, e, i) /\ RecvOK(v, e, i) /\ SendOK(v, e, i)
  BY <1>3 DEF EndsOK, Flow
<1>7. \A f \in Procs : \A p \in Elements(v.chan[f]) : p \in Packets
  BY <1>2, ElementsType
<1>8. \A p \in Elements(v.chan["host"]) \cup Elements(v.chan["device"]) : p \in Packets
  BY <1>2, <1>7
<1> QED
  BY <1>1, <1>2, <1>3, <1>4, <1>5, <1>6, <1>7, <1>8 DEF DataOK

\* A remote socket names the socket at the other end of the stream.
LEMMA Partner ==
  ASSUME NEW v, Good(v), NEW e \in Procs, NEW i \in Ids, NEW k \in Ids, v.sock[e][i].peer = Remote(k)
  PROVE  /\ v.sock[e][i].st = "live" /\ v.sock[e][i].end \in Ends
         /\ e = "host" => i \in HostSide /\ v.sock[e][i].end = Near(i)
         /\ e = "device" => k \in HostSide /\ v.sock[e][i].end = Far(k)
         /\ v.sock[Other(e)][k].st = "live" =>
              v.sock[Other(e)][k].end = FarOf(v.sock[e][i].end) /\ ~IsLocal(v.sock[Other(e)][k].peer)
<1>1. v.sock[e][i].st = "live"
  BY GoodFacts, PeerKinds DEF SocketOK
<1>2. v.sock[e][i].end \in Ends /\ EndOK(v, e, i) /\ e \in {"host", "device"} /\ Other(e) \in Procs
  BY <1>1, GoodFacts, ProcFacts DEF Used, Procs
<1>3. CASE e = "host"
  <2>1. i \in HostSide /\ v.sock[e][i].end = Near(i)
    BY <1>1, <1>2, <1>3, PeerKinds DEF EndOK, HostSide, Ids
  <2>2. ASSUME v.sock["device"][k].st = "live"
        PROVE  v.sock["device"][k].end = Far(i) /\ ~IsLocal(v.sock["device"][k].peer)
    <3>1. v.sock["device"][k].peer = Remote(i) /\ EndOK(v, "device", k)
      BY <1>3, <2>2, GoodFacts DEF NamesOK, Procs
    <3>2. PICK j \in HostSide : v.sock["device"][k].end = Far(j) /\ v.sock["device"][k].peer = Remote(j)
      BY <2>2, <3>1 DEF EndOK
    <3> QED
      BY <3>1, <3>2, PeerKinds DEF IsLocal
  <2> QED
    BY <1>1, <1>2, <1>3, <2>1, <2>2, SideFacts, ProcFacts
<1>4. CASE e = "device"
  <2>1. PICK j \in HostSide : v.sock[e][i].end = Far(j) /\ v.sock[e][i].peer = Remote(j)
    BY <1>1, <1>2, <1>4 DEF EndOK
  <2>2. j = k
    BY <2>1, PeerKinds
  <2>3. ASSUME v.sock["host"][k].st = "live"
        PROVE  v.sock["host"][k].end = Near(k) /\ ~IsLocal(v.sock["host"][k].peer)
    <3>1. v.sock["host"][k].transport
      BY <1>4, <2>3, GoodFacts DEF Sound, KnownOK, Known
    <3>2. ~IsLocal(v.sock["host"][k].peer) /\ EndOK(v, "host", k)
      BY <2>3, <3>1, GoodFacts DEF SocketOK, LiveOK, Procs
    <3>3. \A m \in HostSide : v.sock["host"][k].peer # Local(m)
      BY <3>2, SideFacts DEF IsLocal
    <3> QED
      BY <2>3, <3>2, <3>3 DEF EndOK
  <2> QED
    BY <1>1, <1>2, <1>4, <2>1, <2>2, <2>3, SideFacts, ProcFacts
<1> QED
  BY <1>2, <1>3, <1>4

\* The socket at the other end of a stream over the connection.
LEMMA FarSocket ==
  ASSUME NEW v, Good(v), NEW e \in Procs, NEW i \in Ids, NEW k \in Ids, v.sock[e][i].peer = Remote(k),
         NEW g \in Procs, NEW m \in Ids, v.sock[g][m].st = "live",
         v.sock[g][m].end = FarOf(v.sock[e][i].end)
  PROVE  /\ g = Other(e) /\ ~IsLocal(v.sock[g][m].peer)
         /\ m = k \/ (~Joined(v, g, m) /\ v.sock[Other(e)][k].st # "live")
<1>1. /\ v.sock[e][i].st = "live" /\ v.sock[e][i].end \in Ends
      /\ e = "host" => i \in HostSide /\ v.sock[e][i].end = Near(i)
      /\ e = "device" => k \in HostSide /\ v.sock[e][i].end = Far(k)
      /\ v.sock[Other(e)][k].st = "live" =>
           v.sock[Other(e)][k].end = FarOf(v.sock[e][i].end) /\ ~IsLocal(v.sock[Other(e)][k].peer)
  BY Partner
<1>2. EndOK(v, g, m) /\ Other(e) \in Procs /\ e \in {"host", "device"} /\ g \in {"host", "device"}
  BY GoodFacts, ProcFacts DEF Procs
<1>3. ASSUME v.sock[Other(e)][k].st = "live" PROVE g = Other(e) /\ m = k
  <2>1. Used(v, g, m) /\ Used(v, Other(e), k) /\ v.sock[g][m].end = v.sock[Other(e)][k].end
    BY <1>1, <1>3 DEF Used
  <2>2. OneEach(v)
    BY GoodFacts DEF EndsOK
  <2> QED
    BY <1>2, <2>1, <2>2 DEF OneEach
<1>4. CASE e = "device"
  <2>1. v.sock[g][m].end = Near(k)
    BY <1>1, <1>4, SideFacts
  <2>2. g = "host" /\ m = k
    BY <1>2, <2>1, SideFacts DEF EndOK
  <2> QED
    BY <1>1, <1>4, <2>2, ProcFacts
<1>5. CASE e = "host"
  <2>1. v.sock[g][m].end = Far(i)
    BY <1>1, <1>5, SideFacts
  <2>2. g = "device"
    <3>1. SUFFICES ASSUME g = "host" PROVE FALSE
      BY <1>2
    <3>2. PICK j \in HostSide : v.sock[g][m].end = Far(j) /\ v.sock[g][m].peer = Local(j)
      BY <1>2, <2>1, <3>1, SideFacts DEF EndOK
    <3>3. j = i /\ j \in Ids
      BY <2>1, <3>2, SideFacts
    <3>4. v.sock["host"][i].peer = Local(m)
      BY <3>1, <3>2, <3>3, GoodFacts DEF Sound, PairsOK
    <3> QED
      BY <1>5, <3>4, PeerKinds
  <2>3. v.sock[g][m].peer = Remote(i)
    BY <1>2, <2>1, <2>2, SideFacts DEF EndOK
  <2>4. ASSUME Joined(v, g, m) PROVE m = k
    <3>1. PICK j \in Ids : v.sock["host"][j].peer = Remote(m)
      BY <2>2, <2>4, ProcFacts DEF Joined
    <3>2. v.sock["device"][m].peer = Remote(j)
      BY <2>2, <3>1, GoodFacts DEF NamesOK
    <3> QED
      BY <1>5, <2>2, <2>3, <3>1, <3>2, PeerKinds
  <2>5. ~IsLocal(v.sock[g][m].peer)
    BY <2>3, PeerKinds DEF IsLocal
  <2> QED
    BY <1>3, <1>5, <2>2, <2>4, <2>5, ProcFacts
<1> QED
  BY <1>2, <1>4, <1>5

\* No socket and no program sees a difference, and what is under way is right.
LEMMA QuietKeeps ==
  ASSUME NEW v, NEW v2, Good(v), v2.next = v.next, SameSeen(v, v2),
         \A f \in Procs, k \in Ids : /\ Steady(v.sock[f][k], v2.sock[f][k])
                                     /\ RecvOK(v2, f, k) /\ SendOK(v2, f, k),
         NamesOK(v2), CnxnOK(v2)
  PROVE  Carried(v2)
<1>1. EndsOK(v) /\ FreshOK(v) /\ DataOK(v) /\ \A f \in Procs, k \in Ids : EndOK(v, f, k)
  BY GoodFacts
<1>2. \A f \in Procs, k \in Ids :
        /\ EndOK(v2, f, k) /\ v2.sock[f][k].st = v.sock[f][k].st
        /\ v2.sock[f][k].end = v.sock[f][k].end /\ v2.sock[f][k].peer = v.sock[f][k].peer
  BY <1>1, EndSame DEF SameSeen, Steady
<1>3. "host" \in Procs
  BY DEF Procs
<1>4. EndsOK(v2)
  BY <1>1, <1>2, <1>3, EndsLess DEF Used
<1>5. \A j \in Ids : v2.sock["host"][j].st = "live" /\ ~IsLocal(v2.sock["host"][j].peer) => j \in HostSide
  BY <1>2, <1>3, SideFacts DEF EndOK, IsLocal
<1>6. FreshOK(v2)
  BY <1>1, <1>2, <1>3 DEF FreshOK, SameSeen
<1>7. DataOK(v2)
  BY <1>1 DEF DataOK, SeenOK, SameSeen
<1> QED
  BY <1>4, <1>6, <1>7 DEF Carried, Flow

\* Sockets ask for other events: nothing changes for the streams.
LEMMA SteadyKeeps ==
  ASSUME NEW v, NEW v2, Good(v), v2.next = v.next, SameSeen(v, v2), v2.chan = v.chan,
         v2.link = v.link, v2.state["device"] = v.state["device"],
         \A f \in Procs, k \in Ids : /\ Steady(v.sock[f][k], v2.sock[f][k])
                                     /\ \/ v2.sock[f][k].transport = v.sock[f][k].transport
                                        \/ v.sock[f][k].peer = Smart
  PROVE  Carried(v2)
<1>1. /\ NamesOK(v) /\ CnxnOK(v) /\ \A f \in Procs, k \in Ids : RecvOK(v, f, k) /\ SendOK(v, f, k)
      /\ "host" \in Procs /\ "device" \in Procs
  BY GoodFacts DEF Procs
<1>2. \A f \in Procs, k \in Ids : /\ v2.sock[f][k].st = v.sock[f][k].st
                                  /\ v2.sock[f][k].peer = v.sock[f][k].peer
  BY DEF Steady
<1>3. \A f \in Procs, k \in Ids : Joined(v2, f, k) => Joined(v, f, k)
  BY <1>2, JoinedLess
<1>4. \A f \in Procs, k \in Ids : Alone(v, v2, f, k)
  BY <1>3, SameSelf DEF Alone, SameSeen, SameData, Opens
<1>5. \A f \in Procs, k \in Ids : RecvOK(v2, f, k) /\ SendOK(v2, f, k)
  BY <1>1, <1>4, FlowAlone
<1>6. \A j \in Ids : Known(v2, j) <=> Known(v, j)
  BY <1>1, <1>2 DEF Known
<1>7. /\ \A p \in Elements(v.chan["host"]) : ToHostOK(v, p) => ToHostOK(v2, p)
      /\ \A p \in Elements(v.chan["device"]) : ToDeviceOK(v, p) => ToDeviceOK(v2, p)
  <2>1. ASSUME NEW p \in Elements(v.chan["host"]), ToHostOK(v, p) PROVE ToHostOK(v2, p)
    <3>1. p \in Packets
      BY GoodFacts, <1>1
    <3> QED
      BY <1>1, <1>2, <1>6, <2>1, <3>1, PacketFacts DEF ToHostOK, SameSeen
  <2>2. ASSUME NEW p \in Elements(v.chan["device"]), ToDeviceOK(v, p) PROVE ToDeviceOK(v2, p)
    <3>1. p \in Packets
      BY GoodFacts, <1>1
    <3> QED
      BY <1>1, <1>2, <2>2, <3>1, PacketFacts DEF ToDeviceOK, SameSeen
  <2> QED
    BY <2>1, <2>2
<1>8. NamesOK(v2)
  BY <1>1, <1>2, <1>7 DEF NamesOK
<1>9. CnxnOK(v2)
  BY <1>1, <1>2 DEF CnxnOK
<1> QED
  BY <1>5, <1>8, <1>9, QuietKeeps

\* A packet that carries no data comes last.
LEMMA ReceivesPush ==
  ASSUME NEW s, NEW i, NEW c \in Seq(Packets), NEW p \in Packets, NEW to, NEW got, NEW far,
         NEW joined, NEW opens, Receives(s, i, c, to, got, far, joined, opens), p \notin WrtesTo(i),
         p \in ClsesTo(i) /\ s.st = "live" =>
           far # "open" /\ ~opens /\ (to = got \/ s.pkts # <<>> \/ Has(c, WrtesTo(i))),
         NEW d, d = Append(c, p)
  PROVE  Receives(s, i, d, to, got, far, joined, opens)
<1>1. /\ Elements(d) = Elements(c) \cup {p}
      /\ \A A : AtMostOne(c, A) /\ (p \in A => ~Has(c, A)) => AtMostOne(d, A)
      /\ \A A, B : Before(c, A, B) /\ (p \in B => Has(c, A)) => Before(d, A, B)
  BY PushFacts
<1>2. Elements(d) \cap WrtesTo(i) = Elements(c) \cap WrtesTo(i) /\ (Has(d, WrtesTo(i)) <=> Has(c, WrtesTo(i)))
  BY <1>1 DEF Has
<1>3. p \notin ClsesTo(i) => (Has(d, ClsesTo(i)) <=> Has(c, ClsesTo(i)))
  BY <1>1 DEF Has
<1>4. ~Has(c, ClsesTo(i)) => Before(c, WrtesTo(i), ClsesTo(i))
  BY DEF Has, Before, Elements
<1>5. ASSUME s.st = "live"
      PROVE  /\ \A q \in Elements(d) \cap WrtesTo(i) : to = Append(got, q.data) /\ s.pkts = <<>>
             /\ AtMostOne(d, WrtesTo(i))
             /\ joined => to = got \/ s.pkts # <<>> \/ Has(d, WrtesTo(i))
  BY <1>1, <1>2, <1>5 DEF Receives
<1>6. ASSUME s.st = "live", Has(d, ClsesTo(i))
      PROVE  /\ far # "open" /\ ~opens
             /\ to = got \/ s.pkts # <<>> \/ Before(d, WrtesTo(i), ClsesTo(i))
  <2>1. CASE p \notin ClsesTo(i)
    BY <1>1, <1>3, <1>6, <2>1 DEF Receives
  <2>2. CASE p \in ClsesTo(i)
    <3>1. far # "open" /\ ~opens /\ (to = got \/ s.pkts # <<>> \/ Has(c, WrtesTo(i)))
      BY <1>6, <2>2
    <3>2. Has(c, ClsesTo(i)) => to = got \/ s.pkts # <<>> \/ Before(c, WrtesTo(i), ClsesTo(i))
      BY <1>6 DEF Receives
    <3> QED
      BY <1>1, <1>4, <3>1, <3>2
  <2> QED
    BY <2>1, <2>2
<1> QED
  BY <1>5, <1>6 DEF Receives

\* An OKAY comes, to a socket that does not read and whose data arrived.
LEMMA SendsPush ==
  ASSUME NEW s, NEW i, NEW c \in Seq(Packets), NEW p \in Packets, NEW from, NEW gone,
         Sends(s, i, c, from, gone),
         p \in OkaysTo(i) /\ s.st = "live" => "R" \notin s.want /\ from = gone /\ ~Has(c, OkaysTo(i)),
         NEW d, d = Append(c, p)
  PROVE  Sends(s, i, d, from, gone)
<1>1. /\ Elements(d) = Elements(c) \cup {p}
      /\ \A A : AtMostOne(c, A) /\ (p \in A => ~Has(c, A)) => AtMostOne(d, A)
  BY PushFacts
<1>2. p \notin OkaysTo(i) => (Has(d, OkaysTo(i)) <=> Has(c, OkaysTo(i)))
  BY <1>1 DEF Has
<1> QED
  BY <1>1, <1>2 DEF Sends

\* An OKAY, a CLSE or a CNXN is sent.
LEMMA PushGood ==
  ASSUME NEW v, NEW v2, Good(v), SameRest(v, v2), v2.next = v.next, v2.sock = v.sock, SameSeen(v, v2),
         NEW f \in Procs, NEW p \in Packets, p.cmd \in {"OKAY", "CLSE", "CNXN"},
         v2.chan[f] = Append(v.chan[f], p), v2.chan[Other(f)] = v.chan[Other(f)],
         f = "host" => ToHostOK(v, p) /\ (p.cmd = "OKAY" => Cnxn \notin Elements(v.chan["device"])),
         f = "device" => ToDeviceOK(v, p) /\ p.cmd # "CNXN",
         p.cmd = "OKAY" /\ v.sock[f][p.arg1].st = "live" =>
           /\ "R" \notin v.sock[f][p.arg1].want /\ ~Has(v.chan[f], OkaysTo(p.arg1))
           /\ v.sent[v.sock[f][p.arg1].end] = v.rcvd[FarOf(v.sock[f][p.arg1].end)],
         p.cmd = "CLSE" /\ v.sock[f][p.arg1].st = "live" =>
           /\ v.fin[FarOf(v.sock[f][p.arg1].end)] # "open" /\ ~Opens(v, f, p.arg1)
           /\ \/ v.sent[FarOf(v.sock[f][p.arg1].end)] = v.rcvd[v.sock[f][p.arg1].end]
              \/ v.sock[f][p.arg1].pkts # <<>>
              \/ Has(v.chan[f], WrtesTo(p.arg1))
  PROVE  Carried(v2)
<1>1. /\ NamesOK(v) /\ CnxnOK(v) /\ \A g \in Procs, k \in Ids : RecvOK(v, g, k) /\ SendOK(v, g, k)
      /\ "host" \in Procs /\ "device" \in Procs /\ v.chan[f] \in Seq(Packets)
      /\ f \in {"host", "device"} /\ Other("host") = "device" /\ Other("device") = "host" /\ Other(f) \in Procs
      /\ \A g \in Procs : g = f \/ g = Other(f)
  BY GoodFacts, ProcFacts DEF Procs
<1>2. /\ Elements(v2.chan[f]) = Elements(v.chan[f]) \cup {p}
      /\ \A A : AtMostOne(v.chan[f], A) /\ (p \in A => ~Has(v.chan[f], A)) => AtMostOne(v2.chan[f], A)
  BY <1>1, PushFacts
<1>3. \A g \in Procs, k \in Ids : Joined(v2, g, k) = Joined(v, g, k) /\ Opens(v2, g, k) = Opens(v, g, k)
  <2>1. \A g \in Procs, k \in Ids : Joined(v2, g, k) = Joined(v, g, k)
    BY DEF Joined, SameRest
  <2>2. \A k : p \notin OpensOf(k)
    BY PacketFacts DEF OpensOf
  <2>3. \A k \in Ids : Has(v2.chan["device"], OpensOf(k)) <=> Has(v.chan["device"], OpensOf(k))
    BY <1>1, <1>2, <2>2 DEF Has
  <2> QED
    BY <2>1, <2>3 DEF Opens
<1>4. ASSUME NEW g \in Procs, NEW k \in Ids PROVE RecvOK(v2, g, k) /\ SendOK(v2, g, k)
  <2> DEFINE s == v.sock[g][k]
             x == s.end
             y == FarOf(x)
  <2>1. Receives(s, k, v.chan[g], v.sent[y], v.rcvd[x], v.fin[y], Joined(v, g, k), Opens(v, g, k))
    BY <1>1 DEF RecvOK
  <2>2. Sends(s, k, v.chan[g], v.sent[x], v.rcvd[y])
    BY <1>1 DEF SendOK
  <2>3. CASE g # f
    BY <1>1, <1>3, <2>1, <2>2, <2>3 DEF RecvOK, SendOK, SameSeen
  <2>4. CASE g = f
    <3>1. p \notin WrtesTo(k)
      BY PacketFacts DEF WrtesTo
    <3>2. p \in ClsesTo(k) => p.cmd = "CLSE" /\ p.arg1 = k
      BY DEF ClsesTo
    <3>3. p \in OkaysTo(k) => p.cmd = "OKAY" /\ p.arg1 = k
      BY DEF OkaysTo
    <3>4. p \in ClsesTo(k) /\ s.st = "live" =>
            /\ v.fin[y] # "open" /\ ~Opens(v, g, k)
            /\ v.sent[y] = v.rcvd[x] \/ s.pkts # <<>> \/ Has(v.chan[g], WrtesTo(k))
      BY <2>4, <3>2
    <3>5. p \in OkaysTo(k) /\ s.st = "live" =>
            "R" \notin s.want /\ v.sent[x] = v.rcvd[y] /\ ~Has(v.chan[g], OkaysTo(k))
      BY <2>4, <3>3
    <3> HIDE DEF s, x, y
    <3>6. Receives(s, k, v2.chan[g], v.sent[y], v.rcvd[x], v.fin[y], Joined(v, g, k), Opens(v, g, k))
      BY <1>1, <2>1, <2>4, <3>1, <3>4, ReceivesPush
    <3>7. Sends(s, k, v2.chan[g], v.sent[x], v.rcvd[y])
      BY <1>1, <2>2, <2>4, <3>5, SendsPush
    <3> QED
      BY <1>3, <3>6, <3>7 DEF RecvOK, SendOK, SameSeen, s, x, y
  <2> QED
    BY <2>3, <2>4
<1>5. NamesOK(v2)
  <2>1. /\ \A q : ToHostOK(v, q) <=> ToHostOK(v2, q)
        /\ \A q : ToDeviceOK(v, q) <=> ToDeviceOK(v2, q)
    BY DEF ToHostOK, ToDeviceOK, Known, SameRest, SameSeen
  <2>2. /\ \A q \in Elements(v2.chan["host"]) : ToHostOK(v2, q)
        /\ \A q \in Elements(v2.chan["device"]) : ToDeviceOK(v2, q)
    BY <1>1, <1>2, <2>1 DEF NamesOK
  <2>3. \A j \in Ids : AtMostOne(v2.chan["device"], OpensOf(j))
    <3>1. \A j \in Ids : p \notin OpensOf(j)
      BY PacketFacts DEF OpensOf
    <3> QED
      BY <1>1, <1>2, <3>1 DEF NamesOK
  <2> QED
    BY <1>1, <2>2, <2>3 DEF NamesOK, SameRest
<1>6. CnxnOK(v2)
  <2>1. f = "device" => p # Cnxn
    BY PacketFacts
  <2>2. AtMostOne(v2.chan["device"], {Cnxn})
    BY <1>1, <1>2, <2>1 DEF CnxnOK
  <2>3. Cnxn \in Elements(v2.chan["device"]) <=> Cnxn \in Elements(v.chan["device"])
    BY <1>1, <1>2, <2>1
  <2>4. \A q \in Elements(v2.chan["host"]) : q.cmd \in {"OKAY", "WRTE"} =>
          q \in Elements(v.chan["host"]) \/ Cnxn \notin Elements(v.chan["device"])
    BY <1>1, <1>2
  <2> QED
    BY <1>1, <2>2, <2>3, <2>4, CnxnLess DEF SameRest
<1>7. \A g \in Procs, k \in Ids : Steady(v.sock[g][k], v2.sock[g][k])
  BY DEF Steady
<1> QED
  BY <1>4, <1>5, <1>6, <1>7, QuietKeeps

\* A packet is taken that no open socket waits for. SYNC takes adbd offline,
\* and CNXN online.
LEMMA PopGood ==
  ASSUME NEW v, NEW v2, Good(v), v2.link = v.link, v2.next = v.next, v2.sock = v.sock, SameSeen(v, v2),
         NEW e \in Procs, v.chan[e] # <<>>,
         v2.chan[e] = Tail(v.chan[e]), v2.chan[Other(e)] = v.chan[Other(e)],
         Head(v.chan[e]).cmd \in {"OKAY", "CLSE", "WRTE"} => v.sock[e][Head(v.chan[e]).arg1].st # "live",
         \/ /\ v2.state["device"] = v.state["device"] \/ (v2.state["device"] = "offline" /\ ~v.link)
            /\ e = "device" => Head(v.chan[e]).cmd # "CNXN"
         \/ e = "device" /\ Head(v.chan[e]).cmd = "CNXN" /\ v2.state["device"] = "connected"
  PROVE  Carried(v2)
<1>1. /\ NamesOK(v) /\ CnxnOK(v) /\ \A g \in Procs, k \in Ids : RecvOK(v, g, k) /\ SendOK(v, g, k)
      /\ "host" \in Procs /\ "device" \in Procs /\ v.chan[e] \in Seq(Packets)
      /\ e \in {"host", "device"} /\ Other("host") = "device" /\ Other("device") = "host" /\ Other(e) \in Procs
      /\ \A g \in Procs : g = e \/ g = Other(e)
  BY GoodFacts, ProcFacts DEF Procs
<1> DEFINE p == Head(v.chan[e])
<1>2. /\ p \in Packets /\ Elements(v.chan[e]) = {p} \cup Elements(v2.chan[e])
      /\ \A A : AtMostOne(v.chan[e], A) => AtMostOne(v2.chan[e], A) /\ (p \in A => ~Has(v2.chan[e], A))
  BY <1>1, PopFacts
<1>2a. \A g \in Procs : /\ Elements(v2.chan[g]) \subseteq Elements(v.chan[g])
                        /\ \A A : AtMostOne(v.chan[g], A) => AtMostOne(v2.chan[g], A)
  BY <1>1, <1>2
<1>3. \A g \in Procs, k \in Ids : (Joined(v2, g, k) => Joined(v, g, k)) /\ (Opens(v2, g, k) => Opens(v, g, k))
  BY <1>1, <1>2a DEF Joined, Opens, Has
<1>4. ASSUME NEW g \in Procs, NEW k \in Ids PROVE Alone(v, v2, g, k)
  <2>1. v.sock[g][k].st = "live" => SameFor(v.chan[g], v2.chan[g], k)
    <3>1. CASE g # e
      BY <1>1, <3>1, SameSelf
    <3>2. CASE g = e
      <4>1. v.sock[g][k].st = "live" => p \notin PacketsTo(k)
        BY <3>2 DEF PacketsTo, OkaysTo, WrtesTo, ClsesTo
      <4> QED
        BY <1>1, <3>2, <4>1, PopSame
    <3> QED
      BY <3>1, <3>2
  <2> QED
    BY <1>3, <2>1 DEF Alone, Steady, SameSeen, SameData
<1>5. \A g \in Procs, k \in Ids : RecvOK(v2, g, k) /\ SendOK(v2, g, k)
  BY <1>1, <1>4, FlowAlone
<1>6. CASE e = "device" /\ p.cmd = "CNXN" /\ v2.state["device"] = "connected"
  <2>1. p = Cnxn /\ Cnxn \in Elements(v.chan["device"])
    BY <1>2, <1>6, PacketFacts
  <2>2. /\ v.state["device"] = "offline" /\ \A i \in Ids : ~IsRemote(v.sock["host"][i].peer)
        /\ \A q \in Elements(v.chan["host"]) : q.cmd \notin {"OKAY", "WRTE"}
    BY <1>1, <2>1 DEF CnxnOK
  <2>3. Cnxn \notin Elements(v2.chan["device"]) /\ AtMostOne(v2.chan["device"], {Cnxn})
    BY <1>1, <1>2, <1>6, <2>1 DEF CnxnOK, Has
  <2>4. CnxnOK(v2)
    BY <1>6, <2>3 DEF CnxnOK
  <2>5. \A q \in Elements(v2.chan["host"]) : ToHostOK(v2, q)
    BY <1>1, <1>2a, <2>2 DEF NamesOK, ToHostOK, Known, SameSeen
  <2>6. \A q \in Elements(v2.chan["device"]) : ToDeviceOK(v2, q)
    BY <1>1, <1>2a DEF NamesOK, ToDeviceOK, SameSeen
  <2>7. NamesOK(v2)
    BY <1>1, <1>2a, <2>2, <2>5, <2>6 DEF NamesOK, IsRemote
  <2>8. \A g \in Procs, k \in Ids : Steady(v.sock[g][k], v2.sock[g][k])
    BY DEF Steady
  <2> QED
    BY <1>5, <2>4, <2>7, <2>8, QuietKeeps
<1>7. CASE /\ v2.state["device"] = v.state["device"] \/ (v2.state["device"] = "offline" /\ ~v.link)
           /\ e = "device" => p.cmd # "CNXN"
  <2>1. \A q \in Elements(v2.chan["host"]) : ToHostOK(v2, q)
    BY <1>1, <1>2a, <1>7 DEF NamesOK, ToHostOK, Known, SameSeen
  <2>2. \A q \in Elements(v2.chan["device"]) : ToDeviceOK(v2, q)
    BY <1>1, <1>2a DEF NamesOK, ToDeviceOK, SameSeen
  <2>3. NamesOK(v2)
    BY <1>1, <1>2a, <1>7, <2>1, <2>2 DEF NamesOK
  <2>4. Cnxn \in Elements(v2.chan["device"]) <=> Cnxn \in Elements(v.chan["device"])
    BY <1>1, <1>2, <1>7, PacketFacts
  <2>5. CnxnOK(v2)
    BY <1>1, <1>2a, <1>7, <2>4 DEF CnxnOK
  <2>6. \A g \in Procs, k \in Ids : Steady(v.sock[g][k], v2.sock[g][k])
    BY DEF Steady
  <2> QED
    BY <1>5, <2>3, <2>5, <2>6, QuietKeeps
<1> QED
  BY <1>6, <1>7

\* How a socket dies: it is destroyed, or it keeps what it has yet to write. An
\* end that closes on behalf of the other one has received everything.
Ends1(v, v2, e, i, x) ==
  /\ Used(v, e, i) /\ v.sock[e][i].end = x
  /\ \/ v2.sock[e][i].st = "gone" /\ v2.sock[e][i].pkts = <<>> /\ v2.fin[x] \in Promise!Closed
     \/ /\ v.sock[e][i].st = "live" /\ v.sock[e][i].pkts # <<>> /\ v2.sock[e][i].st = "closing"
        /\ v2.sock[e][i].pkts = v.sock[e][i].pkts /\ v2.sock[e][i].end = x /\ v2.fin[x] = "ending"
        /\ v2.sock[e][i].why = "peer" => v2.fin[FarOf(x)] # "open"
  /\ v2.fin[x] = "peer" => /\ v2.fin[FarOf(x)] # "open" /\ v.sent[FarOf(x)] = v.rcvd[x]
                           /\ \/ v.fin[FarOf(x)] # "none"
                              \/ v.sock[e][i].st = "live" /\ ~Opens(v, e, i)
OtherFins(v, v2, e, D) ==
  \A x \in Ends : (\A i \in D : v.sock[e][i].end # x) => v2.fin[x] = v.fin[x]

\* What the states of an end are not.
LEMMA FinFacts ==
  /\ \A f \in Promise!Closed : f \notin {"none", "open", "ending"}
  /\ "peer" \in Promise!Closed /\ "own" \in Promise!Closed /\ "quit" \in Promise!Closed /\ "lost" \in Promise!Closed
  BY DEF Promise!Closed

\* Sockets die.
LEMMA DeathsGood ==
  ASSUME NEW v, NEW v2, Good(v), Sound(v2), SameRest(v, v2), v2.next = v.next, v2.chan = v.chan,
         v2.sent = v.sent, v2.rcvd = v.rcvd, NEW e \in Procs, NEW D \in SUBSET Ids, Deaths(v, v2, e, D),
         \A i \in D : \E x \in Ends : Ends1(v, v2, e, i, x),
         OtherFins(v, v2, e, D)
  PROVE  Carried(v2)
<1>1. /\ "host" \in Procs /\ "device" \in Procs /\ v \in Views
      /\ Sound(v) /\ EndsOK(v) /\ FreshOK(v) /\ DataOK(v) /\ NamesOK(v) /\ CnxnOK(v)
      /\ \A g \in Procs, k \in Ids :
           /\ EndOK(v, g, k) /\ RecvOK(v, g, k) /\ SendOK(v, g, k)
           /\ Used(v, g, k) => v.sock[g][k].end \in Ends
      /\ \A x \in Ends : SeenOK(v, x)
  BY GoodFacts DEF Procs
<1>2. /\ \A g \in Procs, k \in Ids : ~(g = e /\ k \in D) => v2.sock[g][k] = v.sock[g][k]
      /\ \A k \in D : v2.sock[e][k].st \in {"closing", "gone"} /\ v2.sock[e][k].peer = None
      /\ \A k \in D, m \in Ids : v.sock[e][k].peer = Local(m) => m \in D
  BY DEF Deaths, SocketOK
<1>3. \A k \in D : Used(v, e, k) /\ v.sock[e][k].end \in Ends /\ Ends1(v, v2, e, k, v.sock[e][k].end)
  BY DEF Ends1
<1>4. \A y \in Ends : \/ v2.fin[y] = v.fin[y] /\ \A k \in D : v.sock[e][k].end # y
                      \/ /\ \E k \in D : v.sock[e][k].end = y
                         /\ v.fin[y] \in {"open", "ending"} /\ v2.fin[y] \in Promise!Closed \cup {"ending"}
  <2> SUFFICES ASSUME NEW y \in Ends, NEW k \in D, v.sock[e][k].end = y
               PROVE  v.fin[y] \in {"open", "ending"} /\ v2.fin[y] \in Promise!Closed \cup {"ending"}
    BY DEF OtherFins
  <2> QED
    BY <1>1, <1>3 DEF Ends1, EndOK, Used
<1>5. \A y \in Ends : /\ v2.fin[y] = "none" <=> v.fin[y] = "none"
                      /\ v2.fin[y] = "open" => v.fin[y] = "open"
  BY <1>4, FinFacts
<1>6. \A g \in Procs, k \in Ids : Joined(v2, g, k) => Joined(v, g, k)
  <2>1. \A g \in Procs, k, m \in Ids : v2.sock[g][k].peer = Remote(m) => v.sock[g][k].peer = Remote(m)
    BY <1>2, PeerKinds
  <2> QED
    BY <2>1, JoinedLess DEF SameRest
<1>7. ASSUME NEW g \in Procs, NEW k \in Ids PROVE EndOK(v2, g, k) /\ RecvOK(v2, g, k) /\ SendOK(v2, g, k)
  <2>1. CASE ~(g = e /\ k \in D)
    <3>1. Steady(v.sock[g][k], v2.sock[g][k])
      BY <1>2, <2>1 DEF Steady
    <3>2. Used(v, g, k) => v2.fin[v.sock[g][k].end] = v.fin[v.sock[g][k].end]
      <4>1. ASSUME Used(v, g, k), NEW m \in D PROVE v.sock[e][m].end # v.sock[g][k].end
        <5>1. Used(v, e, m) /\ OneEach(v)
          BY <1>1, <1>3 DEF EndsOK
        <5> QED
          BY <2>1, <4>1, <5>1 DEF OneEach
      <4> QED
        BY <1>1, <4>1 DEF OtherFins
    <3>3. EndOK(v2, g, k)
      BY <1>1, <3>1, <3>2, EndSame
    <3>4. Used(v, g, k) => FarOf(v.sock[g][k].end) \in Ends
      BY <1>1, EndFacts
    <3>5. Alone(v, v2, g, k)
      BY <1>5, <1>6, <3>1, <3>4, SameSelf DEF Alone, SameData, Opens
    <3> QED
      BY <1>1, <3>3, <3>5, FlowAlone
  <2>2. CASE g = e /\ k \in D
    <3> DEFINE x == v.sock[e][k].end
    <3>1. Ends1(v, v2, e, k, x) /\ v2.sock[e][k].st \in {"closing", "gone"}
      BY <1>2, <1>3, <2>2
    <3>2. CASE v2.sock[e][k].st = "gone"
      <4>1. v2.sock[e][k].pkts = <<>> /\ ~Used(v2, g, k)
        BY <2>2, <3>1, <3>2 DEF Ends1, Used
      <4> QED
        BY <2>2, <3>2, <4>1, FlowUnused DEF EndOK
    <3>3. CASE v2.sock[e][k].st = "closing"
      <4>1. /\ v.sock[e][k].st = "live" /\ v.sock[e][k].pkts # <<>> /\ v2.sock[e][k].pkts = v.sock[e][k].pkts
            /\ v2.sock[e][k].end = x /\ v2.fin[x] = "ending"
            /\ v2.sock[e][k].why = "peer" => v2.fin[FarOf(x)] # "open"
        BY <3>1, <3>3 DEF Ends1
      <4>2. EndOK(v2, g, k)
        BY <1>1, <2>2, <3>3, <4>1 DEF EndOK
      <4>3. v.sent[FarOf(x)] = v.rcvd[x] \o v.sock[e][k].pkts
        BY <1>1, <2>2, <4>1 DEF RecvOK, Receives
      <4>4. RecvOK(v2, g, k)
        BY <2>2, <3>3, <4>1, <4>3 DEF RecvOK, Receives
      <4>5. SendOK(v2, g, k)
        BY <2>2, <3>3 DEF SendOK, Sends
      <4> QED
        BY <4>2, <4>4, <4>5
    <3> QED
      BY <3>1, <3>2, <3>3
  <2> QED
    BY <2>1, <2>2
<1>8. EndsOK(v2)
  <2>1. \A g \in Procs, k \in Ids : Used(v2, g, k) => Used(v, g, k) /\ v2.sock[g][k].end = v.sock[g][k].end
    BY <1>2, <1>3 DEF Used, Ends1
  <2>2. ASSUME NEW i \in Ids, NEW m \in Ids, v2.sock["host"][i].peer = Local(m)
        PROVE  v2.sock["host"][i] = v.sock["host"][i] /\ v2.sock["host"][m] = v.sock["host"][m]
    <3>1. ~(e = "host" /\ i \in D) /\ v2.sock["host"][i] = v.sock["host"][i]
      BY <1>1, <1>2, <2>2, PeerKinds
    <3>2. v.sock["host"][m].peer = Local(i)
      BY <1>1, <2>2, <3>1 DEF Sound, PairsOK
    <3>3. ~(e = "host" /\ m \in D)
      BY <1>2, <3>1, <3>2
    <3> QED
      BY <1>1, <1>2, <3>1, <3>3
  <2> QED
    BY <1>1, <1>7, <2>1, <2>2, EndsLess
<1>9. FreshOK(v2)
  <2>1. \A j \in Ids : v2.sock["host"][j].st = "live" => v2.sock["host"][j] = v.sock["host"][j]
    BY <1>1, <1>2
  <2>2. \A j \in HostSide : Near(j) \in Ends /\ Far(j) \in Ends
    BY SideFacts
  <2>3. \A j \in Ids : v2.sock["host"][j].st = "live" /\ ~IsLocal(v2.sock["host"][j].peer) => j \in HostSide
    BY <1>1, <1>7, SideFacts DEF EndOK, IsLocal
  <2> QED
    BY <1>1, <1>5, <2>1, <2>2, <2>3, FreshLess
<1>10. DataOK(v2)
  <2> SUFFICES ASSUME NEW y \in Ends PROVE SeenOK(v2, y)
    BY DEF DataOK
  <2>1. SeenOK(v, y) /\ FarOf(y) \in Ends
    BY <1>1, EndFacts
  <2>2. v2.fin[y] = "peer" => v2.fin[FarOf(y)] # "open" /\ v2.rcvd[y] = v2.sent[FarOf(y)]
    <3>1. CASE v2.fin[y] = v.fin[y]
      BY <1>5, <2>1, <3>1 DEF SeenOK
    <3>2. ASSUME NEW k \in D, v.sock[e][k].end = y
          PROVE  v2.fin[y] = "peer" => v2.fin[FarOf(y)] # "open" /\ v2.rcvd[y] = v2.sent[FarOf(y)]
      BY <1>3, <3>2 DEF Ends1
    <3> QED
      BY <1>4, <3>1, <3>2
  <2> QED
    BY <1>5, <2>1, <2>2 DEF SeenOK
<1>11. NamesOK(v2)
  <2>1. \A j \in Ids : Known(v, j) => Known(v2, j)
    BY <1>1, <1>2 DEF Known
  <2>2. \A k \in Ids : v2.sock["device"][k].st = "live" => v2.sock["device"][k] = v.sock["device"][k]
    BY <1>1, <1>2
  <2>3. \A j, k \in Ids : v2.sock["host"][j].peer = Remote(k) => v.sock["host"][j].peer = Remote(k)
    BY <1>1, <1>2, PeerKinds
  <2>4. \A j \in HostSide : v2.fin[Far(j)] = "none" <=> v.fin[Far(j)] = "none"
    BY <1>5, SideFacts
  <2>5. ASSUME NEW p \in Elements(v.chan["device"]), p.cmd = "OPEN"
        PROVE  /\ v.fin[Far(p.arg0)] = "none" => v2.fin[Far(p.arg0)] = "none"
               /\ v2.fin[Near(p.arg0)] \in {"none", "peer"} => v.fin[Near(p.arg0)] \in {"none", "peer"}
    <3>1. p.arg0 \in HostSide /\ p \in Packets
      BY <1>1, <2>5, GoodFacts DEF NamesOK, ToDeviceOK
    <3>2. Near(p.arg0) \in Ends
      BY <3>1, SideFacts
    <3>3. ASSUME NEW k \in D, v.sock[e][k].end = Near(p.arg0), v2.fin[Near(p.arg0)] = "peer" PROVE FALSE
      <4>0. v.fin[FarOf(Near(p.arg0))] = "none"
        BY <1>1, <2>5, <3>1, SideFacts DEF NamesOK, ToDeviceOK
      <4>1. v.sock[e][k].st = "live" /\ ~Opens(v, e, k)
        BY <1>3, <3>3, <4>0 DEF Ends1
      <4>2. e = "host" /\ k = p.arg0
        BY <1>1, <3>3, <4>1, SideFacts DEF EndOK, Procs
      <4> QED
        BY <2>5, <3>1, <4>1, <4>2 DEF Opens, Has, OpensOf
    <3> QED
      BY <1>4, <1>5, <2>4, <3>1, <3>2, <3>3
  <2>6. \A p \in Elements(v.chan["host"]) \cup Elements(v.chan["device"]) : p \in Packets
    BY GoodFacts
  <2>7. /\ v2.next["device"] = v.next["device"] /\ v2.state["device"] = v.state["device"]
        /\ \A j \in Ids : AtMostOne(v2.chan["device"], OpensOf(j))
        /\ Elements(v2.chan["host"]) = Elements(v.chan["host"])
        /\ Elements(v2.chan["device"]) = Elements(v.chan["device"])
    BY <1>1 DEF SameRest, NamesOK
  <2> QED
    BY <1>1, <2>1, <2>2, <2>3, <2>4, <2>5, <2>6, <2>7, NamesLess
<1>12. CnxnOK(v2)
  <2>1. \A i \in Ids : IsRemote(v2.sock["host"][i].peer) => IsRemote(v.sock["host"][i].peer)
    BY <1>1, <1>2, PeerKinds DEF IsRemote
  <2> QED
    BY <1>1, <2>1 DEF CnxnOK, SameRest
<1> QED
  BY <1>7, <1>8, <1>9, <1>10, <1>11, <1>12 DEF Carried, Flow

-----------------------------------------------------------------------------
(* The steps that move data. *)

\* The kinds of a socket do not change.
SameKind(s, t) == t.st = s.st /\ t.peer = s.peer /\ t.end = s.end /\ t.transport = s.transport
SameKinds(v, v2) ==
  /\ v2.next = v.next /\ v2.fin = v.fin /\ v2.link = v.link /\ v2.state = v.state
  /\ \A f \in Procs, k \in Ids : SameKind(v.sock[f][k], v2.sock[f][k])

\* The names are still right when nothing new is under way.
LEMMA SameNames ==
  ASSUME NEW v, NEW v2, Good(v), SameKinds(v, v2),
         \A f \in Procs : /\ Elements(v2.chan[f]) \subseteq Elements(v.chan[f])
                          /\ \A A : AtMostOne(v.chan[f], A) => AtMostOne(v2.chan[f], A),
         Cnxn \in Elements(v.chan["device"]) => Cnxn \in Elements(v2.chan["device"])
  PROVE  NamesOK(v2) /\ CnxnOK(v2)
<1>1. /\ NamesOK(v) /\ CnxnOK(v) /\ "host" \in Procs /\ "device" \in Procs
      /\ \A f \in Procs, k \in Ids : /\ v2.sock[f][k].st = v.sock[f][k].st
                                     /\ v2.sock[f][k].peer = v.sock[f][k].peer
                                     /\ v2.sock[f][k].transport = v.sock[f][k].transport
  BY GoodFacts DEF Procs, SameKinds, SameKind
<1>2. \A p \in Elements(v.chan["host"]) \cup Elements(v.chan["device"]) : p \in Packets
  BY GoodFacts
<1>3. \A j \in Ids : Known(v, j) => Known(v2, j)
  BY <1>1 DEF Known
<1>4. \A j \in Ids : AtMostOne(v2.chan["device"], OpensOf(j))
  BY <1>1 DEF NamesOK
<1>5. NamesOK(v2)
  BY <1>1, <1>2, <1>3, <1>4, NamesLess DEF SameKinds
<1>6. CnxnOK(v2)
  <2>1. AtMostOne(v2.chan["device"], {Cnxn})
    BY <1>1 DEF CnxnOK
  <2> QED
    BY <1>1, <2>1, CnxnLess DEF SameKinds
<1> QED
  BY <1>5, <1>6

\* Data moves between sockets that stay of their kinds.
LEMMA MovesKeep ==
  ASSUME NEW v, NEW v2, Good(v), SameKinds(v, v2),
         \A f \in Procs, k \in Ids :
           /\ v2.sock[f][k].pkts # <<>> => \E d \in Data : v2.sock[f][k].pkts = <<d>>
           /\ RecvOK(v2, f, k) /\ SendOK(v2, f, k),
         \A j \in Ids : v.sock["host"][j].st = "live" /\ v.sock["host"][j].peer \in {None, Smart} =>
           v2.sent[Near(j)] = v.sent[Near(j)],
         DataOK(v2), NamesOK(v2), CnxnOK(v2)
  PROVE  Carried(v2)
<1>1. /\ EndsOK(v) /\ FreshOK(v) /\ "host" \in Procs /\ v2.fin = v.fin /\ v2.next = v.next
      /\ \A f \in Procs, k \in Ids : /\ EndOK(v, f, k)
                                     /\ v2.sock[f][k].st = v.sock[f][k].st
                                     /\ v2.sock[f][k].peer = v.sock[f][k].peer
                                     /\ v2.sock[f][k].end = v.sock[f][k].end
  BY GoodFacts DEF Procs, SameKinds, SameKind
<1>2. \A f \in Procs, k \in Ids : EndOK(v2, f, k)
  BY <1>1 DEF EndOK
<1>3. EndsOK(v2)
  BY <1>1, <1>2, EndsLess DEF Used
<1>4. \A j \in Ids : v2.sock["host"][j].st = "live" /\ ~IsLocal(v2.sock["host"][j].peer) => j \in HostSide
  BY <1>1, <1>2, SideFacts DEF EndOK, IsLocal
<1>5. FreshOK(v2)
  BY <1>1, <1>4, FreshLess
<1> QED
  BY <1>3, <1>5 DEF Carried, Flow

\* Another packet is sent: the other end has yet to receive it.
SentMore(v, v2, x, d) ==
  v2.sent[x] = Append(v.sent[x], d) /\ \A y \in Ends : y # x => v2.sent[y] = v.sent[y]

\* What was sent and not received is one packet.
LEMMA SeenSent ==
  ASSUME NEW v, NEW v2, Good(v), NEW x \in Ends, NEW d \in Data, SentMore(v, v2, x, d),
         v2.rcvd = v.rcvd, v2.fin = v.fin, v.fin[x] = "open", v.sent[x] = v.rcvd[FarOf(x)]
  PROVE  DataOK(v2)
<1> SUFFICES ASSUME NEW y \in Ends PROVE SeenOK(v2, y)
  BY DEF DataOK
<1>1. SeenOK(v, y) /\ SeenOK(v, FarOf(y)) /\ FarOf(y) \in Ends /\ FarOf(y) # y /\ FarOf(FarOf(y)) = y
  BY GoodFacts, EndFacts
<1>2. CASE y # x /\ FarOf(y) # x
  BY <1>1, <1>2 DEF SeenOK, SentMore
<1>3. CASE y = x
  BY <1>1, <1>3 DEF SeenOK, SentMore
<1>4. CASE FarOf(y) = x
  <2>1. v2.sent[x] = Append(v2.rcvd[y], d) /\ y # x
    BY <1>1, <1>4 DEF SentMore
  <2>2. v2.fin[y] # "peer"
    BY <1>1, <1>4 DEF SeenOK
  <2> QED
    BY <1>1, <1>4, <2>1, <2>2 DEF SeenOK, SentMore
<1> QED
  BY <1>2, <1>3, <1>4

\* A socket that does not wait for a program's first request is not fresh.
LEMMA NotFresh ==
  ASSUME NEW v, Good(v), NEW e \in Procs, NEW i \in Ids, v.sock[e][i].st = "live",
         v.sock[e][i].peer \notin {None, Smart}
  PROVE  \A j \in Ids : v.sock["host"][j].st = "live" /\ v.sock["host"][j].peer \in {None, Smart} =>
           Near(j) # v.sock[e][i].end /\ Near(j) \in Ends
<1> SUFFICES ASSUME NEW j \in Ids, v.sock["host"][j].st = "live", v.sock["host"][j].peer \in {None, Smart}
             PROVE  Near(j) # v.sock[e][i].end /\ Near(j) \in Ends
  OBVIOUS
<1>1. EndOK(v, "host", j) /\ "host" \in Procs /\ OneEach(v)
  BY GoodFacts DEF Procs, EndsOK
<1>2. j \in HostSide /\ v.sock["host"][j].end = Near(j)
  BY <1>1, PeerKinds, SideFacts DEF EndOK
<1>3. Used(v, "host", j) /\ Used(v, e, i)
  BY DEF Used
<1>4. Near(j) # v.sock[e][i].end
  BY <1>1, <1>2, <1>3 DEF OneEach
<1> QED
  BY <1>2, <1>4, SideFacts

\* What a socket whose data all arrived knows about its channel.
LEMMA NothingUnderWay ==
  ASSUME NEW s, NEW i, NEW c, NEW to \in Seq(Data), NEW got, NEW far, NEW joined, NEW opens,
         Receives(s, i, c, to, got, far, joined, opens), s.st \in {"live", "closing"}, to = got,
         s.pkts # <<>> => \E d \in Data : s.pkts = <<d>>,
         \A p \in Elements(c) : p \in Packets
  PROVE  s.pkts = <<>> /\ (s.st = "live" => ~Has(c, WrtesTo(i)))
<1>1. \A d \in Data : to # to \o <<d>> /\ to # Append(to, d)
  BY Longer
<1>2. s.pkts = <<>>
  BY <1>1 DEF Receives
<1>3. \A p \in Elements(c) \cap WrtesTo(i) : p.data \in Data
  BY PacketFacts DEF WrtesTo
<1>4. s.st = "live" => ~Has(c, WrtesTo(i))
  BY <1>1, <1>2, <1>3 DEF Receives, Has
<1> QED
  BY <1>2, <1>4

\* A packet is sent to a socket that waits for one.
LEMMA ReceivesSent ==
  ASSUME NEW s, NEW i, NEW c \in Seq(Packets), NEW c2, NEW to \in Seq(Data), NEW got, NEW d \in Data, NEW far,
         NEW joined, NEW joined2, NEW opens, Receives(s, i, c, to, got, far, joined, opens), s.st = "live",
         s.pkts = <<>>, ~Has(c, WrtesTo(i)), to = got, far = "open", ~IsLocal(s.peer),
         \/ \E p \in WrtesTo(i) : p.data = d /\ c2 = Append(c, p)
         \/ ~joined2 /\ SameFor(c, c2, i)
  PROVE  Receives(s, i, c2, Append(to, d), got, far, joined2, opens)
<1>1. ~Has(c, ClsesTo(i))
  BY DEF Receives
<1>2. ASSUME NEW p \in WrtesTo(i), p.data = d, c2 = Append(c, p)
      PROVE  Receives(s, i, c2, Append(to, d), got, far, joined2, opens)
  <2>1. p \in Packets /\ p \notin ClsesTo(i)
    BY PacketFacts DEF WrtesTo, ClsesTo
  <2>2. Elements(c2) = Elements(c) \cup {p} /\ AtMostOne(c2, WrtesTo(i))
    <3>1. AtMostOne(c, WrtesTo(i))
      BY DEF Receives
    <3> QED
      BY <1>2, <2>1, <3>1, PushFacts
  <2>3. Has(c2, WrtesTo(i)) /\ ~Has(c2, ClsesTo(i)) /\ Elements(c2) \cap WrtesTo(i) = {p}
    BY <1>1, <2>1, <2>2 DEF Has
  <2> QED
    BY <1>2, <2>2, <2>3 DEF Receives
<1>3. ASSUME ~joined2, SameFor(c, c2, i)
      PROVE  Receives(s, i, c2, Append(to, d), got, far, joined2, opens)
  <2>1. ~Has(c2, ClsesTo(i)) /\ ~Has(c2, WrtesTo(i)) /\ AtMostOne(c2, WrtesTo(i))
    BY <1>1, <1>3 DEF SameFor, Alike, Receives
  <2> QED
    BY <1>3, <2>1 DEF Receives, Has
<1> QED
  BY <1>2, <1>3

\* A socket that is connected over a connection: A_CNXN was handled.
LEMMA Online ==
  ASSUME NEW v, Good(v), NEW e \in Procs, NEW i \in Ids, NEW k \in Ids, v.sock[e][i].peer = Remote(k),
         v.link \/ e = "device"
  PROVE  /\ v.state["device"] = "connected" /\ Cnxn \notin Elements(v.chan["device"])
         /\ e = "host" => k < v.next["device"]
         /\ e = "device" => i < v.next["device"]
<1>1. /\ e \in {"host", "device"} /\ "host" \in Procs /\ "device" \in Procs
      /\ NamesOK(v) /\ CnxnOK(v) /\ LinkOK(v, "device") /\ SocketsOK(v)
      /\ v.state["device"] \in {"offline", "connected"} /\ v.next["device"] \in Nat /\ IsRemote(v.sock[e][i].peer)
      /\ i \in Nat
  BY GoodFacts, ViewFacts DEF Procs, Sound, IsRemote, Ids
<1>2. v.state["device"] = "connected"
  BY <1>1 DEF LinkOK, CnxnOK
<1>3. Cnxn \notin Elements(v.chan["device"])
  BY <1>1, <1>2 DEF CnxnOK
<1>4. e = "host" => k < v.next["device"]
  BY <1>1, <1>2 DEF NamesOK
<1>5. ASSUME e = "device" PROVE i < v.next["device"]
  <2>1. v.sock["device"][i].st = "live"
    BY <1>5, Partner
  <2>2. ~(i >= v.next["device"])
    BY <1>1, <2>1 DEF SocketsOK
  <2> QED
    BY <1>1, <2>2
<1> QED
  BY <1>2, <1>3, <1>4, <1>5

\* A socket takes a packet from its program and sends it.
LEMMA SendGood ==
  ASSUME NEW v, NEW v2, Good(v), SameRest(v, v2), v2.next = v.next, v2.sock = v.sock,
         NEW e \in Procs, NEW i \in Ids, NEW k \in Ids, NEW d \in Data, NEW x, x = v.sock[e][i].end,
         v.sock[e][i].peer = Remote(k), "R" \notin v.sock[e][i].want, ~Has(v.chan[e], OkaysTo(i)),
         v.sent[x] = v.rcvd[FarOf(x)], SentMore(v, v2, x, d), v2.rcvd = v.rcvd, v2.fin = v.fin,
         v2.chan[e] = v.chan[e],
         v2.chan[Other(e)] = IF v.link THEN Append(v.chan[Other(e)], Wrte(i, k, d)) ELSE v.chan[Other(e)]
  PROVE  Carried(v2)
<1> DEFINE f == Other(e)
           p == Wrte(i, k, d)
           y == FarOf(x)
<1>1. /\ f \in Procs /\ f # e /\ \A g \in Procs : g = e \/ g = f
      /\ e \in {"host", "device"} /\ "host" \in Procs /\ "device" \in Procs
  BY ProcFacts DEF Procs
<1>1a. (e = "host" => f = "device") /\ (e = "device" => f = "host")
  BY ProcFacts
<1>2. /\ v.sock[e][i].st = "live" /\ x \in Ends /\ y \in Ends /\ y # x /\ FarOf(y) = x
      /\ e = "host" => i \in HostSide /\ x = Near(i)
      /\ e = "device" => k \in HostSide /\ x = Far(k)
      /\ v.sock[f][k].st = "live" => v.sock[f][k].end = y /\ ~IsLocal(v.sock[f][k].peer)
  BY Partner, EndFacts
<1>3. p \in Packets /\ p.cmd = "WRTE" /\ p.arg0 = i /\ p.arg1 = k /\ p.data = d
  BY SentPackets DEF Wrte
<1>4. \A m : p \in PacketsTo(m) => m = k
  BY <1>3 DEF PacketsTo, OkaysTo, WrtesTo, ClsesTo
<1>5. /\ v.fin[x] = "open" /\ \A g \in Procs, m \in Ids : RecvOK(v, g, m) /\ SendOK(v, g, m) /\ EndOK(v, g, m)
      /\ \A g \in Procs : v.chan[g] \in Seq(Packets) /\ \A q \in Elements(v.chan[g]) : q \in Packets
      /\ NamesOK(v) /\ CnxnOK(v) /\ OneEach(v)
      /\ \A z \in Ends : v.sent[z] \in Seq(Data) /\ v.rcvd[z] \in Seq(Data)
  <2>1. EndOK(v, e, i) /\ EndsOK(v)
    BY GoodFacts
  <2> QED
    BY <1>2, <2>1, GoodFacts DEF EndOK, EndsOK
<1>6. SameKinds(v, v2)
  BY DEF SameKinds, SameKind, SameRest
<1>7. DataOK(v2)
  BY <1>2, <1>5, SeenSent
<1>8. \A g \in Procs : /\ v2.chan[g] = v.chan[g] \/ (g = f /\ v.link /\ v2.chan[g] = Append(v.chan[g], p))
                       /\ v2.chan[g] = v.chan[g] \/ Elements(v2.chan[g]) = Elements(v.chan[g]) \cup {p}
                       /\ \A A : p \notin A /\ AtMostOne(v.chan[g], A) => AtMostOne(v2.chan[g], A)
  <2>1. \A g \in Procs : v2.chan[g] = v.chan[g] \/ (g = f /\ v.link /\ v2.chan[g] = Append(v.chan[g], p))
    BY <1>1
  <2> QED
    BY <1>3, <1>5, <2>1, PushFacts
<1> HIDE DEF f, p, y
<1>9. \A g \in Procs, m \in Ids : Joined(v2, g, m) = Joined(v, g, m) /\ Opens(v2, g, m) = Opens(v, g, m)
  <2>1. \A g \in Procs, m \in Ids : Joined(v2, g, m) = Joined(v, g, m)
    BY DEF Joined, SameRest
  <2>2. \A m : p \notin OpensOf(m)
    BY <1>3 DEF OpensOf
  <2>3. \A m \in Ids : Has(v2.chan["device"], OpensOf(m)) <=> Has(v.chan["device"], OpensOf(m))
    BY <1>1, <1>8, <2>2 DEF Has
  <2> QED
    BY <2>1, <2>3 DEF Opens
<1>10. \A g \in Procs, m \in Ids : v.sock[g][m].st = "live" /\ ~(g = f /\ m = k) => SameFor(v.chan[g], v2.chan[g], m)
  BY <1>3, <1>4, <1>5, <1>8, PushSame, SameSelf
<1>11. ASSUME NEW g \in Procs, NEW m \in Ids PROVE RecvOK(v2, g, m) /\ SendOK(v2, g, m)
  <2> DEFINE s == v.sock[g][m]
  <2>0. Used(v, g, m) => s.end \in Ends
    BY GoodFacts
  <2>1. CASE ~Used(v, g, m)
    BY <2>1, FlowUnused DEF Used
  <2>2. CASE Used(v, g, m) /\ s.end = x
    <3>1. g = e /\ m = i
      BY <1>2, <1>5, <2>2 DEF OneEach, Used
    <3>2. RecvOK(v, e, i) /\ SendOK(v, e, i)
      BY <1>5
    <3>3. RecvOK(v2, e, i)
      BY <1>2, <1>9, <3>2 DEF RecvOK, SentMore, y
    <3>4. SendOK(v2, e, i)
      BY <3>2 DEF SendOK, Sends
    <3> QED
      BY <3>1, <3>3, <3>4
  <2>3. CASE Used(v, g, m) /\ s.end = y
    <3>1. Receives(s, m, v.chan[g], v.sent[x], v.rcvd[y], v.fin[x], Joined(v, g, m), Opens(v, g, m))
      BY <1>2, <1>5, <2>3 DEF RecvOK
    <3>2. s.pkts = <<>> /\ (s.st = "live" => ~Has(v.chan[g], WrtesTo(m)))
      BY <1>2, <1>5, <2>3, <3>1, NothingUnderWay DEF EndOK, Used, y
    <3>3. CASE s.st = "closing"
      <4>1. RecvOK(v2, g, m)
        BY <1>2, <1>5, <2>3, <3>1, <3>2, <3>3 DEF RecvOK, Receives
      <4>2. SendOK(v2, g, m)
        BY <3>3 DEF SendOK, Sends
      <4> QED
        BY <4>1, <4>2
    <3>4. CASE s.st = "live"
      <4>3. /\ g = f /\ ~IsLocal(s.peer)
            /\ m = k \/ (~Joined(v, g, m) /\ v.sock[f][k].st # "live")
        BY <2>3, <3>2, <3>4, FarSocket DEF f, y
      <4>4. \/ \E q \in WrtesTo(m) : q.data = d /\ v2.chan[g] = Append(v.chan[g], q)
            \/ ~Joined(v2, g, m) /\ SameFor(v.chan[g], v2.chan[g], m)
        <5>1. CASE m = k /\ v.link
          <6>1. p \in WrtesTo(m) /\ v2.chan[g] = Append(v.chan[g], p)
            BY <1>3, <4>3, <5>1 DEF WrtesTo, f, p
          <6> QED
            BY <1>3, <6>1
        <5>2. CASE m # k
          BY <1>9, <1>10, <3>2, <3>4, <4>3, <5>2
        <5>3. CASE ~v.link
          <6>1. v2.chan[g] = v.chan[g] /\ ~Joined(v2, g, m)
            BY <1>8, <1>9, <5>3 DEF Joined
          <6> QED
            BY <6>1, SameSelf
        <5> QED
          BY <5>1, <5>2, <5>3
      <4>5. Receives(s, m, v2.chan[g], Append(v.sent[x], d), v.rcvd[y], v.fin[x], Joined(v2, g, m), Opens(v, g, m))
        BY <1>2, <1>5, <3>1, <3>2, <3>4, <4>3, <4>4, ReceivesSent DEF y
      <4>6. RecvOK(v2, g, m)
        BY <1>2, <1>9, <2>3, <4>5 DEF RecvOK, SentMore
      <4>7. SendOK(v2, g, m)
        <5>1. Sends(s, m, v.chan[g], v.sent[y], v.rcvd[x])
          BY <1>2, <1>5, <2>3 DEF SendOK
        <5>2. Sends(s, m, v2.chan[g], v.sent[y], v.rcvd[x])
          <6>1. p \notin OkaysTo(m)
            BY <1>3 DEF OkaysTo
          <6>2. CASE v2.chan[g] = v.chan[g]
            BY <5>1, <6>2
          <6>3. CASE v2.chan[g] = Append(v.chan[g], p)
            BY <1>3, <1>5, <5>1, <6>1, <6>3, SendsPush
          <6> QED
            BY <1>8, <6>2, <6>3
        <5> QED
          BY <1>2, <2>3, <5>2 DEF SendOK, SentMore
      <4> QED
        BY <4>6, <4>7
    <3> QED
      BY <2>3, <3>3, <3>4 DEF Used
  <2>4. CASE Used(v, g, m) /\ s.end # x /\ s.end # y
    <3>1. FarOf(s.end) # x /\ FarOf(s.end) \in Ends
      BY <2>0, <2>4, EndFacts DEF y
    <3>2. ~(g = f /\ m = k /\ s.st = "live")
      BY <1>2, <2>4
    <3>3. Alone(v, v2, g, m)
      BY <1>9, <1>10, <2>0, <2>4, <3>1, <3>2 DEF Alone, Steady, SameData, SentMore
    <3> QED
      BY <1>5, <3>3, FlowAlone
  <2> QED
    BY <2>1, <2>2, <2>3, <2>4
<1>12. NamesOK(v2) /\ CnxnOK(v2)
  <2>1. CASE ~v.link
    <3>1. \A g \in Procs : v2.chan[g] = v.chan[g]
      BY <1>8, <2>1
    <3> QED
      BY <1>1, <1>6, <3>1, SameNames
  <2>2. CASE v.link
    <3>1. /\ v.state["device"] = "connected" /\ Cnxn \notin Elements(v.chan["device"])
          /\ e = "host" => k < v.next["device"]
          /\ e = "device" => i < v.next["device"]
      BY <2>2, Online
    <3>2. f = "host" => ToHostOK(v2, p)
      BY <1>1, <1>1a, <1>2, <1>3, <1>5, <3>1 DEF ToHostOK
    <3>3. f = "device" => ToDeviceOK(v2, p)
      BY <1>1, <1>1a, <1>2, <1>3, <1>5, <3>1 DEF ToDeviceOK, NamesOK
    <3>4. /\ \A q \in Elements(v2.chan["host"]) : q \in Elements(v.chan["host"]) \/ ToHostOK(v2, q)
          /\ \A q \in Elements(v2.chan["device"]) : q \in Elements(v.chan["device"]) \/ ToDeviceOK(v2, q)
      BY <1>1, <1>8, <3>2, <3>3
    <3>5. /\ \A j \in Ids : AtMostOne(v2.chan["device"], OpensOf(j))
          /\ AtMostOne(v2.chan["device"], {Cnxn})
      BY <1>1, <1>3, <1>5, <1>8, PacketFacts DEF NamesOK, CnxnOK, OpensOf
    <3>6. \A q \in Elements(v.chan["host"]) \cup Elements(v.chan["device"]) : q \in Packets
      BY GoodFacts
    <3>7. NamesOK(v2)
      BY <1>5, <3>4, <3>5, <3>6, NamesLess DEF SameRest, Known
    <3>8. Cnxn \notin Elements(v2.chan["device"])
      BY <1>1, <1>3, <1>8, <3>1, PacketFacts
    <3>9. CnxnOK(v2)
      BY <1>5, <3>1, <3>5, <3>8 DEF CnxnOK, SameRest
    <3> QED
      BY <3>7, <3>9
  <2> QED
    BY <2>1, <2>2
<1>13. \A j \in Ids : v.sock["host"][j].st = "live" /\ v.sock["host"][j].peer \in {None, Smart} =>
         v2.sent[Near(j)] = v.sent[Near(j)]
  <2>1. v.sock[e][i].peer \notin {None, Smart}
    BY PeerKinds
  <2>2. \A j \in Ids : v.sock["host"][j].st = "live" /\ v.sock["host"][j].peer \in {None, Smart} =>
          Near(j) # x /\ Near(j) \in Ends
    BY <1>2, <2>1, NotFresh
  <2> QED
    BY <2>2 DEF SentMore
<1>14. \A g \in Procs, m \in Ids :
         v2.sock[g][m].pkts # <<>> => \E dd \in Data : v2.sock[g][m].pkts = <<dd>>
  BY <1>5 DEF EndOK
<1> QED
  BY <1>6, <1>7, <1>11, <1>12, <1>13, <1>14, MovesKeep

\* Nothing in the channels is for a socket whose peer is in its own process.
LEMMA LocalQuiet ==
  ASSUME NEW v, Good(v), NEW i \in Ids, v.sock["host"][i].st = "live", IsLocal(v.sock["host"][i].peer)
  PROVE  /\ ~Has(v.chan["host"], OkaysTo(i)) /\ ~Has(v.chan["host"], WrtesTo(i))
         /\ ~Has(v.chan["host"], ClsesTo(i)) /\ ~Opens(v, "host", i)
<1>1. ~Known(v, i)
  BY GoodFacts DEF SocketOK, LiveOK, Known, Procs
<1>2. KnownOK(v) /\ NamesOK(v)
  BY GoodFacts DEF Sound
<1>3. \A p \in Elements(v.chan["host"]) : p.cmd \in {"OKAY", "WRTE", "CLSE"} => p.arg1 # i
  BY <1>1, <1>2 DEF KnownOK, NamesOK, ToHostOK
<1>4. \A p \in Elements(v.chan["device"]) : p.cmd = "OPEN" => p.arg0 # i
  BY <1>1, <1>2 DEF KnownOK
<1> QED
  BY <1>3, <1>4 DEF Has, OkaysTo, WrtesTo, ClsesTo, Opens, OpensOf

\* A service of the host gets what its client sent, or keeps it for later.
TookQueue(v, v2, i, m, d) ==
  /\ "R" \notin v.sock["host"][i].want /\ v2.rcvd = v.rcvd
  /\ v2.sock["host"][m].pkts = <<d>> /\ v2.sock["host"][m].why = v.sock["host"][m].why
  /\ "R" \in v2.sock["host"][m].want => "R" \in v.sock["host"][m].want
TookNow(v, v2, i, m, d) ==
  /\ v2.sock["host"][m] = v.sock["host"][m]
  /\ v2.rcvd[v.sock["host"][m].end] = Append(v.rcvd[v.sock["host"][m].end], d)
  /\ \A y \in Ends : y # v.sock["host"][m].end => v2.rcvd[y] = v.rcvd[y]

\* Two sockets of the host that are each other's peers.
LEMMA PairFacts ==
  ASSUME NEW v, Good(v), NEW i \in Ids, NEW m \in Ids, v.sock["host"][i].peer = Local(m)
  PROVE  /\ v.sock["host"][i].st = "live" /\ v.sock["host"][m].st = "live" /\ i # m
         /\ v.sock["host"][m].peer = Local(i)
         /\ IsLocal(v.sock["host"][i].peer) /\ IsLocal(v.sock["host"][m].peer)
         /\ v.sock["host"][i].end \in Ends /\ v.sock["host"][m].end \in Ends
         /\ v.sock["host"][m].end = FarOf(v.sock["host"][i].end)
         /\ v.sock["host"][i].end = FarOf(v.sock["host"][m].end)
<1>1. i # m /\ v.sock["host"][m].peer = Local(i) /\ v.sock["host"][m].end = FarOf(v.sock["host"][i].end)
  BY GoodFacts DEF Sound, PairsOK, EndsOK, PairEnds
<1>2. v.sock["host"][i].st = "live" /\ v.sock["host"][m].st = "live"
  BY <1>1, GoodFacts, PeerKinds DEF SocketOK, Procs
<1>3. v.sock["host"][i].end \in Ends /\ v.sock["host"][m].end \in Ends
  BY <1>2, GoodFacts DEF Used, Procs
<1> QED
  BY <1>1, <1>2, <1>3, EndFacts DEF IsLocal

\* A client and a service of the host: a packet is taken from one for the other.
LEMMA TakeGood ==
  ASSUME NEW v, NEW v2, Good(v), SameKinds(v, v2), v2.chan = v.chan,
         NEW i \in Ids, NEW m \in Ids, NEW d \in Data, v.sock["host"][i].peer = Local(m),
         \A f \in Procs, k \in Ids : f = "device" \/ k # m => v2.sock[f][k] = v.sock[f][k],
         v.sent[v.sock["host"][i].end] = v.rcvd[v.sock["host"][m].end],
         SentMore(v, v2, v.sock["host"][i].end, d),
         TookQueue(v, v2, i, m, d) \/ TookNow(v, v2, i, m, d)
  PROVE  Carried(v2)
<1> DEFINE x == v.sock["host"][i].end
           y == v.sock["host"][m].end
<1>1. /\ v.sock["host"][i].st = "live" /\ v.sock["host"][m].st = "live" /\ i # m
      /\ IsLocal(v.sock["host"][i].peer) /\ IsLocal(v.sock["host"][m].peer)
      /\ x \in Ends /\ y \in Ends /\ y = FarOf(x) /\ x = FarOf(y) /\ x # y
      /\ Used(v, "host", i) /\ Used(v, "host", m)
  BY PairFacts, EndFacts DEF Used
<1>2. /\ "host" \in Procs /\ "device" \in Procs /\ OneEach(v)
      /\ \A g \in Procs, k \in Ids : RecvOK(v, g, k) /\ SendOK(v, g, k) /\ EndOK(v, g, k)
      /\ \A g \in Procs : v.chan[g] \in Seq(Packets) /\ \A q \in Elements(v.chan[g]) : q \in Packets
      /\ \A z \in Ends : v.sent[z] \in Seq(Data) /\ v.rcvd[z] \in Seq(Data) /\ SeenOK(v, z)
      /\ v2.fin = v.fin /\ v2.link = v.link
      /\ \A g \in Procs, k \in Ids : v2.sock[g][k].st = v.sock[g][k].st /\ v2.sock[g][k].peer = v.sock[g][k].peer
                                     /\ v2.sock[g][k].end = v.sock[g][k].end
  BY GoodFacts DEF Procs, EndsOK, SameKinds, SameKind
<1>3. /\ v.fin[x] = "open" /\ ~Has(v.chan["host"], OkaysTo(i))
      /\ ~Has(v.chan["host"], WrtesTo(m)) /\ ~Has(v.chan["host"], ClsesTo(m))
  BY <1>1, <1>2, LocalQuiet DEF EndOK
<1>4. v.sock["host"][m].pkts = <<>>
  <2>1. Receives(v.sock["host"][m], m, v.chan["host"], v.sent[x], v.rcvd[y], v.fin[x], Joined(v, "host", m),
                 Opens(v, "host", m))
    BY <1>1, <1>2 DEF RecvOK
  <2> QED
    BY <1>1, <1>2, <2>1, NothingUnderWay DEF EndOK
<1>5. \A g \in Procs, k \in Ids : Joined(v2, g, k) = Joined(v, g, k) /\ Opens(v2, g, k) = Opens(v, g, k)
  BY <1>2, ProcFacts DEF Joined, Opens
<1>6. v2.sent[x] = Append(v.sent[x], d) /\ \A z \in Ends : z # x => v2.sent[z] = v.sent[z]
  BY DEF SentMore
<1>7. \A z \in Ends : z # y => v2.rcvd[z] = v.rcvd[z]
  BY DEF TookQueue, TookNow
<1>8. \/ TookQueue(v, v2, i, m, d) /\ v2.rcvd[y] = v.rcvd[y]
      \/ TookNow(v, v2, i, m, d) /\ v2.rcvd[y] = v2.sent[x]
  BY <1>6 DEF TookQueue, TookNow
<1> HIDE DEF x, y
<1>9. DataOK(v2)
  <2> SUFFICES ASSUME NEW z \in Ends PROVE SeenOK(v2, z)
    BY DEF DataOK
  <2>1. SeenOK(v, z) /\ FarOf(z) \in Ends /\ FarOf(z) # z /\ FarOf(FarOf(z)) = z
    BY <1>2, EndFacts
  <2>2. CASE z # x /\ z # y
    <3>1. FarOf(z) # x
      BY <1>1, <2>1, <2>2
    <3> QED
      BY <1>2, <1>6, <1>7, <2>1, <2>2, <3>1 DEF SeenOK
  <2>3. CASE z = x
    BY <1>1, <1>2, <1>3, <1>6, <1>7, <2>1, <2>3 DEF SeenOK
  <2>4. CASE z = y
    <3>1. v2.fin[y] \notin {"none", "peer"}
      BY <1>1, <1>2 DEF EndOK, y
    <3>2. v2.rcvd[y] = v2.sent[x] \/ v2.sent[x] = Append(v2.rcvd[y], d)
      BY <1>6, <1>8 DEF x, y
    <3> QED
      BY <1>1, <2>4, <3>1, <3>2 DEF SeenOK
  <2> QED
    BY <2>2, <2>3, <2>4
<1>10. ASSUME NEW g \in Procs, NEW k \in Ids PROVE RecvOK(v2, g, k) /\ SendOK(v2, g, k)
  <2>0. Used(v, g, k) => v.sock[g][k].end \in Ends
    BY GoodFacts
  <2>1. CASE ~Used(v, g, k)
    BY <1>2, <2>1, FlowUnused DEF Used
  <2>2. CASE Used(v, g, k) /\ v.sock[g][k].end = x
    <3>1. g = "host" /\ k = i
      BY <1>1, <1>2, <2>2 DEF OneEach, x
    <3>2. v2.sock["host"][i] = v.sock["host"][i]
      BY <1>1, <1>2
    <3>3. RecvOK(v, "host", i) /\ SendOK(v, "host", i)
      BY <1>2
    <3>3a. /\ v2.sent[y] = v.sent[y] /\ v2.rcvd[x] = v.rcvd[x] /\ v2.fin[y] = v.fin[y]
           /\ Joined(v2, "host", i) = Joined(v, "host", i) /\ Opens(v2, "host", i) = Opens(v, "host", i)
           /\ v2.chan["host"] = v.chan["host"] /\ v.sock["host"][i].end = x /\ FarOf(x) = y
      BY <1>1, <1>2, <1>5, <1>6, <1>7, <2>2, <3>1
    <3>4. RecvOK(v2, "host", i)
      BY <3>2, <3>3, <3>3a DEF RecvOK
    <3>5. SendOK(v2, "host", i)
      <4>1. CASE TookQueue(v, v2, i, m, d)
        BY <1>1, <1>3, <3>2, <3>3, <4>1 DEF SendOK, Sends, TookQueue
      <4>2. CASE v2.rcvd[y] = v2.sent[x]
        BY <1>1, <1>3, <2>2, <3>1, <3>2, <3>3, <4>2 DEF SendOK, Sends
      <4> QED
        BY <1>8, <4>1, <4>2
    <3> QED
      BY <3>1, <3>4, <3>5
  <2>3. CASE Used(v, g, k) /\ v.sock[g][k].end = y
    <3>1. g = "host" /\ k = m
      BY <1>1, <1>2, <2>3 DEF OneEach, y
    <3> DEFINE s == v.sock["host"][m]
               t == v2.sock["host"][m]
    <3>2. RecvOK(v, "host", m) /\ SendOK(v, "host", m) /\ t.st = "live" /\ t.peer = s.peer /\ t.end = y
      BY <1>1, <1>2, <2>3, <3>1
    <3>3. "R" \in t.want => "R" \in s.want
      BY DEF TookQueue, TookNow
    <3>3a. /\ v2.sent[y] = v.sent[y] /\ v2.rcvd[x] = v.rcvd[x] /\ v2.chan["host"] = v.chan["host"]
           /\ s.end = y /\ FarOf(y) = x /\ s.st = "live"
      BY <1>1, <1>6, <1>7, <2>3, <3>1
    <3>4. SendOK(v2, "host", m)
      BY <3>2, <3>3, <3>3a DEF SendOK, Sends
    <3>5. AtMostOne(v.chan["host"], WrtesTo(m))
      BY <1>1, <3>2 DEF RecvOK, Receives
    <3>6. Receives(t, m, v2.chan["host"], v2.sent[x], v2.rcvd[y], v2.fin[x], Joined(v2, "host", m), Opens(v2, "host", m))
      <4>1. CASE TookQueue(v, v2, i, m, d)
        <5>0. v.sent[x] \in Seq(Data) /\ v2.sent[x] = Append(v.sent[x], d) /\ v2.rcvd[y] = v.sent[x] /\ t.pkts = <<d>>
          BY <1>1, <1>2, <1>6, <4>1 DEF TookQueue, x, y
        <5>1. t.pkts = <<d>> /\ t.pkts # <<>> /\ v2.sent[x] = v2.rcvd[y] \o <<d>>
          BY <5>0, Longer
        <5> QED
          BY <1>3, <3>2, <3>5, <5>1 DEF Receives, Has
      <4>2. CASE TookNow(v, v2, i, m, d) /\ v2.rcvd[y] = v2.sent[x]
        <5>1. t.pkts = <<>>
          BY <1>4, <4>2 DEF TookNow
        <5> QED
          BY <1>3, <3>2, <3>5, <4>2, <5>1 DEF Receives, Has
      <4> QED
        BY <1>8, <4>1, <4>2
    <3>7. RecvOK(v2, "host", m)
      BY <1>1, <3>2, <3>6 DEF RecvOK
    <3> QED
      BY <3>1, <3>4, <3>7
  <2>4. CASE Used(v, g, k) /\ v.sock[g][k].end # x /\ v.sock[g][k].end # y
    <3>1. FarOf(v.sock[g][k].end) \in Ends \ {x, y}
      BY <1>1, <2>0, <2>4, EndFacts
    <3>2. v2.sock[g][k] = v.sock[g][k]
      <4>1. ~(g = "host" /\ k = m)
        BY <2>4 DEF y
      <4> QED
        BY <4>1 DEF Procs
    <3>3. Alone(v, v2, g, k)
      BY <1>2, <1>5, <1>6, <1>7, <2>0, <2>4, <3>1, <3>2, SameSelf DEF Alone, Steady, SameData
    <3> QED
      BY <1>2, <3>3, FlowAlone
  <2> QED
    BY <2>1, <2>2, <2>3, <2>4
<1>11. NamesOK(v2) /\ CnxnOK(v2)
  BY SameNames
<1>12. \A g \in Procs, k \in Ids : v2.sock[g][k].pkts # <<>> => \E dd \in Data : v2.sock[g][k].pkts = <<dd>>
  <2>1. v2.sock["host"][m].pkts = <<d>> \/ v2.sock["host"][m] = v.sock["host"][m]
    BY DEF TookQueue, TookNow
  <2>2. \A g \in Procs, k \in Ids : v2.sock[g][k] = v.sock[g][k] \/ v2.sock[g][k].pkts = <<d>>
    BY <2>1 DEF Procs
  <2> QED
    BY <1>2, <2>2 DEF EndOK
<1>13. \A j \in Ids : v.sock["host"][j].st = "live" /\ v.sock["host"][j].peer \in {None, Smart} =>
         v2.sent[Near(j)] = v.sent[Near(j)]
  <2>1. v.sock["host"][i].peer \notin {None, Smart}
    BY PeerKinds
  <2>2. \A j \in Ids : v.sock["host"][j].st = "live" /\ v.sock["host"][j].peer \in {None, Smart} =>
          Near(j) # x /\ Near(j) \in Ends
    BY <1>1, <1>2, <2>1, NotFresh DEF x
  <2> QED
    BY <1>6, <2>2
<1> QED
  BY <1>9, <1>10, <1>11, <1>12, <1>13, MovesKeep

Drains(v, v2, x, q) == v2.rcvd[x] = v.rcvd[x] \o q /\ \A y \in Ends : y # x => v2.rcvd[y] = v.rcvd[y]

\* The queue of a socket is written to its program.
LEMMA DrainGood ==
  ASSUME NEW v, NEW v2, Good(v), SameKinds(v, v2), v2.chan = v.chan, v2.sent = v.sent,
         NEW e \in Procs, NEW i \in Ids, NEW t, OneSocket(v, v2, e, i, t), Used(v, e, i),
         t.pkts = <<>>, t.why = v.sock[e][i].why, "R" \in t.want => "R" \in v.sock[e][i].want,
         v.sock[e][i].pkts # <<>>,
         Drains(v, v2, v.sock[e][i].end, v.sock[e][i].pkts)
  PROVE  Carried(v2) /\ v2.rcvd[v.sock[e][i].end] = v2.sent[FarOf(v.sock[e][i].end)]
<1> DEFINE s == v.sock[e][i]
           x == s.end
           y == FarOf(x)
<1>1. /\ x \in Ends /\ y \in Ends /\ y # x /\ FarOf(y) = x
      /\ \A g \in Procs, k \in Ids : RecvOK(v, g, k) /\ SendOK(v, g, k) /\ EndOK(v, g, k)
      /\ \A g \in Procs, k \in Ids : Used(v, g, k) => v.sock[g][k].end \in Ends
      /\ \A z \in Ends : v.sent[z] \in Seq(Data) /\ v.rcvd[z] \in Seq(Data) /\ SeenOK(v, z)
      /\ OneEach(v) /\ v \in Views
  BY GoodFacts, EndFacts DEF EndsOK
<1>2. v.rcvd \in [Ends -> Seq(Data)]
  BY <1>1, ViewFacts
<1>3. /\ v2.sock[e][i] = t /\ v2.fin = v.fin /\ v2.link = v.link
      /\ \A g \in Procs, k \in Ids : g # e \/ k # i => v2.sock[g][k] = v.sock[g][k]
      /\ \A g \in Procs, k \in Ids : v2.sock[g][k].st = v.sock[g][k].st /\ v2.sock[g][k].peer = v.sock[g][k].peer
                                     /\ v2.sock[g][k].end = v.sock[g][k].end
  BY DEF OneSocket, SameKinds, SameKind
<1>4. /\ Receives(s, i, v.chan[e], v.sent[y], v.rcvd[x], v.fin[y], Joined(v, e, i), Opens(v, e, i))
      /\ Sends(s, i, v.chan[e], v.sent[x], v.rcvd[y])
  BY <1>1 DEF RecvOK, SendOK
<1>5. PICK d \in Data : s.pkts = <<d>>
  BY <1>1 DEF EndOK
<1>6. v.sent[y] = v.rcvd[x] \o s.pkts /\ v.sent[y] = Append(v.rcvd[x], d)
  <2>1. v.sent[y] = v.rcvd[x] \o s.pkts
    BY <1>4 DEF Receives, Used
  <2>2. v.rcvd[x] \in Seq(Data)
    BY <1>1
  <2> HIDE DEF s, x, y
  <2>3. v.rcvd[x] \o <<d>> = Append(v.rcvd[x], d)
    BY <2>2, Longer
  <2> QED
    BY <1>5, <2>1, <2>3
<1>7. v2.rcvd[x] = v.sent[y] /\ \A z \in Ends : z # x => v2.rcvd[z] = v.rcvd[z]
  BY <1>1, <1>2, <1>6 DEF Drains
<1>8. v.fin[x] \in {"open", "ending"} /\ v.fin[y] # "none"
  <2>0. v.rcvd[x] \in Seq(Data)
    BY <1>1
  <2>1. v.sent[y] # <<>>
    <3> HIDE DEF s, x, y
    <3> QED
      BY <1>6, <2>0, Longer
  <2> QED
    BY <1>1, <2>1 DEF EndOK, Used, SeenOK
<1>9. \A g \in Procs, k \in Ids : Joined(v2, g, k) = Joined(v, g, k) /\ Opens(v2, g, k) = Opens(v, g, k)
  BY <1>3, ProcFacts DEF Joined, Opens
<1>10. t.st = s.st /\ t.peer = s.peer /\ t.end = x /\ s.st \in {"live", "closing"}
  BY <1>3 DEF Used
<1> HIDE DEF s, x, y
<1>11. DataOK(v2)
  <2> SUFFICES ASSUME NEW z \in Ends PROVE SeenOK(v2, z)
    BY DEF DataOK
  <2>1. SeenOK(v, z) /\ FarOf(z) \in Ends
    BY <1>1, EndFacts
  <2>2. CASE z # x
    BY <1>3, <1>7, <2>1, <2>2 DEF SeenOK
  <2>3. CASE z = x
    BY <1>3, <1>7, <1>8, <2>3 DEF SeenOK, y
  <2> QED
    BY <2>2, <2>3
<1>12. ASSUME NEW g \in Procs, NEW k \in Ids PROVE RecvOK(v2, g, k) /\ SendOK(v2, g, k)
  <2>1. CASE ~Used(v, g, k)
    BY <1>3, <2>1, FlowUnused DEF Used
  <2>2. CASE g = e /\ k = i
    <3>1. Receives(t, i, v.chan[e], v.sent[y], v.sent[y], v.fin[y], Joined(v, e, i), Opens(v, e, i))
      <4>1. s.st = "live" => ~Has(v.chan[e], WrtesTo(i))
        BY <1>4 DEF Receives, Has, s
      <4> QED
        BY <1>4, <1>8, <1>10, <4>1 DEF Receives, Has, s
    <3>2. RecvOK(v2, e, i)
      BY <1>3, <1>7, <1>9, <1>10, <3>1 DEF RecvOK, y
    <3>3. Sends(t, i, v.chan[e], v.sent[x], v.rcvd[y])
      BY <1>4, <1>10 DEF Sends, s
    <3>4. SendOK(v2, e, i)
      BY <1>1, <1>3, <1>7, <1>10, <3>3 DEF SendOK, y
    <3> QED
      BY <2>2, <3>2, <3>4
  <2>3. CASE Used(v, g, k) /\ ~(g = e /\ k = i) /\ v.sock[g][k].end = y
    <3>1. v2.sock[g][k] = v.sock[g][k]
      BY <1>3, <2>3
    <3>2. /\ Receives(v.sock[g][k], k, v.chan[g], v.sent[x], v.rcvd[y], v.fin[x], Joined(v, g, k), Opens(v, g, k))
          /\ Sends(v.sock[g][k], k, v.chan[g], v.sent[y], v.rcvd[x])
      BY <1>1, <2>3 DEF RecvOK, SendOK
    <3>3. RecvOK(v2, g, k)
      BY <1>1, <1>3, <1>7, <1>9, <2>3, <3>1, <3>2 DEF RecvOK
    <3>4. Sends(v.sock[g][k], k, v.chan[g], v.sent[y], v.sent[y])
      BY <3>2 DEF Sends
    <3>5. SendOK(v2, g, k)
      BY <1>1, <1>7, <2>3, <3>1, <3>4 DEF SendOK
    <3> QED
      BY <3>3, <3>5
  <2>4. CASE Used(v, g, k) /\ ~(g = e /\ k = i) /\ v.sock[g][k].end # y
    <3>1. v.sock[g][k].end \in Ends /\ v.sock[g][k].end # x
      BY <1>1, <2>4 DEF OneEach, x, s
    <3>2. FarOf(v.sock[g][k].end) \in Ends /\ FarOf(v.sock[g][k].end) # x
      BY <2>4, <3>1, EndFacts DEF y
    <3>3. Alone(v, v2, g, k)
      BY <1>3, <1>7, <1>9, <2>4, <3>1, <3>2, SameSelf DEF Alone, Steady, SameData
    <3> QED
      BY <1>1, <3>3, FlowAlone
  <2> QED
    BY <2>1, <2>2, <2>3, <2>4
<1>13. NamesOK(v2) /\ CnxnOK(v2)
  BY SameNames
<1>14. \A g \in Procs, k \in Ids : v2.sock[g][k].pkts # <<>> => \E dd \in Data : v2.sock[g][k].pkts = <<dd>>
  <2>1. \A g \in Procs, k \in Ids : v2.sock[g][k].pkts # <<>> => v2.sock[g][k] = v.sock[g][k]
    BY <1>3
  <2> QED
    BY <1>1, <2>1 DEF EndOK
<1> QED
  BY <1>7, <1>11, <1>12, <1>13, <1>14, MovesKeep DEF x, y, s

\* The other end of a stream waits while a packet is under way.
LEMMA Blocked ==
  ASSUME NEW v, Good(v), NEW e \in Procs, NEW i \in Ids, NEW k \in Ids, v.sock[e][i].peer = Remote(k),
         v.sent[FarOf(v.sock[e][i].end)] # v.rcvd[v.sock[e][i].end], v.sock[Other(e)][k].st = "live"
  PROVE  "R" \notin v.sock[Other(e)][k].want /\ ~Has(v.chan[Other(e)], OkaysTo(k))
<1> DEFINE u == v.sock[Other(e)][k]
<1>1. u.end = FarOf(v.sock[e][i].end) /\ ~IsLocal(u.peer) /\ v.sock[e][i].end \in Ends /\ Other(e) \in Procs
  BY Partner, ProcFacts
<1>2. FarOf(u.end) = v.sock[e][i].end
  BY <1>1, EndFacts
<1>3. Sends(u, k, v.chan[Other(e)], v.sent[u.end], v.rcvd[v.sock[e][i].end])
  <2>1. SendOK(v, Other(e), k)
    BY <1>1, GoodFacts
  <2> QED
    BY <1>2, <2>1 DEF SendOK
<1>4. ~Has(v.chan[Other(e)], OkaysTo(k)) /\ ("R" \in u.want => u.peer \in {None, Smart})
  BY <1>1, <1>3 DEF Sends
<1>5. SocketOK(Other(e), u)
  BY <1>1, GoodFacts
<1>6. u.peer # Smart
  <2>1. CASE Other(e) = "device"
    BY <1>5, <2>1, PeerKinds DEF SocketOK, LiveOK, IsRemote
  <2>2. CASE Other(e) = "host"
    <3>1. e = "device"
      BY <2>2, ProcFacts
    <3>2. Known(v, k)
      BY <3>1, GoodFacts DEF Sound, KnownOK
    <3> QED
      BY <1>5, <2>2, <3>2 DEF Known, SocketOK, LiveOK
  <2> QED
    BY <1>1, <2>1, <2>2 DEF Procs
<1> QED
  BY <1>4, <1>5, <1>6 DEF SocketOK, LiveOK

\* A socket is read again, when all it sent has arrived.
LEMMA StartGood ==
  ASSUME NEW v, NEW v2, Good(v), SameKinds(v, v2), v2.chan = v.chan, v2.sent = v.sent, v2.rcvd = v.rcvd,
         NEW i \in Ids, NEW t, OneSocket(v, v2, "host", i, t),
         v.sock["host"][i].st = "live", IsLocal(v.sock["host"][i].peer),
         t.pkts = v.sock["host"][i].pkts, t.why = v.sock["host"][i].why,
         v.sent[v.sock["host"][i].end] = v.rcvd[FarOf(v.sock["host"][i].end)]
  PROVE  Carried(v2)
<1> DEFINE s == v.sock["host"][i]
<1>1. /\ \A g \in Procs, k \in Ids : RecvOK(v, g, k) /\ SendOK(v, g, k) /\ EndOK(v, g, k)
      /\ DataOK(v) /\ "host" \in Procs
  BY GoodFacts DEF Procs
<1>2. /\ v2.sock["host"][i] = t /\ v2.fin = v.fin /\ v2.link = v.link
      /\ \A g \in Procs, k \in Ids : g # "host" \/ k # i => v2.sock[g][k] = v.sock[g][k]
      /\ \A g \in Procs, k \in Ids : v2.sock[g][k].st = v.sock[g][k].st /\ v2.sock[g][k].peer = v.sock[g][k].peer
                                     /\ v2.sock[g][k].end = v.sock[g][k].end
                                     /\ v2.sock[g][k].pkts = v.sock[g][k].pkts
  BY DEF OneSocket, SameKinds, SameKind
<1>3. \A g \in Procs, k \in Ids : Joined(v2, g, k) = Joined(v, g, k) /\ Opens(v2, g, k) = Opens(v, g, k)
  BY <1>2, ProcFacts DEF Joined, Opens
<1>4. ~Has(v.chan["host"], OkaysTo(i))
  BY LocalQuiet
<1>5. t.st = "live" /\ t.peer = s.peer /\ t.end = s.end
  BY <1>1, <1>2
<1>6. DataOK(v2)
  BY <1>1, <1>2 DEF DataOK, SeenOK
<1>7. ASSUME NEW g \in Procs, NEW k \in Ids PROVE RecvOK(v2, g, k) /\ SendOK(v2, g, k)
  <2>1. CASE g = "host" /\ k = i
    <3>1. /\ Receives(s, i, v.chan["host"], v.sent[FarOf(s.end)], v.rcvd[s.end], v.fin[FarOf(s.end)],
                   Joined(v, "host", i), Opens(v, "host", i))
          /\ Sends(s, i, v.chan["host"], v.sent[s.end], v.rcvd[FarOf(s.end)])
      BY <1>1 DEF RecvOK, SendOK
    <3>2. Receives(t, i, v.chan["host"], v.sent[FarOf(s.end)], v.rcvd[s.end], v.fin[FarOf(s.end)],
                   Joined(v, "host", i), Opens(v, "host", i))
      BY <1>5, <3>1 DEF Receives
    <3>3. Sends(t, i, v.chan["host"], v.sent[s.end], v.rcvd[FarOf(s.end)])
      BY <1>4, <1>5, <3>1 DEF Sends
    <3> QED
      BY <1>2, <1>3, <1>5, <2>1, <3>2, <3>3 DEF RecvOK, SendOK
  <2>2. CASE ~(g = "host" /\ k = i)
    <3>1. Alone(v, v2, g, k)
      BY <1>2, <1>3, <2>2, SameSelf DEF Alone, Steady, SameData
    <3> QED
      BY <1>1, <3>1, FlowAlone
  <2> QED
    BY <2>1, <2>2
<1>8. NamesOK(v2) /\ CnxnOK(v2)
  BY SameNames
<1>9. \A g \in Procs, k \in Ids : v2.sock[g][k].pkts # <<>> => \E dd \in Data : v2.sock[g][k].pkts = <<dd>>
  BY <1>1, <1>2 DEF EndOK
<1> QED
  BY <1>6, <1>7, <1>8, <1>9, MovesKeep

\* A packet for socket i is taken.
TakesHead(v, v2, e, i) ==
  /\ v.chan[e] # <<>> /\ Head(v.chan[e]).cmd \in {"OKAY", "WRTE"} /\ Head(v.chan[e]).arg1 = i
  /\ v2.chan[e] = Tail(v.chan[e]) /\ v2.chan[Other(e)] = v.chan[Other(e)]

\* The other sockets are told the same as before.
LEMMA HeadTaken ==
  ASSUME NEW v, NEW v2, Good(v), NEW e \in Procs, NEW i \in Ids, TakesHead(v, v2, e, i)
  PROVE  /\ \A f \in Procs : /\ Elements(v2.chan[f]) \subseteq Elements(v.chan[f])
                             /\ \A A : AtMostOne(v.chan[f], A) => AtMostOne(v2.chan[f], A)
         /\ Cnxn \in Elements(v.chan["device"]) => Cnxn \in Elements(v2.chan["device"])
         /\ \A g \in Procs, k \in Ids : Opens(v2, g, k) = Opens(v, g, k)
         /\ \A g \in Procs, k \in Ids : ~(g = e /\ k = i) => SameFor(v.chan[g], v2.chan[g], k)
         /\ Head(v.chan[e]) \in Packets /\ Head(v.chan[e]) \in Elements(v.chan[e])
         /\ Elements(v.chan[e]) = {Head(v.chan[e])} \cup Elements(v2.chan[e])
         /\ \A A : AtMostOne(v.chan[e], A) /\ Head(v.chan[e]) \in A => ~Has(v2.chan[e], A)
         /\ \A A, B : Before(v.chan[e], A, B) /\ Head(v.chan[e]) \notin A => Before(v2.chan[e], A, B)
<1> DEFINE c == v.chan[e]
           p == Head(c)
<1>1. /\ c \in Seq(Packets) /\ c # <<>> /\ v2.chan[e] = Tail(c) /\ v2.chan[Other(e)] = v.chan[Other(e)]
      /\ p.cmd \in {"OKAY", "WRTE"} /\ p.arg1 = i
      /\ \A g \in Procs : g = e \/ g = Other(e)
      /\ "device" \in Procs
  BY GoodFacts, ProcFacts DEF TakesHead, Procs
<1> HIDE DEF p, c
<1>2. /\ p \in Packets /\ Elements(c) = {p} \cup Elements(Tail(c))
      /\ \A A : AtMostOne(c, A) => AtMostOne(Tail(c), A) /\ (p \in A => ~Has(Tail(c), A))
      /\ \A A, B : Before(c, A, B) => p \notin B /\ (p \notin A => Before(Tail(c), A, B))
  BY <1>1, PopFacts DEF p
<1>3. \A f \in Procs : /\ Elements(v2.chan[f]) \subseteq Elements(v.chan[f])
                       /\ \A A : AtMostOne(v.chan[f], A) => AtMostOne(v2.chan[f], A)
  BY <1>1, <1>2 DEF c
<1>4. p # Cnxn /\ \A k : p \notin OpensOf(k)
  BY <1>1, PacketFacts DEF OpensOf
<1>5. \A q : q # p /\ q \in Elements(v.chan["device"]) => q \in Elements(v2.chan["device"])
  BY <1>1, <1>2 DEF c
<1>6. \A k \in Ids : Has(v2.chan["device"], OpensOf(k)) <=> Has(v.chan["device"], OpensOf(k))
  BY <1>1, <1>3, <1>4, <1>5 DEF Has
<1>7. ASSUME NEW g \in Procs, NEW k \in Ids, ~(g = e /\ k = i) PROVE SameFor(v.chan[g], v2.chan[g], k)
  <2>1. CASE g = e
    <3>1. p \notin PacketsTo(k)
      BY <1>1, <1>7, <2>1 DEF PacketsTo, OkaysTo, WrtesTo, ClsesTo
    <3> QED
      BY <1>1, <2>1, <3>1, PopSame DEF p, c
  <2>2. CASE g # e
    BY <1>1, <1>7, <2>2, SameSelf
  <2> QED
    BY <2>1, <2>2
<1> QED
  BY <1>1, <1>2, <1>3, <1>4, <1>5, <1>6, <1>7 DEF Opens, p, c

\* A_WRTE arrives, and the data waits to be written.
LEMMA WrteGood ==
  ASSUME NEW v, NEW v2, Good(v), SameKinds(v, v2), SameSeen(v, v2),
         NEW e \in Procs, NEW i \in Ids, NEW t, OneSocket(v, v2, e, i, t), v.sock[e][i].st = "live",
         TakesHead(v, v2, e, i), Head(v.chan[e]).cmd = "WRTE",
         t.pkts = <<Head(v.chan[e]).data>>, t.why = v.sock[e][i].why,
         "R" \in t.want => "R" \in v.sock[e][i].want
  PROVE  Carried(v2)
<1> DEFINE s == v.sock[e][i]
           d == Head(v.chan[e]).data
           x == s.end
           y == FarOf(x)
<1>1. /\ \A g \in Procs, k \in Ids : RecvOK(v, g, k) /\ SendOK(v, g, k) /\ EndOK(v, g, k)
      /\ DataOK(v) /\ x \in Ends /\ v.rcvd[x] \in Seq(Data)
  BY GoodFacts DEF Used
<1>2. /\ v2.sock[e][i] = t /\ v2.fin = v.fin /\ v2.link = v.link /\ v2.sent = v.sent /\ v2.rcvd = v.rcvd
      /\ \A g \in Procs, k \in Ids : g # e \/ k # i => v2.sock[g][k] = v.sock[g][k]
      /\ \A g \in Procs, k \in Ids : v2.sock[g][k].st = v.sock[g][k].st /\ v2.sock[g][k].peer = v.sock[g][k].peer
                                     /\ v2.sock[g][k].end = v.sock[g][k].end
  BY DEF OneSocket, SameKinds, SameKind, SameSeen
<1>3. /\ \A f \in Procs : /\ Elements(v2.chan[f]) \subseteq Elements(v.chan[f])
                          /\ \A A : AtMostOne(v.chan[f], A) => AtMostOne(v2.chan[f], A)
      /\ Cnxn \in Elements(v.chan["device"]) => Cnxn \in Elements(v2.chan["device"])
      /\ \A g \in Procs, k \in Ids : Opens(v2, g, k) = Opens(v, g, k)
      /\ \A g \in Procs, k \in Ids : ~(g = e /\ k = i) => SameFor(v.chan[g], v2.chan[g], k)
      /\ Head(v.chan[e]) \in Packets /\ Head(v.chan[e]) \in Elements(v.chan[e])
      /\ Elements(v.chan[e]) = {Head(v.chan[e])} \cup Elements(v2.chan[e])
      /\ \A A : AtMostOne(v.chan[e], A) /\ Head(v.chan[e]) \in A => ~Has(v2.chan[e], A)
  BY HeadTaken
<1>4. Head(v.chan[e]) \in WrtesTo(i) /\ Head(v.chan[e]) \notin OkaysTo(i) /\ Head(v.chan[e]) \notin ClsesTo(i)
      /\ d \in Data
  BY <1>3, PacketFacts DEF TakesHead, WrtesTo, OkaysTo, ClsesTo
<1>5. \A g \in Procs, k \in Ids : Joined(v2, g, k) = Joined(v, g, k)
  BY <1>2, ProcFacts DEF Joined
<1>6. /\ Receives(s, i, v.chan[e], v.sent[y], v.rcvd[x], v.fin[y], Joined(v, e, i), Opens(v, e, i))
      /\ Sends(s, i, v.chan[e], v.sent[x], v.rcvd[y])
  BY <1>1 DEF RecvOK, SendOK
<1>7. v.sent[y] = Append(v.rcvd[x], d) /\ s.pkts = <<>> /\ AtMostOne(v.chan[e], WrtesTo(i))
  BY <1>3, <1>4, <1>6 DEF Receives
<1>8. t.pkts # <<>> /\ v.sent[y] = v.rcvd[x] \o t.pkts /\ t.st = "live" /\ t.peer = s.peer /\ t.end = x
  <2> HIDE DEF d, x, y
  <2>1. v.rcvd[x] \o <<d>> = Append(v.rcvd[x], d) /\ <<d>> # <<>>
    BY <1>1, <1>4, Longer
  <2> QED
    BY <1>2, <1>7, <2>1 DEF d, x
<1>9. ~Has(v2.chan[e], WrtesTo(i)) /\ AtMostOne(v2.chan[e], WrtesTo(i))
  BY <1>3, <1>4, <1>7
<1>10. /\ Has(v2.chan[e], ClsesTo(i)) => Has(v.chan[e], ClsesTo(i))
       /\ Has(v2.chan[e], OkaysTo(i)) => Has(v.chan[e], OkaysTo(i))
  BY <1>3 DEF Has
<1> HIDE DEF s, x, y, d
<1>11. Receives(t, i, v2.chan[e], v.sent[y], v.rcvd[x], v.fin[y], Joined(v2, e, i), Opens(v2, e, i))
  <2>1. s.st = "live" /\ (IsLocal(t.peer) => t.pkts # <<>>)
    BY <1>8 DEF s
  <2> QED
    BY <1>3, <1>6, <1>8, <1>9, <1>10, <2>1 DEF Receives, Has
<1>12. Sends(t, i, v2.chan[e], v.sent[x], v.rcvd[y])
  <2>1. AtMostOne(v.chan[e], OkaysTo(i)) => AtMostOne(v2.chan[e], OkaysTo(i))
    BY <1>3
  <2> QED
    BY <1>6, <1>8, <1>10, <2>1 DEF Sends, s
<1>13. DataOK(v2)
  BY <1>1, <1>2 DEF DataOK, SeenOK
<1>14. ASSUME NEW g \in Procs, NEW k \in Ids PROVE RecvOK(v2, g, k) /\ SendOK(v2, g, k)
  <2>1. CASE g = e /\ k = i
    BY <1>2, <1>8, <1>11, <1>12, <2>1 DEF RecvOK, SendOK, y
  <2>2. CASE ~(g = e /\ k = i)
    <3>1. Alone(v, v2, g, k)
      BY <1>2, <1>3, <1>5, <2>2 DEF Alone, Steady, SameData
    <3> QED
      BY <1>1, <3>1, FlowAlone
  <2> QED
    BY <2>1, <2>2
<1>15. NamesOK(v2) /\ CnxnOK(v2)
  BY <1>3, SameNames
<1>16. \A g \in Procs, k \in Ids : v2.sock[g][k].pkts # <<>> => \E dd \in Data : v2.sock[g][k].pkts = <<dd>>
  <2>1. \A g \in Procs, k \in Ids : v2.sock[g][k] = v.sock[g][k] \/ v2.sock[g][k].pkts = <<d>>
    BY <1>2 DEF d
  <2> QED
    BY <1>1, <1>4, <2>1 DEF EndOK
<1> QED
  BY <1>2, <1>13, <1>14, <1>15, <1>16, MovesKeep

\* A_OKAY arrives: the socket is read again.
LEMMA OkayGood ==
  ASSUME NEW v, NEW v2, Good(v), SameKinds(v, v2), SameSeen(v, v2),
         NEW e \in Procs, NEW i \in Ids, NEW t, OneSocket(v, v2, e, i, t), v.sock[e][i].st = "live",
         TakesHead(v, v2, e, i), Head(v.chan[e]).cmd = "OKAY",
         t.pkts = v.sock[e][i].pkts, t.why = v.sock[e][i].why
  PROVE  Carried(v2)
<1> DEFINE s == v.sock[e][i]
           x == s.end
           y == FarOf(x)
<1>1. /\ \A g \in Procs, k \in Ids : RecvOK(v, g, k) /\ SendOK(v, g, k) /\ EndOK(v, g, k)
      /\ DataOK(v)
  BY GoodFacts
<1>2. /\ v2.sock[e][i] = t /\ v2.fin = v.fin /\ v2.link = v.link /\ v2.sent = v.sent /\ v2.rcvd = v.rcvd
      /\ \A g \in Procs, k \in Ids : g # e \/ k # i => v2.sock[g][k] = v.sock[g][k]
      /\ \A g \in Procs, k \in Ids : v2.sock[g][k].st = v.sock[g][k].st /\ v2.sock[g][k].peer = v.sock[g][k].peer
                                     /\ v2.sock[g][k].end = v.sock[g][k].end
                                     /\ v2.sock[g][k].pkts = v.sock[g][k].pkts
  BY DEF OneSocket, SameKinds, SameKind, SameSeen
<1>3. /\ \A f \in Procs : /\ Elements(v2.chan[f]) \subseteq Elements(v.chan[f])
                          /\ \A A : AtMostOne(v.chan[f], A) => AtMostOne(v2.chan[f], A)
      /\ Cnxn \in Elements(v.chan["device"]) => Cnxn \in Elements(v2.chan["device"])
      /\ \A g \in Procs, k \in Ids : Opens(v2, g, k) = Opens(v, g, k)
      /\ \A g \in Procs, k \in Ids : ~(g = e /\ k = i) => SameFor(v.chan[g], v2.chan[g], k)
      /\ Head(v.chan[e]) \in Packets /\ Head(v.chan[e]) \in Elements(v.chan[e])
      /\ Elements(v.chan[e]) = {Head(v.chan[e])} \cup Elements(v2.chan[e])
      /\ \A A : AtMostOne(v.chan[e], A) /\ Head(v.chan[e]) \in A => ~Has(v2.chan[e], A)
      /\ \A A, B : Before(v.chan[e], A, B) /\ Head(v.chan[e]) \notin A => Before(v2.chan[e], A, B)
  BY HeadTaken
<1>4. Head(v.chan[e]) \in OkaysTo(i) /\ Head(v.chan[e]) \notin WrtesTo(i) /\ Head(v.chan[e]) \notin ClsesTo(i)
  BY <1>3 DEF TakesHead, WrtesTo, OkaysTo, ClsesTo
<1>5. \A g \in Procs, k \in Ids : Joined(v2, g, k) = Joined(v, g, k)
  BY <1>2, ProcFacts DEF Joined
<1>6. /\ Receives(s, i, v.chan[e], v.sent[y], v.rcvd[x], v.fin[y], Joined(v, e, i), Opens(v, e, i))
      /\ Sends(s, i, v.chan[e], v.sent[x], v.rcvd[y])
  BY <1>1 DEF RecvOK, SendOK
<1>7. v.sent[x] = v.rcvd[y] /\ AtMostOne(v.chan[e], OkaysTo(i))
  BY <1>3, <1>4, <1>6 DEF Sends, Has
<1>8. t.pkts = s.pkts /\ t.st = "live" /\ s.st = "live" /\ t.peer = s.peer /\ t.end = x /\ t.why = s.why
  BY <1>2
<1>9. ~Has(v2.chan[e], OkaysTo(i)) /\ AtMostOne(v2.chan[e], OkaysTo(i))
  BY <1>3, <1>4, <1>7
<1>10. /\ Elements(v2.chan[e]) \cap WrtesTo(i) = Elements(v.chan[e]) \cap WrtesTo(i)
       /\ Has(v2.chan[e], ClsesTo(i)) => Has(v.chan[e], ClsesTo(i))
       /\ Has(v2.chan[e], WrtesTo(i)) = Has(v.chan[e], WrtesTo(i))
       /\ AtMostOne(v.chan[e], WrtesTo(i)) => AtMostOne(v2.chan[e], WrtesTo(i))
       /\ Before(v.chan[e], WrtesTo(i), ClsesTo(i)) => Before(v2.chan[e], WrtesTo(i), ClsesTo(i))
  BY <1>3, <1>4 DEF Has
<1> HIDE DEF s, x, y
<1>11. Receives(t, i, v2.chan[e], v.sent[y], v.rcvd[x], v.fin[y], Joined(v2, e, i), Opens(v2, e, i))
  BY <1>3, <1>5, <1>6, <1>8, <1>10 DEF Receives
<1>12. Sends(t, i, v2.chan[e], v.sent[x], v.rcvd[y])
  BY <1>7, <1>9 DEF Sends
<1>13. DataOK(v2)
  BY <1>1, <1>2 DEF DataOK, SeenOK
<1>14. ASSUME NEW g \in Procs, NEW k \in Ids PROVE RecvOK(v2, g, k) /\ SendOK(v2, g, k)
  <2>1. CASE g = e /\ k = i
    BY <1>2, <1>8, <1>11, <1>12, <2>1 DEF RecvOK, SendOK, y
  <2>2. CASE ~(g = e /\ k = i)
    <3>1. Alone(v, v2, g, k)
      BY <1>2, <1>3, <1>5, <2>2 DEF Alone, Steady, SameData
    <3> QED
      BY <1>1, <3>1, FlowAlone
  <2> QED
    BY <2>1, <2>2
<1>15. NamesOK(v2) /\ CnxnOK(v2)
  BY <1>3, SameNames
<1>16. \A g \in Procs, k \in Ids : v2.sock[g][k].pkts # <<>> => \E dd \in Data : v2.sock[g][k].pkts = <<dd>>
  BY <1>1, <1>2 DEF EndOK
<1> QED
  BY <1>2, <1>13, <1>14, <1>15, <1>16, MovesKeep

\* A socket of the host that the other side does not know of is told nothing.
LEMMA Unknown ==
  ASSUME NEW v, Good(v), NEW i \in Ids, ~Known(v, i)
  PROVE  /\ ~Has(v.chan["host"], OkaysTo(i)) /\ ~Has(v.chan["host"], WrtesTo(i))
         /\ ~Has(v.chan["host"], ClsesTo(i)) /\ ~Has(v.chan["device"], OpensOf(i))
         /\ ~Opens(v, "host", i) /\ ~Joined(v, "host", i)
         /\ \A p \in Elements(v.chan["device"]) : p.cmd = "OPEN" => p.arg0 # i
<1>2. KnownOK(v) /\ NamesOK(v)
  BY GoodFacts DEF Sound
<1>3. \A p \in Elements(v.chan["host"]) : p.cmd \in {"OKAY", "WRTE", "CLSE"} => p.arg1 # i
  BY <1>2 DEF KnownOK, NamesOK, ToHostOK
<1>4. \A p \in Elements(v.chan["device"]) : p.cmd = "OPEN" => p.arg0 # i
  BY <1>2 DEF KnownOK
<1>5. ~Joined(v, "host", i)
  BY <1>2, ProcFacts DEF KnownOK, Joined
<1> QED
  BY <1>3, <1>4, <1>5 DEF Has, OkaysTo, WrtesTo, ClsesTo, Opens, OpensOf

\* Nothing was sent on a stream whose far end is not there, or whose near end
\* is not connected.
LEMMA Fresh ==
  ASSUME NEW v, Good(v), NEW i \in Ids, v.sock["host"][i].st = "live", v.sock["host"][i].peer \in {None, Smart}
  PROVE  /\ i \in HostSide /\ v.sock["host"][i].end = Near(i) /\ v.fin[Near(i)] = "open"
         /\ v.sent[Near(i)] = <<>> /\ v.rcvd[Far(i)] = <<>>
         /\ v.fin[Far(i)] = "none" => v.sent[Far(i)] = <<>> /\ v.rcvd[Near(i)] = <<>>
         /\ v.sock["host"][i].peer = Smart => v.fin[Far(i)] = "none" /\ ~Known(v, i)
<1>1. EndOK(v, "host", i) /\ "host" \in Procs /\ FreshOK(v) /\ DataOK(v) /\ SocketOK("host", v.sock["host"][i])
  BY GoodFacts DEF Procs
<1>2. i \in HostSide /\ v.sock["host"][i].end = Near(i) /\ v.fin[Near(i)] = "open"
  BY <1>1, PeerKinds DEF EndOK
<1>3. /\ Near(i) \in Ends /\ Far(i) \in Ends /\ FarOf(Near(i)) = Far(i) /\ FarOf(Far(i)) = Near(i)
      /\ v.rcvd[Near(i)] \in Seq(Data) /\ v.rcvd[Far(i)] \in Seq(Data)
  BY <1>2, SideFacts, GoodFacts
<1>4. v.sent[Near(i)] = <<>>
  BY <1>1 DEF FreshOK
<1>5. \A d \in Data : Append(v.rcvd[Far(i)], d) # <<>> /\ Append(v.rcvd[Near(i)], d) # <<>>
  BY <1>3, Longer
<1>6. v.rcvd[Far(i)] = <<>>
  BY <1>1, <1>3, <1>4, <1>5 DEF DataOK, SeenOK
<1>7. v.fin[Far(i)] = "none" => v.sent[Far(i)] = <<>> /\ v.rcvd[Near(i)] = <<>>
  BY <1>1, <1>3, <1>5 DEF DataOK, SeenOK
<1>8. v.sock["host"][i].peer = Smart => v.fin[Far(i)] = "none" /\ ~Known(v, i)
  BY <1>1 DEF FreshOK, Known, SocketOK, LiveOK
<1> QED
  BY <1>2, <1>4, <1>6, <1>7, <1>8

\* The first A_OKAY connects a socket to the other end.
LEMMA ConnectGood ==
  ASSUME NEW v, NEW v2, Good(v), SameRest(v, v2), v2.next = v.next, v2.chan = v.chan, SameSeen(v, v2),
         NEW i \in Ids, NEW k \in Ids, NEW t, OneSocket(v, v2, "host", i, t),
         v.sock["host"][i].st = "live", v.sock["host"][i].peer = None,
         t.st = "live", t.peer = Remote(k), t.pkts = v.sock["host"][i].pkts, t.end = v.sock["host"][i].end,
         t.want = v.sock["host"][i].want, t.transport = v.sock["host"][i].transport,
         NEW p \in Elements(v.chan["host"]), p.cmd = "OKAY", p.arg0 = k, p.arg1 = i
  PROVE  Carried(v2)
<1> DEFINE s == v.sock["host"][i]
<1>1. /\ \A g \in Procs, m \in Ids : RecvOK(v, g, m) /\ SendOK(v, g, m) /\ EndOK(v, g, m)
      /\ DataOK(v) /\ EndsOK(v) /\ FreshOK(v) /\ NamesOK(v) /\ CnxnOK(v) /\ "host" \in Procs /\ "device" \in Procs
      /\ \A f \in Procs : v.chan[f] \in Seq(Packets)
      /\ \A q \in Elements(v.chan["host"]) \cup Elements(v.chan["device"]) : q \in Packets
      /\ SocketOK("host", s)
  BY GoodFacts DEF Procs
<1>2. /\ v2.sock["host"][i] = t /\ v2.fin = v.fin /\ v2.link = v.link /\ v2.sent = v.sent /\ v2.rcvd = v.rcvd
      /\ \A g \in Procs, m \in Ids : g # "host" \/ m # i => v2.sock[g][m] = v.sock[g][m]
      /\ v2.state = v.state
  BY DEF OneSocket, SameSeen, SameRest
<1>3. /\ i \in HostSide /\ s.end = Near(i) /\ v.sent[Near(i)] = <<>> /\ v.rcvd[Far(i)] = <<>>
      /\ Near(i) \in Ends /\ Far(i) \in Ends /\ FarOf(Near(i)) = Far(i) /\ FarOf(Far(i)) = Near(i)
  BY Fresh, SideFacts
<1>4. /\ v.fin[Far(i)] # "none"
      /\ v.sock["device"][k].st = "live" => v.sock["device"][k].peer = Remote(i)
      /\ v.state["device"] = "connected" => k < v.next["device"]
      /\ Cnxn \notin Elements(v.chan["device"])
  BY <1>1 DEF NamesOK, ToHostOK, CnxnOK
<1>5. s.want = {} /\ s.peer = None /\ s.st = "live" /\ t.pkts = s.pkts /\ t.end = s.end
  BY <1>1 DEF SocketOK, LiveOK
<1>6. \A g \in Procs, m \in Ids : /\ Opens(v2, g, m) = Opens(v, g, m)
                                  /\ ~(g = "device" /\ m = k) => Joined(v2, g, m) = Joined(v, g, m)
  <2>1. \A g \in Procs, m \in Ids : Opens(v2, g, m) = Opens(v, g, m)
    BY DEF Opens
  <2>2. \A g \in Procs, j, m \in Ids : ~(g = "device" /\ m = k) =>
          (v2.sock[Other(g)][j].peer = Remote(m) <=> v.sock[Other(g)][j].peer = Remote(m))
    <3>1. \A g \in Procs, j \in Ids : g = "host" \/ j # i => v2.sock[Other(g)][j] = v.sock[Other(g)][j]
      BY <1>2, ProcFacts DEF Procs
    <3>2. \A m \in Ids : m # k => v2.sock["host"][i].peer # Remote(m) /\ v.sock["host"][i].peer # Remote(m)
      BY <1>2, <1>5, PeerKinds
    <3> QED
      BY <3>1, <3>2, ProcFacts DEF Procs
  <2>3. \A g \in Procs, m \in Ids : ~(g = "device" /\ m = k) => Joined(v2, g, m) = Joined(v, g, m)
    BY <1>2, <2>2 DEF Joined
  <2> QED
    BY <2>1, <2>3
<1> HIDE DEF s
<1>7. ASSUME NEW g \in Procs, NEW m \in Ids PROVE EndOK(v2, g, m) /\ RecvOK(v2, g, m) /\ SendOK(v2, g, m)
  <2>1. CASE g = "host" /\ m = i
    <3>1. RecvOK(v, "host", i) /\ SendOK(v, "host", i) /\ EndOK(v, "host", i)
      BY <1>1
    <3>2. EndOK(v2, "host", i)
      BY <1>2, <1>3, <1>5, <3>1 DEF EndOK, s
    <3>3. Joined(v2, "host", i) = Joined(v, "host", i) /\ Opens(v2, "host", i) = Opens(v, "host", i)
      BY <1>1, <1>6
    <3>4. RecvOK(v2, "host", i)
      <4>1. ~IsLocal(t.peer)
        BY PeerKinds DEF IsLocal
      <4>2. Receives(s, i, v.chan["host"], v.sent[FarOf(s.end)], v.rcvd[s.end], v.fin[FarOf(s.end)],
                     Joined(v, "host", i), Opens(v, "host", i))
        BY <3>1 DEF RecvOK, s
      <4>3. Receives(t, i, v.chan["host"], v.sent[FarOf(s.end)], v.rcvd[s.end], v.fin[FarOf(s.end)],
                     Joined(v, "host", i), Opens(v, "host", i))
        BY <1>5, <4>1, <4>2 DEF Receives
      <4> QED
        BY <1>2, <1>5, <3>3, <4>3 DEF RecvOK
    <3>5. SendOK(v2, "host", i)
      BY <1>2, <1>5, <3>1 DEF SendOK, Sends, s
    <3> QED
      BY <2>1, <3>2, <3>4, <3>5
  <2>2. CASE g = "device" /\ m = k
    <3>1. v2.sock["device"][k] = v.sock["device"][k] /\ RecvOK(v, "device", k) /\ SendOK(v, "device", k) /\ EndOK(v, "device", k)
      BY <1>1, <1>2
    <3>2. EndOK(v2, "device", k)
      BY <1>2, <3>1 DEF EndOK
    <3>3. SendOK(v2, "device", k)
      BY <1>2, <3>1 DEF SendOK
    <3>4. CASE v.sock["device"][k].st = "live"
      <4>1. v.sock["device"][k].end = Far(i)
        <5>1. PICK j \in HostSide : v.sock["device"][k].end = Far(j) /\ v.sock["device"][k].peer = Remote(j)
          BY <3>1, <3>4 DEF EndOK
        <5> QED
          BY <1>4, <3>4, <5>1, PeerKinds
      <4>2. v.sent[FarOf(v.sock["device"][k].end)] = v.rcvd[v.sock["device"][k].end]
        BY <1>3, <4>1
      <4>3. Opens(v2, "device", k) = Opens(v, "device", k)
        BY <1>1, <1>6
      <4> DEFINE u == v.sock["device"][k]
      <4>4. Receives(u, k, v.chan["device"], v.sent[FarOf(u.end)], v.rcvd[u.end], v.fin[FarOf(u.end)],
                     Joined(v, "device", k), Opens(v, "device", k))
        BY <3>1 DEF RecvOK
      <4>5. Receives(u, k, v.chan["device"], v.sent[FarOf(u.end)], v.rcvd[u.end], v.fin[FarOf(u.end)],
                     Joined(v2, "device", k), Opens(v, "device", k))
        BY <4>2, <4>4 DEF Receives
      <4>6. RecvOK(v2, "device", k)
        BY <1>2, <3>1, <4>3, <4>5 DEF RecvOK
      <4> QED
        BY <2>2, <3>2, <3>3, <4>6
    <3>5. CASE v.sock["device"][k].st # "live"
      <4>1. RecvOK(v2, "device", k)
        BY <1>2, <3>1, <3>5 DEF RecvOK, Receives
      <4> QED
        BY <2>2, <3>2, <3>3, <4>1
    <3> QED
      BY <3>4, <3>5
  <2>3. CASE ~(g = "host" /\ m = i) /\ ~(g = "device" /\ m = k)
    <3>0. v2.sock[g][m] = v.sock[g][m]
      BY <1>2, <2>3 DEF Procs
    <3>1. Alone(v, v2, g, m)
      BY <1>2, <1>6, <2>3, <3>0, SameSelf DEF Alone, Steady, SameData
    <3>2. EndOK(v2, g, m)
      BY <1>1, <1>2, <3>0 DEF EndOK
    <3> QED
      BY <1>1, <3>1, <3>2, FlowAlone
  <2> QED
    BY <2>1, <2>2, <2>3 DEF Procs
<1>8. EndsOK(v2)
  <2>1. \A g \in Procs, m \in Ids : v2.sock[g][m].st = v.sock[g][m].st /\ v2.sock[g][m].end = v.sock[g][m].end
    BY <1>2, <1>5 DEF s
  <2>2. \A j, m \in Ids : v2.sock["host"][j].peer = Local(m) => v.sock["host"][j].peer = Local(m)
    BY <1>1, <1>2, PeerKinds
  <2>3. \A g \in Procs, m \in Ids : EndOK(v2, g, m)
    BY <1>7
  <2> QED
    BY <1>1, <2>1, <2>2, <2>3, EndsLess DEF Used
<1>9. FreshOK(v2)
  <2>1. \A j \in Ids : v2.sock["host"][j].st = v.sock["host"][j].st /\
                       (v2.sock["host"][j].peer = v.sock["host"][j].peer \/ (j = i /\ v2.sock["host"][j].peer = Remote(k)))
    BY <1>1, <1>2, <1>5 DEF s
  <2> QED
    BY <1>1, <1>2, <1>4, <2>1, PeerKinds DEF FreshOK
<1>10. NamesOK(v2)
  <2>1. \A j \in Ids : Known(v, j) => Known(v2, j)
    <3>1. \A j \in Ids : /\ v2.sock["host"][j].st = v.sock["host"][j].st /\ v2.sock["host"][j].transport = v.sock["host"][j].transport
                         /\ v2.sock["host"][j].peer \in {v.sock["host"][j].peer, Remote(k)}
      BY <1>1, <1>2, <1>5 DEF s
    <3> QED
      BY <3>1, PeerKinds DEF Known
  <2>2. \A m \in Ids : v2.sock["device"][m] = v.sock["device"][m]
    BY <1>1, <1>2
  <2>3. \A j, m \in Ids : v2.sock["host"][j].peer = Remote(m) => v.sock["host"][j].peer = Remote(m) \/ (j = i /\ m = k)
    BY <1>1, <1>2, PeerKinds
  <2>4. \A j \in Ids : AtMostOne(v2.chan["device"], OpensOf(j))
    BY <1>1 DEF NamesOK
  <2>5. v2.next["device"] = v.next["device"] /\ v2.state["device"] = v.state["device"]
    BY <1>2
  <2>6. \A j, m \in Ids : v2.sock["host"][j].peer = Remote(m) =>
           \/ v.sock["host"][j].peer = Remote(m)
           \/ /\ v2.sock["device"][m].st = "live" => v2.sock["device"][m].peer = Remote(j)
              /\ v2.state["device"] = "connected" => m < v2.next["device"]
    BY <1>4, <2>2, <2>3, <2>5
  <2> QED
    BY <1>1, <1>2, <2>1, <2>2, <2>4, <2>5, <2>6, NamesLess
<1>11. CnxnOK(v2)
  BY <1>1, <1>2, <1>4 DEF CnxnOK
<1>12. DataOK(v2)
  BY <1>1, <1>2 DEF DataOK, SeenOK
<1> QED
  BY <1>7, <1>8, <1>9, <1>10, <1>11, <1>12 DEF Carried, Flow

\* A client asks for the device: it is no longer the smart socket's.
LEMMA DialGood ==
  ASSUME NEW v, NEW v2, Good(v), SameRest(v, v2), v2.next = v.next, v2.chan = v.chan, SameSeen(v, v2),
         NEW i \in Ids, NEW t, OneSocket(v, v2, "host", i, t),
         v.sock["host"][i].st = "live", v.sock["host"][i].peer = Smart,
         t.st = "live", t.peer = None, t.pkts = v.sock["host"][i].pkts, t.end = v.sock["host"][i].end,
         "R" \notin t.want, t.transport
  PROVE  Carried(v2)
<1> DEFINE s == v.sock["host"][i]
<1>1. /\ \A g \in Procs, m \in Ids : RecvOK(v, g, m) /\ SendOK(v, g, m) /\ EndOK(v, g, m)
      /\ DataOK(v) /\ EndsOK(v) /\ FreshOK(v) /\ NamesOK(v) /\ CnxnOK(v) /\ "host" \in Procs /\ "device" \in Procs
      /\ \A q \in Elements(v.chan["host"]) \cup Elements(v.chan["device"]) : q \in Packets
  BY GoodFacts DEF Procs
<1>2. /\ v2.sock["host"][i] = t /\ v2.fin = v.fin /\ v2.link = v.link /\ v2.sent = v.sent /\ v2.rcvd = v.rcvd
      /\ \A g \in Procs, m \in Ids : g # "host" \/ m # i => v2.sock[g][m] = v.sock[g][m]
      /\ v2.state = v.state
  BY DEF OneSocket, SameSeen, SameRest
<1>3. i \in HostSide /\ s.end = Near(i)
  BY Fresh
<1>4. /\ ~Has(v.chan["host"], OkaysTo(i)) /\ ~Has(v.chan["host"], WrtesTo(i))
      /\ ~Has(v.chan["host"], ClsesTo(i)) /\ ~Opens(v, "host", i) /\ ~Joined(v, "host", i)
  BY Fresh, Unknown
<1>5. s.st = "live" /\ s.peer = Smart /\ t.pkts = s.pkts /\ t.end = s.end
  OBVIOUS
<1>6. \A g \in Procs, m \in Ids : Opens(v2, g, m) = Opens(v, g, m) /\ Joined(v2, g, m) = Joined(v, g, m)
  <2>1. \A g \in Procs, m \in Ids : Opens(v2, g, m) = Opens(v, g, m)
    BY DEF Opens
  <2>2. \A g \in Procs, j, m \in Ids : v2.sock[g][j].peer = Remote(m) <=> v.sock[g][j].peer = Remote(m)
    BY <1>2, <1>5, PeerKinds
  <2>3. \A g \in Procs, m \in Ids : Joined(v2, g, m) = Joined(v, g, m)
    BY <1>2, <2>2, ProcFacts DEF Joined
  <2> QED
    BY <2>1, <2>3
<1> HIDE DEF s
<1>7. ASSUME NEW g \in Procs, NEW m \in Ids PROVE EndOK(v2, g, m) /\ RecvOK(v2, g, m) /\ SendOK(v2, g, m)
  <2>1. CASE g = "host" /\ m = i
    <3>1. RecvOK(v, "host", i) /\ SendOK(v, "host", i) /\ EndOK(v, "host", i)
      BY <1>1
    <3>2. EndOK(v2, "host", i)
      BY <1>2, <1>3, <1>5, <3>1 DEF EndOK, s
    <3>3. Joined(v2, "host", i) = Joined(v, "host", i) /\ Opens(v2, "host", i) = Opens(v, "host", i)
      BY <1>1, <1>6
    <3>4. RecvOK(v2, "host", i)
      <4>1. ~IsLocal(t.peer)
        BY PeerKinds DEF IsLocal
      <4>2. Receives(s, i, v.chan["host"], v.sent[FarOf(s.end)], v.rcvd[s.end], v.fin[FarOf(s.end)],
                     Joined(v, "host", i), Opens(v, "host", i))
        BY <3>1 DEF RecvOK, s
      <4>3. Receives(t, i, v.chan["host"], v.sent[FarOf(s.end)], v.rcvd[s.end], v.fin[FarOf(s.end)],
                     Joined(v, "host", i), Opens(v, "host", i))
        BY <1>5, <4>1, <4>2 DEF Receives
      <4> QED
        BY <1>2, <1>5, <3>3, <4>3 DEF RecvOK
    <3>5. SendOK(v2, "host", i)
      BY <1>2, <1>5, <3>1 DEF SendOK, Sends, s
    <3> QED
      BY <2>1, <3>2, <3>4, <3>5
  <2>3. CASE ~(g = "host" /\ m = i)
    <3>0. v2.sock[g][m] = v.sock[g][m]
      BY <1>2, <2>3 DEF Procs
    <3>1. Alone(v, v2, g, m)
      BY <1>2, <1>6, <2>3, <3>0, SameSelf DEF Alone, Steady, SameData
    <3>2. EndOK(v2, g, m)
      BY <1>1, <1>2, <3>0 DEF EndOK
    <3> QED
      BY <1>1, <3>1, <3>2, FlowAlone
  <2> QED
    BY <2>1, <2>3 DEF Procs
<1>8. EndsOK(v2)
  <2>1. \A g \in Procs, m \in Ids : v2.sock[g][m].st = v.sock[g][m].st /\ v2.sock[g][m].end = v.sock[g][m].end
    BY <1>2, <1>5 DEF s
  <2>2. \A j, m \in Ids : v2.sock["host"][j].peer = Local(m) => v.sock["host"][j].peer = Local(m)
    BY <1>1, <1>2, PeerKinds
  <2>3. \A g \in Procs, m \in Ids : EndOK(v2, g, m)
    BY <1>7
  <2> QED
    BY <1>1, <2>1, <2>2, <2>3, EndsLess DEF Used
<1>9. FreshOK(v2)
  <2>1. \A j \in Ids : v2.sock["host"][j].st = v.sock["host"][j].st /\
                       (v2.sock["host"][j].peer = v.sock["host"][j].peer \/ (j = i /\ v2.sock["host"][j].peer = None))
    BY <1>1, <1>2, <1>5 DEF s
  <2>2. ~IsRemote(None) /\ None # Smart
    BY PeerKinds DEF IsRemote
  <2> QED
    BY <1>1, <1>2, <1>5, <2>1, <2>2 DEF FreshOK, s
<1>10. NamesOK(v2)
  <2>1. \A j \in Ids : Known(v, j) => Known(v2, j)
    BY <1>1, <1>2 DEF Known
  <2>2. \A m \in Ids : v2.sock["device"][m] = v.sock["device"][m]
    BY <1>1, <1>2
  <2>3. \A j, m \in Ids : v2.sock["host"][j].peer = Remote(m) => v.sock["host"][j].peer = Remote(m)
    BY <1>1, <1>2, PeerKinds
  <2>4. \A j \in Ids : AtMostOne(v2.chan["device"], OpensOf(j))
    BY <1>1 DEF NamesOK
  <2>5. v2.next["device"] = v.next["device"] /\ v2.state["device"] = v.state["device"]
    BY <1>2
  <2> QED
    BY <1>1, <1>2, <2>1, <2>2, <2>3, <2>4, <2>5, NamesLess
<1>11. CnxnOK(v2)
  <2>1. \A j \in Ids : IsRemote(v2.sock["host"][j].peer) => IsRemote(v.sock["host"][j].peer)
    BY <1>1, <1>2, PeerKinds DEF IsRemote
  <2> QED
    BY <1>1, <1>2, <2>1 DEF CnxnOK
<1>12. DataOK(v2)
  BY <1>1, <1>2 DEF DataOK, SeenOK
<1> QED
  BY <1>7, <1>8, <1>9, <1>10, <1>11, <1>12 DEF Carried, Flow
=============================================================================
