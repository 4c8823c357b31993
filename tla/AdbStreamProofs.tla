--------------------------- MODULE AdbStreamProofs ---------------------------
(***************************************************************************)
(* AdbSockets implements AdbStream, for any number of ids, packets, losses *)
(* of the connection and restarts of adbd, as long as the host process     *)
(* lives.                                                                  *)
(*                                                                         *)
(* Carried (AdbProofs) relates what the programs have seen to the sockets  *)
(* and the packets under way.  A handler is a chain of calls on a world:   *)
(* Bears(e, w, c) says that the state would be sound and carry its streams *)
(* if process e went on with world w and channel c, and each call is shown *)
(* to keep it and to do only what the promise permits at each end          *)
(* (Permitted).  An action then follows its calls.                         *)
(***************************************************************************)
EXTENDS AdbProofs

-----------------------------------------------------------------------------
(* The rest of the changes that keep Carried: an A_OPEN arrives, and the   *)
(* connection comes and goes.                                              *)


\* The A_OPEN of a socket is sent.
LEMMA PushOpenGood ==
  ASSUME NEW v, NEW v2, Good(v), SameRest(v, v2), v2.next = v.next, v2.sock = v.sock, SameSeen(v, v2),
         NEW i \in Ids, v.sock["host"][i].st = "live", v.sock["host"][i].peer = None, v.fin[Far(i)] = "none",
         ~Has(v.chan["host"], ClsesTo(i)), ~Has(v.chan["device"], OpensOf(i)),
         v2.chan["host"] = v.chan["host"],
         v2.chan["device"] = Append(v.chan["device"], OpenPacket(i, Far(i)))
  PROVE  Carried(v2)
<1> DEFINE p == OpenPacket(i, Far(i))
<1>1. /\ \A g \in Procs, m \in Ids : RecvOK(v, g, m) /\ SendOK(v, g, m) /\ EndOK(v, g, m)
      /\ NamesOK(v) /\ CnxnOK(v) /\ "host" \in Procs /\ "device" \in Procs
      /\ \A q \in Elements(v.chan["host"]) \cup Elements(v.chan["device"]) : q \in Packets
      /\ v.chan["device"] \in Seq(Packets)
  BY GoodFacts DEF Procs
<1>2. i \in HostSide /\ v.sock["host"][i].end = Near(i) /\ v.fin[Near(i)] = "open" /\ Far(i) \in Ends
  BY Fresh, SideFacts
<1>3. p \in Packets /\ p.cmd = "OPEN" /\ p.arg0 = i /\ p.end = Far(i)
  BY <1>2, SentPackets DEF OpenPacket
<1> HIDE DEF p
<1>4. /\ v2.chan["device"] = Append(v.chan["device"], p)
      /\ Elements(v2.chan["device"]) = Elements(v.chan["device"]) \cup {p}
      /\ \A A : AtMostOne(v.chan["device"], A) /\ (p \in A => ~Has(v.chan["device"], A)) => AtMostOne(v2.chan["device"], A)
  <2>1. v2.chan["device"] = Append(v.chan["device"], p)
    BY DEF p
  <2> QED
    BY <1>1, <1>3, <2>1, PushFacts
<1>5. \A g \in Procs, m \in Ids : SameFor(v.chan[g], v2.chan[g], m)
  <2>1. \A m \in Ids : p \notin PacketsTo(m)
    BY <1>3 DEF PacketsTo, OkaysTo, WrtesTo, ClsesTo
  <2>2. \A m \in Ids : SameFor(v.chan["device"], v2.chan["device"], m)
    BY <1>1, <1>3, <1>4, <2>1, PushSame
  <2> QED
    BY <2>2, SameSelf DEF Procs
<1>6. \A g \in Procs, m \in Ids : /\ Joined(v2, g, m) = Joined(v, g, m)
                                  /\ ~(g = "host" /\ m = i) => Opens(v2, g, m) = Opens(v, g, m)
  <2>1. \A m \in Ids : m # i => p \notin OpensOf(m)
    BY <1>3 DEF OpensOf
  <2>2. \A m \in Ids : m # i => (Has(v2.chan["device"], OpensOf(m)) <=> Has(v.chan["device"], OpensOf(m)))
    BY <1>4, <2>1 DEF Has
  <2> QED
    BY <2>2 DEF Joined, Opens, SameRest, Procs
<1>7. ASSUME NEW g \in Procs, NEW m \in Ids PROVE RecvOK(v2, g, m) /\ SendOK(v2, g, m)
  <2>1. CASE g = "host" /\ m = i
    <3>1. RecvOK(v, "host", i) /\ SendOK(v, "host", i) /\ Joined(v2, "host", i) = Joined(v, "host", i)
      BY <1>1, <1>6
    <3>2. RecvOK(v2, "host", i)
      BY <3>1 DEF RecvOK, Receives, SameSeen
    <3>3. SendOK(v2, "host", i)
      BY <3>1 DEF SendOK, SameSeen
    <3> QED
      BY <2>1, <3>2, <3>3
  <2>2. CASE ~(g = "host" /\ m = i)
    <3>1. Alone(v, v2, g, m)
      BY <1>5, <1>6, <2>2 DEF Alone, Steady, SameData, SameSeen
    <3> QED
      BY <1>1, <3>1, FlowAlone
  <2> QED
    BY <2>1, <2>2
<1>8. NamesOK(v2)
  <2>1. ToDeviceOK(v2, p)
    BY <1>2, <1>3 DEF ToDeviceOK, SameSeen
  <2>2. \A j \in Ids : AtMostOne(v2.chan["device"], OpensOf(j))
    <3>1. \A j \in Ids : p \in OpensOf(j) => j = i
      BY <1>3 DEF OpensOf
    <3> QED
      BY <1>1, <1>4, <3>1 DEF NamesOK
  <2>3. /\ \A q \in Elements(v2.chan["host"]) : q \in Elements(v.chan["host"])
        /\ \A q \in Elements(v2.chan["device"]) : q \in Elements(v.chan["device"]) \/ ToDeviceOK(v2, q)
    BY <1>4, <2>1
  <2> QED
    BY <1>1, <2>2, <2>3, NamesLess DEF SameRest, SameSeen, Known
<1>9. CnxnOK(v2)
  <2>1. p # Cnxn
    BY <1>3, PacketFacts
  <2>2. AtMostOne(v2.chan["device"], {Cnxn}) /\ (Cnxn \in Elements(v2.chan["device"]) <=> Cnxn \in Elements(v.chan["device"]))
    BY <1>1, <1>4, <2>1 DEF CnxnOK
  <2> QED
    BY <1>1, <2>2 DEF CnxnOK, SameRest
<1> QED
  BY <1>7, <1>8, <1>9, QuietKeeps DEF Steady

\* A new id is used, and an end opens.
NextUp(v, v2, e, n) == v2.next = [v.next EXCEPT ![e] = n + 1]
FinOpens(v, v2, x) == v2.fin = [v.fin EXCEPT ![x] = "open"]

\* A client connects: a new socket of the host.
LEMMA CreateGood ==
  ASSUME NEW v, NEW v2, Good(v), SameRest(v, v2), v2.chan = v.chan, v2.sent = v.sent, v2.rcvd = v.rcvd,
         NEW n \in HostSide, NEW t, OneSocket(v, v2, "host", n, t), n = v.next["host"],
         NextUp(v, v2, "host", n), FinOpens(v, v2, Near(n)),
         t.st = "live", t.peer \in {None, Smart}, t.end = Near(n), t.pkts = <<>>
  PROVE  /\ Carried(v2) /\ v.fin[Near(n)] = "none" /\ v.fin[Far(n)] = "none" /\ v2.fin[Far(n)] = "none"
         /\ ~Has(v.chan["host"], ClsesTo(n)) /\ ~Has(v.chan["device"], OpensOf(n))
<1>1. /\ \A g \in Procs, m \in Ids : RecvOK(v, g, m) /\ SendOK(v, g, m) /\ EndOK(v, g, m)
      /\ DataOK(v) /\ EndsOK(v) /\ FreshOK(v) /\ NamesOK(v) /\ CnxnOK(v) /\ "host" \in Procs /\ "device" \in Procs
      /\ \A q \in Elements(v.chan["host"]) \cup Elements(v.chan["device"]) : q \in Packets
      /\ v \in Views /\ SocketsOK(v) /\ OneEach(v) /\ PairEnds(v)
      /\ \A g \in Procs, m \in Ids : Used(v, g, m) => v.sock[g][m].end \in Ends
      /\ \A z \in Ends : SeenOK(v, z)
  BY GoodFacts DEF Procs, Sound, EndsOK
<1>2. /\ n \in Ids /\ Near(n) \in Ends /\ Far(n) \in Ends /\ FarOf(Near(n)) = Far(n) /\ FarOf(Far(n)) = Near(n)
      /\ Near(n) # Far(n) /\ n \in Nat
  BY SideFacts DEF HostSide
<1>3. v.fin \in [Ends -> Promise!Fins] /\ v.next \in [Procs -> Nat \ {0}]
  BY <1>1, ViewFacts
<1>4. /\ v2.sock["host"][n] = t /\ v2.link = v.link /\ v2.state = v.state
      /\ \A g \in Procs, m \in Ids : g # "host" \/ m # n => v2.sock[g][m] = v.sock[g][m]
      /\ v2.fin[Near(n)] = "open" /\ \A z \in Ends : z # Near(n) => v2.fin[z] = v.fin[z]
      /\ v2.next["host"] = n + 1 /\ v2.next["device"] = v.next["device"]
  BY <1>1, <1>2, <1>3 DEF OneSocket, SameRest, NextUp, FinOpens
<1>5. v.sock["host"][n].st = "none" /\ ~Known(v, n) /\ v.sock["host"][n].peer = None
  BY <1>1, <1>2 DEF SocketsOK, Known, SocketOK
<1>6. /\ ~Has(v.chan["host"], OkaysTo(n)) /\ ~Has(v.chan["host"], WrtesTo(n))
      /\ ~Has(v.chan["host"], ClsesTo(n)) /\ ~Has(v.chan["device"], OpensOf(n))
      /\ ~Opens(v, "host", n) /\ ~Joined(v, "host", n)
      /\ \A p \in Elements(v.chan["device"]) : p.cmd = "OPEN" => p.arg0 # n
  BY <1>2, <1>5, Unknown
<1>7. v.fin[Near(n)] = "none" /\ v.fin[Far(n)] = "none" /\ v.sent[Near(n)] = <<>>
  <2>1. v.fin[Near(n)] = "none"
    BY <1>1, <1>2 DEF FreshOK
  <2> QED
    BY <1>1, <1>2, <2>1 DEF FreshOK, SeenOK
<1>8. \A g \in Procs, m \in Ids : Used(v, g, m) => /\ v.sock[g][m].end # Near(n) /\ v.sock[g][m].end # Far(n)
                                                   /\ v.fin[v.sock[g][m].end] # "none"
  BY <1>1, <1>7 DEF Used, EndOK
<1>9. \A g \in Procs, m \in Ids : /\ Opens(v2, g, m) = Opens(v, g, m)
                                  /\ Joined(v2, g, m) = Joined(v, g, m)
  <2>1. \A g \in Procs, j, m \in Ids : v2.sock[g][j].peer = Remote(m) <=> v.sock[g][j].peer = Remote(m)
    BY <1>4, <1>5, PeerKinds
  <2>2. \A g \in Procs, m \in Ids : Joined(v2, g, m) = Joined(v, g, m)
    BY <1>4, <2>1, ProcFacts DEF Joined
  <2> QED
    BY <2>2 DEF Opens
<1>10. ~IsLocal(t.peer) /\ ~IsRemote(t.peer)
  BY PeerKinds DEF IsLocal, IsRemote
<1>11. ASSUME NEW g \in Procs, NEW m \in Ids PROVE EndOK(v2, g, m) /\ RecvOK(v2, g, m) /\ SendOK(v2, g, m)
  <2>1. CASE g = "host" /\ m = n
    <3>1. EndOK(v2, "host", n)
      BY <1>2, <1>4 DEF EndOK
    <3>2. ~Joined(v2, "host", n)
      BY <1>1, <1>2, <1>6, <1>9
    <3>3. AtMostOne(v.chan["host"], WrtesTo(n)) /\ AtMostOne(v.chan["host"], OkaysTo(n))
      BY <1>6 DEF AtMostOne, Has, Elements
    <3>4. RecvOK(v2, "host", n)
      BY <1>4, <1>6, <1>10, <3>2, <3>3 DEF RecvOK, Receives, Has
    <3>5. SendOK(v2, "host", n)
      BY <1>4, <1>6, <3>3 DEF SendOK, Sends
    <3> QED
      BY <2>1, <3>1, <3>4, <3>5
  <2>2. CASE ~(g = "host" /\ m = n)
    <3>0. v2.sock[g][m] = v.sock[g][m]
      BY <1>4, <2>2
    <3>1. Used(v, g, m) => /\ v.sock[g][m].end \in Ends /\ v.sock[g][m].end # Near(n)
                           /\ FarOf(v.sock[g][m].end) \in Ends /\ FarOf(v.sock[g][m].end) # Near(n)
      BY <1>1, <1>2, <1>8, EndFacts
    <3>2. Alone(v, v2, g, m)
      BY <1>4, <1>9, <3>0, <3>1, SameSelf DEF Alone, Steady, SameData
    <3>3. EndOK(v2, g, m)
      BY <1>1, <1>4, <3>0, <3>1, EndSame DEF Steady
    <3> QED
      BY <1>1, <3>2, <3>3, FlowAlone
  <2> QED
    BY <2>1, <2>2
<1>12. EndsOK(v2)
  <2>1. OneEach(v2)
    <3> SUFFICES ASSUME NEW g \in Procs, NEW f \in Procs, NEW m \in Ids, NEW k \in Ids,
                        Used(v2, g, m), Used(v2, f, k), v2.sock[g][m].end = v2.sock[f][k].end
                 PROVE  g = f /\ m = k
      BY DEF OneEach
    <3>1. \A h \in Procs, j \in Ids : ~(h = "host" /\ j = n) /\ Used(v2, h, j) =>
            Used(v, h, j) /\ v2.sock[h][j].end = v.sock[h][j].end /\ v2.sock[h][j].end # Near(n)
      BY <1>4, <1>8 DEF Used
    <3>2. v2.sock["host"][n].end = Near(n)
      BY <1>4
    <3> QED
      BY <1>1, <3>1, <3>2 DEF OneEach
  <2>2. PairEnds(v2)
    <3> SUFFICES ASSUME NEW j \in Ids, NEW m \in Ids, v2.sock["host"][j].peer = Local(m)
                 PROVE  v2.sock["host"][m].end = FarOf(v2.sock["host"][j].end)
      BY DEF PairEnds
    <3>1. j # n /\ v2.sock["host"][j] = v.sock["host"][j]
      BY <1>1, <1>4, <1>10 DEF IsLocal
    <3>2. v.sock["host"][m].peer = Local(j)
      BY <3>1, GoodFacts DEF Sound, PairsOK
    <3>3. m # n
      BY <1>5, <3>2, PeerKinds
    <3> QED
      BY <1>1, <1>4, <3>1, <3>3 DEF PairEnds
  <2> QED
    BY <1>11, <2>1, <2>2 DEF EndsOK
<1>13. FreshOK(v2)
  <2>1. \A j \in HostSide : Near(j) \in Ends /\ Far(j) \in Ends /\ Far(j) # Near(n) /\ (Near(j) = Near(n) => j = n) /\ j \in Nat
    BY SideFacts DEF HostSide
  <2>2. ASSUME NEW j \in HostSide
        PROVE  /\ j >= v2.next["host"] => v2.fin[Near(j)] = "none"
               /\ v2.fin[Near(j)] = "none" => v2.fin[Far(j)] = "none"
    <3>1. j >= n + 1 => j >= n /\ j # n
      BY <1>2, <2>1
    <3> QED
      BY <1>1, <1>4, <2>1, <3>1 DEF FreshOK
  <2>3. ASSUME NEW j \in Ids, v2.sock["host"][j].st = "live"
        PROVE  /\ v2.sock["host"][j].peer = Smart => v2.fin[Far(j)] = "none"
               /\ v2.sock["host"][j].peer \in {None, Smart} => v2.sent[Near(j)] = <<>>
               /\ IsRemote(v2.sock["host"][j].peer) => v2.fin[Far(j)] # "none"
    <3>1. CASE j = n
      BY <1>2, <1>4, <1>7, <1>10, <3>1
    <3>2. CASE j # n
      <4>1. v2.sock["host"][j] = v.sock["host"][j]
        BY <1>1, <1>4, <3>2
      <4>2. EndOK(v, "host", j) /\ v.sock["host"][j].st = "live"
        BY <1>1, <2>3, <4>1
      <4>3. ~IsLocal(v.sock["host"][j].peer) => j \in HostSide
        BY <4>2, SideFacts DEF EndOK, IsLocal
      <4>4. IsRemote(v.sock["host"][j].peer) \/ v.sock["host"][j].peer \in {None, Smart} => j \in HostSide
        BY <4>3, PeerKinds DEF IsLocal, IsRemote
      <4> QED
        BY <1>1, <1>4, <2>1, <4>1, <4>2, <4>4 DEF FreshOK
    <3> QED
      BY <3>1, <3>2
  <2> QED
    BY <2>2, <2>3 DEF FreshOK
<1>14. DataOK(v2)
  <2> SUFFICES ASSUME NEW z \in Ends PROVE SeenOK(v2, z)
    BY DEF DataOK
  <2>1. SeenOK(v, z) /\ FarOf(z) \in Ends /\ (FarOf(z) = Near(n) => z = Far(n))
    BY <1>1, <1>2, EndFacts
  <2> QED
    BY <1>2, <1>4, <1>7, <2>1 DEF SeenOK
<1>15. NamesOK(v2)
  <2>1. \A j \in Ids : Known(v, j) => Known(v2, j)
    BY <1>1, <1>4, <1>5 DEF Known
  <2>2. \A m \in Ids : v2.sock["device"][m] = v.sock["device"][m]
    BY <1>1, <1>4
  <2>3. \A j, m \in Ids : v2.sock["host"][j].peer = Remote(m) => v.sock["host"][j].peer = Remote(m)
    BY <1>1, <1>4, <1>10 DEF IsRemote
  <2>4. \A j \in Ids : AtMostOne(v2.chan["device"], OpensOf(j))
    BY <1>1 DEF NamesOK
  <2>5. \A j \in HostSide : Far(j) \in Ends /\ Far(j) # Near(n) /\ Near(j) \in Ends /\ (j # n => Near(j) # Near(n))
    BY SideFacts
  <2>7. /\ v2.next["device"] = v.next["device"] /\ v2.state["device"] = v.state["device"]
        /\ \A p \in Elements(v2.chan["host"]) : p \in Elements(v.chan["host"])
        /\ \A p \in Elements(v2.chan["device"]) : p \in Elements(v.chan["device"])
        /\ \A j \in HostSide : v2.fin[Far(j)] = v.fin[Far(j)]
    BY <1>4, <2>5
  <2>6. ASSUME NEW p \in Elements(v2.chan["device"]), p.cmd = "OPEN"
        PROVE  v2.fin[Far(p.arg0)] = v.fin[Far(p.arg0)] /\ v2.fin[Near(p.arg0)] = v.fin[Near(p.arg0)]
    <3>1. p.arg0 \in HostSide /\ p.arg0 # n
      BY <1>1, <1>6, <2>6 DEF NamesOK, ToDeviceOK
    <3> QED
      BY <1>4, <2>5, <3>1
  <2> QED
    <3>1. /\ \A p \in Elements(v2.chan["host"]) : p \in Elements(v.chan["host"]) \/ ToHostOK(v2, p)
          /\ \A p \in Elements(v2.chan["device"]) : p \in Elements(v.chan["device"]) \/ ToDeviceOK(v2, p)
          /\ \A j \in HostSide : v2.fin[Far(j)] = "none" => v.fin[Far(j)] = "none"
      BY <2>7
    <3>2. /\ \A k \in Ids : v2.sock["device"][k].st = "live" =>
               v.sock["device"][k].st = "live" /\ v2.sock["device"][k].peer = v.sock["device"][k].peer
          /\ \A j, k \in Ids : v2.sock["host"][j].peer = Remote(k) =>
               \/ v.sock["host"][j].peer = Remote(k)
               \/ /\ v2.sock["device"][k].st = "live" => v2.sock["device"][k].peer = Remote(j)
                  /\ v2.state["device"] = "connected" => k < v2.next["device"]
      BY <2>2, <2>3
    <3>3. \A p \in Elements(v2.chan["device"]) : p.cmd = "OPEN" =>
           /\ v.fin[Far(p.arg0)] = "none" => v2.fin[Far(p.arg0)] = "none"
           /\ v2.fin[Near(p.arg0)] \in {"none", "peer"} => v.fin[Near(p.arg0)] \in {"none", "peer"}
      BY <2>6
    <3>4. NamesOK(v) /\ \A q \in Elements(v.chan["host"]) \cup Elements(v.chan["device"]) : q \in Packets
      BY <1>1
    <3> QED
      BY <2>1, <2>4, <2>7, <3>1, <3>2, <3>3, <3>4, NamesLess, Zenon
<1>16. CnxnOK(v2)
  <2>1. \A j \in Ids : IsRemote(v2.sock["host"][j].peer) => IsRemote(v.sock["host"][j].peer)
    BY <1>1, <1>4, <1>10
  <2> QED
    BY <1>1, <1>4, <2>1 DEF CnxnOK
<1> QED
  BY <1>2, <1>4, <1>6, <1>7, <1>11, <1>12, <1>13, <1>14, <1>15, <1>16 DEF Carried, Flow

\* A client is connected to a service of the host.
LEMMA ServeGood ==
  ASSUME NEW v, NEW v2, Good(v), Sound(v2), SameRest(v, v2), v2.chan = v.chan, v2.sent = v.sent, v2.rcvd = v.rcvd,
         NEW i \in Ids, NEW n \in Ids, NEW s2, NEW t, n = v.next["host"],
         v.sock["host"][i].st = "live", v.sock["host"][i].peer = Smart,
         v2.sock["host"][i] = s2, v2.sock["host"][n] = t,
         \A f \in Procs, k \in Ids : f = "device" \/ k \notin {i, n} => v2.sock[f][k] = v.sock[f][k],
         s2.st = "live", s2.peer = Local(n), s2.end = v.sock["host"][i].end, s2.pkts = v.sock["host"][i].pkts,
         t.st = "live", t.peer = Local(i), t.end = Far(i), t.pkts = <<>>,
         v2.next = [v.next EXCEPT !["host"] = n + 1], v2.fin = [v.fin EXCEPT ![Far(i)] = "open"]
  PROVE  Carried(v2) /\ v.fin[Far(i)] = "none"
<1> DEFINE s == v.sock["host"][i]
<1>1. /\ \A g \in Procs, m \in Ids : RecvOK(v, g, m) /\ SendOK(v, g, m) /\ EndOK(v, g, m)
      /\ DataOK(v) /\ EndsOK(v) /\ FreshOK(v) /\ NamesOK(v) /\ CnxnOK(v) /\ "host" \in Procs /\ "device" \in Procs
      /\ \A q \in Elements(v.chan["host"]) \cup Elements(v.chan["device"]) : q \in Packets
      /\ v \in Views /\ SocketsOK(v) /\ OneEach(v) /\ PairEnds(v) /\ PairsOK(v2)
      /\ \A g \in Procs, m \in Ids : Used(v, g, m) => v.sock[g][m].end \in Ends
      /\ \A z \in Ends : SeenOK(v, z)
  BY GoodFacts DEF Procs, Sound, EndsOK
<1>2. /\ i \in HostSide /\ s.end = Near(i) /\ v.fin[Near(i)] = "open" /\ v.fin[Far(i)] = "none"
      /\ v.sent[Near(i)] = <<>> /\ v.rcvd[Far(i)] = <<>> /\ v.sent[Far(i)] = <<>> /\ v.rcvd[Near(i)] = <<>>
      /\ ~Known(v, i)
  BY Fresh
<1>3. /\ Near(i) \in Ends /\ Far(i) \in Ends /\ FarOf(Near(i)) = Far(i) /\ FarOf(Far(i)) = Near(i)
      /\ Near(i) # Far(i)
  BY <1>2, SideFacts
<1>4. v.fin \in [Ends -> Promise!Fins] /\ v.next \in [Procs -> Nat \ {0}]
  BY <1>1, ViewFacts
<1>5. /\ v2.fin[Far(i)] = "open" /\ \A z \in Ends : z # Far(i) => v2.fin[z] = v.fin[z]
      /\ v2.next["host"] = n + 1 /\ v2.next["device"] = v.next["device"] /\ n \in Nat
      /\ v2.link = v.link /\ v2.state = v.state
      /\ \A g \in Procs, m \in Ids : ~(g = "host" /\ m = i) /\ ~(g = "host" /\ m = n) => v2.sock[g][m] = v.sock[g][m]
  BY <1>1, <1>3, <1>4 DEF SameRest, Procs
<1>6. v.sock["host"][n].st = "none" /\ ~Known(v, n) /\ v.sock["host"][n].peer = None /\ n # i
  BY <1>1, <1>5 DEF SocketsOK, Known, SocketOK
<1>7. \A j \in {i, n} :
        /\ ~Has(v.chan["host"], OkaysTo(j)) /\ ~Has(v.chan["host"], WrtesTo(j))
        /\ ~Has(v.chan["host"], ClsesTo(j)) /\ ~Opens(v, "host", j) /\ ~Joined(v, "host", j)
        /\ \A p \in Elements(v.chan["device"]) : p.cmd = "OPEN" => p.arg0 # j
        /\ AtMostOne(v.chan["host"], WrtesTo(j)) /\ AtMostOne(v.chan["host"], OkaysTo(j))
  <2> SUFFICES ASSUME NEW j \in {i, n}
               PROVE  /\ ~Has(v.chan["host"], OkaysTo(j)) /\ ~Has(v.chan["host"], WrtesTo(j))
                      /\ ~Has(v.chan["host"], ClsesTo(j)) /\ ~Opens(v, "host", j) /\ ~Joined(v, "host", j)
                      /\ \A p \in Elements(v.chan["device"]) : p.cmd = "OPEN" => p.arg0 # j
                      /\ AtMostOne(v.chan["host"], WrtesTo(j)) /\ AtMostOne(v.chan["host"], OkaysTo(j))
    OBVIOUS
  <2>1. ~Known(v, j) /\ j \in Ids
    BY <1>2, <1>6
  <2>2. /\ ~Has(v.chan["host"], OkaysTo(j)) /\ ~Has(v.chan["host"], WrtesTo(j))
        /\ ~Has(v.chan["host"], ClsesTo(j)) /\ ~Opens(v, "host", j) /\ ~Joined(v, "host", j)
        /\ \A p \in Elements(v.chan["device"]) : p.cmd = "OPEN" => p.arg0 # j
    BY <2>1, Unknown
  <2>3. AtMostOne(v.chan["host"], WrtesTo(j)) /\ AtMostOne(v.chan["host"], OkaysTo(j))
    BY <2>2 DEF AtMostOne, Has, Elements
  <2> QED
    BY <2>2, <2>3
<1>8. \A g \in Procs, m \in Ids : Used(v, g, m) => v.sock[g][m].end # Far(i) /\ (v.sock[g][m].end = Near(i) => g = "host" /\ m = i)
  <2>1. Used(v, "host", i) /\ v.sock["host"][i].end = Near(i)
    BY <1>2 DEF Used
  <2> QED
    BY <1>1, <1>2, <2>1 DEF Used, EndOK, OneEach
<1>9. \A g \in Procs, m \in Ids : /\ Opens(v2, g, m) = Opens(v, g, m)
                                  /\ Joined(v2, g, m) = Joined(v, g, m)
  <2>1. \A g \in Procs, j, m \in Ids : v2.sock[g][j].peer = Remote(m) <=> v.sock[g][j].peer = Remote(m)
    BY <1>5, <1>6, PeerKinds
  <2>2. \A g \in Procs, m \in Ids : Joined(v2, g, m) = Joined(v, g, m)
    BY <1>5, <2>1, ProcFacts DEF Joined
  <2> QED
    BY <2>2 DEF Opens
<1>10. /\ IsLocal(s2.peer) /\ IsLocal(t.peer) /\ s2.peer \notin {None, Smart} /\ t.peer \notin {None, Smart}
       /\ ~IsRemote(s2.peer) /\ ~IsRemote(t.peer)
  BY PeerKinds DEF IsLocal, IsRemote
<1>11. s.pkts = <<>> /\ s2.pkts = <<>> /\ s2.end = Near(i)
  <2>1. SocketOK("host", s) /\ s.st = "live" /\ s.peer = Smart
    BY <1>1 DEF SocketsOK
  <2> QED
    BY <1>2, <2>1 DEF SocketOK, LiveOK
<1> HIDE DEF s
<1>12. ASSUME NEW g \in Procs, NEW m \in Ids PROVE EndOK(v2, g, m) /\ RecvOK(v2, g, m) /\ SendOK(v2, g, m)
  <2>1. CASE g = "host" /\ m = n
    <3>1. EndOK(v2, "host", n)
      BY <1>2, <1>5 DEF EndOK
    <3>2. ~Joined(v2, "host", n)
      BY <1>1, <1>7, <1>9
    <3>4. RecvOK(v2, "host", n)
      BY <1>2, <1>3, <1>7, <3>2 DEF RecvOK, Receives, Has
    <3>5. SendOK(v2, "host", n)
      BY <1>2, <1>3, <1>7 DEF SendOK, Sends
    <3> QED
      BY <2>1, <3>1, <3>4, <3>5
  <2>2. CASE g = "host" /\ m = i
    <3>1. EndOK(v2, "host", i)
      BY <1>2, <1>3, <1>5, <1>11 DEF EndOK
    <3>2. ~Joined(v2, "host", i)
      BY <1>1, <1>7, <1>9
    <3>4. RecvOK(v2, "host", i)
      BY <1>2, <1>3, <1>7, <1>11, <3>2 DEF RecvOK, Receives, Has
    <3>5. SendOK(v2, "host", i)
      BY <1>2, <1>3, <1>7, <1>11 DEF SendOK, Sends
    <3> QED
      BY <2>2, <3>1, <3>4, <3>5
  <2>3. CASE ~(g = "host" /\ m = n) /\ ~(g = "host" /\ m = i)
    <3>0. v2.sock[g][m] = v.sock[g][m]
      BY <1>5, <2>3
    <3>1. Used(v, g, m) => /\ v.sock[g][m].end \in Ends /\ v.sock[g][m].end # Far(i)
                           /\ FarOf(v.sock[g][m].end) \in Ends /\ FarOf(v.sock[g][m].end) # Far(i)
      <4>1. Used(v, g, m) => v.sock[g][m].end \in Ends /\ v.sock[g][m].end # Far(i) /\ v.sock[g][m].end # Near(i)
        BY <1>1, <1>8, <2>3
      <4> QED
        BY <1>3, <4>1, EndFacts
    <3>2. Alone(v, v2, g, m)
      BY <1>5, <1>9, <3>0, <3>1, SameSelf DEF Alone, Steady, SameData
    <3>3. EndOK(v2, g, m)
      BY <1>1, <1>5, <3>0, <3>1, EndSame DEF Steady
    <3> QED
      BY <1>1, <3>2, <3>3, FlowAlone
  <2> QED
    BY <2>1, <2>2, <2>3
<1>13. EndsOK(v2)
  <2>1. OneEach(v2)
    <3> SUFFICES ASSUME NEW g \in Procs, NEW f \in Procs, NEW m \in Ids, NEW k \in Ids,
                        Used(v2, g, m), Used(v2, f, k), v2.sock[g][m].end = v2.sock[f][k].end
                 PROVE  g = f /\ m = k
      BY DEF OneEach
    <3>1. \A h \in Procs, j \in Ids : ~(h = "host" /\ j = n) /\ Used(v2, h, j) =>
            Used(v, h, j) /\ v2.sock[h][j].end = v.sock[h][j].end /\ v2.sock[h][j].end # Far(i)
      <4>1. \A h \in Procs, j \in Ids : ~(h = "host" /\ j = n) /\ Used(v2, h, j) =>
              Used(v, h, j) /\ v2.sock[h][j].end = v.sock[h][j].end
        BY <1>5 DEF Used
      <4> QED
        BY <1>8, <4>1
    <3> QED
      BY <1>1, <3>1 DEF OneEach
  <2>2. PairEnds(v2)
    <3> SUFFICES ASSUME NEW j \in Ids, NEW m \in Ids, v2.sock["host"][j].peer = Local(m)
                 PROVE  v2.sock["host"][m].end = FarOf(v2.sock["host"][j].end)
      BY DEF PairEnds
    <3>1. CASE j = i
      <4>1. m = n
        BY <3>1, PeerKinds
      <4> QED
        BY <1>3, <1>11, <3>1, <4>1
    <3>2. CASE j = n
      <4>1. m = i
        BY <3>2, PeerKinds
      <4> QED
        BY <1>3, <1>11, <3>2, <4>1
    <3>3. CASE j \notin {i, n}
      <4>1. v2.sock["host"][j] = v.sock["host"][j]
        BY <1>1, <1>5, <3>3
      <4>2. v.sock["host"][m].peer = Local(j)
        BY <4>1, GoodFacts DEF Sound, PairsOK
      <4>3. m \notin {i, n}
        BY <1>6, <4>2, PeerKinds
      <4> QED
        BY <1>1, <1>5, <4>1, <4>3 DEF PairEnds
    <3> QED
      BY <3>1, <3>2, <3>3
  <2> QED
    BY <1>12, <2>1, <2>2 DEF EndsOK
<1>14. FreshOK(v2)
  <2>1. \A j \in HostSide : Near(j) \in Ends /\ Far(j) \in Ends /\ Near(j) # Far(i) /\ (Far(j) = Far(i) => j = i) /\ j \in Nat
    BY SideFacts DEF HostSide
  <2>2. ASSUME NEW j \in HostSide
        PROVE  /\ j >= v2.next["host"] => v2.fin[Near(j)] = "none"
               /\ v2.fin[Near(j)] = "none" => v2.fin[Far(j)] = "none"
    <3>1. j >= n + 1 => j >= n
      BY <1>5, <2>1
    <3> QED
      BY <1>1, <1>2, <1>5, <2>1, <3>1 DEF FreshOK
  <2>3. ASSUME NEW j \in Ids, v2.sock["host"][j].st = "live"
        PROVE  /\ v2.sock["host"][j].peer = Smart => v2.fin[Far(j)] = "none"
               /\ v2.sock["host"][j].peer \in {None, Smart} => v2.sent[Near(j)] = <<>>
               /\ IsRemote(v2.sock["host"][j].peer) => v2.fin[Far(j)] # "none"
    <3>1. CASE j \in {i, n}
      BY <1>10, <3>1
    <3>2. CASE j \notin {i, n}
      <4>1. v2.sock["host"][j] = v.sock["host"][j]
        BY <1>1, <1>5, <3>2
      <4>2. EndOK(v, "host", j) /\ v.sock["host"][j].st = "live"
        BY <1>1, <2>3, <4>1
      <4>3. ~IsLocal(v.sock["host"][j].peer) => j \in HostSide
        BY <4>2, SideFacts DEF EndOK, IsLocal
      <4>4. IsRemote(v.sock["host"][j].peer) \/ v.sock["host"][j].peer \in {None, Smart} => j \in HostSide
        BY <4>3, PeerKinds DEF IsLocal, IsRemote
      <4> QED
        BY <1>1, <1>5, <2>1, <3>2, <4>1, <4>2, <4>4 DEF FreshOK
    <3> QED
      BY <3>1, <3>2
  <2> QED
    BY <2>2, <2>3 DEF FreshOK
<1>15. DataOK(v2)
  <2> SUFFICES ASSUME NEW z \in Ends PROVE SeenOK(v2, z)
    BY DEF DataOK
  <2>1. SeenOK(v, z) /\ FarOf(z) \in Ends /\ (FarOf(z) = Far(i) => z = Near(i))
    BY <1>1, <1>3, EndFacts
  <2> QED
    BY <1>2, <1>3, <1>5, <2>1 DEF SeenOK
<1>16. NamesOK(v2)
  <2>1. \A j \in Ids : Known(v, j) => Known(v2, j)
    <3>1. \A j \in Ids : Known(v, j) => v2.sock["host"][j] = v.sock["host"][j]
      BY <1>1, <1>2, <1>5, <1>6
    <3> QED
      BY <3>1 DEF Known
  <2>2. \A m \in Ids : v2.sock["device"][m] = v.sock["device"][m]
    BY <1>1, <1>5
  <2>3. \A j, m \in Ids : v2.sock["host"][j].peer = Remote(m) => v.sock["host"][j].peer = Remote(m)
    BY <1>1, <1>5, <1>10 DEF IsRemote
  <2>4. \A j \in Ids : AtMostOne(v2.chan["device"], OpensOf(j))
    BY <1>1 DEF NamesOK
  <2>5. \A j \in HostSide : Far(j) \in Ends /\ (j # i => Far(j) # Far(i)) /\ Near(j) \in Ends /\ Near(j) # Far(i)
    BY SideFacts
  <2>6. ASSUME NEW p \in Elements(v2.chan["device"]), p.cmd = "OPEN"
        PROVE  v2.fin[Far(p.arg0)] = v.fin[Far(p.arg0)] /\ v2.fin[Near(p.arg0)] = v.fin[Near(p.arg0)]
    <3>1. p.arg0 \in HostSide /\ p.arg0 # i
      BY <1>1, <1>7, <2>6 DEF NamesOK, ToDeviceOK
    <3> QED
      BY <1>5, <2>5, <3>1
  <2>7. /\ v2.next["device"] = v.next["device"] /\ v2.state["device"] = v.state["device"]
        /\ \A p \in Elements(v2.chan["host"]) : p \in Elements(v.chan["host"]) \/ ToHostOK(v2, p)
        /\ \A p \in Elements(v2.chan["device"]) : p \in Elements(v.chan["device"]) \/ ToDeviceOK(v2, p)
    BY <1>5
  <2>8. \A j \in HostSide : v2.fin[Far(j)] = "none" => v.fin[Far(j)] = "none"
    BY <1>5, <2>5
  <2>9. /\ \A k \in Ids : v2.sock["device"][k].st = "live" =>
             v.sock["device"][k].st = "live" /\ v2.sock["device"][k].peer = v.sock["device"][k].peer
        /\ \A j, k \in Ids : v2.sock["host"][j].peer = Remote(k) =>
             \/ v.sock["host"][j].peer = Remote(k)
             \/ /\ v2.sock["device"][k].st = "live" => v2.sock["device"][k].peer = Remote(j)
                /\ v2.state["device"] = "connected" => k < v2.next["device"]
    BY <2>2, <2>3
  <2>10. \A p \in Elements(v2.chan["device"]) : p.cmd = "OPEN" =>
           /\ v.fin[Far(p.arg0)] = "none" => v2.fin[Far(p.arg0)] = "none"
           /\ v2.fin[Near(p.arg0)] \in {"none", "peer"} => v.fin[Near(p.arg0)] \in {"none", "peer"}
    BY <2>6
  <2>11. NamesOK(v) /\ \A q \in Elements(v.chan["host"]) \cup Elements(v.chan["device"]) : q \in Packets
    BY <1>1
  <2> QED
    BY <2>1, <2>4, <2>7, <2>8, <2>9, <2>10, <2>11, NamesLess, Zenon
<1>17. CnxnOK(v2)
  <2>1. \A j \in Ids : IsRemote(v2.sock["host"][j].peer) => IsRemote(v.sock["host"][j].peer)
    BY <1>1, <1>5, <1>10
  <2> QED
    BY <1>1, <1>5, <2>1 DEF CnxnOK
<1> QED
  BY <1>2, <1>12, <1>13, <1>14, <1>15, <1>16, <1>17 DEF Carried, Flow

\* A packet that neither carries data nor closes tells a socket nothing about
\* what it receives.
LEMMA ReceivesOther ==
  ASSUME NEW s, NEW i, NEW c \in Seq(Packets), NEW p \in Packets, NEW to, NEW got, NEW far,
         NEW joined, NEW opens, Receives(s, i, c, to, got, far, joined, opens), p \notin WrtesTo(i),
         p \notin ClsesTo(i), NEW d, d = Append(c, p)
  PROVE  Receives(s, i, d, to, got, far, joined, opens)
  BY ReceivesPush

\* The device accepts a stream: a new socket, and its A_OKAY on its way.
LEMMA OpenGood ==
  ASSUME NEW v, NEW v2, Good(v), SameRest(v, v2), v2.sent = v.sent, v2.rcvd = v.rcvd,
         NEW j \in HostSide, NEW n \in Ids, NEW t, OneSocket(v, v2, "device", n, t), n = v.next["device"],
         NextUp(v, v2, "device", n), FinOpens(v, v2, Far(j)),
         t.st = "live", t.peer = Remote(j), t.end = Far(j), t.pkts = <<>>,
         v2.chan["device"] = v.chan["device"],
         v2.chan["host"] = IF v.link THEN Append(v.chan["host"], Okay(n, j)) ELSE v.chan["host"],
         v.state["device"] = "connected", Known(v, j),
         v.fin[Far(j)] = "none", v.fin[Near(j)] \notin {"none", "peer"},
         ~Has(v.chan["device"], OpensOf(j)),
         v.sock["host"][j].st = "live" => ~Has(v.chan["host"], ClsesTo(j))
  PROVE  Carried(v2)
<1>1. /\ FreshOK(v) /\ NamesOK(v) /\ CnxnOK(v) /\ OneEach(v) /\ PairEnds(v) /\ DataOK(v)
      /\ "host" \in Procs /\ "device" \in Procs /\ v \in Views /\ SocketsOK(v)
      /\ v.chan["host"] \in Seq(Packets) /\ v.chan["device"] \in Seq(Packets)
      /\ \A p \in Elements(v.chan["host"]) \cup Elements(v.chan["device"]) : p \in Packets
      /\ \A g \in Procs, m \in Ids : v.sock[g][m] \in Sockets /\ EndOK(v, g, m) /\ RecvOK(v, g, m) /\ SendOK(v, g, m)
      /\ \A g \in Procs, m \in Ids : Used(v, g, m) => v.sock[g][m].end \in Ends
      /\ \A z \in Ends : SeenOK(v, z) /\ v.sent[z] \in Seq(Data) /\ v.rcvd[z] \in Seq(Data)
  BY GoodFacts DEF Procs, Sound, EndsOK
<1>2. /\ j \in Ids /\ Near(j) \in Ends /\ Far(j) \in Ends /\ FarOf(Near(j)) = Far(j) /\ FarOf(Far(j)) = Near(j)
      /\ Near(j) # Far(j) /\ n \in Nat
  BY SideFacts DEF Ids
<1>3. v.fin \in [Ends -> Promise!Fins] /\ v.next \in [Procs -> Nat \ {0}]
  BY <1>1, ViewFacts
<1>4. /\ v2.sock["device"][n] = t /\ v2.link = v.link /\ v2.state = v.state
      /\ \A g \in Procs, m \in Ids : g # "device" \/ m # n => v2.sock[g][m] = v.sock[g][m]
      /\ v2.fin[Far(j)] = "open" /\ \A z \in Ends : z # Far(j) => v2.fin[z] = v.fin[z]
      /\ v2.next["device"] = n + 1 /\ v2.next["host"] = v.next["host"]
  BY <1>1, <1>2, <1>3 DEF OneSocket, SameRest, NextUp, FinOpens
<1>5. v.sock["device"][n].st = "none" /\ v.sock["device"][n].peer = None
  BY <1>1, <1>2, GoodFacts DEF SocketsOK, SocketOK
<1>6. /\ v.sent[Far(j)] = <<>> /\ v.rcvd[Far(j)] = <<>> /\ v.rcvd[Near(j)] = <<>>
  <2>1. SeenOK(v, Far(j)) /\ SeenOK(v, Near(j)) /\ v.rcvd[Near(j)] \in Seq(Data)
    BY <1>1, <1>2
  <2>2. v.sent[Far(j)] = <<>> /\ v.rcvd[Far(j)] = <<>>
    BY <2>1 DEF SeenOK
  <2>3. v.rcvd[Near(j)] = v.sent[Far(j)] \/ \E d \in Data : v.sent[Far(j)] = Append(v.rcvd[Near(j)], d)
    BY <1>2, <2>1 DEF SeenOK
  <2> QED
    BY <2>1, <2>2, <2>3, Longer
<1>7. \A g \in Procs, m \in Ids : Used(v, g, m) => /\ v.sock[g][m].end # Far(j)
                                                   /\ v.sock[g][m].end = Near(j) /\ v.sock[g][m].st = "live" => g = "host" /\ m = j
  <2>1. \A g \in Procs, m \in Ids : Used(v, g, m) => v.sock[g][m].end # Far(j)
    BY <1>1 DEF Used, EndOK
  <2>2. ASSUME NEW g \in Procs, NEW m \in Ids, v.sock[g][m].st = "live", v.sock[g][m].end = Near(j)
        PROVE  g = "host" /\ m = j
    BY <1>1, <2>2, SideFacts DEF EndOK, Procs
  <2> QED
    BY <2>1, <2>2
\* The client waits for its first A_OKAY.
<1>8. v.sock["host"][j].st = "live" =>
        /\ v.sock["host"][j].peer = None /\ v.sock["host"][j].want = {} /\ v.sock["host"][j].end = Near(j)
        /\ v.sock["host"][j].pkts = <<>> /\ v.sent[Near(j)] = <<>> /\ ~Has(v.chan["host"], OkaysTo(j))
  <2> SUFFICES ASSUME v.sock["host"][j].st = "live"
               PROVE  /\ v.sock["host"][j].peer = None /\ v.sock["host"][j].want = {} /\ v.sock["host"][j].end = Near(j)
                      /\ v.sock["host"][j].pkts = <<>> /\ v.sent[Near(j)] = <<>> /\ ~Has(v.chan["host"], OkaysTo(j))
    OBVIOUS
  <2>1. v.sock["host"][j].transport /\ v.sock["host"][j].peer \in Peers \ {Smart} /\ SocketOK("host", v.sock["host"][j])
    BY <1>1, <1>2, GoodFacts, SocketFacts DEF Known
  <2>2. LiveOK("host", v.sock["host"][j])
    BY <2>1 DEF SocketOK
  <2>3. v.sock["host"][j].peer # Smart /\ ~IsLocal(v.sock["host"][j].peer)
    BY <2>1, <2>2 DEF LiveOK
  <2>4. ~IsRemote(v.sock["host"][j].peer)
    BY <1>1, <1>2 DEF FreshOK
  <2>5. v.sock["host"][j].peer = None
    BY <2>1, <2>3, <2>4, PeerKinds
  <2>6. v.sock["host"][j].want = {} /\ v.sock["host"][j].pkts = <<>>
    BY <2>2, <2>5 DEF LiveOK
  <2>7. v.sock["host"][j].end = Near(j) /\ v.sent[Near(j)] = <<>>
    BY <1>2, <2>5, Fresh
  <2>8. ~Has(v.chan["host"], OkaysTo(j))
    BY <1>1 DEF NamesOK, ToHostOK, Has, OkaysTo
  <2> QED
    BY <2>5, <2>6, <2>7, <2>8
\* Nobody talks to the new socket yet.
<1>9. /\ \A p \in Elements(v.chan["device"]) : p.cmd \in {"OKAY", "WRTE", "CLSE"} => p.arg1 # n
      /\ \A m \in Ids : v.sock["host"][m].peer # Remote(n)
      /\ \A p \in Elements(v.chan["host"]) : p.cmd \in {"OKAY", "WRTE"} => p.arg0 # n
  <2>0. \A a : a < n => a # n
    BY <1>2
  <2>1. \A p \in Elements(v.chan["device"]) : p.cmd \in {"OKAY", "WRTE", "CLSE"} => p.arg1 < n
    BY <1>1 DEF NamesOK, ToDeviceOK
  <2>2. \A m \in Ids : v.sock["host"][m].peer = Remote(n) => n < n
    BY <1>1 DEF NamesOK
  <2>3. \A p \in Elements(v.chan["host"]) : p.cmd \in {"OKAY", "WRTE"} => p.arg0 < n
    BY <1>1 DEF NamesOK, ToHostOK
  <2> QED
    BY <2>0, <2>1, <2>2, <2>3
<1>10. ~IsLocal(t.peer) /\ IsRemote(t.peer)
  <2>1. t.peer = Remote(j) /\ j \in Ids
    BY <1>2
  <2> QED
    BY <2>1, PeerKinds DEF IsLocal, IsRemote
<1>11. /\ Okay(n, j) \in Packets /\ Okay(n, j).cmd = "OKAY" /\ Okay(n, j).arg1 = j /\ Okay(n, j).arg0 = n
  BY <1>2, SentPackets DEF Okay
<1>12. /\ \A g \in Procs, m \in Ids : Opens(v2, g, m) = Opens(v, g, m)
       /\ \A g \in Procs, m \in Ids : ~(g = "host" /\ m = j) => (Joined(v2, g, m) => Joined(v, g, m))
  <2>1. \A g \in Procs, i, m \in Ids : v2.sock[g][i].peer = Remote(m) =>
          v.sock[g][i].peer = Remote(m) \/ (g = "device" /\ m = j)
    BY <1>4, PeerKinds
  <2>2. \A g \in Procs : Other(g) \in Procs /\ (Other(g) = "device" => g = "host")
    BY ProcFacts DEF Procs, Other
  <2>3. \A g \in Procs, m \in Ids : ~(g = "host" /\ m = j) => (Joined(v2, g, m) => Joined(v, g, m))
    BY <1>4, <2>1, <2>2 DEF Joined
  <2> QED
    BY <2>3 DEF Opens
<1>13. \A m \in Ids : m # j => SameFor(v.chan["host"], v2.chan["host"], m)
  <2> SUFFICES ASSUME NEW m \in Ids, m # j PROVE SameFor(v.chan["host"], v2.chan["host"], m)
    OBVIOUS
  <2>1. CASE v.link
    <3>1. Okay(n, j) \notin PacketsTo(m)
      BY <1>11 DEF PacketsTo, OkaysTo, WrtesTo, ClsesTo
    <3> QED
      BY <1>1, <1>11, <2>1, <3>1, PushSame
  <2>2. CASE ~v.link
    BY <2>2, SameSelf
  <2> QED
    BY <2>1, <2>2
<1>14. ASSUME NEW g \in Procs, NEW m \in Ids PROVE EndOK(v2, g, m) /\ RecvOK(v2, g, m) /\ SendOK(v2, g, m)
  <2>1. CASE g = "device" /\ m = n
    <3>1. EndOK(v2, "device", n)
      BY <1>2, <1>4 DEF EndOK
    <3>2. ~Joined(v2, "device", n)
      BY <1>1, <1>4, <1>9, ProcFacts DEF Joined
    <3>3. /\ ~Has(v.chan["device"], WrtesTo(n)) /\ ~Has(v.chan["device"], OkaysTo(n)) /\ ~Has(v.chan["device"], ClsesTo(n))
      BY <1>9 DEF Has, WrtesTo, OkaysTo, ClsesTo
    <3>4. AtMostOne(v.chan["device"], WrtesTo(n)) /\ AtMostOne(v.chan["device"], OkaysTo(n))
      BY <3>3 DEF AtMostOne, Has, Elements
    <3>5. RecvOK(v2, "device", n)
      BY <1>4, <1>10, <3>2, <3>3, <3>4 DEF RecvOK, Receives, Has
    <3>6. SendOK(v2, "device", n)
      BY <1>2, <1>4, <1>6, <3>3, <3>4 DEF SendOK, Sends
    <3> QED
      BY <2>1, <3>1, <3>5, <3>6
  <2>2. CASE g = "host" /\ m = j /\ v.sock[g][m].st = "live"
    <3>0. v2.sock["host"][j] = v.sock["host"][j]
      BY <1>2, <1>4, <2>2
    <3>1. EndOK(v2, "host", j)
      <4>1. Used(v, "host", j) => v2.fin[v.sock["host"][j].end] = v.fin[v.sock["host"][j].end]
        BY <1>2, <1>4, <1>8, <2>2
      <4> QED
        BY <1>1, <1>2, <3>0, <4>1, EndSame DEF Steady
    <3> DEFINE s == v.sock["host"][j]
    <3> DEFINE opn == Opens(v, "host", j)
    <3>2. Receives(s, j, v.chan["host"], v.sent[Far(j)], v.rcvd[Near(j)], v.fin[Far(j)], Joined(v, "host", j), opn)
      BY <1>1, <1>2, <1>8, <2>2 DEF RecvOK
    <3>3. Receives(s, j, v.chan["host"], v.sent[Far(j)], v.rcvd[Near(j)], "open", Joined(v2, "host", j), opn)
      BY <1>6, <1>8, <2>2, <3>2 DEF Receives
    <3>4. Receives(s, j, v2.chan["host"], v.sent[Far(j)], v.rcvd[Near(j)], "open", Joined(v2, "host", j), opn)
      <4>1. Okay(n, j) \notin WrtesTo(j) /\ Okay(n, j) \notin ClsesTo(j)
        BY <1>11 DEF WrtesTo, ClsesTo
      <4>2. CASE v.link
        <5>1. /\ v2.chan["host"] = Append(v.chan["host"], Okay(n, j)) /\ v.chan["host"] \in Seq(Packets)
              /\ Okay(n, j) \in Packets
          BY <1>1, <1>11, <4>2
        <5> HIDE DEF s, opn
        <5> QED
          BY <3>3, <4>1, <5>1, ReceivesOther
      <4>3. CASE ~v.link
        BY <3>3, <4>3
      <4> QED
        BY <4>2, <4>3
    <3>5. RecvOK(v2, "host", j)
      <4>1. /\ v2.sock["host"][j] = s /\ s.end = Near(j) /\ v2.sent = v.sent /\ v2.rcvd = v.rcvd
            /\ FarOf(Near(j)) = Far(j) /\ v2.fin[Far(j)] = "open"
        BY <1>2, <1>4, <1>8, <2>2, <3>0
      <4>2. Opens(v2, "host", j) = opn
        BY <1>2, <1>4, <1>8, <1>12, <2>2, <3>0
      <4> HIDE DEF s, opn
      <4>3. Receives(v2.sock["host"][j], j, v2.chan["host"], v2.sent[FarOf(v2.sock["host"][j].end)],
                     v2.rcvd[v2.sock["host"][j].end], v2.fin[FarOf(v2.sock["host"][j].end)], Joined(v2, "host", j),
                     Opens(v2, "host", j))
        BY <3>4, <4>1, <4>2
      <4> QED
        BY <4>3 DEF RecvOK
    <3>6. Sends(s, j, v.chan["host"], v.sent[Near(j)], v.rcvd[Far(j)])
      BY <1>1, <1>2, <1>8, <2>2 DEF SendOK
    <3>7. Sends(s, j, v2.chan["host"], v.sent[Near(j)], v.rcvd[Far(j)])
      <4>1. CASE v.link
        <5>1. /\ v2.chan["host"] = Append(v.chan["host"], Okay(n, j)) /\ v.chan["host"] \in Seq(Packets)
              /\ Okay(n, j) \in Packets
          BY <1>1, <1>11, <4>1
        <5>2. "R" \notin s.want /\ v.sent[Near(j)] = v.rcvd[Far(j)] /\ ~Has(v.chan["host"], OkaysTo(j))
          BY <1>6, <1>8, <2>2
        <5> HIDE DEF s
        <5> QED
          BY <3>6, <5>1, <5>2, SendsPush
      <4>2. CASE ~v.link
        BY <3>6, <4>2
      <4> QED
        BY <4>1, <4>2
    <3>8. SendOK(v2, "host", j)
      BY <1>2, <1>8, <2>2, <3>0, <3>7 DEF SendOK
    <3> QED
      BY <2>2, <3>1, <3>5, <3>8
  <2>3. CASE ~(g = "device" /\ m = n) /\ ~(g = "host" /\ m = j /\ v.sock[g][m].st = "live")
    <3>0. v2.sock[g][m] = v.sock[g][m]
      BY <1>4, <2>3
    <3>1. Used(v, g, m) => /\ v.sock[g][m].end \in Ends /\ v.sock[g][m].end # Far(j)
                           /\ FarOf(v.sock[g][m].end) \in Ends
                           /\ FarOf(v.sock[g][m].end) = Far(j) => v.sock[g][m].end = Near(j) /\ v.sock[g][m].st = "closing"
      BY <1>1, <1>2, <1>7, <2>3, EndFacts DEF Used
    <3>2. EndOK(v2, g, m)
      BY <1>1, <1>4, <3>0, <3>1, EndSame DEF Steady
    <3>3. CASE ~Used(v, g, m)
      BY <3>0, <3>2, <3>3, FlowUnused DEF Used
    <3>4. CASE Used(v, g, m) /\ v.sock[g][m].end = Near(j)
      <4> DEFINE s == v.sock[g][m]
      <4>1. s.st = "closing" /\ s.pkts \in Seq(Data)
        BY <1>1, <1>2, <3>1, <3>4, SocketFacts
      <4>2. Receives(s, m, v.chan[g], v.sent[Far(j)], v.rcvd[Near(j)], "none", Joined(v, g, m), Opens(v, g, m))
        BY <1>1, <1>2, <3>4 DEF RecvOK
      <4>3. s.pkts # <<>> => \E d \in Data : s.pkts = <<d>>
        BY <1>1 DEF EndOK
      <4>4. s.why # "peer"
        <5>1. s.pkts # <<>> => <<>> = <<>> \o s.pkts
          BY <1>6, <4>1, <4>2 DEF Receives
        <5>2. <<>> \o s.pkts = s.pkts
          BY <4>1
        <5> QED
          BY <4>1, <4>2, <5>1, <5>2 DEF Receives
      <4>5. Receives(s, m, v2.chan[g], v.sent[Far(j)], v.rcvd[Near(j)], "open", Joined(v2, g, m), Opens(v2, g, m))
        BY <4>1, <4>2, <4>4 DEF Receives
      <4>6. RecvOK(v2, g, m)
        BY <1>2, <1>4, <3>0, <3>4, <4>5 DEF RecvOK
      <4>7. SendOK(v2, g, m)
        BY <3>0, <4>1 DEF SendOK, Sends
      <4> QED
        BY <3>2, <4>6, <4>7
    <3>5. CASE Used(v, g, m) /\ v.sock[g][m].end # Near(j)
      <4>1. v.sock[g][m].st = "live" => SameFor(v.chan[g], v2.chan[g], m)
        <5>1. g = "host" => m # j \/ v.sock[g][m].st # "live"
          BY <2>3
        <5> QED
          BY <1>13, <2>3, <5>1, SameSelf DEF Procs
      <4>1a. v2.fin[FarOf(v.sock[g][m].end)] = v.fin[FarOf(v.sock[g][m].end)]
        BY <1>4, <3>1, <3>5
      <4>1b. Joined(v2, g, m) => Joined(v, g, m) \/ (g = "host" /\ m = j)
        BY <1>12
      <4>2. CASE ~(g = "host" /\ m = j)
        <5>1. Alone(v, v2, g, m)
          BY <1>12, <3>0, <4>1, <4>1a, <4>1b, <4>2 DEF Alone, Steady, SameData
        <5> QED
          BY <1>1, <3>2, <5>1, FlowAlone
      <4>3. CASE g = "host" /\ m = j
        <5>1. v.sock[g][m].st = "closing"
          BY <2>3, <3>5, <4>3 DEF Used
        <5>2. RecvOK(v, g, m)
          BY <1>1
        <5> DEFINE s == v.sock[g][m]
        <5>2a. Receives(s, m, v.chan[g], v.sent[FarOf(s.end)], v.rcvd[s.end], v.fin[FarOf(s.end)],
                        Joined(v, g, m), Opens(v, g, m))
          BY <5>2 DEF RecvOK
        <5>2b. Receives(s, m, v2.chan[g], v.sent[FarOf(s.end)], v.rcvd[s.end], v.fin[FarOf(s.end)],
                        Joined(v2, g, m), Opens(v2, g, m))
          BY <5>1, <5>2a DEF Receives
        <5>3. RecvOK(v2, g, m)
          BY <3>0, <4>1a, <5>2b DEF RecvOK
        <5>4. SendOK(v2, g, m)
          BY <3>0, <5>1 DEF SendOK, Sends
        <5> QED
          BY <3>2, <5>3, <5>4
      <4> QED
        BY <4>2, <4>3
    <3> QED
      BY <3>3, <3>4, <3>5
  <2> QED
    BY <2>1, <2>2, <2>3
<1>15. EndsOK(v2)
  <2>1. OneEach(v2)
    <3> SUFFICES ASSUME NEW g \in Procs, NEW f \in Procs, NEW m \in Ids, NEW k \in Ids,
                        Used(v2, g, m), Used(v2, f, k), v2.sock[g][m].end = v2.sock[f][k].end
                 PROVE  g = f /\ m = k
      BY DEF OneEach
    <3>1. \A h \in Procs, i \in Ids : ~(h = "device" /\ i = n) /\ Used(v2, h, i) =>
            Used(v, h, i) /\ v2.sock[h][i].end = v.sock[h][i].end /\ v2.sock[h][i].end # Far(j)
      BY <1>4, <1>7 DEF Used
    <3>2. v2.sock["device"][n].end = Far(j)
      BY <1>4
    <3> QED
      BY <1>1, <3>1, <3>2 DEF OneEach
  <2>2. PairEnds(v2)
    BY <1>1, <1>4 DEF PairEnds
  <2> QED
    BY <1>14, <2>1, <2>2 DEF EndsOK
<1>16. FreshOK(v2)
  <2>1. \A i \in HostSide : /\ Near(i) \in Ends /\ Far(i) \in Ends /\ Near(i) # Far(j) /\ i \in Ids
                            /\ Far(i) = Far(j) => i = j
    BY SideFacts
  <2>2. ASSUME NEW i \in HostSide
        PROVE  /\ i >= v2.next["host"] => v2.fin[Near(i)] = "none"
               /\ v2.fin[Near(i)] = "none" => v2.fin[Far(i)] = "none"
    BY <1>1, <1>4, <2>1 DEF FreshOK
  <2>3. ASSUME NEW i \in Ids, v2.sock["host"][i].st = "live"
        PROVE  /\ v2.sock["host"][i].peer = Smart => v2.fin[Far(i)] = "none"
               /\ v2.sock["host"][i].peer \in {None, Smart} => v2.sent[Near(i)] = <<>>
               /\ IsRemote(v2.sock["host"][i].peer) => v2.fin[Far(i)] # "none"
    <3>1. v2.sock["host"][i] = v.sock["host"][i] /\ v.sock["host"][i].st = "live" /\ EndOK(v, "host", i)
      BY <1>1, <1>4, <2>3
    <3>2. ~IsLocal(v.sock["host"][i].peer) => i \in HostSide
      BY <3>1, SideFacts DEF EndOK, IsLocal
    <3>3. IsRemote(v.sock["host"][i].peer) \/ v.sock["host"][i].peer \in {None, Smart} => i \in HostSide
      BY <3>2, PeerKinds DEF IsLocal, IsRemote
    <3>4. v.sock["host"][i].peer = Smart => i # j
      BY <1>8, <3>1, PeerKinds
    <3> QED
      BY <1>1, <1>4, <2>1, <3>1, <3>3, <3>4 DEF FreshOK
  <2> QED
    BY <2>2, <2>3 DEF FreshOK
<1>17. DataOK(v2)
  <2> SUFFICES ASSUME NEW z \in Ends PROVE SeenOK(v2, z)
    BY DEF DataOK
  <2>1. SeenOK(v, z) /\ FarOf(z) \in Ends /\ (FarOf(z) = Far(j) => z = Near(j))
    BY <1>1, <1>2, EndFacts
  <2> QED
    BY <1>2, <1>4, <1>6, <2>1 DEF SeenOK
<1>18. NamesOK(v2)
  <2>1. \A i \in Ids : Known(v, i) => Known(v2, i)
    BY <1>1, <1>4 DEF Known
  <2>2. \A i \in Ids : v2.sock["host"][i] = v.sock["host"][i]
    BY <1>1, <1>4
  <2>3. \A m \in Ids : m # n => v2.sock["device"][m] = v.sock["device"][m]
    BY <1>1, <1>4
  <2>4. \A a \in Ids : a < n => a < n + 1 /\ a # n
    BY <1>2 DEF Ids
  <2>5. ASSUME NEW p \in Elements(v.chan["host"]) PROVE ToHostOK(v2, p)
    <3>1. ToHostOK(v, p) /\ p \in Packets
      BY <1>1 DEF NamesOK
    <3>2. p.cmd = "CLSE" => Known(v2, p.arg1)
      BY <2>1, <3>1, PacketFacts DEF ToHostOK
    <3>3. ASSUME p.cmd \in {"OKAY", "WRTE"}
          PROVE  /\ p.arg1 \in HostSide /\ v2.fin[Far(p.arg1)] # "none"
                 /\ v2.sock["device"][p.arg0].st = "live" => v2.sock["device"][p.arg0].peer = Remote(p.arg1)
                 /\ v2.state["device"] = "connected" => p.arg0 < v2.next["device"]
      <4>1. p.arg0 \in Ids /\ p.arg1 \in HostSide /\ Far(p.arg1) \in Ends /\ p.arg0 < n
        BY <3>1, <3>3, PacketFacts, SideFacts DEF ToHostOK
      <4> QED
        BY <1>4, <2>3, <2>4, <3>1, <3>3, <4>1 DEF ToHostOK
    <3> QED
      BY <3>2, <3>3 DEF ToHostOK
  <2>6. ToHostOK(v2, Okay(n, j))
    <3>1. n < n + 1
      BY <1>2
    <3> QED
      BY <1>4, <1>11, <3>1 DEF ToHostOK
  <2>7. \A p \in Elements(v2.chan["host"]) : ToHostOK(v2, p)
    BY <1>1, <1>11, <2>5, <2>6, PushFacts
  <2>8. ASSUME NEW p \in Elements(v2.chan["device"]) PROVE ToDeviceOK(v2, p)
    <3>1. ToDeviceOK(v, p) /\ p \in Packets
      BY <1>1 DEF NamesOK
    <3>2. p.cmd \in {"CLSE", "OKAY", "WRTE"} => p.arg1 \in Ids /\ p.arg1 < n
      BY <3>1, PacketFacts DEF ToDeviceOK
    <3>3. ASSUME p.cmd = "OPEN"
          PROVE  /\ p.arg0 \in HostSide /\ p.end = Far(p.arg0)
                 /\ v2.fin[Far(p.arg0)] = "none" /\ v2.fin[Near(p.arg0)] \notin {"none", "peer"}
      <4>1. p.arg0 # j
        BY <2>8, <3>1, <3>3 DEF Has, OpensOf
      <4>2. p.arg0 \in HostSide /\ Far(p.arg0) \in Ends /\ Near(p.arg0) \in Ends
            /\ Far(p.arg0) # Far(j) /\ Near(p.arg0) # Far(j)
        BY <3>1, <3>3, <4>1, SideFacts DEF ToDeviceOK
      <4> QED
        BY <1>4, <3>1, <3>3, <4>2 DEF ToDeviceOK
    <3> QED
      BY <1>4, <2>3, <2>4, <3>1, <3>2, <3>3 DEF ToDeviceOK
  <2>9. ASSUME NEW i \in Ids, NEW k \in Ids, v2.sock["host"][i].peer = Remote(k)
        PROVE  /\ v2.sock["device"][k].st = "live" => v2.sock["device"][k].peer = Remote(i)
               /\ v2.state["device"] = "connected" => k < v2.next["device"]
    <3>1. k < n
      BY <1>1, <2>2, <2>9 DEF NamesOK
    <3> QED
      BY <1>1, <1>4, <2>2, <2>3, <2>4, <2>9, <3>1 DEF NamesOK
  <2> QED
    BY <1>1, <2>7, <2>8, <2>9 DEF NamesOK
<1>19. CnxnOK(v2)
  <2>1. Cnxn \notin Elements(v.chan["device"])
    BY <1>1 DEF CnxnOK
  <2> QED
    BY <1>1, <1>4, <2>1 DEF CnxnOK
<1> QED
  BY <1>14, <1>15, <1>16, <1>17, <1>18, <1>19 DEF Carried, Flow

-----------------------------------------------------------------------------
(* The connection and adbd fail. *)

\* What is left of a channel whose connection is lost.
Cut(c, d) ==
  /\ \A p \in Elements(d) : p \in Elements(c) \/ p = Sync
  /\ \A A : Sync \notin A /\ AtMostOne(c, A) => AtMostOne(d, A)
  /\ \A A, B : Sync \notin B /\ Before(c, A, B) => Before(d, A, B)

\* A prefix and a SYNC is what is left.
LEMMA CutIs ==
  ASSUME NEW c \in Seq(Packets), NEW h \in Prefixes(c), NEW d, d = Append(h, Sync)
  PROVE  Cut(c, d)
<1>1. /\ h \in Seq(Packets) /\ Elements(h) \subseteq Elements(c)
      /\ \A A : AtMostOne(c, A) => AtMostOne(h, A)
      /\ \A A, B : Before(c, A, B) => Before(h, A, B)
  BY CutFacts
<1>2. /\ Elements(d) = Elements(h) \cup {Sync}
      /\ \A A : AtMostOne(h, A) /\ (Sync \in A => ~Has(h, A)) => AtMostOne(d, A)
      /\ \A A, B : Before(h, A, B) /\ (Sync \in B => Has(h, A)) => Before(d, A, B)
  BY <1>1, PacketFacts, PushFacts
<1> QED
  BY <1>1, <1>2 DEF Cut

\* SYNC is for no socket.
LEMMA SyncForNone ==
  \A i : /\ Sync \notin WrtesTo(i) /\ Sync \notin OkaysTo(i) /\ Sync \notin ClsesTo(i) /\ Sync \notin OpensOf(i)
         /\ Sync # Cnxn
  BY PacketFacts DEF WrtesTo, OkaysTo, ClsesTo, OpensOf

\* A socket still receives what is left.
LEMMA ReceivesCut ==
  ASSUME NEW s, NEW i, NEW c, NEW d, NEW to, NEW got, NEW far, NEW far2, NEW joined, NEW joined2, NEW opens, NEW opens2,
         Receives(s, i, c, to, got, far, joined, opens), Cut(c, d),
         far2 = "open" => far = "open", far2 = "none" => far = "none", ~joined2, opens2 => opens
  PROVE  Receives(s, i, d, to, got, far2, joined2, opens2)
<1>1. Elements(d) \cap WrtesTo(i) \subseteq Elements(c) \cap WrtesTo(i) /\ (Has(d, ClsesTo(i)) => Has(c, ClsesTo(i)))
  BY SyncForNone DEF Cut, Has
<1>2. /\ AtMostOne(c, WrtesTo(i)) => AtMostOne(d, WrtesTo(i))
      /\ Before(c, WrtesTo(i), ClsesTo(i)) => Before(d, WrtesTo(i), ClsesTo(i))
  BY SyncForNone DEF Cut
<1> QED
  BY <1>1, <1>2 DEF Receives

\* And sends as it did.
LEMMA SendsCut ==
  ASSUME NEW s, NEW i, NEW c, NEW d, NEW from, NEW gone, Sends(s, i, c, from, gone), Cut(c, d)
  PROVE  Sends(s, i, d, from, gone)
<1>1. (Has(d, OkaysTo(i)) => Has(c, OkaysTo(i))) /\ (AtMostOne(c, OkaysTo(i)) => AtMostOne(d, OkaysTo(i)))
  BY SyncForNone DEF Cut, Has
<1> QED
  BY <1>1 DEF Sends

\* The connection is lost.
LEMMA UnplugGood ==
  ASSUME NEW v, NEW v2, Good(v), ~v2.link, v2.sock = v.sock, v2.next = v.next,
         v2.state = v.state, SameSeen(v, v2), CutOff(v, v2)
  PROVE  Carried(v2)
<1>1. /\ NamesOK(v) /\ CnxnOK(v) /\ \A g \in Procs, k \in Ids : RecvOK(v, g, k) /\ SendOK(v, g, k)
      /\ "host" \in Procs /\ "device" \in Procs /\ \A g \in Procs : v.chan[g] \in Seq(Packets)
  BY GoodFacts DEF Procs
<1>2. \A g \in Procs : Cut(v.chan[g], v2.chan[g])
  BY <1>1, CutIs DEF CutOff
<1>3. \A g \in Procs, k \in Ids : ~Joined(v2, g, k) /\ (Opens(v2, g, k) => Opens(v, g, k))
  BY <1>1, <1>2, SyncForNone DEF Joined, Opens, Has, Cut
<1>4. ASSUME NEW g \in Procs, NEW k \in Ids PROVE RecvOK(v2, g, k) /\ SendOK(v2, g, k)
  <2> DEFINE s == v.sock[g][k]
             x == s.end
             y == FarOf(x)
  <2>1. Receives(s, k, v.chan[g], v.sent[y], v.rcvd[x], v.fin[y], Joined(v, g, k), Opens(v, g, k))
    BY <1>1 DEF RecvOK
  <2>2. Sends(s, k, v.chan[g], v.sent[x], v.rcvd[y])
    BY <1>1 DEF SendOK
  <2> HIDE DEF s, x, y
  <2>3. Receives(s, k, v2.chan[g], v.sent[y], v.rcvd[x], v.fin[y], Joined(v2, g, k), Opens(v2, g, k))
    BY <1>2, <1>3, <2>1, ReceivesCut
  <2>4. Sends(s, k, v2.chan[g], v.sent[x], v.rcvd[y])
    BY <1>2, <2>2, SendsCut
  <2> QED
    BY <2>3, <2>4 DEF RecvOK, SendOK, SameSeen, s, x, y
<1>5. NamesOK(v2)
  <2>1. \A q : (ToHostOK(v, q) => ToHostOK(v2, q)) /\ (ToDeviceOK(v, q) => ToDeviceOK(v2, q))
    BY DEF ToHostOK, ToDeviceOK, Known, SameSeen
  <2>2. ToHostOK(v2, Sync) /\ ToDeviceOK(v2, Sync)
    BY PacketFacts DEF ToHostOK, ToDeviceOK
  <2>3. \A j \in Ids : AtMostOne(v2.chan["device"], OpensOf(j))
    BY <1>1, <1>2, SyncForNone DEF NamesOK, Cut
  <2>4. /\ \A p \in Elements(v2.chan["host"]) : ToHostOK(v2, p)
        /\ \A p \in Elements(v2.chan["device"]) : ToDeviceOK(v2, p)
    BY <1>1, <1>2, <2>1, <2>2 DEF NamesOK, Cut
  <2> QED
    BY <1>1, <2>3, <2>4 DEF NamesOK
<1>6. CnxnOK(v2)
  <2>1. /\ \A p \in Elements(v2.chan["host"]) : p.cmd \in {"OKAY", "WRTE"} => p \in Elements(v.chan["host"])
        /\ Cnxn \in Elements(v2.chan["device"]) => Cnxn \in Elements(v.chan["device"])
        /\ AtMostOne(v2.chan["device"], {Cnxn})
    BY <1>1, <1>2, SyncForNone, PacketFacts DEF Cut, CnxnOK
  <2> QED
    BY <1>1, <2>1 DEF CnxnOK
<1>7. \A g \in Procs, k \in Ids : Steady(v.sock[g][k], v2.sock[g][k])
  BY DEF Steady
<1> QED
  BY <1>4, <1>5, <1>6, <1>7, QuietKeeps

\* The first packet of a connection.
LEMMA FirstPacket ==
  /\ <<>> \in Seq(Packets) /\ Append(<<>>, Cnxn) = <<Cnxn>> /\ Elements(<<>>) = {}
  /\ \A A : AtMostOne(<<>>, A) /\ ~Has(<<>>, A)
  /\ Elements(<<Cnxn>>) = {Cnxn} /\ \A A : AtMostOne(<<Cnxn>>, A)
<1>1. /\ <<>> \in Seq(Packets) /\ Append(<<>>, Cnxn) = <<Cnxn>> /\ Elements(<<>>) = {}
      /\ \A A : AtMostOne(<<>>, A) /\ ~Has(<<>>, A)
  BY DEF Elements, AtMostOne, Has
<1>2. DOMAIN <<Cnxn>> = {1} /\ <<Cnxn>>[1] = Cnxn
  OBVIOUS
<1>3. \A A : AtMostOne(<<Cnxn>>, A)
  BY <1>2 DEF AtMostOne
<1>4. Elements(<<Cnxn>>) = {Cnxn}
  BY <1>2 DEF Elements
<1> QED
  BY <1>1, <1>3, <1>4

\* A new connection, with the CNXN of the host on its way.
LEMMA ReplugGood ==
  ASSUME NEW v, NEW v2, Good(v), v2.sock = v.sock, v2.next = v.next, v2.state = v.state, SameSeen(v, v2),
         ~v.link, \A e \in Procs : v.chan[e] = <<>>,
         v2.chan["host"] = <<>>, v2.chan["device"] = <<Cnxn>>
  PROVE  Carried(v2)
<1>1. /\ "host" \in Procs /\ "device" \in Procs /\ NamesOK(v)
      /\ \A g \in Procs, k \in Ids : RecvOK(v, g, k) /\ SendOK(v, g, k)
  BY GoodFacts DEF Procs
<1>2. \A g \in Procs : v.state[g] = "offline" /\ \A i \in Ids : ~IsRemote(v.sock[g][i].peer)
  BY GoodFacts DEF Sound, LinkOK
<1>3. /\ <<>> \in Seq(Packets) /\ Append(<<>>, Cnxn) = <<Cnxn>> /\ Elements(<<>>) = {}
      /\ \A A : AtMostOne(<<>>, A) /\ ~Has(<<>>, A)
  BY DEF Elements, AtMostOne, Has
<1>4. /\ Elements(<<Cnxn>>) = {Cnxn} /\ \A A : AtMostOne(<<Cnxn>>, A)
  BY FirstPacket
<1>5. \A i : Cnxn \notin PacketsTo(i) /\ Cnxn \notin OpensOf(i)
  BY PacketFacts DEF PacketsTo, OkaysTo, WrtesTo, ClsesTo, OpensOf
<1>6. \A g \in Procs, k \in Ids : SameFor(v.chan[g], v2.chan[g], k)
  <2>1. \A k : SameFor(<<>>, <<Cnxn>>, k)
    BY <1>3, <1>5, PacketFacts, PushSame
  <2> QED
    BY <1>1, <2>1, SameSelf DEF Procs
<1>7. \A g \in Procs, k \in Ids : ~Joined(v2, g, k) /\ ~Opens(v2, g, k)
  <2>1. \A g \in Procs, k \in Ids : ~Joined(v2, g, k)
    BY <1>2, ProcFacts DEF Joined, IsRemote
  <2>2. \A g \in Procs, k \in Ids : ~Opens(v2, g, k)
    BY <1>4, <1>5 DEF Opens, Has
  <2> QED
    BY <2>1, <2>2
<1>8. \A g \in Procs, k \in Ids : RecvOK(v2, g, k) /\ SendOK(v2, g, k) /\ Steady(v.sock[g][k], v2.sock[g][k])
  <2> SUFFICES ASSUME NEW g \in Procs, NEW k \in Ids
               PROVE  RecvOK(v2, g, k) /\ SendOK(v2, g, k) /\ Steady(v.sock[g][k], v2.sock[g][k])
    OBVIOUS
  <2>1. Steady(v.sock[g][k], v2.sock[g][k])
    BY DEF Steady
  <2>2. Alone(v, v2, g, k)
    BY <1>6, <1>7, <2>1 DEF Alone, SameData, SameSeen
  <2> QED
    BY <1>1, <2>1, <2>2, FlowAlone
<1>9. NamesOK(v2)
  <2>1. ToDeviceOK(v2, Cnxn)
    BY PacketFacts DEF ToDeviceOK
  <2> QED
    BY <1>1, <1>2, <1>3, <1>4, <2>1 DEF NamesOK, IsRemote
<1>10. CnxnOK(v2)
  BY <1>1, <1>2, <1>3, <1>4 DEF CnxnOK
<1> QED
  BY <1>8, <1>9, <1>10, QuietKeeps

\* adbd dies, with all its sockets.
LEMMA RestartGood ==
  ASSUME NEW v, NEW v2, Good(v), ~v2.link,
         v2.sock["host"] = v.sock["host"], \A k \in Ids : v2.sock["device"][k] = NoSocket,
         v2.next["host"] = v.next["host"], v2.state["device"] = "offline", v2.sent = v.sent, v2.rcvd = v.rcvd,
         \A x \in Ends : v2.fin[x] = IF \E i \in Ids : v.sock["device"][i].end = x /\ Used(v, "device", i)
                                     THEN "lost" ELSE v.fin[x],
         v2.chan["device"] = <<>>,
         \E h \in Prefixes(v.chan["host"]) : v2.chan["host"] = Append(h, Sync)
  PROVE  Carried(v2)
<1>1. /\ FreshOK(v) /\ NamesOK(v) /\ CnxnOK(v) /\ OneEach(v) /\ PairEnds(v) /\ EndsOK(v)
      /\ "host" \in Procs /\ "device" \in Procs /\ v.chan["host"] \in Seq(Packets)
      /\ \A p \in Elements(v.chan["host"]) : p \in Packets
      /\ \A g \in Procs, m \in Ids : EndOK(v, g, m) /\ RecvOK(v, g, m) /\ SendOK(v, g, m)
      /\ \A g \in Procs, m \in Ids : Used(v, g, m) => v.sock[g][m].end \in Ends
      /\ \A z \in Ends : SeenOK(v, z)
  BY GoodFacts DEF Procs, EndsOK
<1>2. Cut(v.chan["host"], v2.chan["host"])
  BY <1>1, CutIs
<1>3. \A x \in Ends : /\ v2.fin[x] = v.fin[x] \/ (v2.fin[x] = "lost" /\ v.fin[x] \notin {"none"} \cup Promise!Closed)
                      /\ v2.fin[x] # v.fin[x] => \E i \in Ids : v.sock["device"][i].end = x /\ Used(v, "device", i)
  <2>1. \A i \in Ids : Used(v, "device", i) => v.fin[v.sock["device"][i].end] \in {"open", "ending"}
    BY <1>1 DEF EndOK, Used
  <2> QED
    BY <2>1, FinFacts
<1>4. \A i \in Ids : /\ v2.sock["device"][i].st = "none" /\ v2.sock["device"][i].pkts = <<>> /\ ~Used(v2, "device", i)
                     /\ v2.sock["host"][i] = v.sock["host"][i]
                     /\ v2.sock["device"][i].peer = None
  BY GoodFacts, GoneFacts DEF Used
<1>5. \A i \in Ids : Used(v, "host", i) => v2.fin[v.sock["host"][i].end] = v.fin[v.sock["host"][i].end]
  BY <1>1, <1>3 DEF OneEach
<1>6. \A g \in Procs, i \in Ids : EndOK(v2, g, i)
  <2>1. \A i \in Ids : EndOK(v2, "device", i)
    BY <1>4 DEF EndOK
  <2>2. \A i \in Ids : EndOK(v2, "host", i)
    BY <1>1, <1>4, <1>5, EndSame DEF Steady
  <2> QED
    BY <2>1, <2>2 DEF Procs
<1>7. EndsOK(v2)
  <2>1. \A g \in Procs, i \in Ids : Used(v2, g, i) => Used(v, g, i) /\ v2.sock[g][i].end = v.sock[g][i].end
    BY <1>4 DEF Used, Procs
  <2> QED
    BY <1>1, <1>4, <1>6, <2>1, EndsLess
<1>8. FreshOK(v2)
  <2>1. \A j \in HostSide : /\ v2.fin[Near(j)] = "none" <=> v.fin[Near(j)] = "none"
                            /\ v2.fin[Far(j)] = "none" <=> v.fin[Far(j)] = "none"
    BY <1>3, SideFacts
  <2>2. \A j \in Ids : v2.sock["host"][j].st = "live" /\ ~IsLocal(v2.sock["host"][j].peer) => j \in HostSide
    BY <1>1, <1>4, SideFacts DEF EndOK, IsLocal
  <2> QED
    BY <1>1, <1>4, <2>1, <2>2, FreshLess
<1>9. DataOK(v2)
  <2> SUFFICES ASSUME NEW z \in Ends PROVE SeenOK(v2, z)
    BY DEF DataOK
  <2>1. SeenOK(v, z) /\ FarOf(z) \in Ends
    BY <1>1, EndFacts
  <2> QED
    BY <1>3, <2>1 DEF SeenOK
<1>10. Elements(<<>>) = {} /\ \A A : AtMostOne(<<>>, A) /\ ~Has(<<>>, A)
  BY DEF Elements, AtMostOne, Has
<1>11. NamesOK(v2)
  <2>1. ASSUME NEW p \in Elements(v2.chan["host"]) PROVE ToHostOK(v2, p)
    <3>1. CASE p = Sync
      BY <3>1, PacketFacts DEF ToHostOK
    <3>2. CASE p \in Elements(v.chan["host"])
      <4>1. ToHostOK(v, p) /\ p \in Packets
        BY <1>1, <3>2 DEF NamesOK
      <4>2. p.cmd = "CLSE" => Known(v2, p.arg1)
        BY <1>4, <4>1, PacketFacts DEF ToHostOK, Known
      <4>3. p.cmd \in {"OKAY", "WRTE"} => p.arg1 \in HostSide /\ v2.fin[Far(p.arg1)] # "none" /\ p.arg0 \in Ids
        BY <1>3, <4>1, SideFacts, PacketFacts DEF ToHostOK
      <4> QED
        BY <1>4, <4>2, <4>3 DEF ToHostOK
    <3> QED
      BY <1>2, <2>1, <3>1, <3>2 DEF Cut
  <2> QED
    BY <1>4, <1>10, <2>1 DEF NamesOK
<1>12. CnxnOK(v2)
  BY <1>10 DEF CnxnOK
<1>13. ASSUME NEW g \in Procs, NEW m \in Ids PROVE RecvOK(v2, g, m) /\ SendOK(v2, g, m)
  <2>1. CASE g = "device"
    BY <1>4, <2>1, FlowUnused
  <2>2. CASE g = "host" /\ ~Used(v, g, m)
    BY <1>4, <2>2, FlowUnused DEF Used
  <2>3. CASE g = "host" /\ Used(v, g, m)
    <3> DEFINE s == v.sock["host"][m]
               x == s.end
               y == FarOf(x)
    <3>1. Receives(s, m, v.chan["host"], v.sent[y], v.rcvd[x], v.fin[y], Joined(v, "host", m), Opens(v, "host", m))
      BY <1>1 DEF RecvOK
    <3>2. Sends(s, m, v.chan["host"], v.sent[x], v.rcvd[y])
      BY <1>1 DEF SendOK
    <3>3. y \in Ends
      BY <1>1, <2>3, EndFacts
    <3>4. /\ v2.fin[y] = "open" => v.fin[y] = "open"
          /\ v2.fin[y] = "none" => v.fin[y] = "none"
      BY <1>3, <3>3
    <3>5. ~Joined(v2, "host", m) /\ ~Opens(v2, "host", m)
      BY <1>10 DEF Joined, Opens
    <3> HIDE DEF s, x, y
    <3>6. Receives(s, m, v2.chan["host"], v.sent[y], v.rcvd[x], v2.fin[y], Joined(v2, "host", m), Opens(v2, "host", m))
      BY <1>2, <3>1, <3>4, <3>5, ReceivesCut
    <3>7. Sends(s, m, v2.chan["host"], v.sent[x], v.rcvd[y])
      BY <1>2, <3>2, SendsCut
    <3> QED
      BY <1>4, <2>3, <3>6, <3>7 DEF RecvOK, SendOK, s, x, y
  <2> QED
    BY <2>1, <2>2, <2>3 DEF Procs
<1> QED
  BY <1>7, <1>8, <1>9, <1>11, <1>12, <1>13 DEF Carried, Flow

\* Before anything has happened.
LEMMA FirstGood ==
  ASSUME NEW v, \A e \in Procs, i \in Ids : v.sock[e][i] = NoSocket,
         \A x \in Ends : v.sent[x] = <<>> /\ v.rcvd[x] = <<>> /\ v.fin[x] = "none",
         v.chan["host"] = <<>>, v.chan["device"] = <<Cnxn>>, v.state["device"] = "offline"
  PROVE  Carried(v)
<1>1. "host" \in Procs /\ "device" \in Procs
  BY DEF Procs
<1>2. /\ <<>> \in Seq(Packets) /\ Append(<<>>, Cnxn) = <<Cnxn>> /\ Elements(<<>>) = {}
      /\ \A A : AtMostOne(<<>>, A) /\ ~Has(<<>>, A)
  BY DEF Elements, AtMostOne, Has
<1>3. /\ Elements(<<Cnxn>>) = {Cnxn} /\ \A A : AtMostOne(<<Cnxn>>, A)
  BY FirstPacket
<1>4. \A e \in Procs, i \in Ids : /\ v.sock[e][i].st = "none" /\ v.sock[e][i].peer = None /\ v.sock[e][i].pkts = <<>>
                                  /\ ~Used(v, e, i)
  BY GoneFacts DEF Used
<1>5. EndsOK(v)
  BY <1>1, <1>4, PeerKinds DEF EndsOK, EndOK, OneEach, PairEnds
<1>6. FreshOK(v)
  BY <1>1, <1>4, SideFacts DEF FreshOK
<1>7. DataOK(v)
  BY EndFacts DEF DataOK, SeenOK
<1>8. NamesOK(v)
  <2>1. ToDeviceOK(v, Cnxn)
    BY PacketFacts DEF ToDeviceOK
  <2> QED
    BY <1>1, <1>2, <1>3, <1>4, <2>1, PeerKinds DEF NamesOK
<1>9. CnxnOK(v)
  BY <1>1, <1>2, <1>3, <1>4, PeerKinds DEF CnxnOK, IsRemote
<1>10. Flow(v)
  BY <1>4, FlowUnused DEF Flow
<1> QED
  BY <1>5, <1>6, <1>7, <1>8, <1>9, <1>10 DEF Carried

-----------------------------------------------------------------------------
(* The handlers: what a world carries, and what its programs saw of it. *)

Bears(e, w, c) == Fits(e, w, c) /\ Carried(View(e, w, c))

\* A world that carries its streams, as a view.
LEMMA BearView ==
  ASSUME V \in Views, NEW e \in Procs, NEW w, NEW c, Bears(e, w, c), NEW v, v = View(e, w, c)
  PROVE  Good(v) /\ ViewOf(e, w, c, v) /\ w \in Worlds /\ c \in Seq(Packets) /\ Fits(e, w, c)
<1>1. Good(v) /\ w \in Worlds /\ c \in Seq(Packets) /\ Fits(e, w, c)
  BY DEF Bears, Fits, Good
<1> QED
  BY <1>1, ViewParts, Zenon

\* A world fits, and its view carries the streams.
LEMMA BearIs ==
  ASSUME NEW e, NEW w, NEW c, Fits(e, w, c), NEW v, v = View(e, w, c), Carried(v)
  PROVE  Bears(e, w, c)
  BY DEF Bears

\* What the programs saw in one step, at each end.
SentBy(w, x) ==
  \/ w.sent[x] = sent[x]
  \/ fin[x] = "open" /\ sent[x] = rcvd[FarOf(x)] /\ \E d \in Data : w.sent[x] = Append(sent[x], d)
RcvdBy(w, x) ==
  \/ w.rcvd[x] = rcvd[x]
  \/ fin[x] \in {"open", "ending"} /\ \E d \in Data : w.rcvd[x] = Append(rcvd[x], d)
FinBy(w, x) ==
  \/ w.fin[x] = fin[x]
  \/ fin[x] \in {"open", "ending"} /\ w.fin[x] \in {"ending"} \cup Promise!Closed
  \/ Promise!CanOpen(x) /\ w.fin[x] \in {"open", "peer"}
Permitted(w) == \A x \in Ends : SentBy(w, x) /\ RcvdBy(w, x) /\ FinBy(w, x)

\* No end has changed its state; and no data was taken either, and only at
\* end x was some written.
Moved(w) == w.fin = fin /\ \A x \in Ends : SentBy(w, x) /\ RcvdBy(w, x)
Wrote(w, x) == /\ w.sent = sent /\ w.fin = fin /\ RcvdBy(w, x)
               /\ \A y \in Ends : y # x => w.rcvd[y] = rcvd[y]

\* Ends close.
Faded(w, w2) ==
  /\ w2.sent = w.sent /\ w2.rcvd = w.rcvd
  /\ \A x \in Ends : \/ w2.fin[x] = w.fin[x]
                     \/ w.fin[x] \in {"open", "ending"} /\ w2.fin[x] \in {"ending"} \cup Promise!Closed

\* What was moved is kept, and some of it is written data.
LEMMA MovedKept ==
  /\ \A w : Moved(w) => Permitted(w)
  /\ \A w, x : Wrote(w, x) => Moved(w)
  BY DEF Moved, Permitted, Wrote, SentBy, RcvdBy, FinBy

\* Ends that close in this step were open before it.
LEMMA MovedFades ==
  ASSUME NEW w, NEW w2, Moved(w), Faded(w, w2)
  PROVE  Permitted(w2)
  BY DEF Moved, Faded, Permitted, SentBy, RcvdBy, FinBy

\* Closing twice, or not at all, is closing.
LEMMA FadedFacts ==
  /\ \A w, w2 : w2.sent = w.sent /\ w2.rcvd = w.rcvd /\ w2.fin = w.fin => Faded(w, w2)
  /\ \A w, w1, w2 : Faded(w, w1) /\ Faded(w1, w2) => Faded(w, w2)
<1>1. ASSUME NEW w, NEW w1, NEW w2, Faded(w, w1), Faded(w1, w2) PROVE Faded(w, w2)
  <2>1. ASSUME NEW x \in Ends
        PROVE  \/ w2.fin[x] = w.fin[x]
               \/ w.fin[x] \in {"open", "ending"} /\ w2.fin[x] \in {"ending"} \cup Promise!Closed
    BY <1>1, <2>1 DEF Faded
  <2> QED
    BY <1>1, <2>1 DEF Faded
<1> QED
  BY <1>1 DEF Faded

\* A socket may close on behalf of the other end: that one is closed and
\* nothing is missing.
PeerDone(e, w, c, i) ==
  /\ w.fin[FarOf(w.sock[i].end)] # "open"
  /\ \/ w.sent[FarOf(w.sock[i].end)] = w.rcvd[w.sock[i].end]
     \/ w.sock[i].st = "live" /\ w.sock[i].pkts # <<>>
  /\ w.fin[FarOf(w.sock[i].end)] # "none" \/ (w.sock[i].st = "live" /\ ~Opens(View(e, w, c), e, i))

\* A socket without a local peer is closed.
LEMMA BearShut ==
  ASSUME V \in Views, NEW e \in Procs, NEW w, NEW c, Bears(e, w, c), NEW i \in Ids,
         w.sock[i].st \in {"live", "closing"}, ~IsLocal(w.sock[i].peer), NEW why \in Promise!Closed,
         why = "peer" => PeerDone(e, w, c, i), NEW w2, IsShut(w, i, why, w2)
  PROVE  /\ Bears(e, w2, c) /\ Faded(w, w2) /\ w2.sock[i].st \in {"closing", "gone"}
         /\ w2.fin[w.sock[i].end] \in {"ending"} \cup Promise!Closed
<1>1. PICK v, v2 : v = View(e, w, c) /\ v2 = View(e, w2, c)
  OBVIOUS
<1>2. Good(v) /\ w \in Worlds /\ c \in Seq(Packets) /\ Fits(e, w, c)
  BY <1>1, BearView
<1>3. /\ w2 \in Worlds /\ w2.sent = w.sent /\ w2.rcvd = w.rcvd /\ w2.next = w.next /\ w2.out = w.out
      /\ w2.sock = [w.sock EXCEPT ![i] = Dying(w.sock[i], why)]
      /\ w2.fin = [w.fin EXCEPT ![w.sock[i].end] = LastFin(w.sock[i], why)]
  BY DEF IsShut, SameWorldData
<1>4. Change(e, w, w2, c, v, v2)
  BY <1>1, <1>2, <1>3, ViewChange, Zenon
<1>5. /\ SameRest(v, v2) /\ v2.next = v.next /\ v2.chan = v.chan /\ v.sock[e] = w.sock /\ v2.sock[e] = w2.sock
      /\ \A f \in Procs : f # e => v2.sock[f] = v.sock[f]
      /\ v.sent = w.sent /\ v.rcvd = w.rcvd /\ v.fin = w.fin /\ v2.sent = w2.sent /\ v2.rcvd = w2.rcvd
      /\ v2.fin = w2.fin
  BY <1>3, <1>4 DEF Change
<1> DEFINE s == w.sock[i]
           x == s.end
<1>6. s \in Sockets /\ x \in Ends /\ FarOf(x) \in Ends /\ FarOf(x) # x /\ w.sock \in [Ids -> Sockets]
      /\ w.fin \in [Ends -> Promise!Fins]
  BY <1>2, FitFacts, WorldFacts, EndFacts DEF SocketOK
<1>7. PICK t : t = Dying(s, why)
  OBVIOUS
<1>8. /\ t.st \in {"gone", "closing"} /\ SocketOK(e, t)
      /\ Destroyed(s) => t = Gone /\ t.st = "gone" /\ LastFin(s, why) = why
      /\ ~Destroyed(s) => t.st = "closing" /\ t.pkts = s.pkts /\ t.end = x /\ t.why = why /\ LastFin(s, why) = "ending"
  BY <1>6, <1>7, DyingFacts
<1>9. w2.sock[i] = t /\ \A k \in Ids : k # i => w2.sock[k] = w.sock[k]
  BY <1>3, <1>6, <1>7
<1>10. w2.fin[x] = LastFin(s, why) /\ \A y \in Ends : y # x => w2.fin[y] = w.fin[y]
  BY <1>3, <1>6
<1>11. Die(e, w, w2, {i})
  BY <1>8, <1>9 DEF Die, IsLocal
<1>12. Fits(e, w2, c)
  BY <1>2, <1>3, <1>11, FitDeaths, Zenon
<1>13. Sound(v2)
  BY <1>1, <1>12 DEF Fits
<1>14. Deaths(v, v2, e, {i})
  BY <1>5, <1>11 DEF Deaths, Die
<1>15. Ends1(v, v2, e, i, x)
  <2>1. Used(v, e, i) /\ v.sock[e][i].end = x
    BY <1>5 DEF Used
  <2>2. CASE Destroyed(s)
    <3>1. v2.sock[e][i].st = "gone" /\ v2.sock[e][i].pkts = <<>> /\ v2.fin[x] = why
      BY <1>5, <1>8, <1>9, <1>10, <2>2, GoneFacts
    <3>2. why = "peer" => /\ v2.fin[FarOf(x)] # "open" /\ v.sent[FarOf(x)] = v.rcvd[x]
                          /\ \/ v.fin[FarOf(x)] # "none"
                             \/ v.sock[e][i].st = "live" /\ ~Opens(v, e, i)
      BY <1>1, <1>5, <1>6, <1>10, <2>2 DEF PeerDone, Destroyed
    <3> QED
      BY <2>1, <3>1, <3>2 DEF Ends1
  <2>3. CASE ~Destroyed(s)
    <3>1. /\ v.sock[e][i].st = "live" /\ v.sock[e][i].pkts # <<>>
      BY <1>5, <2>3 DEF Destroyed
    <3>2. /\ v2.sock[e][i].st = "closing" /\ v2.sock[e][i].pkts = v.sock[e][i].pkts /\ v2.sock[e][i].end = x
          /\ v2.fin[x] = "ending" /\ v2.sock[e][i].why = why
      BY <1>5, <1>8, <1>9, <1>10, <2>3
    <3>3. why = "peer" => v2.fin[FarOf(x)] # "open"
      BY <1>5, <1>6, <1>10 DEF PeerDone
    <3> QED
      BY <2>1, <3>1, <3>2, <3>3 DEF Ends1
  <2> QED
    BY <2>2, <2>3
<1>16. OtherFins(v, v2, e, {i})
  BY <1>5, <1>10 DEF OtherFins
<1>17. Carried(v2)
  <2>1. {i} \in SUBSET Ids /\ (\A j \in {i} : \E y \in Ends : Ends1(v, v2, e, j, y)) /\ v2.sent = v.sent /\ v2.rcvd = v.rcvd
    BY <1>3, <1>5, <1>6, <1>15
  <2> QED
    BY <1>2, <1>5, <1>13, <1>14, <1>16, <2>1, DeathsGood, Zenon
<1>18. Bears(e, w2, c)
  BY <1>1, <1>12, <1>17, BearIs
<1>19. w2.fin[x] \in {"ending"} \cup Promise!Closed /\ w.fin[x] \in {"open", "ending"}
  <2>1. EndOK(v, e, i)
    BY <1>2, GoodFacts
  <2> QED
    BY <1>5, <1>8, <1>10, <2>1 DEF EndOK
<1>20. Faded(w, w2)
  BY <1>3, <1>10, <1>19 DEF Faded
<1> QED
  BY <1>8, <1>9, <1>18, <1>19, <1>20

\* Two sockets of the host that are each other's peers are closed.
LEMMA BearPair ==
  ASSUME V \in Views, NEW e \in Procs, NEW w, NEW c, Bears(e, w, c), NEW i \in Ids, NEW m \in Ids,
         w.sock[i].peer = Local(m), NEW why \in Promise!Closed, why # "peer", NEW w2, IsClosed(w, i, why, w2)
  PROVE  /\ Bears(e, w2, c) /\ Faded(w, w2) /\ w2.sock[i].st \in {"closing", "gone"}
         /\ w2.sock[m].st \in {"closing", "gone"}
         /\ w.sock[m].pkts = <<>> => w2.fin[w.sock[m].end] = "peer"
<1>1. PICK v, v2 : v = View(e, w, c) /\ v2 = View(e, w2, c)
  OBVIOUS
<1>2. Good(v) /\ w \in Worlds /\ c \in Seq(Packets) /\ Fits(e, w, c)
  BY <1>1, BearView
<1>2a. /\ i # m /\ e = "host" /\ w.sock[i].st = "live" /\ w.sock[m].st = "live" /\ w.sock[m].peer = Local(i)
       /\ w.sock[i].end \in Ends /\ w.sock[m].end \in Ends /\ w.sock[i] \in Sockets /\ w.sock[m] \in Sockets
       /\ ~IsRemote(w.sock[i].peer) /\ "peer" \in Promise!Closed
  BY <1>2, FitFacts, FinFacts, PeerKinds DEF IsRemote
<1>2b. w.fin \in [Ends -> Promise!Fins] /\ w.sock \in [Ids -> Sockets]
  BY <1>2, WorldFacts
<1>3. PICK t, u : t = Dying(w.sock[i], why) /\ u = Dying(w.sock[m], "peer")
  OBVIOUS
<1>3a. PICK f, g : f = LastFin(w.sock[i], why) /\ g = LastFin(w.sock[m], "peer")
  OBVIOUS
<1>4. /\ w2 \in Worlds /\ w2.sent = w.sent /\ w2.rcvd = w.rcvd /\ w2.next = w.next /\ w2.out = w.out
      /\ w2.sock = [w.sock EXCEPT ![m] = u, ![i] = t]
      /\ w2.fin = [w.fin EXCEPT ![w.sock[m].end] = g, ![w.sock[i].end] = f]
  BY <1>2a, <1>3, <1>3a DEF IsClosed, SameWorldData
<1>5. Change(e, w, w2, c, v, v2)
  BY <1>1, <1>2, <1>4, ViewChange, Zenon
<1>6. /\ SameRest(v, v2) /\ v2.next = v.next /\ v2.chan = v.chan /\ v.sock[e] = w.sock /\ v2.sock[e] = w2.sock
      /\ \A h \in Procs : h # e => v2.sock[h] = v.sock[h]
      /\ v.sent = w.sent /\ v.rcvd = w.rcvd /\ v.fin = w.fin /\ v2.sent = w2.sent /\ v2.rcvd = w2.rcvd
      /\ v2.fin = w2.fin
  BY <1>4, <1>5 DEF Change
<1>7. w.sock[m].end = FarOf(w.sock[i].end) /\ w.sock[i].end = FarOf(w.sock[m].end) /\ w.sock[m].end # w.sock[i].end
  BY <1>2, <1>2a, <1>6, PairFacts, EndFacts
<1>8. w2.sock[i] = t /\ w2.sock[m] = u /\ \A k \in Ids : k \notin {i, m} => w2.sock[k] = w.sock[k]
  BY <1>2a, <1>2b, <1>4
<1>9. /\ w2.fin[w.sock[i].end] = f /\ w2.fin[w.sock[m].end] = g
      /\ \A y \in Ends : y # w.sock[i].end /\ y # w.sock[m].end => w2.fin[y] = w.fin[y]
  BY <1>2a, <1>2b, <1>4, <1>7
<1>10. /\ t.st \in {"gone", "closing"} /\ SocketOK(e, t)
       /\ Destroyed(w.sock[i]) => t = Gone /\ t.st = "gone" /\ f = why
       /\ ~Destroyed(w.sock[i]) => /\ t.st = "closing" /\ t.pkts = w.sock[i].pkts /\ t.end = w.sock[i].end
                                   /\ t.why = why /\ f = "ending"
  BY <1>2a, <1>3, <1>3a, DyingFacts
<1>11. /\ u.st \in {"gone", "closing"} /\ SocketOK(e, u)
       /\ Destroyed(w.sock[m]) => u = Gone /\ u.st = "gone" /\ g = "peer"
       /\ ~Destroyed(w.sock[m]) => /\ u.st = "closing" /\ u.pkts = w.sock[m].pkts /\ u.end = w.sock[m].end
                                   /\ u.why = "peer" /\ g = "ending"
  BY <1>2a, <1>3, <1>3a, DyingFacts
<1>12. Die(e, w, w2, {i, m})
  BY <1>2a, <1>8, <1>10, <1>11, PeerKinds DEF Die
<1>13. Fits(e, w2, c)
  BY <1>2, <1>4, <1>12, FitDeaths, Zenon
<1>14. Sound(v2)
  BY <1>1, <1>13 DEF Fits
<1>15. Deaths(v, v2, e, {i, m})
  BY <1>6, <1>12 DEF Deaths, Die
<1>16. f \in Promise!Closed \cup {"ending"} /\ f # "peer" /\ f # "open" /\ g \in {"peer", "ending"}
  BY <1>10, <1>11, FinFacts
<1>17. Ends1(v, v2, e, i, w.sock[i].end)
  <2>1. Used(v, e, i) /\ v.sock[e][i].end = w.sock[i].end /\ v2.sock[e][i] = t /\ v2.fin[w.sock[i].end] = f
    BY <1>2a, <1>6, <1>8, <1>9 DEF Used
  <2>2. CASE Destroyed(w.sock[i])
    BY <1>10, <1>16, <2>1, <2>2, GoneFacts DEF Ends1
  <2>3. CASE ~Destroyed(w.sock[i])
    BY <1>2a, <1>6, <1>10, <1>16, <2>1, <2>3 DEF Ends1, Destroyed
  <2> QED
    BY <2>2, <2>3
<1>18. Ends1(v, v2, e, m, w.sock[m].end)
  <2>1. /\ Used(v, e, m) /\ v.sock[e][m].end = w.sock[m].end /\ v2.sock[e][m] = u /\ v2.fin[w.sock[m].end] = g
        /\ v2.fin[FarOf(w.sock[m].end)] # "open"
    BY <1>2a, <1>6, <1>7, <1>8, <1>9, <1>16 DEF Used
  <2>2. v.fin[FarOf(w.sock[m].end)] = "open" /\ EndOK(v, e, i)
    <3>1. EndOK(v, e, i)
      BY <1>2, GoodFacts
    <3> QED
      BY <1>2a, <1>6, <1>7, <3>1 DEF EndOK
  <2>3. CASE Destroyed(w.sock[m])
    <3>1. w.sock[m].pkts = <<>> /\ IsLocal(w.sock[m].peer) /\ v.sock[e][m] = w.sock[m]
      BY <1>2a, <1>6, <2>3 DEF Destroyed, IsLocal
    <3>2. RecvOK(v, e, m)
      BY <1>2, GoodFacts
    <3>3. v.sent[FarOf(w.sock[m].end)] = v.rcvd[w.sock[m].end]
      BY <1>2a, <3>1, <3>2 DEF RecvOK, Receives
    <3> QED
      BY <1>11, <2>1, <2>2, <2>3, <3>3, FinFacts, GoneFacts DEF Ends1
  <2>4. CASE ~Destroyed(w.sock[m])
    BY <1>2a, <1>6, <1>11, <2>1, <2>4 DEF Ends1, Destroyed
  <2> QED
    BY <2>3, <2>4
<1>19. OtherFins(v, v2, e, {i, m})
  BY <1>6, <1>9 DEF OtherFins
<1>20. Carried(v2)
  <2>1. /\ {i, m} \in SUBSET Ids /\ (\A j \in {i, m} : \E y \in Ends : Ends1(v, v2, e, j, y))
        /\ v2.sent = v.sent /\ v2.rcvd = v.rcvd
    BY <1>2a, <1>4, <1>6, <1>17, <1>18
  <2> QED
    BY <1>2, <1>6, <1>14, <1>15, <1>19, <2>1, DeathsGood, Zenon
<1>21. Bears(e, w2, c)
  BY <1>1, <1>13, <1>20, BearIs
<1>22. w.fin[w.sock[i].end] = "open" /\ w.fin[w.sock[m].end] = "open"
  <2>1. EndOK(v, e, i) /\ EndOK(v, e, m)
    BY <1>2, GoodFacts
  <2> QED
    BY <1>2a, <1>6, <2>1 DEF EndOK
<1>23. Faded(w, w2)
  BY <1>4, <1>9, <1>16, <1>22, FinFacts DEF Faded
<1> QED
  BY <1>8, <1>9, <1>10, <1>11, <1>21, <1>23 DEF Destroyed

\* A world whose sockets and streams are as they were.
LEMMA BearSame ==
  ASSUME V \in Views, NEW e \in Procs, NEW w, NEW c, Bears(e, w, c), NEW w2, Fits(e, w2, c),
         w2.sock = w.sock, w2.next = w.next, w2.sent = w.sent, w2.rcvd = w.rcvd, w2.fin = w.fin,
         w2.out = w.out \/ (~link /\ \E p \in Packets : w2.out = Append(w.out, p))
  PROVE  Bears(e, w2, c)
<1>1. PICK v, v2 : v = View(e, w, c) /\ v2 = View(e, w2, c)
  OBVIOUS
<1>2. Good(v) /\ w \in Worlds /\ c \in Seq(Packets) /\ ViewOf(e, w, c, v) /\ w2 \in Worlds
  BY <1>1, BearView DEF Fits
<1>3. Change(e, w, w2, c, v, v2)
  BY <1>1, <1>2, ViewChange, Zenon
<1>4. SameRest(v, v2) /\ v2.next = v.next /\ v2.sock = v.sock /\ SameSeen(v, v2)
  BY <1>3 DEF Change, SameSeen
<1>5. v2.chan = v.chan
  <2>1. v.link = link
    BY <1>2 DEF ViewOf
  <2> QED
    BY <1>3, <2>1 DEF Change
<1>6. \A f \in Procs, k \in Ids : /\ Steady(v.sock[f][k], v2.sock[f][k])
                                  /\ v2.sock[f][k].transport = v.sock[f][k].transport
  BY <1>4 DEF Steady
<1>7. v2.link = v.link /\ v2.state["device"] = v.state["device"]
  BY <1>4 DEF SameRest
<1>8. Carried(v2)
  BY <1>2, <1>4, <1>5, <1>6, <1>7, SteadyKeeps
<1> QED
  BY <1>1, <1>8, BearIs

\* A socket that was connected is closed: the other side is told.
LEMMA BearTold ==
  ASSUME V \in Views, NEW e \in Procs, NEW w, NEW c, Bears(e, w, c), NEW i \in Ids, NEW k \in Ids,
         w.sock[i].peer = Remote(k), NEW why \in Promise!Closed, NEW w1, IsShut(w, i, why, w1), Bears(e, w1, c),
         w1.fin[w.sock[i].end] \in {"ending"} \cup Promise!Closed,
         NEW w2, Fits(e, w2, c), w2.sock = w1.sock, w2.next = w1.next, w2.sent = w1.sent, w2.rcvd = w1.rcvd,
         w2.fin = w1.fin, w2.out = Append(w1.out, Clse(k))
  PROVE  Bears(e, w2, c)
<1>0. Clse(k) \in Packets /\ Clse(k).cmd = "CLSE" /\ Clse(k).arg1 = k
  BY SentPackets DEF Clse
<1>1. CASE ~link
  BY <1>0, <1>1, BearSame
<1>2. CASE link
  <2>1. PICK v, v1, v2 : v = View(e, w, c) /\ v1 = View(e, w1, c) /\ v2 = View(e, w2, c)
    OBVIOUS
  <2>2. /\ Good(v) /\ w \in Worlds /\ c \in Seq(Packets) /\ ViewOf(e, w, c, v) /\ w2 \in Worlds
        /\ Good(v1) /\ w1 \in Worlds /\ ViewOf(e, w1, c, v1) /\ Fits(e, w, c)
    BY <2>1, BearView DEF Fits
  <2>3. Change(e, w, w1, c, v, v1) /\ Change(e, w1, w2, c, v1, v2)
    BY <2>1, <2>2, ViewChange, Zenon
  <2>4. /\ SameRest(v, v1) /\ v1.next = v.next /\ v1.chan = v.chan /\ v1.sent = v.sent /\ v1.rcvd = v.rcvd
        /\ v.sock[e] = w.sock /\ \A f \in Procs : f # e => v1.sock[f] = v.sock[f]
        /\ v1.fin = w1.fin /\ v.link
    BY <1>2, <2>2, <2>3 DEF Change, IsShut, SameWorldData, ViewOf
  <2>5. /\ SameRest(v1, v2) /\ v2.next = v1.next /\ v2.sock = v1.sock /\ SameSeen(v1, v2) /\ v1.link
        /\ v2.chan = [v1.chan EXCEPT ![Other(e)] = Append(@, Clse(k))]
    BY <1>0, <1>2, <2>2, <2>3 DEF Change, SameSeen, ViewOf
  <2> DEFINE x == w.sock[i].end
             f == Other(e)
             s == v.sock[f][k]
  <2>6. /\ v.sock[e][i].st = "live" /\ x \in Ends
        /\ e = "host" => i \in HostSide /\ x = Near(i)
        /\ e = "device" => k \in HostSide /\ x = Far(k)
        /\ s.st = "live" => s.end = FarOf(x) /\ ~IsLocal(s.peer)
    BY <2>2, <2>4, Partner
  <2>7. /\ f \in Procs /\ f # e /\ Other(f) = e /\ e \in {"host", "device"}
        /\ (f = "host" => e = "device") /\ (f = "device" => e = "host") /\ "host" \in Procs /\ "device" \in Procs
    BY ProcFacts DEF Procs, Other
  <2>8. v1.chan \in [Procs -> Seq(Packets)]
    BY <2>2, GoodFacts, ViewFacts
  <2>9. v2.chan[f] = Append(v1.chan[f], Clse(k)) /\ v2.chan[Other(f)] = v1.chan[Other(f)]
    BY <2>5, <2>7, <2>8
  <2>10. v1.sock[f][k] = s
    BY <2>4, <2>7
  <2>11. f = "host" => ToHostOK(v1, Clse(k))
    <3> SUFFICES ASSUME f = "host" PROVE Known(v1, k)
      BY <1>0 DEF ToHostOK
    <3>1. Known(v, k)
      BY <2>2, <2>4, <2>7, GoodFacts DEF Sound, KnownOK
    <3> QED
      BY <2>10, <3>1 DEF Known
  <2>12. f = "device" => ToDeviceOK(v1, Clse(k))
    <3> SUFFICES ASSUME f = "device" PROVE k < v1.next["device"]
      BY <1>0 DEF ToDeviceOK
    <3> QED
      BY <2>2, <2>4, <2>7, Online
  <2>13. ASSUME s.st = "live"
         PROVE  /\ v1.fin[FarOf(s.end)] # "open" /\ ~Opens(v1, f, k)
                /\ \/ v1.sent[FarOf(s.end)] = v1.rcvd[s.end]
                   \/ s.pkts # <<>>
                   \/ Has(v1.chan[f], WrtesTo(k))
    <3>1. s.end = FarOf(x) /\ FarOf(s.end) = x
      BY <2>6, <2>13, EndFacts
    <3>2. v1.fin[x] \notin {"open", "none"}
      BY <2>4, FinFacts
    <3>3. ~Opens(v1, f, k)
      <4> SUFFICES ASSUME f = "host", Has(v1.chan["device"], OpensOf(k)) PROVE FALSE
        BY DEF Opens
      <4>1. PICK p \in Elements(v1.chan["device"]) : p.cmd = "OPEN" /\ p.arg0 = k
        BY DEF Has, OpensOf
      <4>2. v1.fin[Far(k)] = "none"
        BY <2>2, <4>1, GoodFacts DEF NamesOK, ToDeviceOK
      <4> QED
        BY <2>6, <2>7, <3>2, <4>2
    <3>4. Joined(v, f, k)
      BY <2>4, <2>7 DEF Joined
    <3>5. RecvOK(v, f, k)
      BY <2>2, <2>7, GoodFacts
    <3>6. v.sent[FarOf(s.end)] = v.rcvd[s.end] \/ s.pkts # <<>> \/ Has(v.chan[f], WrtesTo(k))
      BY <2>13, <3>4, <3>5 DEF RecvOK, Receives
    <3> QED
      BY <2>4, <3>1, <3>2, <3>3, <3>6
  <2>14. Carried(v2)
    <3>1. /\ f = "host" => ToHostOK(v1, Clse(k)) /\ (Clse(k).cmd = "OKAY" => Cnxn \notin Elements(v1.chan["device"]))
          /\ f = "device" => ToDeviceOK(v1, Clse(k)) /\ Clse(k).cmd # "CNXN"
          /\ Clse(k).cmd \in {"OKAY", "CLSE", "CNXN"} /\ Clse(k).cmd # "OKAY"
      BY <1>0, <2>11, <2>12
    <3>2. Clse(k).cmd = "CLSE" /\ v1.sock[f][Clse(k).arg1].st = "live" =>
           /\ v1.fin[FarOf(v1.sock[f][Clse(k).arg1].end)] # "open" /\ ~Opens(v1, f, Clse(k).arg1)
           /\ \/ v1.sent[FarOf(v1.sock[f][Clse(k).arg1].end)] = v1.rcvd[v1.sock[f][Clse(k).arg1].end]
              \/ v1.sock[f][Clse(k).arg1].pkts # <<>>
              \/ Has(v1.chan[f], WrtesTo(Clse(k).arg1))
      BY <1>0, <2>10, <2>13
    <3> HIDE DEF f, s, x
    <3> QED
      BY <1>0, <2>2, <2>5, <2>7, <2>9, <3>1, <3>2, PushGood, Zenon
  <2> QED
    BY <2>1, <2>14, BearIs
<1> QED
  BY <1>1, <1>2

\* local_socket_close_locked
LEMMA BearClose ==
  ASSUME V \in Views, NEW e \in Procs, NEW w, NEW c, Bears(e, w, c), NEW i \in Ids,
         w.sock[i].st \in {"live", "closing"}, NEW why \in Promise!Closed,
         why = "peer" => PeerDone(e, w, c, i) /\ ~IsLocal(w.sock[i].peer), NEW w2, w2 = Close(w, i, why)
  PROVE  /\ Bears(e, w2, c) /\ Faded(w, w2) /\ w2.sock[i].st \in {"closing", "gone"}
         /\ \A m \in Ids : w.sock[i].peer = Local(m) /\ w.sock[m].pkts = <<>> => w2.fin[w.sock[m].end] = "peer"
<1>1. Fits(e, w, c) /\ w \in Worlds
  BY DEF Bears, Fits
<1>2. /\ w.sock[i].end \in Ends /\ w.sock[i] \in Sockets
      /\ \A m \in Ids : w.sock[i].peer = Local(m) => m # i /\ w.sock[m].end \in Ends
  BY <1>1, FitFacts DEF SocketOK
<1>3. IsClosed(w, i, why, w2)
  BY <1>1, <1>2, CloseFacts, Zenon
<1>4. CASE IsLocal(w.sock[i].peer)
  <2>1. PICK m \in Ids : w.sock[i].peer = Local(m)
    BY <1>4 DEF IsLocal
  <2>2. why # "peer"
    BY <1>4
  <2>3. \A k \in Ids : w.sock[i].peer = Local(k) => k = m
    BY <2>1, PeerKinds
  <2>4. /\ Bears(e, w2, c) /\ Faded(w, w2) /\ w2.sock[i].st \in {"closing", "gone"}
        /\ w.sock[m].pkts = <<>> => w2.fin[w.sock[m].end] = "peer"
    BY <1>3, <2>1, <2>2, BearPair
  <2> QED
    BY <2>3, <2>4
<1>5. CASE ~IsLocal(w.sock[i].peer)
  <2>0. \A m \in Ids : w.sock[i].peer # Local(m)
    BY <1>5 DEF IsLocal
  <2>1. PICK w1 : w1 = [w2 EXCEPT !.out = w.out]
    OBVIOUS
  <2>2. w2 \in Worlds /\ w.out \in Seq(Packets)
    BY <1>1, <1>3, WorldFacts DEF IsClosed
  <2>3. /\ w1 \in Worlds /\ w1.out = w.out /\ w1.sock = w2.sock /\ w1.next = w2.next /\ w1.sent = w2.sent
        /\ w1.rcvd = w2.rcvd /\ w1.fin = w2.fin /\ w1.freed = w2.freed
    BY <2>1, <2>2 DEF Worlds
  <2>4. IsShut(w, i, why, w1)
    BY <1>3, <1>5, <2>3 DEF IsClosed, IsShut, SameWorldData
  <2>5. /\ Bears(e, w1, c) /\ Faded(w, w1) /\ w1.sock[i].st \in {"closing", "gone"}
        /\ w1.fin[w.sock[i].end] \in {"ending"} \cup Promise!Closed
    BY <1>5, <2>4, BearShut
  <2>6. Fits(e, w2, c)
    BY <1>1, FitClose
  <2>7. Faded(w, w2) /\ w2.sock[i].st \in {"closing", "gone"}
    BY <2>3, <2>5 DEF Faded
  <2>8. CASE ~IsRemote(w.sock[i].peer)
    <3>1. w2.out = w1.out
      BY <1>3, <2>3, <2>8 DEF IsClosed
    <3>2. Bears(e, w2, c)
      BY <2>3, <2>5, <2>6, <3>1, BearSame
    <3> QED
      BY <2>0, <2>7, <3>2
  <2>9. CASE IsRemote(w.sock[i].peer)
    <3>1. PICK k \in Ids : w.sock[i].peer = Remote(k)
      BY <2>9 DEF IsRemote
    <3>2. w2.out = Append(w1.out, Clse(k))
      BY <1>3, <2>3, <3>1 DEF IsClosed
    <3>3. Bears(e, w2, c)
      BY <2>3, <2>4, <2>5, <2>6, <3>1, <3>2, BearTold, Zenon
    <3> QED
      BY <2>0, <2>7, <3>3
  <2> QED
    BY <2>8, <2>9
<1> QED
  BY <1>4, <1>5

\* A socket asks for other events.
LEMMA BearTouch ==
  ASSUME V \in Views, NEW e \in Procs, NEW w, NEW c, Bears(e, w, c), NEW i \in Ids, NEW t, NEW w2,
         Touched(w, i, t, w2), Steady(w.sock[i], t), SocketOK(e, t),
         t.transport = w.sock[i].transport \/ (t.peer = Smart /\ state[e] = "connected")
  PROVE  Bears(e, w2, c) /\ w2.sent = w.sent /\ w2.rcvd = w.rcvd /\ w2.fin = w.fin
<1>1. PICK v, v2 : v = View(e, w, c) /\ v2 = View(e, w2, c)
  OBVIOUS
<1>2. Good(v) /\ w \in Worlds /\ c \in Seq(Packets) /\ Fits(e, w, c)
  BY <1>1, BearView
<1>3. /\ w2 \in Worlds /\ w2.sent = w.sent /\ w2.rcvd = w.rcvd /\ w2.next = w.next /\ w2.out = w.out
      /\ w2.fin = w.fin /\ w2.sock[i] = t /\ \A k \in Ids \ {i} : w2.sock[k] = w.sock[k]
  BY DEF Touched, SameWorldData
<1>4. Change(e, w, w2, c, v, v2)
  BY <1>1, <1>2, <1>3, ViewChange, Zenon
<1>5. Fits(e, w2, c)
  BY <1>2, FitTouched DEF Steady
<1>6. /\ SameRest(v, v2) /\ v2.next = v.next /\ v2.chan = v.chan /\ v.sock[e] = w.sock /\ v2.sock[e] = w2.sock
      /\ \A f \in Procs : f # e => v2.sock[f] = v.sock[f]
      /\ SameSeen(v, v2)
  BY <1>3, <1>4 DEF Change, SameSeen
<1>7. ASSUME NEW f \in Procs, NEW k \in Ids
      PROVE  /\ Steady(v.sock[f][k], v2.sock[f][k])
             /\ v2.sock[f][k].transport = v.sock[f][k].transport \/ v.sock[f][k].peer = Smart
  <2>1. CASE f = e /\ k = i
    BY <1>3, <1>6, <2>1 DEF Steady
  <2>2. CASE ~(f = e /\ k = i)
    <3>1. v2.sock[f][k] = v.sock[f][k]
      BY <1>3, <1>6, <2>2
    <3> QED
      BY <3>1 DEF Steady
  <2> QED
    BY <2>1, <2>2
<1>8. v2.link = v.link /\ v2.state["device"] = v.state["device"]
  BY <1>6 DEF SameRest
<1>9. Carried(v2)
  BY <1>2, <1>6, <1>7, <1>8, SteadyKeeps
<1> QED
  BY <1>1, <1>3, <1>5, <1>9, BearIs

\* The reading of a socket stops.
LEMMA BearQuiet ==
  ASSUME V \in Views, NEW e \in Procs, NEW w, NEW c, Bears(e, w, c), NEW i \in Ids,
         w.sock[i].st = "live" => w.sock[i].evs = {}, NEW w2, w2 = Quiet(w, i, 1)
  PROVE  /\ Bears(e, w2, c) /\ w2.sent = w.sent /\ w2.rcvd = w.rcvd /\ w2.fin = w.fin
         /\ Touched(w, i, Stopped(w.sock[i]), w2)
<1>1. PICK t : t = Stopped(w.sock[i])
  OBVIOUS
<1>2. Fits(e, w, c) /\ w \in Worlds
  BY DEF Bears, Fits
<1>3. Touched(w, i, t, w2) /\ w.sock[i] \in Sockets /\ SocketOK(e, w.sock[i])
  BY <1>1, <1>2, QuietFacts, FitFacts, Zenon
<1>4. /\ t.st = w.sock[i].st /\ t.peer = w.sock[i].peer /\ t.transport = w.sock[i].transport
      /\ t.pkts = w.sock[i].pkts /\ t.end = w.sock[i].end /\ t.why = w.sock[i].why /\ t.want = w.sock[i].want \ {"R"}
      /\ SocketOK(e, t)
  BY <1>1, <1>3, StoppedFacts
<1>5. Steady(w.sock[i], t)
  BY <1>4 DEF Steady
<1> QED
  BY <1>1, <1>3, <1>4, <1>5, BearTouch

\* The end of the read half, with or without an end of file.
LEMMA BearAfterRead ==
  ASSUME V \in Views, NEW e \in Procs, NEW w, NEW c, Bears(e, w, c), NEW i \in Ids,
         w.sock[i].st \in {"live", "closing", "gone"}, NEW r \in {0, 1}, NEW eof \in BOOLEAN,
         r = 1 /\ w.sock[i].st = "live" => w.sock[i].evs = {},
         NEW w2, w2 = AfterRead(w, i, r, eof)
  PROVE  /\ Bears(e, w2, c) /\ Faded(w, w2) /\ (~eof => w2.fin = w.fin)
         /\ \A m \in Ids : eof /\ r = 0 /\ w.sock[i].peer = Local(m) /\ w.sock[m].pkts = <<>> => w2.fin[w.sock[m].end] = "peer"
<1>0. Fits(e, w, c) /\ w \in Worlds /\ SocketOK(e, w.sock[i])
  BY FitFacts DEF Bears, Fits
<1>1. CASE w.sock[i].st = "gone"
  <2>1. w2 = [w EXCEPT !.freed = TRUE]
    BY <1>1 DEF AfterRead
  <2>2. Fits(e, w2, c)
    BY <1>0, <2>1, FitFreed, Zenon
  <2>3. /\ w2.sock = w.sock /\ w2.next = w.next /\ w2.sent = w.sent /\ w2.rcvd = w.rcvd /\ w2.fin = w.fin
        /\ w2.out = w.out
    BY <1>0, <2>1 DEF Worlds
  <2>4. Bears(e, w2, c)
    BY <2>2, <2>3, BearSame
  <2>5. \A m \in Ids : w.sock[i].peer # Local(m)
    BY <1>0, <1>1, PeerKinds DEF SocketOK
  <2> QED
    BY <2>3, <2>4, <2>5, FadedFacts
<1>2. CASE w.sock[i].st # "gone"
  <2>1. PICK w1 : w1 = Quiet(w, i, r)
    OBVIOUS
  <2>2. /\ Bears(e, w1, c) /\ w1.sent = w.sent /\ w1.rcvd = w.rcvd /\ w1.fin = w.fin /\ w1.sock[i].st = w.sock[i].st
        /\ r = 0 => w1 = w
    <3>1. CASE r = 0
      BY <2>1, <3>1 DEF Quiet
    <3>2. CASE r = 1
      <4>1. w1 = Quiet(w, i, 1) /\ (w.sock[i].st = "live" => w.sock[i].evs = {})
        BY <2>1, <3>2
      <4>2. /\ Bears(e, w1, c) /\ w1.sent = w.sent /\ w1.rcvd = w.rcvd /\ w1.fin = w.fin
            /\ Touched(w, i, Stopped(w.sock[i]), w1)
        BY <4>1, BearQuiet
      <4>3. w1.sock[i] = Stopped(w.sock[i]) /\ w.sock[i] \in Sockets
        BY <1>0, <4>2, WorldFacts DEF Touched
      <4>4. w1.sock[i].st = w.sock[i].st
        BY <4>3, StoppedFacts
      <4> QED
        BY <3>2, <4>2, <4>4
    <3> QED
      BY <3>1, <3>2
  <2>3. CASE eof
    <3>1. PICK why \in Promise!Closed : why = Why(w.sock[i])
      BY DEF Why, Promise!Closed
    <3>2. w2 = Close(w1, i, why) /\ why # "peer"
      BY <1>2, <2>1, <2>3, <3>1 DEF AfterRead, Quiet, Why
    <3>3. w1.sock[i].st \in {"live", "closing"}
      BY <1>2, <2>2
    <3>4. /\ Bears(e, w2, c) /\ Faded(w1, w2)
          /\ \A m \in Ids : w1.sock[i].peer = Local(m) /\ w1.sock[m].pkts = <<>> => w2.fin[w1.sock[m].end] = "peer"
      BY <2>2, <3>2, <3>3, BearClose
    <3>5. Faded(w, w2)
      BY <2>2, <3>4 DEF Faded
    <3> QED
      BY <2>2, <2>3, <3>4, <3>5
  <2>4. CASE ~eof
    <3>1. w2 = w1
      BY <1>2, <2>1, <2>4 DEF AfterRead, Quiet
    <3> QED
      BY <2>2, <2>4, <3>1, FadedFacts
  <2> QED
    BY <2>3, <2>4
<1> QED
  BY <1>1, <1>2

\* What a packet without data must be for the other side, if it goes there.
MayPush(v, f, p) ==
  /\ p \in Packets /\ p.cmd \in {"OKAY", "CLSE", "CNXN"}
  /\ f = "host" => ToHostOK(v, p) /\ (p.cmd = "OKAY" => Cnxn \notin Elements(v.chan["device"]))
  /\ f = "device" => ToDeviceOK(v, p) /\ p.cmd # "CNXN"
  /\ p.cmd = "OKAY" /\ v.sock[f][p.arg1].st = "live" =>
       /\ "R" \notin v.sock[f][p.arg1].want /\ ~Has(v.chan[f], OkaysTo(p.arg1))
       /\ v.sent[v.sock[f][p.arg1].end] = v.rcvd[FarOf(v.sock[f][p.arg1].end)]
  /\ p.cmd = "CLSE" /\ v.sock[f][p.arg1].st = "live" =>
       /\ v.fin[FarOf(v.sock[f][p.arg1].end)] # "open" /\ ~Opens(v, f, p.arg1)
       /\ \/ v.sent[FarOf(v.sock[f][p.arg1].end)] = v.rcvd[v.sock[f][p.arg1].end]
          \/ v.sock[f][p.arg1].pkts # <<>>
          \/ Has(v.chan[f], WrtesTo(p.arg1))

\* Such a packet may be sent.
LEMMA MayPushGood ==
  ASSUME NEW v, NEW v2, Good(v), SameRest(v, v2), v2.next = v.next, v2.sock = v.sock, SameSeen(v, v2),
         NEW f \in Procs, NEW p \in Packets, MayPush(v, f, p),
         v2.chan[f] = Append(v.chan[f], p), v2.chan[Other(f)] = v.chan[Other(f)]
  PROVE  Carried(v2)
<1>1. p.cmd \in {"OKAY", "CLSE", "CNXN"}
  BY DEF MayPush
<1>2. f = "host" => ToHostOK(v, p) /\ (p.cmd = "OKAY" => Cnxn \notin Elements(v.chan["device"]))
  BY DEF MayPush
<1>3. f = "device" => ToDeviceOK(v, p) /\ p.cmd # "CNXN"
  BY DEF MayPush
<1>4. p.cmd = "OKAY" /\ v.sock[f][p.arg1].st = "live" =>
        /\ "R" \notin v.sock[f][p.arg1].want /\ ~Has(v.chan[f], OkaysTo(p.arg1))
        /\ v.sent[v.sock[f][p.arg1].end] = v.rcvd[FarOf(v.sock[f][p.arg1].end)]
  BY DEF MayPush
<1>5. p.cmd = "CLSE" /\ v.sock[f][p.arg1].st = "live" =>
        /\ v.fin[FarOf(v.sock[f][p.arg1].end)] # "open" /\ ~Opens(v, f, p.arg1)
        /\ \/ v.sent[FarOf(v.sock[f][p.arg1].end)] = v.rcvd[v.sock[f][p.arg1].end]
           \/ v.sock[f][p.arg1].pkts # <<>>
           \/ Has(v.chan[f], WrtesTo(p.arg1))
  BY DEF MayPush
<1> QED
  BY <1>1, <1>2, <1>3, <1>4, <1>5, PushGood, Zenon

\* A packet without data is sent.
LEMMA BearPush ==
  ASSUME V \in Views, NEW e \in Procs, NEW w, NEW c, Bears(e, w, c), NEW p \in Packets,
         NEW v, v = View(e, w, c), link => MayPush(v, Other(e), p),
         NEW w2, w2 = SendPacket(w, p), Fits(e, w2, c)
  PROVE  /\ Bears(e, w2, c) /\ w2.sock = w.sock
         /\ w2.sent = w.sent /\ w2.rcvd = w.rcvd /\ w2.fin = w.fin
<1>1. PICK v2 : v2 = View(e, w2, c)
  OBVIOUS
<1>2. Good(v) /\ w \in Worlds /\ c \in Seq(Packets) /\ ViewOf(e, w, c, v) /\ w2 \in Worlds
  BY BearView DEF Fits
<1>3. /\ w2.sock = w.sock /\ w2.next = w.next /\ w2.sent = w.sent /\ w2.rcvd = w.rcvd /\ w2.fin = w.fin
      /\ w2.out = Append(w.out, p)
  BY <1>2, SendFacts DEF SameWorldData
<1>4. CASE ~link
  BY <1>3, <1>4, BearSame
<1>5. CASE link
  <2>1. Change(e, w, w2, c, v, v2)
    BY <1>1, <1>2, ViewChange, Zenon
  <2>2. /\ SameRest(v, v2) /\ v2.next = v.next /\ v2.sock = v.sock /\ SameSeen(v, v2)
        /\ v2.chan = [v.chan EXCEPT ![Other(e)] = Append(@, p)]
    BY <1>2, <1>3, <1>5, <2>1 DEF Change, SameSeen, ViewOf
  <2>3. v.chan \in [Procs -> Seq(Packets)] /\ Other(e) \in Procs /\ Other(Other(e)) = e /\ Other(e) # e
    BY <1>2, GoodFacts, ViewFacts, ProcFacts DEF Procs
  <2>4. v2.chan[Other(e)] = Append(v.chan[Other(e)], p) /\ v2.chan[Other(Other(e))] = v.chan[Other(Other(e))]
    BY <2>2, <2>3
  <2>5. PICK f \in Procs : f = Other(e)
    BY <2>3
  <2>6. MayPush(v, f, p)
    BY <1>5, <2>5
  <2>8. v2.chan[f] = Append(v.chan[f], p) /\ v2.chan[Other(f)] = v.chan[Other(f)]
    BY <2>4, <2>5
  <2>9. Carried(v2)
    BY <1>2, <2>2, <2>6, <2>8, MayPushGood, Zenon
  <2> QED
    BY <1>1, <1>3, <2>9, BearIs
<1> QED
  BY <1>4, <1>5

\* A socket tells the other side that its packet was written.
LEMMA OkayMay ==
  ASSUME NEW v, NEW v1, Good(v), Good(v1), NEW e \in Procs, NEW i \in Ids, NEW k \in Ids,
         v1.sock[Other(e)] = v.sock[Other(e)], v1.chan = v.chan, v1.link,
         v.sock[e][i].peer = Remote(k), v1.sock[e][i].peer = Remote(k),
         NEW x, x = v.sock[e][i].end, x = v1.sock[e][i].end,
         v.sent[FarOf(x)] # v.rcvd[x], v1.sent[FarOf(x)] = v1.rcvd[x]
  PROVE  MayPush(v1, Other(e), Okay(i, k))
<1>1. PICK f \in Procs : f = Other(e)
  BY ProcFacts
<1>2. PICK p : p = Okay(i, k)
  OBVIOUS
<1>3. p \in Packets /\ p.cmd = "OKAY" /\ p.arg0 = i /\ p.arg1 = k
  BY <1>2, SentPackets DEF Okay
<1>4. /\ v1.state["device"] = "connected" /\ Cnxn \notin Elements(v1.chan["device"])
      /\ e = "host" => k < v1.next["device"]
      /\ e = "device" => i < v1.next["device"]
  BY Online
<1>5. /\ v1.sock[e][i].st = "live" /\ x \in Ends
      /\ e = "device" => k \in HostSide /\ x = Far(k)
      /\ v1.sock[f][k].st = "live" => v1.sock[f][k].end = FarOf(x)
  BY <1>1, Partner
<1>6. /\ e \in {"host", "device"} /\ (f = "host" => e = "device") /\ (f = "device" => e = "host")
      /\ NamesOK(v1) /\ EndOK(v1, e, i) /\ FarOf(FarOf(x)) = x
  BY <1>1, <1>5, GoodFacts, EndFacts DEF Procs, Other
<1>7. f = "host" => ToHostOK(v1, p)
  <2> SUFFICES ASSUME f = "host" PROVE ToHostOK(v1, p)
    OBVIOUS
  <2>1. e = "device" /\ v1.fin[Far(k)] = "open"
    BY <1>5, <1>6 DEF EndOK
  <2> QED
    BY <1>3, <1>4, <1>5, <2>1 DEF ToHostOK
<1>8. f = "device" => ToDeviceOK(v1, p)
  BY <1>3, <1>4, <1>6 DEF ToDeviceOK, NamesOK
<1>9. ASSUME v1.sock[f][k].st = "live"
      PROVE  /\ "R" \notin v1.sock[f][k].want /\ ~Has(v1.chan[f], OkaysTo(k))
             /\ v1.sent[v1.sock[f][k].end] = v1.rcvd[FarOf(v1.sock[f][k].end)]
  <2>1. "R" \notin v.sock[Other(e)][k].want /\ ~Has(v.chan[Other(e)], OkaysTo(k))
    BY <1>1, <1>9, Blocked
  <2> QED
    BY <1>1, <1>5, <1>6, <1>9, <2>1
<1>10. MayPush(v1, f, p)
  BY <1>3, <1>4, <1>7, <1>8, <1>9 DEF MayPush
<1> QED
  BY <1>1, <1>2, <1>10

\* A socket without packets has nothing to write.
LEMMA NothingWritten ==
  ASSUME V \in Views, NEW e \in Procs, NEW w, NEW c, Bears(e, w, c), NEW i \in Ids,
         w.sock[i].st \in {"live", "closing"}, w.sock[i].pkts = <<>>, NEW t, NEW w1, IsWritten(w, i, t, w1)
  PROVE  Touched(w, i, t, w1)
<1>1. w \in Worlds /\ w.sock[i].end \in Ends
  BY FitFacts DEF Bears, SocketOK
<1>2. w.rcvd \in [Ends -> Seq(Data)]
  BY <1>1, WorldFacts
<1>3. w.rcvd[w.sock[i].end] \o <<>> = w.rcvd[w.sock[i].end]
  BY <1>1, <1>2
<1>4. w1.rcvd = w.rcvd
  BY <1>1, <1>2, <1>3 DEF IsWritten
<1> QED
  BY <1>4 DEF IsWritten, Touched, SameWorldData

\* The program at end x gets what was under way to it.
HasWritten(w, w1, x) ==
  /\ w1.rcvd[x] = w1.sent[FarOf(x)] /\ w.sent[FarOf(x)] # w.rcvd[x]
  /\ \E d \in Data : w1.rcvd[x] = Append(w.rcvd[x], d)
  /\ \A y \in Ends : y # x => w1.rcvd[y] = w.rcvd[y]

\* The queue of a socket is written to its program.
LEMMA BearDrain ==
  ASSUME V \in Views, NEW e \in Procs, NEW w, NEW c, Bears(e, w, c), NEW i \in Ids,
         w.sock[i].st \in {"live", "closing"}, w.sock[i].pkts # <<>>, NEW x, x = w.sock[i].end,
         NEW t, NEW w1, IsWritten(w, i, t, w1), SameKind(w.sock[i], t), SocketOK(e, t), t.pkts = <<>>,
         t.why = w.sock[i].why, "R" \in t.want => "R" \in w.sock[i].want
  PROVE  Bears(e, w1, c) /\ HasWritten(w, w1, x)
<1>1. PICK v, v1 : v = View(e, w, c) /\ v1 = View(e, w1, c)
  OBVIOUS
<1>2. Good(v) /\ w \in Worlds /\ c \in Seq(Packets) /\ Fits(e, w, c)
  BY <1>1, BearView
<1>3. Fits(e, w1, c) /\ w1 \in Worlds
  BY <1>2, FitWritten DEF SameKind, Fits
<1>4. Change(e, w, w1, c, v, v1)
  BY <1>1, <1>2, <1>3, ViewChange, Zenon
<1>5. /\ w1.sent = w.sent /\ w1.fin = w.fin /\ w1.next = w.next /\ w1.out = w.out
      /\ w1.sock[i] = t /\ \A k \in Ids \ {i} : w1.sock[k] = w.sock[k]
      /\ w1.rcvd = [w.rcvd EXCEPT ![x] = @ \o w.sock[i].pkts]
  BY DEF IsWritten
<1>6. /\ SameRest(v, v1) /\ v1.next = v.next /\ v1.chan = v.chan /\ v.sock[e] = w.sock /\ v1.sock[e] = w1.sock
      /\ \A f \in Procs : f # e => v1.sock[f] = v.sock[f]
      /\ v1.sent = v.sent /\ v1.fin = v.fin /\ v.rcvd = w.rcvd /\ v1.rcvd = w1.rcvd /\ v.sent = w.sent /\ v1.sent = w1.sent
  BY <1>4, <1>5 DEF Change
<1>7. OneSocket(v, v1, e, i, t)
  BY <1>5, <1>6 DEF OneSocket
<1>8. SameKinds(v, v1)
  <2>1. ASSUME NEW f \in Procs, NEW k \in Ids PROVE SameKind(v.sock[f][k], v1.sock[f][k])
    <3>1. CASE f = e /\ k = i
      BY <1>6, <1>7, <3>1 DEF OneSocket
    <3>2. CASE ~(f = e /\ k = i)
      <4>1. v1.sock[f][k] = v.sock[f][k]
        BY <1>7, <3>2 DEF OneSocket
      <4> QED
        BY <4>1 DEF SameKind
    <3> QED
      BY <3>1, <3>2
  <2> QED
    BY <1>6, <2>1 DEF SameKinds, SameRest
<1>9. Used(v, e, i) /\ x = v.sock[e][i].end /\ v.sock[e][i] = w.sock[i]
  BY <1>6 DEF Used
<1>11. PICK d \in Data : w.sock[i].pkts = <<d>>
  <2>1. EndOK(v, e, i)
    BY <1>2, GoodFacts
  <2> QED
    BY <1>9, <2>1 DEF EndOK
<1>12. x \in Ends /\ w.rcvd \in [Ends -> Seq(Data)] /\ w.rcvd[x] \in Seq(Data)
  BY <1>2, FitFacts, WorldFacts DEF SocketOK
<1>13. w1.rcvd[x] = w.rcvd[x] \o <<d>> /\ \A y \in Ends : y # x => w1.rcvd[y] = w.rcvd[y]
  BY <1>5, <1>11, <1>12
<1>14. Carried(v1) /\ v1.rcvd[x] = v1.sent[FarOf(x)]
  <2>1. /\ t.why = v.sock[e][i].why /\ ("R" \in t.want => "R" \in v.sock[e][i].want) /\ v.sock[e][i].pkts # <<>>
        /\ Drains(v, v1, v.sock[e][i].end, v.sock[e][i].pkts) /\ v1.chan = v.chan /\ v1.sent = v.sent
        /\ Used(v, e, i)
    BY <1>5, <1>6, <1>9, <1>11, <1>13 DEF Drains
  <2>2. Carried(v1)
    BY <1>2, <1>7, <1>8, <2>1, DrainGood, Zenon
  <2>3. RecvOK(v, e, i)
    BY <1>2, GoodFacts
  <2>4. v.sent[FarOf(x)] = v.rcvd[x] \o w.sock[i].pkts
    BY <1>9, <2>3 DEF RecvOK, Receives, Used
  <2> QED
    BY <1>6, <1>11, <1>13, <2>2, <2>4
<1>15. w1.rcvd[x] = Append(w.rcvd[x], d) /\ Append(w.rcvd[x], d) # w.rcvd[x]
  BY <1>12, <1>13, Longer
<1>16. w.sent[FarOf(x)] # w.rcvd[x]
  BY <1>6, <1>14, <1>15
<1> QED
  BY <1>1, <1>3, <1>6, <1>13, <1>14, <1>15, <1>16, BearIs DEF HasWritten

\* local_socket_ready, on a socket of the host whose packet has arrived.
LEMMA BearStart ==
  ASSUME V \in Views, NEW e \in Procs, NEW w, NEW c, Bears(e, w, c), NEW i \in Ids, NEW m \in Ids,
         w.sock[i].peer = Local(m), NEW x, x = w.sock[i].end, w.rcvd[x] = w.sent[FarOf(x)],
         NEW w2, w2 = SocketReady(w, m)
  PROVE  /\ Bears(e, w2, c) /\ w2.sock[i] = w.sock[i]
         /\ w2.sent = w.sent /\ w2.rcvd = w.rcvd /\ w2.fin = w.fin
<1>1. PICK v, v2 : v = View(e, w, c) /\ v2 = View(e, w2, c)
  OBVIOUS
<1>2. Good(v) /\ w \in Worlds /\ c \in Seq(Packets) /\ Fits(e, w, c)
  BY <1>1, BearView
<1>3. /\ i # m /\ e = "host" /\ w.sock[m].st = "live" /\ w.sock[m].peer = Local(i) /\ w.sock[m] \in Sockets
      /\ w.sock[m].peer # None
  BY <1>2, FitFacts, PeerKinds
<1>4. PICK t : t = Started(w.sock[m])
  OBVIOUS
<1>5. Fits(e, w2, c) /\ Touched(w, m, t, w2)
  BY <1>2, <1>3, <1>4, FitReady, Zenon
<1>6. /\ t.st = w.sock[m].st /\ t.peer = w.sock[m].peer /\ t.transport = w.sock[m].transport
      /\ t.pkts = w.sock[m].pkts /\ t.end = w.sock[m].end /\ t.why = w.sock[m].why
  BY <1>3, <1>4, StartedFacts
<1>7. /\ w2 \in Worlds /\ w2.sent = w.sent /\ w2.rcvd = w.rcvd /\ w2.next = w.next /\ w2.out = w.out
      /\ w2.fin = w.fin /\ w2.sock[m] = t /\ \A k \in Ids \ {m} : w2.sock[k] = w.sock[k]
  BY <1>5 DEF Touched, SameWorldData
<1>8. Change(e, w, w2, c, v, v2)
  BY <1>1, <1>2, <1>7, ViewChange, Zenon
<1>9. /\ SameRest(v, v2) /\ v2.next = v.next /\ v2.chan = v.chan /\ v.sock["host"] = w.sock /\ v2.sock["host"] = w2.sock
      /\ \A f \in Procs : f # "host" => v2.sock[f] = v.sock[f]
      /\ v2.sent = v.sent /\ v2.rcvd = v.rcvd /\ v2.fin = v.fin /\ v.sent = w.sent /\ v.rcvd = w.rcvd
  BY <1>3, <1>7, <1>8 DEF Change
<1>10. OneSocket(v, v2, "host", m, t)
  BY <1>7, <1>9 DEF OneSocket
<1>11. SameKinds(v, v2)
  <2>1. ASSUME NEW f \in Procs, NEW k \in Ids PROVE SameKind(v.sock[f][k], v2.sock[f][k])
    <3>1. CASE f = "host" /\ k = m
      BY <1>6, <1>9, <1>10, <3>1 DEF OneSocket, SameKind
    <3>2. CASE ~(f = "host" /\ k = m)
      <4>1. v2.sock[f][k] = v.sock[f][k]
        BY <1>10, <3>2 DEF OneSocket
      <4> QED
        BY <4>1 DEF SameKind
    <3> QED
      BY <3>1, <3>2
  <2> QED
    BY <1>9, <2>1 DEF SameKinds, SameRest
<1>12. w.sock[m].end = FarOf(x) /\ x = FarOf(w.sock[m].end)
  BY <1>2, <1>9, PairFacts
<1>13. /\ v.sock["host"][m].st = "live" /\ IsLocal(v.sock["host"][m].peer)
       /\ t.pkts = v.sock["host"][m].pkts /\ t.why = v.sock["host"][m].why
       /\ v.sent[v.sock["host"][m].end] = v.rcvd[FarOf(v.sock["host"][m].end)]
  BY <1>3, <1>6, <1>9, <1>12 DEF IsLocal
<1>14. Carried(v2)
  BY <1>2, <1>9, <1>10, <1>11, <1>13, StartGood
<1> QED
  BY <1>1, <1>3, <1>5, <1>7, <1>14, BearIs

\* remote_socket_ready or local_socket_ready of the peer, after the queue of
\* the socket was written.
LEMMA BearPeerReady ==
  ASSUME V \in Views, NEW e \in Procs, NEW w, NEW w1, NEW c, Bears(e, w, c), Bears(e, w1, c), NEW i \in Ids,
         w.sock[i].st = "live", w1.sock[i].st = "live", w1.sock[i].peer = w.sock[i].peer, w1.out = w.out,
         NEW x, x = w.sock[i].end, x = w1.sock[i].end, HasWritten(w, w1, x),
         NEW w2, w2 = PeerReady(w1, i)
  PROVE  Bears(e, w2, c) /\ w2.sock[i] = w1.sock[i] /\ SameSeen(w1, w2)
<1>0. w.sent[FarOf(x)] # w.rcvd[x] /\ w1.rcvd[x] = w1.sent[FarOf(x)]
  BY DEF HasWritten
<1>1. w1 \in Worlds /\ Fits(e, w1, c) /\ Fits(e, w, c) /\ w1.sock[i] \in Sockets /\ w1.sock[i].peer \in Peers
  BY FitFacts, SocketFacts DEF Bears
<1>2. CASE IsRemote(w1.sock[i].peer)
  <2>1. PICK k \in Ids : w1.sock[i].peer = Remote(k)
    BY <1>2 DEF IsRemote
  <2>2. PICK p : p = Okay(i, k)
    OBVIOUS
  <2>3. w2 = SendPacket(w1, p) /\ p \in Packets
    BY <1>1, <1>2, <2>1, <2>2, PeerParts, SentPackets DEF PeerReady, Okay
  <2>4. Fits(e, w2, c)
    BY <1>1, FitPeerReady
  <2>5. PICK v, v1 : v = View(e, w, c) /\ v1 = View(e, w1, c)
    OBVIOUS
  <2>6. Good(v) /\ Good(v1) /\ ViewOf(e, w, c, v) /\ ViewOf(e, w1, c, v1) /\ w \in Worlds /\ c \in Seq(Packets)
    BY <2>5, BearView
  <2>7. Change(e, w, w1, c, v, v1)
    BY <1>1, <2>5, <2>6, ViewChange, Zenon
  <2>8. /\ v1.sock[Other(e)] = v.sock[Other(e)] /\ v1.chan = v.chan /\ v.sock[e] = w.sock /\ v1.sock[e] = w1.sock
        /\ v.sent = w.sent /\ v.rcvd = w.rcvd /\ v1.sent = w1.sent /\ v1.rcvd = w1.rcvd
    BY <2>7, ProcFacts DEF Change
  <2>9. /\ v.sock[e][i].peer = Remote(k) /\ v1.sock[e][i].peer = Remote(k)
        /\ x = v.sock[e][i].end /\ x = v1.sock[e][i].end
        /\ v.sent[FarOf(x)] # v.rcvd[x] /\ v1.sent[FarOf(x)] = v1.rcvd[x]
    BY <1>0, <2>1, <2>8
  <2>10. ASSUME link PROVE MayPush(v1, Other(e), p)
    <3>1. v1.link
      BY <2>6, <2>10 DEF ViewOf
    <3> QED
      BY <2>2, <2>6, <2>8, <2>9, <3>1, OkayMay, Zenon
  <2>11. /\ Bears(e, w2, c) /\ w2.sock = w1.sock
         /\ w2.sent = w1.sent /\ w2.rcvd = w1.rcvd /\ w2.fin = w1.fin
    BY <2>3, <2>4, <2>5, <2>10, BearPush
  <2> QED
    BY <2>11 DEF SameSeen
<1>3. CASE IsLocal(w1.sock[i].peer)
  <2>1. PICK m \in Ids : w1.sock[i].peer = Local(m)
    BY <1>3 DEF IsLocal
  <2>2. w1.sock[i].peer[1] # "remote" /\ w1.sock[i].peer[1] = "local" /\ w1.sock[i].peer[2] = m
    BY <1>1, <2>1, <1>3, PeerParts, PeerKinds DEF IsRemote
  <2>3. w2 = SocketReady(w1, m)
    BY <2>2 DEF PeerReady
  <2> QED
    BY <1>0, <2>1, <2>3, BearStart DEF SameSeen
<1>4. CASE ~IsRemote(w1.sock[i].peer) /\ ~IsLocal(w1.sock[i].peer)
  <2>1. w2 = w1
    BY <1>1, <1>4, PeerParts DEF PeerReady
  <2> QED
    BY <2>1 DEF SameSeen
<1> QED
  BY <1>2, <1>3, <1>4

\* What was seen so far in this step is what was seen before it.
Unseen(w) == w.sent = sent /\ w.rcvd = rcvd /\ w.fin = fin

\* The program at one end has read a packet, or not.
LEMMA WroteFacts ==
  ASSUME NEW w, Unseen(w), NEW w1, w1.sent = w.sent, w1.fin = w.fin, NEW x \in Ends,
         \A y \in Ends : y # x => w1.rcvd[y] = w.rcvd[y],
         \/ w1.rcvd[x] = w.rcvd[x]
         \/ w.fin[x] \in {"open", "ending"} /\ \E d \in Data : w1.rcvd[x] = Append(w.rcvd[x], d)
  PROVE  Wrote(w1, x) /\ Moved(w1) /\ Permitted(w1)
<1>1. Wrote(w1, x)
  BY DEF Unseen, Wrote, RcvdBy
<1> QED
  BY <1>1, MovedKept

\* What an end in use can do.
LEMMA BearEnd ==
  ASSUME V \in Views, NEW e \in Procs, NEW w, NEW c, Bears(e, w, c), NEW i \in Ids,
         w.sock[i].st \in {"live", "closing"}
  PROVE  /\ w.sock[i].end \in Ends /\ w.fin[w.sock[i].end] \in {"open", "ending"}
         /\ w.sock[i].st = "live" => w.fin[w.sock[i].end] = "open"
<1>1. PICK v : v = View(e, w, c)
  OBVIOUS
<1>2. Good(v) /\ ViewOf(e, w, c, v) /\ Fits(e, w, c)
  BY <1>1, BearView
<1>3. EndOK(v, e, i) /\ SocketOK(e, w.sock[i])
  BY <1>2, GoodFacts, FitFacts
<1> QED
  BY <1>2, <1>3 DEF ViewOf, EndOK, SocketOK

\* The last packet of a socket on the closing list was written.
LEMMA BearLast ==
  ASSUME V \in Views, NEW e \in Procs, NEW w, NEW c, Bears(e, w, c), NEW i \in Ids,
         w.sock[i].st = "closing", w.sock[i].pkts = <<>>, w.sock[i].why = "peer"
  PROVE  PeerDone(e, w, c, i)
<1>1. PICK v : v = View(e, w, c)
  OBVIOUS
<1>2. Good(v) /\ ViewOf(e, w, c, v)
  BY <1>1, BearView
<1>3. RecvOK(v, e, i)
  BY <1>2, GoodFacts
<1>4. v.sock[e][i] = w.sock[i] /\ v.sent = w.sent /\ v.rcvd = w.rcvd /\ v.fin = w.fin
  BY <1>2 DEF ViewOf
<1> QED
  BY <1>3, <1>4 DEF RecvOK, Receives, PeerDone

\* The write half of local_socket_event_func, every outcome of it.
LEMMA BearWriteHalf ==
  ASSUME V \in Views, NEW e \in Procs, NEW w, NEW c, Bears(e, w, c), Unseen(w), NEW i \in Ids,
         w.sock[i].st \in {"live", "closing"}, w.sock[i].evs = {}, w.sock[i].st = "live" => w.sock[i].pkts # <<>>,
         NEW h \in WriteHalf(w, i)
  PROVE  /\ Bears(e, h.w, c) /\ Permitted(h.w)
         /\ ~h.returns => /\ h.w.sock[i].st = "live" /\ h.w.sock[i].evs = {} /\ Wrote(h.w, h.w.sock[i].end)
                          /\ "R" \in w.sock[i].want => "R" \in h.w.sock[i].want
<1>1. /\ w \in Worlds /\ w.sock[i] \in Sockets /\ SocketOK(e, w.sock[i]) /\ w.sock[i].end \in Ends
      /\ w.fin[w.sock[i].end] \in {"open", "ending"}
  BY FitFacts, BearEnd DEF Bears
<1>2. PICK x \in Ends : x = w.sock[i].end
  BY <1>1
<1>2a. PICK w2 : w2 = h.w
  OBVIOUS
<1>3. CASE /\ w.sock[i].st = "closing" /\ h.returns = TRUE
           /\ \E w1 : /\ w1 = [Written(w, i, w.sock[i].pkts) EXCEPT !.sock[i] = [w.sock[i] EXCEPT !.pkts = <<>>]]
                      /\ h.w = Shut(w1, i, w.sock[i].why)
  <2>1. PICK t : t = [w.sock[i] EXCEPT !.pkts = <<>>]
    OBVIOUS
  <2>2. PICK w1 : /\ w1 = [Written(w, i, w.sock[i].pkts) EXCEPT !.sock[i] = t]
                  /\ w2 = Shut(w1, i, w.sock[i].why)
    BY <1>2a, <1>3, <2>1
  <2>3. <<>> \in Seq(Data)
    OBVIOUS
  <2>4. /\ t \in Sockets /\ t.st = "closing" /\ t.peer = w.sock[i].peer /\ t.pkts = <<>> /\ t.why = w.sock[i].why
        /\ t.transport = w.sock[i].transport /\ t.end = x /\ t.want = w.sock[i].want
    BY <1>1, <1>2, <1>3, <2>1, <2>3 DEF Sockets
  <2>5. SocketOK(e, t) /\ SameKind(w.sock[i], t)
    BY <1>1, <1>2, <1>3, <2>4 DEF SocketOK, SameKind
  <2>6. IsWritten(w, i, t, w1)
    BY <1>1, <2>2, <2>4, WrittenFacts, Zenon
  <2>7. /\ w1 \in Worlds /\ w1.sent = w.sent /\ w1.fin = w.fin /\ w1.sock[i] = t
    BY <2>6 DEF IsWritten
  <2>8. /\ Bears(e, w1, c)
        /\ \A y \in Ends : y # x => w1.rcvd[y] = w.rcvd[y]
        /\ w1.rcvd[x] = w.rcvd[x] \/ \E d \in Data : w1.rcvd[x] = Append(w.rcvd[x], d)
    <3>1. CASE w.sock[i].pkts # <<>>
      <4>1. t.why = w.sock[i].why /\ ("R" \in t.want => "R" \in w.sock[i].want)
        BY <2>4
      <4>2. Bears(e, w1, c) /\ HasWritten(w, w1, x)
        BY <1>2, <1>3, <2>4, <2>5, <2>6, <3>1, <4>1, BearDrain
      <4> QED
        BY <4>2 DEF HasWritten
    <3>2. CASE w.sock[i].pkts = <<>>
      <4>1. Touched(w, i, t, w1)
        BY <1>3, <2>6, <3>2, NothingWritten
      <4>2. Steady(w.sock[i], t)
        BY <1>2, <1>3, <2>4, <3>2 DEF Steady
      <4>3. Bears(e, w1, c) /\ w1.rcvd = w.rcvd
        BY <2>4, <2>5, <4>1, <4>2, BearTouch
      <4> QED
        BY <4>3
    <3> QED
      BY <3>1, <3>2
  <2>9. Moved(w1)
    BY <1>1, <1>2, <2>7, <2>8, WroteFacts
  <2>10. PICK y \in Promise!Closed : y = w.sock[i].why
    BY <1>1, SocketFacts
  <2>11. w1.sock[i].end \in Ends /\ w1.sock[i].st = "closing" /\ w2 = Shut(w1, i, y) /\ ~IsLocal(w1.sock[i].peer)
    BY <1>2, <2>2, <2>4, <2>5, <2>7, <2>10, PeerKinds DEF SocketOK, IsLocal
  <2>12. IsShut(w1, i, y, w2)
    BY <2>7, <2>11, ShutFacts, Zenon
  <2>13. y = "peer" => PeerDone(e, w1, c, i)
    BY <2>4, <2>7, <2>8, <2>10, BearLast
  <2>14. Bears(e, w2, c) /\ Faded(w1, w2)
    BY <2>8, <2>11, <2>12, <2>13, BearShut
  <2>15. Permitted(w2)
    BY <2>9, <2>14, MovedFades
  <2> QED
    BY <1>2a, <1>3, <2>14, <2>15
<1>4. CASE /\ w.sock[i].st = "live" /\ h.returns = FALSE
           /\ \E w1 : /\ w1 = [Written(w, i, w.sock[i].pkts) EXCEPT !.sock[i] = Drained(w.sock[i])]
                      /\ h.w = PeerReady(w1, i)
  <2>1. PICK t : t = Drained(w.sock[i])
    OBVIOUS
  <2>2. PICK w1 : /\ w1 = [Written(w, i, w.sock[i].pkts) EXCEPT !.sock[i] = t]
                  /\ w2 = PeerReady(w1, i)
    BY <1>2a, <1>4, <2>1
  <2>3. /\ t \in Sockets /\ t.st = w.sock[i].st /\ t.peer = w.sock[i].peer /\ t.pkts = <<>> /\ t.why = w.sock[i].why
        /\ t.transport = w.sock[i].transport /\ SocketOK(e, t) /\ t.evs = {} /\ t.end = x
        /\ t.want = w.sock[i].want \ {"W"}
    BY <1>1, <1>2, <2>1, DrainedFacts
  <2>4. SameKind(w.sock[i], t) /\ ("R" \in t.want => "R" \in w.sock[i].want)
    BY <1>2, <2>3 DEF SameKind
  <2>5. IsWritten(w, i, t, w1)
    BY <1>1, <2>2, <2>3, WrittenFacts, Zenon
  <2>6. w1.sock[i] = t /\ w1.out = w.out /\ w1.sent = w.sent /\ w1.fin = w.fin
    BY <2>5 DEF IsWritten
  <2>7. Bears(e, w1, c) /\ HasWritten(w, w1, x)
    BY <1>2, <1>4, <2>3, <2>4, <2>5, BearDrain
  <2>8. /\ w1.sock[i].st = "live" /\ w1.sock[i].peer = w.sock[i].peer /\ x = w1.sock[i].end
    BY <1>4, <2>3, <2>6
  <2>8a. Bears(e, w2, c) /\ SameSeen(w1, w2)
    BY <1>2, <1>4, <2>2, <2>6, <2>7, <2>8, BearPeerReady, Zenon
  <2>9. Bears(e, w2, c) /\ w2.sock[i] = w1.sock[i] /\ SameSeen(w1, w2)
    <3>1. Fits(e, w1, c)
      BY <2>7 DEF Bears
    <3>2. w2 = PeerReady(w1, i) /\ w1.sock[i].st = "live"
      BY <2>2, <2>8
    <3>3. Fits(e, w2, c) /\ w2.sock[i] = w1.sock[i]
      BY <3>1, <3>2, FitPeerReady
    <3> QED
      BY <2>8a, <3>3
  <2>10. /\ w2.sent = w.sent /\ w2.fin = w.fin /\ \A y \in Ends : y # x => w2.rcvd[y] = w.rcvd[y]
         /\ w.fin[x] \in {"open", "ending"} /\ \E d \in Data : w2.rcvd[x] = Append(w.rcvd[x], d)
    BY <1>1, <1>2, <2>6, <2>7, <2>9 DEF SameSeen, HasWritten
  <2>11. Wrote(w2, x) /\ Permitted(w2)
    BY <2>10, WroteFacts
  <2> QED
    BY <1>2a, <1>4, <2>3, <2>6, <2>9, <2>11
<1>5. Moved(w) /\ Permitted(w)
  BY <1>2, WroteFacts
<1>6. CASE h.w = w /\ h.returns = TRUE
  BY <1>5, <1>6
<1>7. CASE h.w = Close(w, i, "own") /\ h.returns = TRUE
  <2>1. PICK y \in Promise!Closed : y = "own"
    BY DEF Promise!Closed
  <2>2. w2 = Close(w, i, y) /\ y # "peer"
    BY <1>2a, <1>7, <2>1
  <2>3. Bears(e, w2, c) /\ Faded(w, w2)
    BY <2>2, BearClose
  <2>4. Permitted(w2)
    BY <1>5, <2>3, MovedFades
  <2> QED
    BY <1>2a, <1>7, <2>3, <2>4
<1> QED
  BY <1>1, <1>3, <1>4, <1>6, <1>7, WriteHalfCases

\* The A_OPEN of a socket is sent.
LEMMA BearOpenSent ==
  ASSUME V \in Views, NEW e \in Procs, e = "host", NEW w1, NEW c, Bears(e, w1, c), NEW i \in Ids,
         NEW v1, v1 = View(e, w1, c), v1.fin[Far(i)] = "none",
         w1.sock[i].st = "live", w1.sock[i].peer = None,
         ~Has(v1.chan["host"], ClsesTo(i)), ~Has(v1.chan["device"], OpensOf(i)),
         NEW p \in Packets, p = OpenPacket(i, Far(i)), NEW w2, w2 \in Worlds, w2.next = w1.next,
         w2.out = Append(w1.out, p), w2.sock = w1.sock, SameSeen(w1, w2), Fits(e, w2, c)
  PROVE  Bears(e, w2, c)
<1>0. w2.sent = w1.sent /\ w2.rcvd = w1.rcvd /\ w2.fin = w1.fin
  BY DEF SameSeen
<1>1. CASE ~link
  BY <1>0, <1>1, BearSame
<1>2. CASE link
  <2>1. PICK v2 : v2 = View(e, w2, c)
    OBVIOUS
  <2>2. Good(v1) /\ ViewOf(e, w1, c, v1) /\ w1 \in Worlds /\ c \in Seq(Packets)
    BY BearView
  <2>3. Change(e, w1, w2, c, v1, v2)
    BY <2>1, <2>2, ViewChange, Zenon
  <2>4. v1.link /\ v1.sock[e] = w1.sock
    BY <1>2, <2>2 DEF ViewOf
  <2>5. Other(e) = "device"
    BY ProcFacts
  <2>6. v2.chan = IF v1.link THEN [v1.chan EXCEPT ![Other(e)] = Append(@, p)] ELSE v1.chan
    BY <2>3 DEF Change
  <2>7. v2.chan = [v1.chan EXCEPT !["device"] = Append(@, p)]
    BY <2>4, <2>5, <2>6
  <2>8. SameRest(v1, v2) /\ v2.next = v1.next /\ v2.sock = v1.sock
    BY <2>3 DEF Change
  <2>9. SameSeen(v1, v2)
    BY <1>0, <2>3 DEF Change, SameSeen
  <2>10. v1.chan \in [Procs -> Seq(Packets)] /\ "host" \in Procs /\ "device" \in Procs
    BY <2>2, GoodFacts, ViewFacts
  <2>11. v2.chan["host"] = v1.chan["host"] /\ v2.chan["device"] = Append(v1.chan["device"], OpenPacket(i, Far(i)))
    BY <2>7, <2>10
  <2>12. v1.sock["host"][i].st = "live" /\ v1.sock["host"][i].peer = None
    BY <2>4
  <2>13. Carried(v2)
    BY <2>2, <2>8, <2>9, <2>11, <2>12, PushOpenGood
  <2> QED
    BY <2>1, <2>13, BearIs
<1> QED
  BY <1>1, <1>2

\* A client of the smart socket sends its request to the device.
LEMMA BearDialed ==
  ASSUME V \in Views, NEW e \in Procs, NEW w, NEW c, Bears(e, w, c), NEW i \in Ids,
         w.sock[i].st = "live", w.sock[i].peer = Smart, w.sock[i].evs = {}, state[e] = "connected",
         NEW w2, IsDialed(w, i, w2)
  PROVE  Bears(e, w2, c) /\ SameSeen(w, w2)
<1>1. PICK t, w1 : t = Dialed(w.sock[i]) /\ w1 = [w EXCEPT !.sock[i] = t]
  OBVIOUS
<1>2. PICK v, v1, v2 : v = View(e, w, c) /\ v1 = View(e, w1, c) /\ v2 = View(e, w2, c)
  OBVIOUS
<1>3. Good(v) /\ ViewOf(e, w, c, v) /\ w \in Worlds /\ c \in Seq(Packets) /\ Fits(e, w, c)
  BY <1>2, BearView
<1>4. Fits(e, w1, c) /\ Detached(e, w, i, t, w1)
  BY <1>1, <1>3, FitDetached, Zenon
<1>5. /\ e = "host" /\ Touched(w, i, t, w1) /\ t.st = "live" /\ t.peer = None /\ t.transport /\ t.pkts = <<>>
      /\ t.want = {} /\ t.end = w.sock[i].end
  BY <1>4 DEF Detached
<1>6. /\ w1 \in Worlds /\ w1.sent = w.sent /\ w1.rcvd = w.rcvd /\ w1.next = w.next /\ w1.out = w.out
      /\ w1.fin = w.fin /\ w1.sock = [w.sock EXCEPT ![i] = t] /\ w1.sock[i] = t
      /\ \A k \in Ids \ {i} : w1.sock[k] = w.sock[k]
  BY <1>5 DEF Touched, SameWorldData
<1>7. Change(e, w, w1, c, v, v1)
  BY <1>2, <1>3, <1>6, ViewChange, Zenon
<1>8. /\ SameRest(v, v1) /\ v1.next = v.next /\ v1.chan = v.chan /\ v.sock["host"] = w.sock
      /\ v1.sock["host"] = w1.sock /\ SameSeen(v, v1) /\ v1.fin = w.fin
      /\ \A f \in Procs : f # "host" => v1.sock[f] = v.sock[f]
  BY <1>5, <1>6, <1>7 DEF Change, SameSeen
<1>9. OneSocket(v, v1, "host", i, t)
  <2>1. v1.sock["host"][i] = t
    BY <1>6, <1>8
  <2>2. ASSUME NEW f \in Procs, NEW k \in Ids, f # "host" \/ k # i PROVE v1.sock[f][k] = v.sock[f][k]
    <3>1. CASE f = "host"
      <4>1. w1.sock[k] = w.sock[k]
        BY <1>6, <2>2, <3>1
      <4> QED
        BY <1>8, <3>1, <4>1
    <3>2. CASE f # "host"
      BY <1>8, <3>2
    <3> QED
      BY <3>1, <3>2
  <2> QED
    BY <2>1, <2>2 DEF OneSocket
<1>10. v.sock["host"][i].st = "live" /\ v.sock["host"][i].peer = Smart /\ SocketOK("host", v.sock["host"][i])
  BY <1>3, <1>5, <1>8, FitFacts
<1>11. v.sock["host"][i].pkts = <<>> /\ t.pkts = v.sock["host"][i].pkts /\ t.end = v.sock["host"][i].end
  BY <1>5, <1>8, <1>10 DEF SocketOK, LiveOK
<1>12. Carried(v1)
  BY <1>3, <1>5, <1>8, <1>9, <1>10, <1>11, DialGood
<1>13. Bears(e, w1, c)
  BY <1>2, <1>4, <1>12, BearIs
<1>14. i \in HostSide /\ v.sock["host"][i].end = Near(i) /\ v.fin[Far(i)] = "none" /\ ~Known(v, i)
  BY <1>3, <1>10, Fresh
<1>15. ~Has(v.chan["host"], ClsesTo(i)) /\ ~Has(v.chan["device"], OpensOf(i))
  BY <1>3, <1>14, Unknown
<1>16. FarOf(w.sock[i].end) = Far(i) /\ Far(i) \in Ends
  BY <1>8, <1>14, SideFacts
<1>17. PICK p \in Packets : p = OpenPacket(i, Far(i))
  BY <1>16, SentPackets DEF OpenPacket
<1>18. /\ w2 \in Worlds /\ w2.next = w1.next /\ w2.out = Append(w1.out, p) /\ w2.sock = w1.sock
       /\ w2.sent = w1.sent /\ w2.rcvd = w1.rcvd /\ w2.fin = w1.fin
  BY <1>1, <1>6, <1>16, <1>17 DEF IsDialed, SameWorldData
<1>19. Fits(e, w2, c)
  BY <1>3, FitDialed, Zenon
<1>20. SameSeen(w, w2)
  BY <1>6, <1>18 DEF SameSeen
<1>21. /\ v1.fin[Far(i)] = "none" /\ w1.sock[i].st = "live" /\ w1.sock[i].peer = None
       /\ ~Has(v1.chan["host"], ClsesTo(i)) /\ ~Has(v1.chan["device"], OpensOf(i)) /\ SameSeen(w1, w2)
  BY <1>5, <1>6, <1>8, <1>14, <1>15, <1>18 DEF SameSeen
<1>22. Bears(e, w2, c)
  BY <1>2, <1>5, <1>13, <1>17, <1>18, <1>19, <1>21, BearOpenSent
<1> QED
  BY <1>20, <1>22

\* A client is connected to a service of the host.
ServedFor(w, i, w2, x) ==
  /\ w2.sent = w.sent /\ w2.rcvd = w.rcvd /\ x \in Ends /\ FarOf(x) \in Ends /\ FarOf(x) # x /\ FarOf(FarOf(x)) = x
  /\ w.fin[x] = "open" /\ w.fin[FarOf(x)] = "none"
  /\ w2.fin[FarOf(x)] = "open" /\ \A y \in Ends : y # FarOf(x) => w2.fin[y] = w.fin[y]
  /\ w2.sock[i].st = "live"
  /\ \E n \in Ids : w2.sock[i].peer = Local(n) /\ w2.sock[n].pkts = <<>> /\ w2.sock[n].end = FarOf(x)

\* The service is open, and nothing has been sent yet.
LEMMA BearServed ==
  ASSUME V \in Views, NEW e \in Procs, NEW w, NEW c, Bears(e, w, c), NEW i \in Ids,
         w.sock[i].st = "live", w.sock[i].peer = Smart, w.next \in Ids, NEW x, x = w.sock[i].end,
         NEW w2, IsServed(w, i, w2)
  PROVE  Bears(e, w2, c) /\ ServedFor(w, i, w2, x)
<1>1. PICK v, v2 : v = View(e, w, c) /\ v2 = View(e, w2, c)
  OBVIOUS
<1>2. Good(v) /\ ViewOf(e, w, c, v) /\ w \in Worlds /\ c \in Seq(Packets) /\ Fits(e, w, c)
  BY <1>1, BearView
<1>3. Fits(e, w2, c)
  BY <1>2, FitServed, Zenon
<1>4. /\ w.sock[i] \in Sockets /\ SocketOK(e, w.sock[i]) /\ w.sock \in [Ids -> Sockets]
      /\ x \in Ends /\ FarOf(x) \in Ends /\ FarOf(x) # x /\ FarOf(FarOf(x)) = x /\ w.fin \in [Ends -> Promise!Fins]
  BY <1>2, FitFacts, WorldFacts, EndFacts DEF SocketOK
<1>5. w.sock[w.next].st = "none"
  <2>1. \A n \in Ids : n >= n
    BY DEF Ids
  <2> QED
    BY <1>2, <2>1, FitFacts
<1>6. e = "host"
  BY <1>4, PeerKinds DEF SocketOK, LiveOK, IsRemote, Procs
<1>7. PICK n \in Ids : n = w.next
  OBVIOUS
<1>8. PICK s, t : /\ s = [w.sock[i] EXCEPT !.peer = Local(n), !.transport = FALSE]
                  /\ t = New(FarOf(x), Local(i), {"R"}, FALSE)
  OBVIOUS
<1>9. /\ s.st = "live" /\ s.peer = Local(n) /\ s.pkts = w.sock[i].pkts /\ s.end = x
  BY <1>4, <1>8 DEF Sockets
<1>10. /\ t.st = "live" /\ t.peer = Local(i) /\ t.end = FarOf(x) /\ t.pkts = <<>>
  <2>1. Local(i) \in Peers /\ {"R"} \in SUBSET {"R", "W"} /\ FALSE \in BOOLEAN
    BY PeerKinds
  <2>2. PICK y \in Ends, pr \in Peers, wt \in SUBSET {"R", "W"}, tr \in BOOLEAN :
          y = FarOf(x) /\ pr = Local(i) /\ wt = {"R"} /\ tr = FALSE
    BY <1>4, <2>1
  <2>3. t = New(y, pr, wt, tr)
    BY <1>8, <2>2
  <2>4. IsNew(t, y, pr, wt, tr)
    BY <2>3, NewSocket, Zenon
  <2> QED
    BY <2>2, <2>4 DEF IsNew
<1>11. i # n
  BY <1>5, <1>7
<1>12. /\ w2.sock = [w.sock EXCEPT ![i] = s, ![n] = t] /\ w2 \in Worlds /\ w2.next = n + 1 /\ w2.out = w.out
       /\ w2.sent = w.sent /\ w2.rcvd = w.rcvd /\ w2.fin = [w.fin EXCEPT ![FarOf(x)] = "open"]
  BY <1>7, <1>8 DEF IsServed
<1>13. Change(e, w, w2, c, v, v2)
  BY <1>1, <1>2, <1>12, ViewChange, Zenon
<1>14. /\ SameRest(v, v2) /\ v2.next = [v.next EXCEPT !["host"] = n + 1]
       /\ v2.chan = v.chan /\ n = v.next["host"] /\ v2.sent = v.sent /\ v2.rcvd = v.rcvd
       /\ v.sock["host"] = w.sock /\ v2.sock["host"] = w2.sock /\ v.fin = w.fin /\ v2.fin = w2.fin
       /\ \A f \in Procs : f # "host" => v2.sock[f] = v.sock[f]
  BY <1>6, <1>7, <1>12, <1>13 DEF Change
<1>15. /\ v2.sock["host"][i] = s /\ v2.sock["host"][n] = t
       /\ v.sock["host"][i].st = "live" /\ v.sock["host"][i].peer = Smart
       /\ \A f \in Procs, k \in Ids : f = "device" \/ k \notin {i, n} => v2.sock[f][k] = v.sock[f][k]
  BY <1>4, <1>11, <1>12, <1>14 DEF Procs
<1>16. i \in HostSide /\ x = Near(i) /\ v.fin[Near(i)] = "open" /\ v.fin[Far(i)] = "none"
  BY <1>2, <1>14, <1>15, Fresh
<1>17. FarOf(x) = Far(i)
  BY <1>16, SideFacts
<1>18. /\ s.end = v.sock["host"][i].end /\ s.pkts = v.sock["host"][i].pkts /\ t.end = Far(i)
       /\ v2.fin = [v.fin EXCEPT ![Far(i)] = "open"] /\ Sound(v2)
  BY <1>1, <1>3, <1>9, <1>10, <1>12, <1>14, <1>17 DEF Fits
<1>19. Carried(v2)
  BY <1>2, <1>9, <1>10, <1>14, <1>15, <1>18, ServeGood
<1>20. Bears(e, w2, c)
  BY <1>1, <1>3, <1>19, BearIs
<1>21. /\ w2.fin[FarOf(x)] = "open" /\ \A y \in Ends : y # FarOf(x) => w2.fin[y] = w.fin[y]
  BY <1>4, <1>12
<1>22. ServedFor(w, i, w2, x)
  BY <1>4, <1>9, <1>10, <1>12, <1>14, <1>15, <1>16, <1>17, <1>21 DEF ServedFor
<1> QED
  BY <1>20, <1>22

\* The smart socket closes a client that was not connected to anything.
LEMMA SmartDone ==
  ASSUME V \in Views, NEW e \in Procs, NEW w, NEW c, Bears(e, w, c), NEW i \in Ids,
         w.sock[i].st = "live", w.sock[i].peer = Smart
  PROVE  e = "host" /\ PeerDone(e, w, c, i) /\ ~IsLocal(w.sock[i].peer)
<1>1. PICK v : v = View(e, w, c)
  OBVIOUS
<1>2. Good(v) /\ ViewOf(e, w, c, v) /\ Fits(e, w, c)
  BY <1>1, BearView
<1>3. SocketOK(e, w.sock[i])
  BY <1>2, FitFacts
<1>4. e = "host"
  BY <1>3, PeerKinds DEF SocketOK, LiveOK, IsRemote, Procs
<1>5. v.sock["host"][i].st = "live" /\ v.sock["host"][i].peer = Smart
  BY <1>2, <1>4 DEF ViewOf
<1>6. /\ i \in HostSide /\ v.sock["host"][i].end = Near(i) /\ v.fin[Far(i)] = "none" /\ ~Known(v, i)
      /\ v.sent[Far(i)] = <<>> /\ v.rcvd[Near(i)] = <<>>
  BY <1>2, <1>5, Fresh
<1>7. ~Opens(v, "host", i)
  BY <1>2, <1>6, Unknown
<1>8. FarOf(Near(i)) = Far(i)
  BY <1>6, SideFacts
<1>9. /\ w.sock[i].end = Near(i) /\ w.fin[Far(i)] = "none" /\ w.sent[Far(i)] = <<>> /\ w.rcvd[Near(i)] = <<>>
  BY <1>2, <1>4, <1>6 DEF ViewOf
<1>10. PeerDone(e, w, c, i)
  BY <1>1, <1>4, <1>7, <1>8, <1>9 DEF PeerDone
<1> QED
  BY <1>4, <1>10, PeerKinds DEF IsLocal

\* A service of the host was connected and, when the client is already gone,
\* closed again.
LEMMA ServedKept ==
  ASSUME NEW w, Moved(w), NEW i, NEW ws, NEW x, ServedFor(w, i, ws, x), NEW w2, Faded(ws, w2),
         w2.fin[FarOf(x)] \in {"open", "peer"}
  PROVE  Permitted(w2)
<1> USE DEF Moved, ServedFor, Faded
<1>1. fin[x] = "open" /\ fin[FarOf(x)] = "none" /\ FarOf(FarOf(x)) = x
  OBVIOUS
<1>2. Promise!CanOpen(FarOf(x))
  BY <1>1 DEF Promise!CanOpen, FarOf
<1>3. ASSUME NEW y \in Ends PROVE SentBy(w2, y) /\ RcvdBy(w2, y)
  BY DEF SentBy, RcvdBy
<1>4. ASSUME NEW y \in Ends PROVE FinBy(w2, y)
  <2>1. CASE y = FarOf(x)
    BY <1>2, <2>1 DEF FinBy
  <2>2. CASE y # FarOf(x)
    <3>1. ws.fin[y] = fin[y]
      BY <2>2
    <3> QED
      BY <3>1 DEF FinBy
  <2> QED
    BY <2>1, <2>2
<1> QED
  BY <1>3, <1>4 DEF Permitted

\* The smart socket acquires the transport.
LEMMA BearAcquired ==
  ASSUME V \in Views, NEW e \in Procs, NEW w, NEW c, Bears(e, w, c), NEW i \in Ids,
         w.sock[i].st = "live", w.sock[i].peer = Smart, state[e] = "connected",
         NEW w2, Acquires(w, i, w2)
  PROVE  Bears(e, w2, c) /\ Faded(w, w2) /\ w2.sock[i].st = "live"
<1>1. Fits(e, w, c) /\ w.sock[i] \in Sockets /\ SocketOK(e, w.sock[i])
  BY FitFacts, WorldFacts DEF Bears, Fits
<1>2. PICK t : t = Acquired(w.sock[i])
  OBVIOUS
<1>3. /\ t.st = "live" /\ t.peer = Smart /\ t.transport = TRUE /\ t.pkts = w.sock[i].pkts
      /\ t.end = w.sock[i].end /\ t.why = w.sock[i].why /\ t.want = w.sock[i].want /\ t.evs = w.sock[i].evs
  BY <1>1, <1>2, AcquiredFacts
<1>4. SocketOK(e, t)
  BY <1>1, <1>3, PeerKinds DEF SocketOK, LiveOK, IsLocal
<1>5. Touched(w, i, t, w2) /\ Steady(w.sock[i], t)
  BY <1>2, <1>3 DEF Acquires, Steady
<1>6. Bears(e, w2, c) /\ w2.sent = w.sent /\ w2.rcvd = w.rcvd /\ w2.fin = w.fin
  BY <1>3, <1>4, <1>5, BearTouch
<1>7. Faded(w, w2)
  BY <1>6, FadedFacts DEF SameSeen
<1>8. w2.sock[i].st = "live"
  BY <1>1, FitAcquired, Zenon
<1> QED
  BY <1>6, <1>7, <1>8

\* smart_socket_enqueue, for each target of the request.
LEMMA BearSmart ==
  ASSUME V \in Views, NEW e \in Procs, NEW w, NEW c, Bears(e, w, c), Moved(w), NEW i \in Ids,
         w.sock[i].st = "live", w.sock[i].peer = Smart, w.sock[i].evs = {}, NEW eof \in BOOLEAN,
         NEW w2 \in SmartEnqueue(e, w, i, eof)
  PROVE  Bears(e, w2, c) /\ Permitted(w2)
<1>1. /\ w \in Worlds /\ w.sock[i] \in Sockets /\ SocketOK(e, w.sock[i]) /\ w.sock[i].end \in Ends
  BY FitFacts DEF SocketOK, Bears
<1>0. w.sock[i].st \in {"live", "closing"} /\ w.sock[i].st \in {"live", "closing", "gone"}
  OBVIOUS
<1>2. CASE w2 = AfterRead(w, i, 0, eof)
  <2>1. PICK r \in {0, 1} : r = 0
    OBVIOUS
  <2>2. w2 = AfterRead(w, i, r, eof) /\ r # 1
    BY <1>2, <2>1
  <2>3. Bears(e, w2, c) /\ Faded(w, w2)
    BY <1>0, <2>2, BearAfterRead
  <2> QED
    BY <2>3, MovedFades
<1>2a. ASSUME state[e] = "connected", w2 = AfterRead([w EXCEPT !.sock[i].transport = TRUE], i, 0, eof)
       PROVE  Bears(e, w2, c) /\ Permitted(w2)
  <2>1. PICK wa : wa = [w EXCEPT !.sock[i].transport = TRUE]
    OBVIOUS
  <2>2. Acquires(w, i, wa)
    BY <1>1, <2>1, AcquireFacts, Zenon
  <2>3. Bears(e, wa, c) /\ Faded(w, wa) /\ wa.sock[i].st = "live"
    BY <1>2a, <2>2, BearAcquired, Zenon
  <2>4. PICK r \in {0, 1} : r = 0
    OBVIOUS
  <2>5. w2 = AfterRead(wa, i, r, eof) /\ r # 1 /\ wa.sock[i].st \in {"live", "closing", "gone"}
    BY <1>2a, <2>1, <2>3, <2>4
  <2>6. Bears(e, w2, c) /\ Faded(wa, w2)
    BY <2>3, <2>5, BearAfterRead
  <2>7. Faded(w, w2)
    BY <2>3, <2>6, FadedFacts
  <2> QED
    BY <2>6, <2>7, MovedFades
<1>3. CASE w2 = Close(w, i, "peer")
  <2>1. PICK y \in Promise!Closed : y = "peer"
    BY DEF Promise!Closed
  <2>2. PeerDone(e, w, c, i) /\ ~IsLocal(w.sock[i].peer)
    BY SmartDone
  <2>3. Bears(e, w2, c) /\ Faded(w, w2)
    BY <1>0, <1>3, <2>1, <2>2, BearClose
  <2> QED
    BY <2>3, MovedFades
<1>4. ASSUME state[e] = "connected", NEW cd,
             cd = Dial(w, i), w2 = AfterRead(cd, i, 1, eof)
      PROVE  Bears(e, w2, c) /\ Permitted(w2)
  <2>0. HasDialed(w, i, eof, w2)
    BY <1>1, <1>4, DialFacts, Zenon
  <2>1. PICK wd : IsDialed(w, i, wd) /\ w2 = IF eof THEN Close(wd, i, "quit") ELSE wd
    BY <2>0 DEF HasDialed
  <2>2. Bears(e, wd, c) /\ SameSeen(w, wd)
    BY <1>4, <2>1, BearDialed, Zenon
  <2>6. wd.sock[i].st = "live"
    <3>1. Fits(e, w, c)
      BY DEF Bears
    <3> QED
      BY <1>4, <2>1, <3>1, FitDialed, Zenon
  <2>7. Faded(w, wd)
    BY <2>2, FadedFacts DEF SameSeen
  <2>3. PICK y \in Promise!Closed : y = "quit"
    BY DEF Promise!Closed
  <2>4. CASE eof
    <3>1. w2 = Close(wd, i, y) /\ y # "peer" /\ wd.sock[i].st \in {"live", "closing"}
      BY <2>1, <2>3, <2>4, <2>6
    <3>2. Bears(e, w2, c) /\ Faded(wd, w2)
      BY <2>2, <3>1, BearClose
    <3>3. Faded(w, w2)
      BY <2>7, <3>2, FadedFacts
    <3> QED
      BY <3>2, <3>3, MovedFades
  <2>5. CASE ~eof
    <3>1. w2 = wd
      BY <2>1, <2>5
    <3> QED
      BY <2>2, <2>7, <3>1, MovedFades
  <2> QED
    BY <2>4, <2>5
<1>5. ASSUME w.next \in Ids, NEW ws,
             ws = Create([w EXCEPT !.sock[i].peer = Local(w.next), !.sock[i].transport = FALSE],
                         FarOf(w.sock[i].end), Local(i), {"R"}, FALSE),
             w2 = AfterRead(ws, i, 0, eof)
      PROVE  Bears(e, w2, c) /\ Permitted(w2)
  <2>1. IsServed(w, i, ws)
    BY <1>1, <1>5, ServeFacts, Zenon
  <2>2. PICK x : x = w.sock[i].end
    OBVIOUS
  <2>3. Bears(e, ws, c) /\ ServedFor(w, i, ws, x)
    BY <1>5, <2>1, <2>2, BearServed, Zenon
  <2>4. PICK r \in {0, 1} : r = 0
    OBVIOUS
  <2>5. ws.sock[i].st = "live"
    BY <2>3 DEF ServedFor
  <2>9. w2 = AfterRead(ws, i, r, eof)
    BY <1>5, <2>4, Zenon
  <2>10. r # 1 /\ ws.sock[i].st \in {"live", "closing", "gone"}
    BY <2>4, <2>5
  <2>6. w2 = AfterRead(ws, i, r, eof) /\ r # 1 /\ ws.sock[i].st \in {"live", "closing", "gone"}
    BY <2>9, <2>10, Zenon
  <2>7. /\ Bears(e, w2, c) /\ Faded(ws, w2) /\ (~eof => w2.fin = ws.fin)
        /\ \A m \in Ids : eof /\ r = 0 /\ ws.sock[i].peer = Local(m) /\ ws.sock[m].pkts = <<>> => w2.fin[ws.sock[m].end] = "peer"
    BY <2>3, <2>6, BearAfterRead
  <2>8. w2.fin[FarOf(x)] \in {"open", "peer"}
    BY <2>3, <2>4, <2>7 DEF ServedFor
  <2> QED
    BY <2>3, <2>7, <2>8, ServedKept
<1>6. 1..MaxId(e) \subseteq Ids
  BY DEF MaxId, Ids
<1> QED
  BY <1>2, <1>2a, <1>3, <1>4, <1>5, <1>6 DEF SmartEnqueue, Dial

\* The end of the read half of a socket that is no longer read.
LEMMA ReadEnds ==
  ASSUME V \in Views, NEW e \in Procs, NEW w, NEW c, NEW i \in Ids, w.sock[i].st \in {"live", "closing"}, NEW eof \in BOOLEAN,
         NEW w1, w1 = Quiet(w, i, 1), Bears(e, w1, c), Moved(w1), w1.sock[i].st \in {"live", "closing"},
         NEW w2, w2 = AfterRead(w, i, 1, eof)
  PROVE  Bears(e, w2, c) /\ Permitted(w2)
<1>1. CASE eof
  <2>1. PICK why \in Promise!Closed : why = Why(w.sock[i])
    BY DEF Why, Promise!Closed
  <2>2. w2 = Close(w1, i, why) /\ why # "peer"
    BY <1>1, <2>1 DEF AfterRead, Quiet, Why
  <2>3. Bears(e, w2, c) /\ Faded(w1, w2)
    BY <2>2, BearClose
  <2> QED
    BY <2>3, MovedFades
<1>2. CASE ~eof
  <2>1. w2 = w1
    BY <1>2 DEF AfterRead, Quiet
  <2> QED
    BY <2>1, MovedKept
<1> QED
  BY <1>1, <1>2

\* A packet is taken at end x, when the last one has arrived; the program at
\* the other end may get it at once.
LEMMA TakenMoved ==
  ASSUME NEW w, NEW x \in Ends, Wrote(w, x), w.fin[x] = "open", w.sent[x] = w.rcvd[FarOf(x)], NEW d \in Data,
         NEW w2, SentMore(w, w2, x, d), w2.fin = w.fin,
         \/ w2.rcvd = w.rcvd
         \/ /\ w.fin[FarOf(x)] = "open" /\ w2.rcvd[FarOf(x)] = Append(w.rcvd[FarOf(x)], d)
            /\ \A y \in Ends : y # FarOf(x) => w2.rcvd[y] = w.rcvd[y]
  PROVE  Moved(w2)
<1>1. FarOf(x) \in Ends /\ FarOf(x) # x
  BY EndFacts
<1>2. w.rcvd[FarOf(x)] = rcvd[FarOf(x)] /\ w.sent = sent /\ w.fin = fin
  BY <1>1 DEF Wrote
<1>3. SentBy(w2, x)
  BY <1>2 DEF SentMore, SentBy
<1>4. ASSUME NEW y \in Ends, y # x PROVE SentBy(w2, y)
  BY <1>2, <1>4 DEF SentMore, SentBy
<1>5. ASSUME NEW y \in Ends PROVE RcvdBy(w, y)
  BY <1>5 DEF Wrote, RcvdBy
<1>6. ASSUME NEW y \in Ends PROVE RcvdBy(w2, y)
  <2>1. CASE w2.rcvd = w.rcvd
    BY <1>5, <2>1 DEF RcvdBy
  <2>2. CASE w2.rcvd # w.rcvd /\ y = FarOf(x)
    BY <1>2, <2>2 DEF RcvdBy
  <2>3. CASE w2.rcvd # w.rcvd /\ y # FarOf(x)
    BY <1>5, <2>3 DEF RcvdBy
  <2> QED
    BY <2>1, <2>2, <2>3
<1> QED
  BY <1>2, <1>3, <1>4, <1>6 DEF Moved

\* A socket that is read has nothing under way.
LEMMA BearReads ==
  ASSUME V \in Views, NEW e \in Procs, NEW w, NEW c, Bears(e, w, c), NEW i \in Ids, w.sock[i].st = "live",
         "R" \in w.sock[i].want, w.sock[i].peer \notin {None, Smart}
  PROVE  /\ w.sent[w.sock[i].end] = w.rcvd[FarOf(w.sock[i].end)] /\ ~Has(c, OkaysTo(i))
<1>1. PICK v : v = View(e, w, c)
  OBVIOUS
<1>2. Good(v) /\ ViewOf(e, w, c, v)
  BY <1>1, BearView
<1>3. SendOK(v, e, i)
  BY <1>2, GoodFacts
<1>4. v.sock[e][i] = w.sock[i] /\ v.sent = w.sent /\ v.rcvd = w.rcvd /\ v.chan[e] = c
  BY <1>2 DEF ViewOf
<1> QED
  BY <1>3, <1>4 DEF SendOK, Sends

\* What taking a packet makes of what the programs see.
LEMMA TakenMore ==
  ASSUME NEW w \in Worlds, NEW i, NEW x \in Ends, x = w.sock[i].end, NEW d, NEW wt, IsTaken(w, i, d, wt)
  PROVE  d \in Data /\ SentMore(w, wt, x, d)
<1>1. w.sent \in [Ends -> Seq(Data)]
  BY WorldFacts
<1> QED
  BY <1>1 DEF IsTaken, SentMore

\* A packet is taken from the program and sent; the socket is no longer read.
LEMMA BearSendData ==
  ASSUME V \in Views, NEW e \in Procs, NEW w, NEW c, Bears(e, w, c), NEW i \in Ids, NEW k \in Ids,
         w.sock[i].peer = Remote(k), "R" \in w.sock[i].want, w.sock[i].evs = {}, NEW x \in Ends, x = w.sock[i].end,
         NEW d, NEW wt, IsTaken(w, i, d, wt), NEW ws, ws = SendPacket(wt, Wrte(i, k, d)),
         NEW w2, w2 = Quiet(ws, i, 1)
  PROVE  /\ Bears(e, w2, c) /\ SentMore(w, w2, x, d) /\ w2.rcvd = w.rcvd /\ w2.fin = w.fin
         /\ w.sent[x] = w.rcvd[FarOf(x)] /\ w2.sock[i].st = "live" /\ ws.sock[i].st = "live"
<1>1. Fits(e, w, c) /\ w \in Worlds /\ c \in Seq(Packets)
  BY DEF Bears, Fits
<1>2. w.sock[i].st = "live" /\ w.sock[i].peer \notin {None, Smart} /\ w.sock[i] \in Sockets
  BY <1>1, FitKnown, PeerKinds, WorldFacts
<1>3. PICK t : t = Stopped(w.sock[i])
  OBVIOUS
<1>4. t.st = "live" /\ t.peer = Remote(k) /\ t.end = x /\ t.want = w.sock[i].want \ {"R"}
  BY <1>2, <1>3, StoppedFacts
<1>5. PICK w1 : w1 = Quiet(w, i, 1)
  OBVIOUS
<1>6. /\ Bears(e, w1, c) /\ w1.sent = w.sent /\ w1.rcvd = w.rcvd /\ w1.fin = w.fin
      /\ Touched(w, i, t, w1)
  BY <1>2, <1>3, <1>5, BearQuiet
<1>7. w1 \in Worlds /\ w1.next = w.next /\ w1.out = w.out /\ w1.sock = [w.sock EXCEPT ![i] = t] /\ w1.sock[i] = t
  BY <1>6 DEF Touched, SameWorldData
<1>8. /\ wt \in Worlds /\ wt.rcvd = w.rcvd /\ wt.fin = w.fin /\ wt.next = w.next /\ wt.out = w.out
      /\ wt.sock = w.sock /\ d \in Data /\ SentMore(w, wt, x, d)
  BY <1>1, TakenMore DEF IsTaken
<1>9. PICK p \in Packets : p = Wrte(i, k, d)
  BY <1>8, SentPackets DEF Wrte
<1>10. /\ ws \in Worlds /\ SameWorldData(wt, ws) /\ ws.sock = wt.sock /\ ws.fin = wt.fin
       /\ ws.out = Append(wt.out, p)
  BY <1>8, <1>9, SendFacts
<1>11. Touched(ws, i, Stopped(ws.sock[i]), w2)
  BY <1>10, QuietFacts, Zenon
<1>12. ws.sock[i] = w.sock[i]
  BY <1>8, <1>10
<1>13. Touched(ws, i, t, w2)
  BY <1>3, <1>11, <1>12
<1>14. /\ w2 \in Worlds /\ w2.next = w1.next /\ w2.out = Append(w1.out, p) /\ w2.sock = w1.sock
       /\ w2.rcvd = w1.rcvd /\ w2.fin = w1.fin /\ w2.sent = wt.sent
  BY <1>6, <1>7, <1>8, <1>10, <1>13 DEF Touched, SameWorldData
<1>15. SentMore(w1, w2, x, d) /\ SentMore(w, w2, x, d)
  BY <1>6, <1>8, <1>14 DEF SentMore
<1>16. p.cmd = "WRTE" /\ p.arg0 = i /\ p.arg1 = k
  BY <1>9 DEF Wrte
<1>17. Fits(e, w1, c) /\ w1.sock[i].peer = Remote(k)
  BY <1>4, <1>6, <1>7 DEF Bears
<1>18. /\ e = "host" => Known(View(e, w1, c), i)
       /\ e = "device" => Known(View(e, w1, c), k)
  BY <1>17, FitKnown
<1>19. Fits(e, w2, c)
  BY <1>14, <1>16, <1>17, <1>18, FitPush
<1>20. PICK v1, v2 : v1 = View(e, w1, c) /\ v2 = View(e, w2, c)
  OBVIOUS
<1>21. Good(v1) /\ ViewOf(e, w1, c, v1)
  BY <1>6, <1>20, BearView
<1>22. Change(e, w1, w2, c, v1, v2)
  BY <1>1, <1>7, <1>14, <1>20, ViewChange, Zenon
<1>23. SameRest(v1, v2) /\ v2.next = v1.next /\ v2.sock = v1.sock /\ v2.rcvd = v1.rcvd /\ v2.fin = v1.fin
  BY <1>14, <1>22 DEF Change
<1>24. v1.chan \in [Procs -> Seq(Packets)] /\ Other(e) \in Procs /\ Other(e) # e /\ v1.link \in BOOLEAN
  BY <1>22, ViewFacts, ProcFacts DEF Change
<1>25. v2.chan = IF v1.link THEN [v1.chan EXCEPT ![Other(e)] = Append(@, p)] ELSE v1.chan
  BY <1>14, <1>22 DEF Change
<1>26. /\ v2.chan[e] = v1.chan[e]
       /\ v2.chan[Other(e)] = IF v1.link THEN Append(v1.chan[Other(e)], Wrte(i, k, d)) ELSE v1.chan[Other(e)]
  BY <1>9, <1>24, <1>25
<1>27. w.sent[x] = w.rcvd[FarOf(x)] /\ ~Has(c, OkaysTo(i))
  BY <1>2, BearReads
<1>28. /\ v1.sock[e][i] = t /\ v1.chan[e] = c /\ v1.sent = w1.sent /\ v1.rcvd = w1.rcvd /\ v2.sent = w2.sent
  BY <1>7, <1>21, <1>22 DEF ViewOf, Change
<1>29. x = v1.sock[e][i].end /\ v1.sock[e][i].peer = Remote(k) /\ "R" \notin v1.sock[e][i].want
  BY <1>4, <1>28
<1>30. ~Has(v1.chan[e], OkaysTo(i)) /\ v1.sent[x] = v1.rcvd[FarOf(x)] /\ SentMore(v1, v2, x, d)
  BY <1>6, <1>15, <1>27, <1>28 DEF SentMore
<1>31. Carried(v2)
  BY <1>8, <1>21, <1>23, <1>26, <1>29, <1>30, SendGood
<1>32. Bears(e, w2, c)
  BY <1>19, <1>20, <1>31, BearIs
<1> QED
  BY <1>2, <1>4, <1>6, <1>7, <1>12, <1>14, <1>15, <1>27, <1>32

\* The peer is over the connection.
LEMMA BearTookRemote ==
  ASSUME V \in Views, NEW e \in Procs, NEW w, NEW c, Bears(e, w, c), NEW i \in Ids,
         "R" \in w.sock[i].want, w.sock[i].evs = {}, NEW x \in Ends, x = w.sock[i].end, Wrote(w, x),
         Len(w.sent[x]) < MaxData, NEW eof \in BOOLEAN, NEW w2, TookRemote(w, i, eof, w2)
  PROVE  Bears(e, w2, c) /\ Permitted(w2)
<1>0. PICK k \in Ids : \E wt, d, ws : /\ w.sock[i].peer = Remote(k)
                          /\ wt = Taken(w, i) /\ d = Last(wt.sent[w.sock[i].end])
                          /\ ws = SendPacket(wt, Wrte(i, k, d)) /\ w2 = AfterRead(ws, i, 1, eof)
  BY DEF TookRemote
<1>1. PICK wt, d, ws : /\ w.sock[i].peer = Remote(k)
                       /\ wt = Taken(w, i) /\ d = Last(wt.sent[w.sock[i].end])
                       /\ ws = SendPacket(wt, Wrte(i, k, d)) /\ w2 = AfterRead(ws, i, 1, eof)
  BY <1>0
<1>2. w \in Worlds /\ w.sock[i].end \in Ends /\ Len(w.sent[w.sock[i].end]) < MaxData
  BY DEF Bears, Fits
<1>3. IsTaken(w, i, d, wt)
  BY <1>1, <1>2, TakenFacts, Zenon
<1>4. PICK w1 : w1 = Quiet(ws, i, 1)
  OBVIOUS
<1>5. /\ Bears(e, w1, c) /\ SentMore(w, w1, x, d) /\ w1.rcvd = w.rcvd /\ w1.fin = w.fin
      /\ w.sent[x] = w.rcvd[FarOf(x)] /\ w1.sock[i].st = "live" /\ ws.sock[i].st = "live"
  <2>1. w.sock[i].peer = Remote(k)
    BY <1>1
  <2>2. ws = SendPacket(wt, Wrte(i, k, d))
    BY <1>1
  <2> QED
    BY <1>3, <1>4, <2>1, <2>2, BearSendData
<1>6. w.fin[x] = "open" /\ d \in Data
  <2>1. w.sock[i].st = "live"
    <3>1. Fits(e, w, c)
      BY DEF Bears
    <3> QED
      BY <1>1, <3>1, FitKnown
  <2>2. w.sock[i].st \in {"live", "closing"}
    BY <2>1
  <2>3. w.fin[w.sock[i].end] = "open"
    BY <2>1, <2>2, BearEnd
  <2> QED
    BY <1>3, <2>3 DEF IsTaken
<1>7. Moved(w1)
  BY <1>5, <1>6, TakenMoved
<1>8. ws.sock[i].st \in {"live", "closing"} /\ w1.sock[i].st \in {"live", "closing"} /\ w2 = AfterRead(ws, i, 1, eof)
  BY <1>1, <1>5
<1> QED
  BY <1>4, <1>5, <1>7, <1>8, ReadEnds

\* A client of the host is read for a service that has nothing to write.
Calm(w, i, m, x) ==
  /\ i # m /\ w.sock[i].st = "live" /\ w.sock[m].st = "live" /\ w.sock[m].peer = Local(i) /\ w.sock[m].pkts = <<>>
  /\ w.sock[m].end = FarOf(x) /\ w.sent[x] = w.rcvd[FarOf(x)]
  /\ w.fin[x] = "open" /\ w.fin[FarOf(x)] = "open" /\ FarOf(x) \in Ends /\ FarOf(x) # x /\ FarOf(FarOf(x)) = x

\* It is read only when all it sent was written.
LEMMA BearCalm ==
  ASSUME V \in Views, NEW e \in Procs, NEW w, NEW c, Bears(e, w, c), NEW i \in Ids, NEW m \in Ids,
         w.sock[i].peer = Local(m), "R" \in w.sock[i].want, NEW x \in Ends, x = w.sock[i].end
  PROVE  e = "host" /\ Calm(w, i, m, x)
<1>1. PICK v : v = View(e, w, c)
  OBVIOUS
<1>2. Good(v) /\ ViewOf(e, w, c, v) /\ Fits(e, w, c)
  BY <1>1, BearView
<1>3. /\ e = "host" /\ i # m /\ w.sock[m].peer = Local(i) /\ w.sock[i].st = "live" /\ w.sock[m].st = "live"
  BY <1>2, FitFacts
<1>4. /\ v.sock["host"][i] = w.sock[i] /\ v.sock["host"][m] = w.sock[m] /\ v.sent = w.sent /\ v.rcvd = w.rcvd
      /\ v.fin = w.fin
  BY <1>2, <1>3 DEF ViewOf
<1>5. w.sock[m].end = FarOf(x)
  BY <1>2, <1>4, PairFacts
<1>6. FarOf(x) \in Ends /\ FarOf(x) # x /\ FarOf(FarOf(x)) = x
  BY EndFacts
<1>7. w.sock[i].peer \notin {None, Smart}
  BY PeerKinds
<1>8. w.sent[x] = w.rcvd[FarOf(x)]
  BY <1>3, <1>7, BearReads
<1>9. EndOK(v, "host", i) /\ EndOK(v, "host", m) /\ RecvOK(v, "host", m)
  BY <1>2, <1>3, GoodFacts
<1>10. w.fin[x] = "open" /\ w.fin[FarOf(x)] = "open"
  BY <1>3, <1>4, <1>5, <1>9 DEF EndOK
<1>11. w.sock[m].pkts = <<>>
  <2>1. SUFFICES ASSUME w.sock[m].pkts # <<>> PROVE FALSE
    OBVIOUS
  <2>2. PICK d \in Data : w.sock[m].pkts = <<d>>
    BY <1>4, <1>9, <2>1 DEF EndOK
  <2>3. w.sent[x] = w.rcvd[FarOf(x)] \o <<d>>
    <3>1. Receives(w.sock[m], m, v.chan["host"], v.sent[FarOf(w.sock[m].end)], v.rcvd[w.sock[m].end],
           v.fin[FarOf(w.sock[m].end)], Joined(v, "host", m), Opens(v, "host", m))
      BY <1>4, <1>9 DEF RecvOK
    <3>2. v.sent[FarOf(w.sock[m].end)] = v.rcvd[w.sock[m].end] \o w.sock[m].pkts
      BY <1>3, <2>1, <3>1 DEF Receives
    <3> QED
      BY <1>4, <1>5, <1>6, <2>2, <3>2
  <2>4. w.rcvd[FarOf(x)] \in Seq(Data)
    BY <1>2, <1>4, <1>6, GoodFacts
  <2> QED
    BY <1>8, <2>3, <2>4, Longer
<1> QED
  BY <1>3, <1>5, <1>6, <1>8, <1>10, <1>11 DEF Calm

\* The packet waits at the service, and the client is no longer read.
TookIn(w, i, m, x, d, w2) ==
  /\ SentMore(w, w2, x, d) /\ w2.rcvd = w.rcvd /\ w2.fin = w.fin /\ w2.next = w.next /\ w2.out = w.out
  /\ w2.sock[i] = Stopped(w.sock[i]) /\ w2.sock[m] = Queued(w.sock[m], d)
  /\ \A k \in Ids : k \notin {i, m} => w2.sock[k] = w.sock[k]

\* The service is busy.
LEMMA BearTakeQueue ==
  ASSUME V \in Views, NEW e \in Procs, NEW w, NEW c, Bears(e, w, c), NEW i \in Ids, NEW m \in Ids,
         w.sock[i].peer = Local(m), "R" \in w.sock[i].want, w.sock[i].evs = {}, NEW x \in Ends, x = w.sock[i].end,
         NEW d, NEW wt, IsTaken(w, i, d, wt), NEW wq, wq = [wt EXCEPT !.sock[m] = Queued(wt.sock[m], d)],
         NEW w2, w2 = Quiet(wq, i, 1)
  PROVE  Bears(e, w2, c) /\ TookIn(w, i, m, x, d, w2) /\ wq.sock[i] = w.sock[i]
<1>1. Fits(e, w, c) /\ w \in Worlds /\ c \in Seq(Packets) /\ w.sock \in [Ids -> Sockets]
  BY WorldFacts DEF Bears, Fits
<1>2. e = "host" /\ Calm(w, i, m, x)
  BY BearCalm
<1>3. PICK t, u : t = Stopped(w.sock[i]) /\ u = Queued(w.sock[m], d)
  OBVIOUS
<1>4. t.st = "live" /\ t.peer = Local(m) /\ t.end = x /\ t.want = w.sock[i].want \ {"R"} /\ t.transport = w.sock[i].transport
  BY <1>1, <1>2, <1>3, StoppedFacts DEF Calm
<1>5. PICK w1 : w1 = Quiet(w, i, 1)
  OBVIOUS
<1>6. /\ Bears(e, w1, c) /\ w1.sent = w.sent /\ w1.rcvd = w.rcvd /\ w1.fin = w.fin
      /\ Touched(w, i, t, w1)
  BY <1>3, <1>5, BearQuiet
<1>7. /\ w1 \in Worlds /\ w1.next = w.next /\ w1.out = w.out /\ w1.sock = [w.sock EXCEPT ![i] = t] /\ w1.sock[i] = t
      /\ \A k \in Ids \ {i} : w1.sock[k] = w.sock[k]
  BY <1>6 DEF Touched, SameWorldData
<1>8. /\ wt \in Worlds /\ wt.rcvd = w.rcvd /\ wt.fin = w.fin /\ wt.next = w.next /\ wt.out = w.out
      /\ wt.sock = w.sock /\ d \in Data /\ SentMore(w, wt, x, d)
  BY <1>1, TakenMore DEF IsTaken
<1>9. /\ u \in Sockets /\ u.st = "live" /\ u.peer = Local(i) /\ u.transport = w.sock[m].transport
      /\ u.pkts = Append(w.sock[m].pkts, d) /\ u.end = FarOf(x) /\ u.why = w.sock[m].why /\ u.want = w.sock[m].want \cup {"W"}
  BY <1>1, <1>2, <1>3, <1>8, QueuedFacts DEF Calm
<1>10. SocketOK(e, u)
  <2>1. SocketOK(e, w.sock[m]) /\ w.sock[m] \in Sockets /\ w.sock[m].st = "live" /\ w.sock[m].peer \notin {None, Smart}
    BY <1>1, <1>2, FitFacts, PeerKinds DEF Calm
  <2> QED
    BY <1>3, <1>8, <2>1, QueuedFacts
<1>11. Touched(wt, m, u, wq)
  <2>1. wq = [wt EXCEPT !.sock[m] = u]
    BY <1>3, <1>8
  <2> QED
    BY <1>8, <1>9, <2>1, TouchFacts, Zenon
<1>12. /\ wq \in Worlds /\ wq.sock = [w.sock EXCEPT ![m] = u] /\ wq.sock[i] = w.sock[i] /\ wq.next = w.next /\ wq.out = w.out
       /\ wq.sent = wt.sent /\ wq.rcvd = w.rcvd /\ wq.fin = w.fin
  BY <1>1, <1>2, <1>8, <1>11 DEF Touched, SameWorldData, Calm
<1>13. Touched(wq, i, t, w2)
  <2>1. Touched(wq, i, Stopped(wq.sock[i]), w2)
    BY <1>12, QuietFacts, Zenon
  <2> QED
    BY <1>3, <1>12, <2>1
<1>14. /\ w2 \in Worlds /\ w2.sock = [wq.sock EXCEPT ![i] = t] /\ w2.sock[i] = t /\ w2.next = w.next /\ w2.out = w.out
       /\ w2.sent = wt.sent /\ w2.rcvd = w.rcvd /\ w2.fin = w.fin
       /\ \A k \in Ids \ {i} : w2.sock[k] = wq.sock[k]
  BY <1>12, <1>13 DEF Touched, SameWorldData
<1>15. w2.sock[m] = u /\ \A k \in Ids : k \notin {i, m} => w2.sock[k] = w.sock[k]
  BY <1>1, <1>2, <1>12, <1>14 DEF Calm
<1>16. w2.sock = [w1.sock EXCEPT ![m] = u]
  BY <1>1, <1>2, <1>7, <1>12, <1>14 DEF Calm
<1>17. u.st = w1.sock[m].st /\ u.peer = w1.sock[m].peer /\ u.transport = w1.sock[m].transport /\ u.end = w1.sock[m].end
       /\ u.why = w1.sock[m].why /\ w1.sock[m] = w.sock[m]
  BY <1>2, <1>7, <1>9 DEF Calm
<1>18. Fits(e, w2, c)
  <2>1. Fits(e, w1, c) /\ w2.next = w1.next /\ w2.out = w1.out
    BY <1>6, <1>7, <1>14 DEF Bears
  <2> QED
    BY <1>10, <1>14, <1>16, <1>17, <2>1, FitTouch
<1>19. PICK v1, v2 : v1 = View(e, w1, c) /\ v2 = View(e, w2, c)
  OBVIOUS
<1>20. Good(v1) /\ ViewOf(e, w1, c, v1)
  BY <1>6, <1>19, BearView
<1>21. Change(e, w1, w2, c, v1, v2)
  BY <1>1, <1>7, <1>14, <1>19, ViewChange, Zenon
<1>22. /\ SameRest(v1, v2) /\ v2.next = v1.next /\ v2.chan = v1.chan /\ v2.rcvd = v1.rcvd /\ v2.fin = v1.fin
       /\ v1.sock["host"] = w1.sock /\ v2.sock["host"] = w2.sock /\ v1.sent = w.sent /\ v1.rcvd = w.rcvd /\ v2.sent = wt.sent
       /\ \A f \in Procs : f # "host" => v2.sock[f] = v1.sock[f]
  BY <1>2, <1>6, <1>7, <1>14, <1>21 DEF Change
<1>23. \A f \in Procs, k \in Ids : f = "device" \/ k # m => v2.sock[f][k] = v1.sock[f][k]
  <2>1. ASSUME NEW k \in Ids, k # m PROVE w2.sock[k] = w1.sock[k]
    BY <1>7, <1>14, <1>15, <2>1
  <2> QED
    BY <1>22, <2>1 DEF Procs
<1>24. SameKinds(v1, v2)
  <2>1. ASSUME NEW f \in Procs, NEW k \in Ids PROVE SameKind(v1.sock[f][k], v2.sock[f][k])
    <3>1. CASE f = "host" /\ k = m
      BY <1>15, <1>17, <1>22, <3>1 DEF SameKind
    <3>2. CASE ~(f = "host" /\ k = m)
      BY <1>23, <3>2 DEF SameKind, Procs
    <3> QED
      BY <3>1, <3>2
  <2> QED
    BY <1>22, <2>1 DEF SameKinds, SameRest
<1>25. v1.sock["host"][i] = t /\ v1.sock["host"][m] = w.sock[m] /\ v2.sock["host"][m] = u
  BY <1>7, <1>15, <1>17, <1>22
<1>26. TookQueue(v1, v2, i, m, d)
  <2>1. u.pkts = <<d>> /\ ("R" \in u.want => "R" \in w.sock[m].want)
    BY <1>2, <1>8, <1>9 DEF Calm
  <2> QED
    BY <1>4, <1>9, <1>22, <1>25, <2>1 DEF TookQueue
<1>27. /\ v1.sock["host"][i].peer = Local(m) /\ v1.sent[v1.sock["host"][i].end] = v1.rcvd[v1.sock["host"][m].end]
       /\ SentMore(v1, v2, v1.sock["host"][i].end, d)
  BY <1>2, <1>4, <1>8, <1>22, <1>25 DEF Calm, SentMore
<1>28. Carried(v2)
  BY <1>8, <1>20, <1>22, <1>23, <1>24, <1>26, <1>27, TakeGood
<1>29. Bears(e, w2, c)
  BY <1>18, <1>19, <1>28, BearIs
<1>30. SentMore(w, w2, x, d)
  BY <1>8, <1>14 DEF SentMore
<1>31. TookIn(w, i, m, x, d, w2)
  BY <1>3, <1>14, <1>15, <1>30 DEF TookIn
<1> QED
  BY <1>12, <1>29, <1>31

\* The service gets the packet at once.
LEMMA BearTakeNow ==
  ASSUME V \in Views, NEW e \in Procs, NEW w, NEW c, Bears(e, w, c), NEW i \in Ids, NEW m \in Ids,
         w.sock[i].peer = Local(m), "R" \in w.sock[i].want, NEW x \in Ends, x = w.sock[i].end,
         NEW d, NEW wt, IsTaken(w, i, d, wt), NEW w2, w2 = Written(wt, m, <<d>>)
  PROVE  /\ Bears(e, w2, c) /\ SentMore(w, w2, x, d) /\ w2.fin = w.fin /\ w2.sock = w.sock
         /\ w2.rcvd[FarOf(x)] = Append(w.rcvd[FarOf(x)], d)
         /\ \A y \in Ends : y # FarOf(x) => w2.rcvd[y] = w.rcvd[y]
<1>1. Fits(e, w, c) /\ w \in Worlds /\ c \in Seq(Packets) /\ w.rcvd \in [Ends -> Seq(Data)]
  BY WorldFacts DEF Bears, Fits
<1>2. e = "host" /\ Calm(w, i, m, x)
  BY BearCalm
<1>3. /\ wt \in Worlds /\ wt.rcvd = w.rcvd /\ wt.fin = w.fin /\ wt.next = w.next /\ wt.out = w.out
      /\ wt.sock = w.sock /\ d \in Data /\ SentMore(w, wt, x, d)
  BY <1>1, TakenMore DEF IsTaken
<1>4. wt.sock[m].end \in Ends /\ wt.sock[m].end = FarOf(x)
  BY <1>2, <1>3 DEF Calm
<1>5. IsDelivered(wt, m, d, w2)
  BY <1>3, <1>4, DeliveredFacts, Zenon
<1>6. /\ w2 \in Worlds /\ w2.sent = wt.sent /\ w2.fin = w.fin /\ w2.next = w.next /\ w2.out = w.out
      /\ w2.sock = w.sock /\ w2.rcvd = [w.rcvd EXCEPT ![FarOf(x)] = @ \o <<d>>]
  BY <1>3, <1>4, <1>5 DEF IsDelivered
<1>7. /\ w2.rcvd[FarOf(x)] = Append(w.rcvd[FarOf(x)], d)
      /\ \A y \in Ends : y # FarOf(x) => w2.rcvd[y] = w.rcvd[y]
  <2>1. FarOf(x) \in Ends /\ w.rcvd[FarOf(x)] \in Seq(Data)
    BY <1>1, <1>4
  <2>2. w.rcvd[FarOf(x)] \o <<d>> = Append(w.rcvd[FarOf(x)], d)
    BY <1>3, <2>1, Longer
  <2> QED
    BY <1>1, <1>6, <2>1, <2>2
<1>8. Fits(e, w2, c)
  BY <1>1, <1>6, FitSame
<1>9. PICK v, v2 : v = View(e, w, c) /\ v2 = View(e, w2, c)
  OBVIOUS
<1>10. Good(v) /\ ViewOf(e, w, c, v)
  BY <1>9, BearView
<1>11. Change(e, w, w2, c, v, v2)
  BY <1>1, <1>6, <1>9, ViewChange, Zenon
<1>12. /\ SameRest(v, v2) /\ v2.next = v.next /\ v2.chan = v.chan /\ v2.fin = v.fin /\ v2.sock = v.sock
       /\ v.sock["host"] = w.sock /\ v.sent = w.sent /\ v.rcvd = w.rcvd /\ v2.sent = wt.sent /\ v2.rcvd = w2.rcvd
  BY <1>2, <1>6, <1>11 DEF Change
<1>13. SameKinds(v, v2) /\ \A f \in Procs, k \in Ids : f = "device" \/ k # m => v2.sock[f][k] = v.sock[f][k]
  BY <1>12 DEF SameKinds, SameKind, SameRest
<1>14. v.sock["host"][i].end = x /\ v.sock["host"][m].end = FarOf(x) /\ v.sock["host"][i].peer = Local(m)
  BY <1>2, <1>12 DEF Calm
<1>15. TookNow(v, v2, i, m, d)
  BY <1>7, <1>12, <1>14 DEF TookNow
<1>16. /\ v.sent[v.sock["host"][i].end] = v.rcvd[v.sock["host"][m].end]
       /\ SentMore(v, v2, v.sock["host"][i].end, d)
  BY <1>2, <1>3, <1>12, <1>14 DEF Calm, SentMore
<1>17. Carried(v2)
  BY <1>3, <1>10, <1>12, <1>13, <1>14, <1>15, <1>16, TakeGood
<1>18. Bears(e, w2, c)
  BY <1>8, <1>9, <1>17, BearIs
<1>19. SentMore(w, w2, x, d)
  BY <1>3, <1>6 DEF SentMore
<1> QED
  BY <1>6, <1>7, <1>18, <1>19

\* The write to the service fails: both sockets are closed. (w1 is the world
\* in which the packet waits.)
LEMMA BearTakeError ==
  ASSUME V \in Views, NEW e \in Procs, NEW w, NEW c, Bears(e, w, c), NEW i \in Ids, NEW m \in Ids,
         w.sock[i].peer = Local(m), "R" \in w.sock[i].want, NEW x \in Ends, x = w.sock[i].end,
         NEW d, NEW wt, IsTaken(w, i, d, wt), NEW w1, Bears(e, w1, c), TookIn(w, i, m, x, d, w1),
         NEW w2, w2 = Close(wt, m, "own")
  PROVE  Bears(e, w2, c) /\ Faded(w1, w2) /\ w2.sock[i].st \in {"closing", "gone"}
<1>1. /\ Fits(e, w, c) /\ w \in Worlds /\ c \in Seq(Packets) /\ w.sock \in [Ids -> Sockets] /\ w1 \in Worlds
      /\ w.fin \in [Ends -> Promise!Fins]
  BY WorldFacts DEF Bears, Fits
<1>2. e = "host" /\ Calm(w, i, m, x)
  BY BearCalm
<1>3. /\ wt \in Worlds /\ wt.rcvd = w.rcvd /\ wt.fin = w.fin /\ wt.next = w.next /\ wt.out = w.out
      /\ wt.sock = w.sock /\ d \in Data /\ SentMore(w, wt, x, d)
  BY <1>1, TakenMore DEF IsTaken
<1>4. /\ w.sock[i] \in Sockets /\ w.sock[m] \in Sockets /\ ~IsRemote(w.sock[m].peer) /\ w.sock[m].peer = Local(i)
      /\ "peer" \in Promise!Closed /\ "own" \in Promise!Closed /\ Destroyed(w.sock[m]) /\ w.sock[m].end = FarOf(x)
      /\ FarOf(x) \in Ends /\ FarOf(x) # x /\ i # m
  BY <1>1, <1>2, PeerKinds, FinFacts DEF IsRemote, Calm, Destroyed
<1>5. IsClosed(wt, m, "own", w2)
  <2>1. wt.sock[m].end \in Ends
    BY <1>3, <1>4
  <2>2. \A k \in Ids : wt.sock[m].peer = Local(k) => k # m /\ wt.sock[k].end \in Ends
    BY <1>3, <1>4, PeerKinds
  <2>3. PICK y \in Promise!Closed : y = "own"
    BY <1>4
  <2>4. IsClosed(wt, m, y, w2)
    BY <1>3, <2>1, <2>2, <2>3, CloseFacts
  <2> QED
    BY <2>3, <2>4
<1>6. PICK t, f : t = Dying(w.sock[i], "peer") /\ f = LastFin(w.sock[i], "peer")
  OBVIOUS
<1>7. /\ w2 \in Worlds /\ w2.sent = wt.sent /\ w2.rcvd = w.rcvd /\ w2.next = w.next /\ w2.out = w.out
      /\ w2.sock = [w.sock EXCEPT ![i] = t, ![m] = Dying(w.sock[m], "own")]
      /\ w2.fin = [w.fin EXCEPT ![x] = f, ![FarOf(x)] = LastFin(w.sock[m], "own")]
  BY <1>3, <1>4, <1>5, <1>6 DEF IsClosed, SameWorldData
<1>8. Dying(w.sock[m], "own") = Gone /\ LastFin(w.sock[m], "own") = "own"
  BY <1>4 DEF Dying, LastFin
<1>9. w2.sock[i] = t /\ w2.sock[m] = Gone /\ \A k \in Ids : k \notin {i, m} => w2.sock[k] = w.sock[k]
  BY <1>1, <1>4, <1>7, <1>8
<1>10. w2.fin[x] = f /\ w2.fin[FarOf(x)] = "own" /\ \A y \in Ends : y # x /\ y # FarOf(x) => w2.fin[y] = w.fin[y]
  BY <1>1, <1>4, <1>7, <1>8
<1>11. /\ t.st \in {"gone", "closing"} /\ SocketOK(e, t)
       /\ Destroyed(w.sock[i]) => t = Gone /\ t.st = "gone" /\ f = "peer"
       /\ ~Destroyed(w.sock[i]) => /\ t.st = "closing" /\ t.pkts = w.sock[i].pkts /\ t.end = x
                                   /\ t.why = "peer" /\ f = "ending"
  BY <1>4, <1>6, DyingFacts
<1>12. /\ w1.rcvd = w.rcvd /\ w1.fin = w.fin /\ w1.next = w.next /\ w1.out = w.out /\ SentMore(w, w1, x, d)
       /\ w1.sock[i] = Stopped(w.sock[i]) /\ w1.sock[m] = Queued(w.sock[m], d)
       /\ \A k \in Ids : k \notin {i, m} => w1.sock[k] = w.sock[k]
  BY DEF TookIn
<1>13. w1.sent = w2.sent
  <2>1. w1.sent \in [Ends -> Seq(Data)] /\ w2.sent \in [Ends -> Seq(Data)]
    BY <1>1, <1>7, WorldFacts
  <2>2. SentMore(w, w2, x, d)
    BY <1>3, <1>7 DEF SentMore
  <2>3. \A y \in Ends : w1.sent[y] = w2.sent[y]
    BY <1>12, <2>2 DEF SentMore
  <2> QED
    BY <2>1, <2>3
<1>14. /\ w1.sock[i].st = "live" /\ w1.sock[i].pkts = w.sock[i].pkts /\ w1.sock[i].end = x /\ w1.sock[i].peer = Local(m)
  BY <1>2, <1>4, <1>12, StoppedFacts DEF Calm
<1>15. w1.sock[m].st = "live" /\ w1.sock[m].end = FarOf(x) /\ w1.sock[m].peer = Local(i)
  BY <1>2, <1>3, <1>4, <1>12, QueuedFacts DEF Calm
<1>16. SocketOK(e, Gone) /\ Gone.st = "gone" /\ Gone.pkts = <<>>
  BY GoneFacts DEF SocketOK
<1>17. Die(e, w1, w2, {i, m})
  <2>1. ASSUME NEW k \in Ids, k \notin {i, m} PROVE w2.sock[k] = w1.sock[k]
    BY <1>9, <1>12, <2>1
  <2>2. ASSUME NEW k \in {i, m}
        PROVE  /\ w2.sock[k].st \in {"closing", "gone"} /\ w1.sock[k].st # "none"
               /\ SocketOK(e, w2.sock[k])
               /\ \A n \in Ids : w1.sock[k].peer = Local(n) => n \in {i, m}
    BY <1>9, <1>11, <1>14, <1>15, <1>16, PeerKinds
  <2> QED
    BY <2>1, <2>2 DEF Die
<1>18. Fits(e, w2, c)
  <2>1. Fits(e, w1, c) /\ w2.next = w1.next /\ w2.out = w1.out
    BY <1>7, <1>12 DEF Bears
  <2> QED
    BY <1>7, <1>17, <2>1, FitDeaths, Zenon
<1>19. PICK v, v2 : v = View(e, w1, c) /\ v2 = View(e, w2, c)
  OBVIOUS
<1>20. Good(v)
  BY <1>19, BearView
<1>21. Change(e, w1, w2, c, v, v2)
  BY <1>1, <1>7, <1>19, ViewChange, Zenon
<1>22. /\ SameRest(v, v2) /\ v2.next = v.next /\ v2.chan = v.chan /\ v.sock[e] = w1.sock /\ v2.sock[e] = w2.sock
       /\ \A h \in Procs : h # e => v2.sock[h] = v.sock[h]
       /\ v2.sent = v.sent /\ v2.rcvd = v.rcvd /\ v.fin = w.fin /\ v2.fin = w2.fin
  BY <1>7, <1>12, <1>13, <1>21 DEF Change
<1>23. Deaths(v, v2, e, {i, m})
  BY <1>17, <1>22 DEF Deaths, Die
<1>24. Sound(v2)
  BY <1>18, <1>19 DEF Fits
<1>25. Ends1(v, v2, e, i, x)
  <2>1. Used(v, e, i) /\ v.sock[e][i] = w1.sock[i] /\ v2.sock[e][i] = t /\ v2.fin[x] = f /\ v2.fin[FarOf(x)] = "own"
    BY <1>9, <1>10, <1>14, <1>22 DEF Used
  <2>2. CASE Destroyed(w.sock[i])
    <3>1. w1.sock[i].pkts = <<>> /\ IsLocal(w1.sock[i].peer)
      BY <1>2, <1>14, <2>2 DEF Destroyed, IsLocal, Calm
    <3>2. RecvOK(v, e, i)
      BY <1>20, GoodFacts
    <3>3. Receives(w1.sock[i], i, v.chan[e], v.sent[FarOf(x)], v.rcvd[x], v.fin[FarOf(x)], Joined(v, e, i), Opens(v, e, i))
      BY <1>14, <2>1, <3>2 DEF RecvOK
    <3>4. v.sent[FarOf(x)] = v.rcvd[x]
      BY <1>14, <3>1, <3>3 DEF Receives
    <3>5. v.fin[FarOf(x)] # "none"
      BY <1>2, <1>22 DEF Calm
    <3> QED
      BY <1>11, <1>14, <1>16, <2>1, <2>2, <3>4, <3>5, FinFacts DEF Ends1
  <2>3. CASE ~Destroyed(w.sock[i])
    <3>1. w1.sock[i].pkts # <<>>
      BY <1>14, <2>3 DEF Destroyed
    <3> QED
      BY <1>11, <1>14, <2>1, <2>3, <3>1 DEF Ends1
  <2> QED
    BY <2>2, <2>3
<1>26. Ends1(v, v2, e, m, FarOf(x))
  <2>1. Used(v, e, m) /\ v.sock[e][m] = w1.sock[m] /\ v2.sock[e][m] = Gone /\ v2.fin[FarOf(x)] = "own"
    BY <1>9, <1>10, <1>15, <1>22 DEF Used
  <2> QED
    BY <1>4, <1>15, <1>16, <2>1 DEF Ends1
<1>27. OtherFins(v, v2, e, {i, m})
  BY <1>10, <1>14, <1>15, <1>22 DEF OtherFins
<1>28. Carried(v2)
  <2>1. {i, m} \in SUBSET Ids /\ (\A j \in {i, m} : \E y \in Ends : Ends1(v, v2, e, j, y))
    BY <1>4, <1>25, <1>26
  <2>2. v2.sent = v.sent /\ v2.rcvd = v.rcvd
    BY <1>22
  <2> QED
    BY <1>20, <1>22, <1>23, <1>24, <1>27, <2>1, <2>2, DeathsGood, Zenon
<1>29. Bears(e, w2, c)
  BY <1>18, <1>19, <1>28, BearIs
<1>30. w2.fin[x] \in {"ending"} \cup Promise!Closed /\ w2.fin[FarOf(x)] \in {"ending"} \cup Promise!Closed
  BY <1>4, <1>10, <1>11
<1>31. Faded(w1, w2)
  BY <1>2, <1>7, <1>10, <1>12, <1>13, <1>30 DEF Faded, Calm
<1> QED
  BY <1>9, <1>11, <1>29, <1>31

\* The peer is a service of the host.
LEMMA BearTookLocal ==
  ASSUME V \in Views, NEW e \in Procs, NEW w, NEW c, Bears(e, w, c), NEW i \in Ids,
         "R" \in w.sock[i].want, w.sock[i].evs = {}, NEW x \in Ends, x = w.sock[i].end, Wrote(w, x),
         Len(w.sent[x]) < MaxData, NEW eof \in BOOLEAN, NEW w2, TookLocal(w, i, eof, w2)
  PROVE  Bears(e, w2, c) /\ Permitted(w2)
<1>0. PICK m \in Ids : \E wt, d, q : \E res \in WriteResults :
          /\ w.sock[i].peer = Local(m)
          /\ wt = Taken(w, i) /\ d = Last(wt.sent[w.sock[i].end])
          /\ q = Enqueue(wt, m, d, res) /\ w2 = AfterRead(q.w, i, q.r, eof)
  BY DEF TookLocal
<1>1. PICK wt, d, q : \E res \in WriteResults :
          /\ w.sock[i].peer = Local(m)
          /\ wt = Taken(w, i) /\ d = Last(wt.sent[w.sock[i].end])
          /\ q = Enqueue(wt, m, d, res) /\ w2 = AfterRead(q.w, i, q.r, eof)
  BY <1>0
<1>2. w \in Worlds /\ w.sock[i].end \in Ends /\ Len(w.sent[w.sock[i].end]) < MaxData
  BY DEF Bears, Fits
<1>3. IsTaken(w, i, d, wt)
  BY <1>1, <1>2, TakenFacts, Zenon
<1>4. wt \in Worlds /\ d \in Data /\ wt.sock = w.sock
  BY <1>3 DEF IsTaken
<1>5. PICK res \in WriteResults : q = Enqueue(wt, m, d, res)
  BY <1>1
<1>6. \/ q.r = 1 /\ q.w = [wt EXCEPT !.sock[m] = Queued(wt.sock[m], d)]
      \/ q.r = 0 /\ q.w = Written(wt, m, <<d>>)
      \/ q.r = 1 /\ q.w = Close(wt, m, "own")
  BY <1>4, <1>5, EnqueueCases
<1>7. w.sock[i].peer = Local(m)
  BY <1>1
<1>8. PICK w3 : w3 = q.w
  OBVIOUS
<1>9. w2 = AfterRead(w3, i, q.r, eof)
  BY <1>1, <1>8
<1>10. Calm(w, i, m, x)
  BY <1>7, BearCalm
<1>11. w.fin[x] = "open" /\ w.fin[FarOf(x)] = "open" /\ w.sent[x] = w.rcvd[FarOf(x)] /\ w.sock[i].st = "live"
  BY <1>10 DEF Calm
<1>12. PICK wq, w1 : wq = [wt EXCEPT !.sock[m] = Queued(wt.sock[m], d)] /\ w1 = Quiet(wq, i, 1)
  OBVIOUS
<1>13. Bears(e, w1, c) /\ TookIn(w, i, m, x, d, w1) /\ wq.sock[i] = w.sock[i]
  <2>1. wq = [wt EXCEPT !.sock[m] = Queued(wt.sock[m], d)]
    BY <1>12
  <2>2. w1 = Quiet(wq, i, 1)
    BY <1>12
  <2>3. Bears(e, w1, c) /\ TookIn(w, i, m, x, d, w1)
    BY <1>3, <1>7, <2>1, <2>2, BearTakeQueue, Zenon
  <2>4. wq.sock[i] = w.sock[i]
    BY <1>4, <1>10, <2>1 DEF Calm, Worlds
  <2> QED
    BY <2>3, <2>4
<1>14. SentMore(w, w1, x, d) /\ w1.rcvd = w.rcvd /\ w1.fin = w.fin /\ w1.sock[i] = Stopped(w.sock[i])
  BY <1>13 DEF TookIn
<1>15. Moved(w1)
  BY <1>4, <1>11, <1>14, TakenMoved
<1>16. w1.sock[i].st = "live"
  <2>1. w.sock[i] \in Sockets
    BY <1>2, WorldFacts
  <2> QED
    BY <1>11, <1>14, <2>1, StoppedFacts
<1>17. CASE q.r = 1 /\ q.w = [wt EXCEPT !.sock[m] = Queued(wt.sock[m], d)]
  <2>1. w2 = AfterRead(wq, i, 1, eof)
    BY <1>8, <1>9, <1>12, <1>17
  <2>2. wq.sock[i].st \in {"live", "closing"} /\ w1.sock[i].st \in {"live", "closing"} /\ w1 = Quiet(wq, i, 1)
    BY <1>11, <1>12, <1>13, <1>16
  <2>3. Bears(e, w1, c)
    BY <1>13
  <2> QED
    BY <1>15, <2>1, <2>2, <2>3, ReadEnds
<1>18. CASE q.r = 0 /\ q.w = Written(wt, m, <<d>>)
  <2>1. w3 = Written(wt, m, <<d>>)
    BY <1>8, <1>18
  <2>2. /\ Bears(e, w3, c) /\ SentMore(w, w3, x, d) /\ w3.fin = w.fin /\ w3.sock = w.sock
        /\ w3.rcvd[FarOf(x)] = Append(w.rcvd[FarOf(x)], d)
        /\ \A y \in Ends : y # FarOf(x) => w3.rcvd[y] = w.rcvd[y]
    BY <1>3, <1>7, <2>1, BearTakeNow
  <2>3. Moved(w3)
    BY <1>4, <1>11, <2>2, TakenMoved
  <2>4. PICK r \in {0, 1} : r = 0
    OBVIOUS
  <2>5. w2 = AfterRead(w3, i, r, eof)
    BY <1>9, <1>18, <2>4
  <2>6. r # 1 /\ w3.sock[i].st \in {"live", "closing", "gone"}
    BY <1>11, <2>2, <2>4
  <2>7. Bears(e, w3, c)
    BY <2>2
  <2>8. Bears(e, w2, c) /\ Faded(w3, w2)
    BY <2>5, <2>6, <2>7, BearAfterRead
  <2> QED
    BY <2>3, <2>8, MovedFades
<1>19. CASE q.r = 1 /\ q.w = Close(wt, m, "own")
  <2>1. w3 = Close(wt, m, "own")
    BY <1>8, <1>19
  <2>2. Bears(e, w1, c) /\ TookIn(w, i, m, x, d, w1)
    BY <1>13
  <2>3. Bears(e, w3, c) /\ Faded(w1, w3) /\ w3.sock[i].st \in {"closing", "gone"}
    BY <1>3, <1>7, <2>1, <2>2, BearTakeError
  <2>4. PICK r \in {0, 1} : r = 1
    OBVIOUS
  <2>5. w2 = AfterRead(w3, i, r, eof)
    BY <1>9, <1>19, <2>4
  <2>6. w3.sock[i].st # "live" /\ w3.sock[i].st \in {"live", "closing", "gone"}
    BY <2>3
  <2>7. Bears(e, w3, c)
    BY <2>3
  <2>8. Bears(e, w2, c) /\ Faded(w3, w2)
    BY <2>5, <2>6, <2>7, BearAfterRead
  <2>9. Faded(w1, w2)
    BY <2>3, <2>8, FadedFacts
  <2> QED
    BY <1>15, <2>8, <2>9, MovedFades
<1> QED
  BY <1>6, <1>17, <1>18, <1>19

\* A packet read from the program at a socket's end.
LEMMA BearPeerEnqueue ==
  ASSUME V \in Views, NEW e \in Procs, NEW w, NEW c, Bears(e, w, c), NEW i \in Ids,
         w.sock[i].st \in {"live", "closing"}, w.sock[i].st = "live" => "R" \in w.sock[i].want, w.sock[i].evs = {},
         w.sock[i].peer \in {None, Smart} \/ Len(w.sent[w.sock[i].end]) < MaxData,
         NEW x, x = w.sock[i].end, Wrote(w, x), NEW eof \in BOOLEAN, NEW w2 \in PeerEnqueue(e, w, i, eof)
  PROVE  Bears(e, w2, c) /\ Permitted(w2)
<1>1. w \in Worlds /\ w.sock[i] \in Sockets /\ SocketOK(e, w.sock[i]) /\ x \in Ends /\ Moved(w)
  BY FitFacts, MovedKept DEF SocketOK, Bears
<1>2. w.sock[i].peer # None => w.sock[i].st = "live" /\ "R" \in w.sock[i].want
  BY <1>1 DEF SocketOK
<1>3. CASE TookRemote(w, i, eof, w2)
  <2>1. PICK k \in Ids : w.sock[i].peer = Remote(k)
    BY <1>3 DEF TookRemote
  <2>2. w.sock[i].peer \notin {None, Smart}
    BY <2>1, PeerKinds
  <2>3. Len(w.sent[x]) < MaxData /\ "R" \in w.sock[i].want
    BY <1>2, <2>2
  <2> QED
    BY <1>1, <1>3, <2>3, BearTookRemote
<1>4. CASE TookLocal(w, i, eof, w2)
  <2>1. PICK m \in Ids : w.sock[i].peer = Local(m)
    BY <1>4 DEF TookLocal
  <2>2. w.sock[i].peer \notin {None, Smart}
    BY <2>1, PeerKinds
  <2>3. Len(w.sent[x]) < MaxData /\ "R" \in w.sock[i].want
    BY <1>2, <2>2
  <2> QED
    BY <1>1, <1>4, <2>3, BearTookLocal
<1>5. CASE w.sock[i].peer = Smart /\ w2 \in SmartEnqueue(e, w, i, eof)
  <2>1. w.sock[i].st = "live"
    BY <1>2, <1>5, PeerKinds
  <2> QED
    BY <1>1, <1>5, <2>1, BearSmart
<1>6. CASE w.sock[i].peer = None /\ w2 = AfterRead(w, i, 0, eof)
  <2>1. PICK r \in {0, 1} : r = 0
    OBVIOUS
  <2>2. w2 = AfterRead(w, i, r, eof) /\ r # 1 /\ w.sock[i].st \in {"live", "closing", "gone"}
    BY <1>6, <2>1
  <2>3. Bears(e, w2, c) /\ Faded(w, w2)
    BY <2>2, BearAfterRead
  <2> QED
    BY <1>1, <2>3, MovedFades
<1> QED
  BY <1>1, <1>3, <1>4, <1>5, <1>6, PeerEnqueueCases

\* The read half of local_socket_event_func, every outcome of it.
LEMMA BearReadHalf ==
  ASSUME V \in Views, NEW e \in Procs, NEW w, NEW c, Bears(e, w, c), NEW i \in Ids,
         w.sock[i].st \in {"live", "closing"}, w.sock[i].st = "live" => "R" \in w.sock[i].want, w.sock[i].evs = {},
         NEW x, x = w.sock[i].end, Wrote(w, x), NEW w2 \in ReadHalf(e, w, i)
  PROVE  Bears(e, w2, c) /\ Permitted(w2)
<1> DEFINE more == w.sock[i].peer \in {None, Smart} \/ Len(w.sent[w.sock[i].end]) < MaxData
<1>2. w2 = AfterRead(w, i, 0, TRUE) \/ (more /\ \E eof \in BOOLEAN : w2 \in PeerEnqueue(e, w, i, eof))
  BY DEF ReadHalf
<1>3. CASE w2 = AfterRead(w, i, 0, TRUE)
  <2>1. PICK r \in {0, 1}, eof \in BOOLEAN : r = 0 /\ eof = TRUE
    OBVIOUS
  <2>2. w2 = AfterRead(w, i, r, eof) /\ r # 1 /\ w.sock[i].st \in {"live", "closing", "gone"}
    BY <1>3, <2>1
  <2>3. Bears(e, w2, c) /\ Faded(w, w2)
    BY <2>2, BearAfterRead
  <2> QED
    BY <2>3, MovedKept, MovedFades
<1>4. ASSUME more, NEW eof \in BOOLEAN, w2 \in PeerEnqueue(e, w, i, eof) PROVE Bears(e, w2, c) /\ Permitted(w2)
  BY <1>4, BearPeerEnqueue
<1> QED
  BY <1>2, <1>3, <1>4

\* local_socket_event_func keeps the streams.
LEMMA BearEvent ==
  ASSUME V \in Views, NEW e \in Procs, NEW w, NEW c, Bears(e, w, c), Unseen(w), NEW i \in Ids,
         w.sock[i].st \in {"live", "closing"}, w.sock[i].evs = {}, NEW events,
         w.sock[i].st = "live" /\ "W" \in events => w.sock[i].pkts # <<>>,
         w.sock[i].st = "live" /\ "R" \in events => "R" \in w.sock[i].want,
         NEW w2 \in Outcomes(e, i, events, w)
  PROVE  Bears(e, w2, c) /\ Permitted(w2)
<1>1. PICK h \in IF "W" \in events THEN WriteHalf(w, i) ELSE {[w |-> w, returns |-> FALSE]} :
        w2 \in IF "R" \in events /\ ~h.returns THEN ReadHalf(e, h.w, i) ELSE {h.w}
  BY DEF Outcomes
<1>2. PICK w1 : w1 = h.w
  OBVIOUS
<1>3. /\ Bears(e, w1, c) /\ Permitted(w1)
      /\ ~h.returns => /\ w1.sock[i].st \in {"live", "closing"} /\ w1.sock[i].evs = {} /\ Wrote(w1, w1.sock[i].end)
                       /\ w1.sock[i].st = "live" /\ "R" \in events => "R" \in w1.sock[i].want
  <2>1. CASE "W" \in events
    <3>1. h \in WriteHalf(w, i) /\ (w.sock[i].st = "live" => w.sock[i].pkts # <<>>)
      BY <1>1, <2>1
    <3>2. /\ Bears(e, h.w, c) /\ Permitted(h.w)
          /\ ~h.returns => /\ h.w.sock[i].st = "live" /\ h.w.sock[i].evs = {} /\ Wrote(h.w, h.w.sock[i].end)
                           /\ "R" \in w.sock[i].want => "R" \in h.w.sock[i].want
      BY <3>1, BearWriteHalf
    <3>3. ~h.returns => w.sock[i].st = "live"
      <4>1. w \in Worlds
        BY DEF Bears, Fits
      <4> QED
        BY <3>1, <4>1, WriteHalfCases
    <3> QED
      BY <1>2, <3>2, <3>3
  <2>2. CASE "W" \notin events
    <3>1. h.w = w
      BY <1>1, <2>2
    <3>2. w.sock[i].end \in Ends
      BY BearEnd
    <3>3. Wrote(w, w.sock[i].end) /\ Permitted(w)
      BY <3>2, WroteFacts
    <3> QED
      BY <1>2, <3>1, <3>3
  <2> QED
    BY <2>1, <2>2
<1>4. CASE "R" \in events /\ ~h.returns
  <2>1. /\ w2 \in ReadHalf(e, w1, i) /\ Bears(e, w1, c) /\ w1.sock[i].st \in {"live", "closing"} /\ w1.sock[i].evs = {}
        /\ Wrote(w1, w1.sock[i].end)
        /\ w1.sock[i].st = "live" => "R" \in w1.sock[i].want
    BY <1>1, <1>2, <1>3, <1>4
  <2> QED
    BY <2>1, BearReadHalf
<1>5. CASE ~("R" \in events /\ ~h.returns)
  BY <1>1, <1>2, <1>3, <1>5
<1> QED
  BY <1>4, <1>5

-----------------------------------------------------------------------------
(* The steps: each of them is one of the promise. *)

\* The packet that was delivered is the next one of those sent.
LEMMA NextPacket ==
  ASSUME NEW r \in Seq(Data), NEW d \in Data, NEW r2, r2 = Append(r, d), NEW s \in Seq(Data),
         r2 = s \/ \E f \in Data : s = Append(r2, f)
  PROVE  Len(r) < Len(s) /\ r2 = Append(r, s[Len(r) + 1])
<1>1. Len(r2) = Len(r) + 1 /\ r2[Len(r) + 1] = d /\ r2 \in Seq(Data) /\ Len(r) \in Nat
  OBVIOUS
<1>2. CASE r2 = s
  <2>1. Len(s) = Len(r) + 1 /\ s[Len(r) + 1] = d
    BY <1>1, <1>2
  <2> QED
    BY <1>1, <2>1
<1>3. ASSUME NEW f \in Data, s = Append(r2, f)
      PROVE  Len(r) < Len(s) /\ r2 = Append(r, s[Len(r) + 1])
  <2>1. Len(s) = Len(r) + 2 /\ s[Len(r) + 1] = r2[Len(r) + 1]
    BY <1>1, <1>3
  <2> QED
    BY <1>1, <2>1
<1> QED
  BY <1>2, <1>3

\* What a handler keeps is a step of the promise.
LEMMA KeptStep ==
  ASSUME V \in Views, NEW w \in Worlds, Permitted(w), sent' = w.sent, rcvd' = w.rcvd, fin' = w.fin,
         NEW v2, v2.sent = w.sent, v2.rcvd = w.rcvd, v2.fin = w.fin, Carried(v2)
  PROVE  Promise!StreamNext
<1>1. /\ sent \in [Ends -> Seq(Data)] /\ rcvd \in [Ends -> Seq(Data)] /\ fin \in [Ends -> Promise!Fins]
  BY DEF Views, V
<1>2. /\ w.sent \in [Ends -> Seq(Data)] /\ w.rcvd \in [Ends -> Seq(Data)] /\ w.fin \in [Ends -> Promise!Fins]
  BY WorldFacts
<1>3. \A x \in Ends : SentBy(w, x) /\ RcvdBy(w, x) /\ FinBy(w, x) /\ SeenOK(v2, x)
  BY DEF Permitted, Carried, DataOK
<1>4. ASSUME NEW x \in Ends
      PROVE  Promise!SendStep(x) /\ Promise!DeliverStep(x) /\ Promise!FinStep(x)
  <2>1. FarOf(x) = Promise!Opposite(x) /\ FarOf(x) \in Ends
    BY OppositeEnds DEF FarOf, Ends
  <2>2. /\ sent[x] \in Seq(Data) /\ rcvd[x] \in Seq(Data) /\ rcvd[FarOf(x)] \in Seq(Data)
        /\ w.sent[FarOf(x)] \in Seq(Data)
    BY <1>1, <1>2, <2>1
  <2>3. /\ w.rcvd[x] = w.sent[FarOf(x)] \/ \E d \in Data : w.sent[FarOf(x)] = Append(w.rcvd[x], d)
        /\ w.fin[x] = "peer" => w.fin[FarOf(x)] # "open" /\ w.rcvd[x] = w.sent[FarOf(x)]
    BY <1>3 DEF SeenOK
  <2>4. Promise!SendStep(x)
    BY <1>3, <2>1 DEF SentBy, Promise!SendStep
  <2>5. Promise!DeliverStep(x)
    <3>1. CASE w.rcvd[x] = rcvd[x]
      BY <3>1 DEF Promise!DeliverStep
    <3>2. ASSUME fin[x] \in {"open", "ending"}, NEW d \in Data, w.rcvd[x] = Append(rcvd[x], d)
          PROVE  Promise!DeliverStep(x)
      <4>1. PICK r, s, r2 : r = rcvd[x] /\ s = w.sent[FarOf(x)] /\ r2 = w.rcvd[x]
        OBVIOUS
      <4>2. r \in Seq(Data) /\ s \in Seq(Data) /\ r2 = Append(r, d) /\ (r2 = s \/ \E f \in Data : s = Append(r2, f))
        BY <2>2, <2>3, <3>2, <4>1
      <4>3. Len(r) < Len(s) /\ r2 = Append(r, s[Len(r) + 1])
        BY <4>2, NextPacket
      <4> QED
        BY <2>1, <3>2, <4>1, <4>3 DEF Promise!DeliverStep
    <3> QED
      BY <1>3, <3>1, <3>2 DEF RcvdBy
  <2>6. Promise!FinStep(x)
    BY <1>3, <2>1, <2>3 DEF FinBy, Promise!FinStep, Promise!Closed
  <2> QED
    BY <2>4, <2>5, <2>6
<1>5. DOMAIN sent' = Ends /\ DOMAIN rcvd' = Ends /\ DOMAIN fin' = Ends
  BY <1>2
<1> QED
  BY <1>4, <1>5 DEF Promise!StreamNext, Ends

\* A step carries the streams on.
CarriesOn == Carried(V)' /\ [Promise!StreamNext]_(Promise!streamVars)

\* A step in which no program sees anything.
LEMMA UnseenStep ==
  ASSUME Carried(V)', sent' = sent, rcvd' = rcvd, fin' = fin
  PROVE  CarriesOn
  BY DEF CarriesOn, Promise!streamVars

\* The world in which a handler starts.
LEMMA WorldBears ==
  ASSUME AdbInd, Carried(V), NEW e \in Procs, NEW w, w = World(e)
  PROVE  V \in Views /\ Bears(e, w, chan[e]) /\ Unseen(w) /\ View(e, w, chan[e]) = V /\ Good(V)
<1>1. Sound(V) /\ V \in Views /\ freedUse \in BOOLEAN
  BY DEF AdbInd, Sound
<1>2. /\ w \in Worlds /\ w.sent = sent /\ w.rcvd = rcvd /\ w.fin = fin
      /\ chan[e] \in Seq(Packets) /\ View(e, w, chan[e]) = V
  BY <1>1, WorldView
<1> QED
  BY <1>1, <1>2 DEF Bears, Fits, Unseen, Good

\* A step of a handler that takes no packet.
LEMMA LoopBears ==
  ASSUME AdbInd, NEW e \in Procs, NEW w, Bears(e, w, chan[e]), Permitted(w), Commit(e, w, chan[e]),
         UNCHANGED <<transportVars, linkVars>>
  PROVE  CarriesOn
<1>1. V \in Views /\ link' = link /\ online' = online /\ state' = state /\ leaving' = leaving
  BY DEF AdbInd, Sound, transportVars, linkVars
<1>2. Fits(e, w, chan[e]) /\ Carried(View(e, w, chan[e])) /\ w \in Worlds
  BY DEF Bears, Fits
<1>3. V' = View(e, w, chan[e])
  BY <1>1, <1>2, CommitView
<1>4. sent' = w.sent /\ rcvd' = w.rcvd /\ fin' = w.fin
  BY DEF Commit
<1>5. Carried(V)'
  BY <1>2, <1>3
<1>6. PICK v2 : v2 = View(e, w, chan[e])
  OBVIOUS
<1>7. v2.sent = w.sent /\ v2.rcvd = w.rcvd /\ v2.fin = w.fin
  BY <1>6 DEF View
<1>8. Promise!StreamNext
  BY <1>1, <1>2, <1>4, <1>6, <1>7, KeptStep
<1> QED
  BY <1>5, <1>8 DEF CarriesOn

\* A step that handles a packet other than SYNC and CNXN.
LEMMA PacketBears ==
  ASSUME AdbInd, NEW e \in Procs, NEW w, Bears(e, w, Tail(chan[e])), Permitted(w), Handled(e, w),
         UNCHANGED <<online, state, leaving, linkVars>>
  PROVE  CarriesOn
<1>1. V \in Views /\ link' = link /\ online' = online /\ state' = state /\ leaving' = leaving
      /\ Commit(e, w, Tail(chan[e]))
  BY DEF AdbInd, Sound, linkVars, Handled
<1>2. Fits(e, w, Tail(chan[e])) /\ Carried(View(e, w, Tail(chan[e]))) /\ w \in Worlds
  BY DEF Bears, Fits
<1>3. V' = View(e, w, Tail(chan[e]))
  BY <1>1, <1>2, CommitView
<1>4. sent' = w.sent /\ rcvd' = w.rcvd /\ fin' = w.fin
  BY <1>1 DEF Commit
<1>5. Carried(V)'
  BY <1>2, <1>3
<1>6. PICK v2 : v2 = View(e, w, Tail(chan[e]))
  OBVIOUS
<1>7. v2.sent = w.sent /\ v2.rcvd = w.rcvd /\ v2.fin = w.fin
  BY <1>6 DEF View
<1>8. Promise!StreamNext
  BY <1>1, <1>2, <1>4, <1>6, <1>7, KeptStep
<1> QED
  BY <1>5, <1>8 DEF CarriesOn

\* A pending event of a socket is handled.
LEMMA EventCarries ==
  ASSUME AdbInd, Carried(V), NEW e \in Procs, NEW i \in Ids, EventFunc(e, i)
  PROVE  CarriesOn
<1>1. PICK w : w = World(e)
  OBVIOUS
<1>2. V \in Views /\ Bears(e, w, chan[e]) /\ Unseen(w)
  BY <1>1, WorldBears
<1>3. w \in Worlds /\ Fits(e, w, chan[e]) /\ w.sock = sock[e]
  BY <1>1, <1>2 DEF Bears, Fits, World
<1>4. PICK events : events = sock[e][i].evs /\ events # {}
  BY DEF EventFunc
<1>5. PICK w0 : w0 = [w EXCEPT !.sock[i].evs = {}]
  OBVIOUS
<1>6. PICK s, t : s = w.sock[i] /\ t = [w.sock[i] EXCEPT !.evs = {}]
  OBVIOUS
<1>7. s \in Sockets /\ w.sock \in [Ids -> Sockets] /\ SocketOK(e, s)
  BY <1>2, <1>3, <1>6, WorldFacts, FitFacts
<1>8. /\ t \in Sockets /\ t.st = s.st /\ t.peer = s.peer /\ t.end = s.end /\ t.why = s.why
      /\ t.transport = s.transport /\ t.want = s.want /\ t.pkts = s.pkts /\ t.evs = {}
  BY <1>6, <1>7 DEF Sockets
<1>9. SocketOK(e, t) /\ Steady(s, t)
  BY <1>7, <1>8 DEF SocketOK, LiveOK, Steady
<1>10. w0 = [w EXCEPT !.sock[i] = t]
  BY <1>3, <1>5, <1>6, <1>7 DEF Worlds
<1>11. Touched(w, i, t, w0)
  BY <1>3, <1>8, <1>10, TouchFacts, Zenon
<1>22. Steady(w.sock[i], t) /\ t.transport = w.sock[i].transport
  BY <1>6, <1>8, <1>9
<1>12. Bears(e, w0, chan[e]) /\ w0.sent = w.sent /\ w0.rcvd = w.rcvd /\ w0.fin = w.fin
  <2>1. Bears(e, w0, chan[e])
    BY <1>2, <1>9, <1>11, <1>22, BearTouch, Zenon
  <2> QED
    BY <1>11, <2>1 DEF Touched, SameWorldData
<1>13. w0.sock[i] = t
  BY <1>11 DEF Touched
<1>14. s.st \in {"live", "closing"} /\ events \subseteq {"R", "W"}
  BY <1>3, <1>4, <1>6, <1>7, SocketFacts DEF SocketOK
<1>15. w0.sock[i].st \in {"live", "closing"} /\ w0.sock[i].evs = {}
  BY <1>8, <1>13, <1>14
<1>16. s.st = "live" => /\ "W" \in events => s.pkts # <<>>
                        /\ "R" \in events => "R" \in s.want
  BY <1>3, <1>4, <1>6, <1>7 DEF SocketOK, LiveOK
<1>17. /\ w0.sock[i].st = "live" /\ "W" \in events => w0.sock[i].pkts # <<>>
       /\ w0.sock[i].st = "live" /\ "R" \in events => "R" \in w0.sock[i].want
  BY <1>8, <1>13, <1>16
<1>18. Unseen(w0)
  BY <1>2, <1>12 DEF Unseen
<1>19. PICK w2 \in Outcomes(e, i, events, w0) : Commit(e, w2, chan[e])
  BY <1>1, <1>4, <1>5 DEF EventFunc, Outcomes
<1>20. Bears(e, w2, chan[e]) /\ Permitted(w2)
  BY <1>2, <1>12, <1>15, <1>17, <1>18, <1>19, BearEvent
<1>21. UNCHANGED <<transportVars, linkVars>>
  BY DEF EventFunc
<1> QED
  BY <1>19, <1>20, <1>21, LoopBears

\* A socket that a client has just been given, and its stream.
FirstOf(t, x) == t.st = "live" /\ t.peer \in {None, Smart} /\ t.end = x /\ t.pkts = <<>>
Begun(e, w, c, v, n) ==
  /\ Bears(e, w, c) /\ Permitted(w) /\ v.fin[Far(n)] = "none"
  /\ ~Has(v.chan["host"], ClsesTo(n)) /\ ~Has(v.chan["device"], OpensOf(n))

\* A client connects: a new socket of the host.
LEMMA BearCreated ==
  ASSUME V \in Views, NEW e \in Procs, e = "host", NEW w, NEW c, Bears(e, w, c), Unseen(w), NEW n \in HostSide, n = w.next,
         NEW t, NEW x, x = Near(n), NEW w2, IsCreated(w, x, t, w2),
         FirstOf(t, x), Fits(e, w2, c), NEW v2, v2 = View(e, w2, c)
  PROVE  Begun(e, w2, c, v2, n)
<1>0. t.st = "live" /\ t.peer \in {None, Smart} /\ t.end = x /\ t.pkts = <<>>
  BY DEF FirstOf
<1>1. PICK v : v = View(e, w, c)
  OBVIOUS
<1>2. Good(v) /\ ViewOf(e, w, c, v) /\ w \in Worlds /\ c \in Seq(Packets)
  BY <1>1, BearView
<1>3. /\ w2 \in Worlds /\ w2.sent = w.sent /\ w2.rcvd = w.rcvd /\ w2.out = w.out /\ w2.next = n + 1
      /\ w2.sock = [w.sock EXCEPT ![n] = t] /\ w2.fin = [w.fin EXCEPT ![x] = "open"]
  BY DEF IsCreated
<1>4. Change(e, w, w2, c, v, v2)
  BY <1>1, <1>2, <1>3, ViewChange, Zenon
<1>5. /\ SameRest(v, v2) /\ v2.next = [v.next EXCEPT !["host"] = n + 1] /\ v2.chan = v.chan /\ v.next["host"] = n
      /\ v2.sent = v.sent /\ v2.rcvd = v.rcvd /\ v2.fin = [v.fin EXCEPT ![Near(n)] = "open"] /\ v.fin = w.fin
      /\ v.sock["host"] = w.sock /\ v2.sock["host"] = w2.sock
      /\ \A f \in Procs : f # "host" => v2.sock[f] = v.sock[f]
  BY <1>3, <1>4 DEF Change
<1>6. w.sock \in [Ids -> Sockets] /\ n \in Ids /\ w.fin \in [Ends -> Promise!Fins] /\ x \in Ends
  BY <1>2, WorldFacts, SideFacts
<1>7. w2.sock[n] = t /\ \A k \in Ids : k # n => w2.sock[k] = w.sock[k]
  BY <1>3, <1>6
<1>8. OneSocket(v, v2, "host", n, t)
  BY <1>5, <1>7 DEF OneSocket
<1>9. /\ Carried(v2) /\ v.fin[Near(n)] = "none" /\ v.fin[Far(n)] = "none" /\ v2.fin[Far(n)] = "none"
      /\ ~Has(v.chan["host"], ClsesTo(n)) /\ ~Has(v.chan["device"], OpensOf(n))
  <2>1. n = v.next["host"] /\ t.end = Near(n)
    BY <1>0, <1>5
  <2>2. /\ SameRest(v, v2) /\ v2.chan = v.chan /\ v2.sent = v.sent /\ v2.rcvd = v.rcvd
        /\ NextUp(v, v2, "host", n) /\ FinOpens(v, v2, Near(n))
    BY <1>5 DEF NextUp, FinOpens
  <2> QED
    BY <1>0, <1>2, <1>8, <2>1, <2>2, CreateGood, SMTT(30)
<1>10. Bears(e, w2, c)
  BY <1>9, BearIs
<1>11. Permitted(w2)
  <2>1. fin[x] = "none" /\ x[2] = "near"
    BY <1>5, <1>9 DEF Unseen, Near
  <2>2. Promise!CanOpen(x)
    BY <2>1 DEF Promise!CanOpen
  <2>3. w2.fin[x] = "open" /\ \A y \in Ends : y # x => w2.fin[y] = fin[y]
    BY <1>3, <1>6 DEF Unseen
  <2>4. w2.sent = sent /\ w2.rcvd = rcvd
    BY <1>3 DEF Unseen
  <2> QED
    BY <2>2, <2>3, <2>4 DEF Permitted, SentBy, RcvdBy, FinBy
<1> QED
  BY <1>5, <1>9, <1>10, <1>11 DEF Begun

\* The near end of the next stream.
LEMMA NearEndIs ==
  ASSUME AdbInd, next["host"] <= HostIds
  PROVE  next["host"] \in HostSide /\ NearEnd = Near(next["host"])
<1>1. next["host"] \in Nat \ {0} /\ HostIds \in Nat /\ session = 0
  BY BoundsAssumption DEF AdbInd, Sound, V, Views, Procs
<1> QED
  BY <1>1 DEF HostSide, NearEnd, Near

\* A client of the host is accepted.
LEMMA AcceptCarries ==
  ASSUME AdbInd, Carried(V), Accept
  PROVE  CarriesOn
<1>1. PICK e \in Procs : e = "host"
  BY DEF Procs
<1>2. PICK w : w = World(e)
  OBVIOUS
<1>3. /\ V \in Views /\ Bears(e, w, chan[e]) /\ Unseen(w) /\ Fits(e, w, chan[e]) /\ w \in Worlds
  BY <1>2, WorldBears DEF Bears, Fits
<1>4. w.next = next[e]
  BY <1>2, <1>3, WorldView DEF AdbInd
<1>5. PICK n \in HostSide : n = next["host"] /\ NearEnd = Near(n)
  BY NearEndIs DEF Accept
<1>6. n \in Ids /\ Near(n) \in Ends /\ n = w.next
  BY <1>1, <1>4, <1>5, SideFacts
<1>7. PICK x \in Ends, p \in Peers, want \in SUBSET {"R", "W"}, tr \in BOOLEAN :
        x = Near(n) /\ p = Smart /\ want = {"R"} /\ tr = FALSE
  BY <1>6, PeerKinds
<1>8. PICK w2, t : w2 = Create(w, x, p, want, tr) /\ t = New(x, p, want, tr)
  OBVIOUS
<1>9. IsCreated(w, x, New(x, p, want, tr), w2)
  BY <1>3, <1>6, <1>8, CreateFacts, Zenon
<1>10. IsCreated(w, x, t, w2)
  BY <1>8, <1>9, Zenon
<1>11. IsNew(t, x, p, want, tr)
  BY <1>8, NewSocket, Zenon
<1>12. /\ t.st = "live" /\ t.peer = Smart /\ t.want = {"R"} /\ t.end = x /\ t.transport = FALSE
       /\ t.pkts = <<>> /\ t.evs = {}
  BY <1>7, <1>11 DEF IsNew
<1>13. SocketOK(e, t)
  BY <1>1, <1>12, PeerKinds DEF SocketOK, LiveOK, IsRemote, IsLocal
<1>14. \A j \in Ids : t.peer # Remote(j)
  BY <1>12, PeerKinds
<1>15. Fits(e, w2, chan[e])
  BY <1>3, <1>6, <1>10, <1>12, <1>13, <1>14, FitCreated
<1>16. PICK v2 : v2 = View(e, w2, chan[e])
  OBVIOUS
<1>17. Bears(e, w2, chan[e]) /\ Permitted(w2)
  <2>1. n = w.next /\ x = Near(n) /\ FirstOf(t, x)
    BY <1>6, <1>7, <1>12 DEF FirstOf
  <2>2. Begun(e, w2, chan[e], v2, n)
    BY <1>1, <1>3, <1>10, <1>15, <1>16, <2>1, BearCreated, Zenon
  <2> QED
    BY <2>2 DEF Begun
<1>18. Commit(e, w2, chan[e]) /\ UNCHANGED <<transportVars, linkVars>>
  BY <1>1, <1>2, <1>5, <1>7, <1>8 DEF Accept
<1> QED
  BY <1>17, <1>18, LoopBears

\* A connection to a forwarded port.
LEMMA ForwardCarries ==
  ASSUME AdbInd, Carried(V), Forward
  PROVE  CarriesOn
<1>1. PICK e \in Procs : e = "host"
  BY DEF Procs
<1>2. PICK w : w = World(e)
  OBVIOUS
<1>3. /\ V \in Views /\ Bears(e, w, chan[e]) /\ Unseen(w) /\ Fits(e, w, chan[e]) /\ w \in Worlds
  BY <1>2, WorldBears DEF Bears, Fits
<1>4. w.next = next[e] /\ online[e]
  BY <1>1, <1>2, <1>3, WorldView DEF AdbInd, Forward
<1>5. PICK n \in HostSide : n = next["host"] /\ NearEnd = Near(n)
  BY NearEndIs DEF Forward
<1>6. n \in Ids /\ Near(n) \in Ends /\ Far(n) \in Ends /\ FarOf(Near(n)) = Far(n) /\ n = w.next
  BY <1>1, <1>4, <1>5, SideFacts
<1>7. PICK x \in Ends, p \in Peers, want \in SUBSET {"R", "W"}, tr \in BOOLEAN :
        x = Near(n) /\ p = None /\ want = {} /\ tr = TRUE
  BY <1>6, PeerKinds
<1>8. PICK w2, t : w2 = Create(w, x, p, want, tr) /\ t = New(x, p, want, tr)
  OBVIOUS
<1>9. IsCreated(w, x, New(x, p, want, tr), w2)
  BY <1>3, <1>6, <1>8, CreateFacts, Zenon
<1>10. IsCreated(w, x, t, w2)
  BY <1>8, <1>9, Zenon
<1>11. IsNew(t, x, p, want, tr)
  BY <1>8, NewSocket, Zenon
<1>12. /\ t.st = "live" /\ t.peer = None /\ t.want = {} /\ t.end = x /\ t.transport = TRUE
       /\ t.pkts = <<>> /\ t.evs = {}
  BY <1>7, <1>11 DEF IsNew
<1>13. SocketOK(e, t)
  BY <1>1, <1>12, PeerKinds DEF SocketOK, LiveOK, IsRemote, IsLocal
<1>14. \A j \in Ids : t.peer # Remote(j)
  BY <1>12, PeerKinds
<1>15. Fits(e, w2, chan[e]) /\ w2.sock[n] = t
  BY <1>3, <1>4, <1>6, <1>10, <1>12, <1>13, <1>14, FitCreated
<1>16. PICK v2 : v2 = View(e, w2, chan[e])
  OBVIOUS
<1>17. /\ Bears(e, w2, chan[e]) /\ Permitted(w2) /\ v2.fin[Far(n)] = "none"
       /\ ~Has(v2.chan["host"], ClsesTo(n)) /\ ~Has(v2.chan["device"], OpensOf(n))
  <2>1. n = w.next /\ x = Near(n) /\ FirstOf(t, x)
    BY <1>6, <1>7, <1>12 DEF FirstOf
  <2>2. Begun(e, w2, chan[e], v2, n)
    BY <1>1, <1>3, <1>10, <1>15, <1>16, <2>1, BearCreated, Zenon
  <2> QED
    BY <2>2 DEF Begun
<1>18. PICK q \in Packets : q = OpenPacket(n, Far(n))
  BY <1>6, SentPackets DEF OpenPacket
<1>19. PICK w3 : w3 = SendPacket(w2, q)
  OBVIOUS
<1>20. w2 \in Worlds /\ chan[e] \in Seq(Packets)
  BY <1>15 DEF Fits
<1>21. Known(v2, n)
  <2>1. ViewOf(e, w2, chan[e], v2)
    BY <1>3, <1>16, <1>20, ViewParts, Zenon
  <2>2. v2.sock["host"] = w2.sock
    BY <1>1, <2>1 DEF ViewOf
  <2> QED
    BY <1>12, <1>15, <2>2, PeerKinds DEF Known
<1>22. /\ w3 \in Worlds /\ w3.next = w2.next /\ w3.out = Append(w2.out, q) /\ w3.sock = w2.sock
       /\ SameSeen(w2, w3)
  BY <1>19, <1>20, SendFacts DEF SameWorldData, SameSeen
<1>23. /\ q.cmd # "SYNC" /\ e # "device"
       /\ e = "host" /\ q.cmd \in {"OPEN", "OKAY", "WRTE"} => Known(View(e, w2, chan[e]), q.arg0)
  BY <1>1, <1>16, <1>18, <1>21 DEF OpenPacket
<1>24. Fits(e, w3, chan[e])
  BY <1>3, <1>15, <1>22, <1>23, FitPush, Zenon
<1>25. w2.sock[n].st = "live" /\ w2.sock[n].peer = None
  BY <1>12, <1>15
<1>26. Bears(e, w3, chan[e])
  BY <1>1, <1>3, <1>6, <1>16, <1>17, <1>18, <1>22, <1>24, <1>25, BearOpenSent
<1>27. Permitted(w3)
  BY <1>17, <1>22 DEF Permitted, SentBy, RcvdBy, FinBy, SameSeen
<1>28. w3 = ConnectToRemote(w2, n)
  BY <1>6, <1>7, <1>12, <1>15, <1>18, <1>19 DEF ConnectToRemote, OpenPacket
<1>29. Commit(e, w3, chan[e]) /\ UNCHANGED <<transportVars, linkVars>>
  BY <1>1, <1>2, <1>5, <1>7, <1>8, <1>28 DEF Forward
<1> QED
  BY <1>26, <1>27, <1>29, LoopBears

\* fdevent_process takes the ready events of the sockets.
LEMMA ProcessCarries ==
  ASSUME AdbInd, Carried(V), NEW e \in Procs, FdeventProcess(e)
  PROVE  CarriesOn
<1>1. PICK ready \in Ready(e) :
        sock' = [sock EXCEPT ![e] = [i \in Ids |-> [@[i] EXCEPT !.evs = ready[i]]]]
  BY DEF FdeventProcess
<1>2. UNCHANGED <<next, online, state, leaving, chan, link, sent, rcvd, fin>>
  BY DEF FdeventProcess, linkVars
<1>3. sock \in [Procs -> [Ids -> Sockets]] /\ V \in Views /\ Good(V)
  BY DEF AdbInd, Sound, Views, V, Good
<1>4. ASSUME NEW f \in Procs, NEW k \in Ids
      PROVE  Steady(sock[f][k], sock'[f][k]) /\ sock'[f][k].transport = sock[f][k].transport
  <2>1. sock[f][k] \in Sockets
    BY <1>3
  <2>2. PICK g : g = [i \in Ids |-> [sock[e][i] EXCEPT !.evs = ready[i]]]
    OBVIOUS
  <2>3. sock' = [sock EXCEPT ![e] = g]
    BY <1>1, <1>3, <2>2
  <2>4. sock'[f] = IF f = e THEN g ELSE sock[f]
    BY <1>3, <2>3
  <2>5. CASE f = e
    <3>1. sock'[f][k] = [sock[f][k] EXCEPT !.evs = ready[k]]
      BY <2>2, <2>4, <2>5
    <3> QED
      BY <2>1, <3>1 DEF Sockets, Steady
  <2>6. CASE f # e
    BY <2>4, <2>6 DEF Steady
  <2> QED
    BY <2>5, <2>6
<1>5. PICK v, v2 : v = V /\ v2 = V'
  OBVIOUS
<1>6. /\ v.sock = sock /\ v2.sock = sock' /\ v2.next = v.next /\ v2.chan = v.chan /\ v2.link = v.link
      /\ v2.state["device"] = v.state["device"] /\ SameSeen(v, v2) /\ Good(v)
  BY <1>2, <1>3, <1>5 DEF V, SameSeen
<1>7. \A f \in Procs, k \in Ids : /\ Steady(v.sock[f][k], v2.sock[f][k])
                                  /\ v2.sock[f][k].transport = v.sock[f][k].transport
  BY <1>4, <1>6
<1>8. Carried(v2)
  BY <1>6, <1>7, SteadyKeeps
<1> QED
  BY <1>2, <1>5, <1>8, UnseenStep

\* A process that is offline and has packets to take has no socket for them.
LEMMA OfflineQuiet ==
  ASSUME NEW v, Good(v), NEW e \in Procs, v.chan[e] # <<>>, ~v.online[e], NEW p, p = Head(v.chan[e]),
         p.cmd \in {"OKAY", "CLSE", "WRTE"}
  PROVE  p.arg1 \in Ids /\ v.sock[e][p.arg1].st # "live"
<1>1. v \in Views /\ Sound(v) /\ NamesOK(v) /\ v.chan[e] \in Seq(Packets)
  BY GoodFacts
<1>2. p \in Packets /\ p \in Elements(v.chan[e])
  BY <1>1, PopFacts
<1>3. PICK i \in Ids : i = p.arg1
  BY <1>2, PacketFacts
<1>4. LinkOK(v, e) /\ v.state[e] \in {"offline", "connected"} /\ KnownOK(v)
  BY <1>1, ViewFacts DEF Sound
<1>5. /\ ~IsRemote(v.sock[e][i].peer)
      /\ ~(v.sock[e][i].st = "live" /\ v.sock[e][i].transport)
  BY <1>4 DEF LinkOK
<1>6. SocketOK(e, v.sock[e][i])
  BY GoodFacts
<1>7. CASE e = "device"
  BY <1>3, <1>5, <1>6, <1>7 DEF SocketOK, LiveOK
<1>8. CASE e = "host"
  <2>1. Known(v, i)
    <3>1. CASE p.cmd = "CLSE"
      BY <1>1, <1>2, <1>3, <1>8, <3>1 DEF NamesOK, ToHostOK
    <3>2. CASE p.cmd \in {"OKAY", "WRTE"}
      BY <1>2, <1>3, <1>4, <1>8, <3>2 DEF KnownOK
    <3> QED
      BY <3>1, <3>2
  <2> QED
    BY <1>3, <1>5, <1>8, <2>1 DEF Known
<1> QED
  BY <1>7, <1>8 DEF Procs

\* A packet is taken that no open socket waits for.
LEMMA BearPop ==
  ASSUME V \in Views, NEW e \in Procs, NEW w, NEW c, Bears(e, w, c), c # <<>>,
         Head(c).cmd \notin {"SYNC", "CNXN"},
         Head(c).cmd \in {"OKAY", "CLSE", "WRTE"} => w.sock[Head(c).arg1].st # "live"
  PROVE  Bears(e, w, Tail(c))
<1>1. w \in Worlds /\ c \in Seq(Packets) /\ Fits(e, w, c)
  BY DEF Bears, Fits
<1>2. PICK d \in Seq(Packets) : d = Tail(c)
  BY <1>1, PopFacts
<1>3. PICK v, v2 : v = View(e, w, c) /\ v2 = View(e, w, d)
  OBVIOUS
<1>4. ViewOf(e, w, c, v) /\ ViewOf(e, w, d, v2)
  BY <1>1, <1>2, <1>3, ViewParts, Zenon
<1>5. Good(v)
  BY <1>3, BearView
<1>6. /\ v.chan[e] = c /\ v2.chan[e] = d /\ v2.chan[Other(e)] = v.chan[Other(e)]
      /\ v.sock[e] = w.sock /\ v2.next = v.next /\ v2.link = v.link /\ v2.state = v.state
      /\ SameSeen(v, v2)
  BY <1>4 DEF ViewOf, SameSeen
<1>7. v2.sock = v.sock
  BY <1>3 DEF View
<1>8. Fits(e, w, Tail(c))
  BY <1>1, FitPop
<1>9. Carried(v2)
  BY <1>2, <1>5, <1>6, <1>7, PopGood
<1> QED
  BY <1>2, <1>3, <1>8, <1>9, BearIs

\* A packet that no open socket waits for is ignored.
LEMMA IgnoredCarries ==
  ASSUME AdbInd, Carried(V), NEW e \in Procs, chan[e] # <<>>, Head(chan[e]).cmd \in {"OKAY", "CLSE", "WRTE"},
         Target(e) = {}, Handled(e, World(e)), UNCHANGED <<online, state, leaving, linkVars>>
  PROVE  CarriesOn
<1>1. PICK w, c : w = World(e) /\ c = chan[e]
  OBVIOUS
<1>2. V \in Views /\ Bears(e, w, c) /\ Unseen(w) /\ Good(V)
  BY <1>1, WorldBears
<1>3. w.sock[Head(c).arg1].st # "live"
  <2>1. w.sock = V.sock[e] /\ c = V.chan[e] /\ V.online = online /\ w.sock = sock[e]
    BY <1>1 DEF World, V
  <2>2. CASE ~online[e]
    BY <1>1, <1>2, <2>1, <2>2, OfflineQuiet
  <2>3. CASE online[e]
    BY <1>1, <2>1, <2>3 DEF Target
  <2> QED
    BY <2>2, <2>3
<1>4. Bears(e, w, Tail(c))
  BY <1>1, <1>2, <1>3, BearPop
<1>5. Permitted(w)
  BY <1>2 DEF Unseen, Permitted, SentBy, RcvdBy, FinBy
<1> QED
  BY <1>1, <1>4, <1>5, PacketBears

\* A_CLSE is the last word of the other end: nothing is missing.
LEMMA ClseDone ==
  ASSUME V \in Views, NEW e \in Procs, NEW w, NEW c, Bears(e, w, c), c # <<>>, NEW i \in Ids,
         Head(c).cmd = "CLSE", Head(c).arg1 = i, w.sock[i].st = "live"
  PROVE  PeerDone(e, w, c, i) /\ ~IsLocal(w.sock[i].peer)
<1>1. PICK v : v = View(e, w, c)
  OBVIOUS
<1>2. Good(v) /\ ViewOf(e, w, c, v) /\ c \in Seq(Packets)
  BY <1>1, BearView
<1>3. /\ v.chan[e] = c /\ v.sock[e] = w.sock /\ v.sent = w.sent /\ v.rcvd = w.rcvd /\ v.fin = w.fin
  BY <1>2 DEF ViewOf
<1>4. Head(c) \in ClsesTo(i) /\ Has(c, ClsesTo(i)) /\ ~Before(c, WrtesTo(i), ClsesTo(i))
  BY <1>2, PopFacts DEF ClsesTo, Has
<1>5. RecvOK(v, e, i)
  BY <1>2, GoodFacts
<1>6. /\ w.fin[FarOf(w.sock[i].end)] # "open" /\ ~Opens(v, e, i)
      /\ w.sent[FarOf(w.sock[i].end)] = w.rcvd[w.sock[i].end] \/ w.sock[i].pkts # <<>>
  BY <1>3, <1>4, <1>5 DEF RecvOK, Receives
<1>7. PeerDone(e, w, c, i)
  BY <1>1, <1>6 DEF PeerDone
<1>8. ~IsLocal(w.sock[i].peer)
  <2>1. CASE e = "device"
    <3>1. SocketOK(e, w.sock[i])
      BY <1>2, <1>3, GoodFacts
    <3> QED
      BY <2>1, <3>1, PeerKinds DEF SocketOK, LiveOK, IsLocal, IsRemote
  <2>2. CASE e = "host"
    BY <1>2, <1>3, <1>4, <2>2, LocalQuiet
  <2> QED
    BY <2>1, <2>2 DEF Procs
<1> QED
  BY <1>7, <1>8

\* A_CLSE arrives.
LEMMA ClseCarries ==
  ASSUME AdbInd, Carried(V), NEW e \in Procs, HandleClse(e)
  PROVE  CarriesOn
<1>1. Arrives(e, "CLSE") /\ UNCHANGED <<online, state, leaving, linkVars>>
  BY DEF HandleClse
<1>2. PICK w, c, p : w = World(e) /\ c = chan[e] /\ p = Head(chan[e])
  OBVIOUS
<1>3. /\ c \in Seq(Packets) /\ c # <<>> /\ p \in Packets /\ p.cmd = "CLSE" /\ w.sock = sock[e] /\ p = Head(c)
  BY <1>1, <1>2, Arrival
<1>4. V \in Views /\ Bears(e, w, c) /\ Unseen(w)
  BY <1>2, WorldBears
<1>5. PICK i \in Ids : i = p.arg1
  BY <1>3, PacketFacts
<1>6. CASE Target(e) = {}
  BY <1>1, <1>2, <1>3, <1>6, IgnoredCarries DEF HandleClse
<1>7. CASE Target(e) # {}
  <2>1. w.sock[i].st = "live"
    BY <1>2, <1>3, <1>5, <1>7 DEF Target
  <2>2. PICK w2 : w2 = Close(w, i, "peer")
    OBVIOUS
  <2>3. PeerDone(e, w, c, i) /\ ~IsLocal(w.sock[i].peer)
    BY <1>3, <1>4, <1>5, <2>1, ClseDone
  <2>4. Bears(e, w2, c) /\ Faded(w, w2) /\ w2.sock[i].st \in {"closing", "gone"}
    <3>1. PICK y \in Promise!Closed : y = "peer"
      BY DEF Promise!Closed
    <3>2. w2 = Close(w, i, y)
      BY <2>2, <3>1
    <3> QED
      BY <1>4, <2>1, <2>3, <3>2, BearClose
  <2>5. Bears(e, w2, Tail(c))
    BY <1>3, <1>4, <1>5, <2>4, BearPop
  <2>6. Moved(w)
    BY <1>4 DEF Unseen, Moved, SentBy, RcvdBy
  <2>7. Permitted(w2)
    BY <2>4, <2>6, MovedFades
  <2>8. Handled(e, w2)
    BY <1>2, <1>5, <1>7, <2>2 DEF HandleClse
  <2> QED
    BY <1>1, <1>2, <2>5, <2>7, <2>8, PacketBears
<1> QED
  BY <1>6, <1>7

\* Several sockets lose the connection.
LEMMA BearCut ==
  ASSUME V \in Views, NEW e \in Procs, NEW w, NEW c, Bears(e, w, c), NEW lost \in SUBSET Ids,
         \A i \in lost : w.sock[i].st = "live" /\ ~IsLocal(w.sock[i].peer),
         NEW w2, w2 = Disconnect(w, lost)
  PROVE  Bears(e, w2, c) /\ Faded(w, w2)
<1>1. PICK v, v2 : v = View(e, w, c) /\ v2 = View(e, w2, c)
  OBVIOUS
<1>2. Good(v) /\ w \in Worlds /\ c \in Seq(Packets) /\ Fits(e, w, c)
  BY <1>1, BearView
<1>3. Fits(e, w2, c) /\ IsCut(w, lost, w2)
  BY <1>2, FitCut
<1>4. /\ w2 \in Worlds /\ w2.sent = w.sent /\ w2.rcvd = w.rcvd /\ w2.next = w.next /\ w2.out = w.out
      /\ \A i \in Ids : w2.sock[i] = IF i \in lost THEN Dying(w.sock[i], "lost") ELSE w.sock[i]
      /\ \A x \in Ends : w2.fin[x] =
           IF ~\E i \in lost : w.sock[i].end = x THEN w.fin[x]
           ELSE IF \E i \in lost : w.sock[i].end = x /\ Destroyed(w.sock[i]) THEN "lost"
           ELSE "ending"
  BY <1>3 DEF IsCut, SameWorldData
<1>5. Change(e, w, w2, c, v, v2)
  BY <1>1, <1>2, <1>4, ViewChange, Zenon
<1>6. /\ SameRest(v, v2) /\ v2.next = v.next /\ v2.chan = v.chan /\ v.sock[e] = w.sock /\ v2.sock[e] = w2.sock
      /\ \A f \in Procs : f # e => v2.sock[f] = v.sock[f]
      /\ v.sent = w.sent /\ v.rcvd = w.rcvd /\ v.fin = w.fin /\ v2.sent = w2.sent /\ v2.rcvd = w2.rcvd
      /\ v2.fin = w2.fin
  BY <1>4, <1>5 DEF Change
<1>7. PICK y \in Promise!Closed : y = "lost"
  BY DEF Promise!Closed
<1>8. ASSUME NEW i \in lost
      PROVE  /\ w.sock[i].end \in Ends /\ w2.sock[i].st \in {"closing", "gone"} /\ SocketOK(e, w2.sock[i]) /\ i \in Ids
             /\ w.fin[w.sock[i].end] = "open"
             /\ Destroyed(w.sock[i]) => w2.sock[i].st = "gone" /\ w2.sock[i].pkts = <<>>
             /\ ~Destroyed(w.sock[i]) => /\ w2.sock[i].st = "closing" /\ w2.sock[i].pkts = w.sock[i].pkts
                                         /\ w2.sock[i].end = w.sock[i].end /\ w2.sock[i].why = "lost"
  <2>1. i \in Ids /\ w.sock[i] \in Sockets /\ SocketOK(e, w.sock[i]) /\ w.sock[i].st = "live"
    BY <1>2, FitFacts
  <2>2. w.sock[i].end \in Ends
    BY <2>1 DEF SocketOK
  <2>3. PICK t : t = Dying(w.sock[i], y)
    OBVIOUS
  <2>4. /\ t.st \in {"gone", "closing"} /\ SocketOK(e, t)
        /\ Destroyed(w.sock[i]) => t = Gone /\ t.st = "gone"
        /\ ~Destroyed(w.sock[i]) => t.st = "closing" /\ t.pkts = w.sock[i].pkts /\ t.end = w.sock[i].end /\ t.why = y
    BY <2>1, <2>2, <2>3, DyingFacts
  <2>5. w2.sock[i] = t
    BY <1>4, <1>7, <2>1, <2>3
  <2>6. EndOK(v, e, i)
    BY <1>2, <2>1, GoodFacts
  <2>7. w.fin[w.sock[i].end] = "open"
    BY <1>6, <2>1, <2>6 DEF EndOK
  <2> QED
    BY <1>7, <2>1, <2>2, <2>4, <2>5, <2>7, GoneFacts
<1>9. Die(e, w, w2, lost)
  BY <1>4, <1>8 DEF Die, IsLocal
<1>10. Sound(v2)
  BY <1>1, <1>3 DEF Fits
<1>11. Deaths(v, v2, e, lost)
  BY <1>6, <1>9 DEF Deaths, Die
<1>12. ASSUME NEW i \in lost
       PROVE  \E x \in Ends : Ends1(v, v2, e, i, x)
  <2>1. PICK x \in Ends : x = w.sock[i].end
    BY <1>8
  <2>2. i \in Ids /\ w.sock[i].st = "live"
    BY <1>8
  <2>3. \A k \in lost : w.sock[k].end = x => k = i
    <3>1. OneEach(v)
      BY <1>2, GoodFacts DEF EndsOK
    <3>2. \A k \in lost : k \in Ids /\ Used(v, e, k) /\ v.sock[e][k].end = w.sock[k].end
      BY <1>6 DEF Used
    <3> QED
      BY <2>1, <3>1, <3>2 DEF OneEach
  <2>4. Used(v, e, i) /\ v.sock[e][i].end = x
    BY <1>6, <2>1, <2>2 DEF Used
  <2>5. w2.fin[x] = IF Destroyed(w.sock[i]) THEN "lost" ELSE "ending"
    BY <1>4, <2>1, <2>3
  <2>6. CASE Destroyed(w.sock[i])
    <3>1. v2.sock[e][i].st = "gone" /\ v2.sock[e][i].pkts = <<>> /\ v2.fin[x] = "lost"
      BY <1>6, <1>8, <2>5, <2>6
    <3> QED
      BY <2>4, <3>1, FinFacts DEF Ends1
  <2>7. CASE ~Destroyed(w.sock[i])
    <3>1. /\ v.sock[e][i].st = "live" /\ v.sock[e][i].pkts # <<>>
      BY <1>6, <2>2, <2>7 DEF Destroyed
    <3>2. /\ v2.sock[e][i].st = "closing" /\ v2.sock[e][i].pkts = v.sock[e][i].pkts /\ v2.sock[e][i].end = x
          /\ v2.fin[x] = "ending" /\ v2.sock[e][i].why = "lost"
      BY <1>6, <1>8, <2>1, <2>5, <2>7
    <3> QED
      BY <2>4, <3>1, <3>2 DEF Ends1
  <2> QED
    BY <2>6, <2>7
<1>13. OtherFins(v, v2, e, lost)
  BY <1>4, <1>6 DEF OtherFins
<1>14. Carried(v2)
  <2>1. (\A j \in lost : \E x \in Ends : Ends1(v, v2, e, j, x)) /\ v2.sent = v.sent /\ v2.rcvd = v.rcvd
    BY <1>4, <1>6, <1>12
  <2> QED
    BY <1>2, <1>6, <1>10, <1>11, <1>13, <2>1, DeathsGood, Zenon
<1>15. Bears(e, w2, c)
  BY <1>1, <1>3, <1>14, BearIs
<1>16. Faded(w, w2)
  BY <1>4, <1>8, FinFacts DEF Faded
<1> QED
  BY <1>15, <1>16

\* A handler takes a packet for socket i and changes that socket.
Takes(v, v2, e, i, t) ==
  SameKinds(v, v2) /\ SameSeen(v, v2) /\ OneSocket(v, v2, e, i, t) /\ TakesHead(v, v2, e, i)

\* The views before and after it.
LEMMA TakesView ==
  ASSUME V \in Views, NEW e \in Procs, NEW w, NEW c, Fits(e, w, c), c # <<>>, NEW i \in Ids,
         Head(c).cmd \in {"OKAY", "WRTE"}, Head(c).arg1 = i, NEW t, NEW w2, Touched(w, i, t, w2),
         SameKind(w.sock[i], t), NEW v, v = View(e, w, c), NEW v2, v2 = View(e, w2, Tail(c))
  PROVE  Takes(v, v2, e, i, t)
<1>1. w \in Worlds /\ c \in Seq(Packets)
  BY DEF Fits
<1>2. PICK d \in Seq(Packets) : d = Tail(c)
  BY <1>1, PopFacts
<1>3. /\ w2 \in Worlds /\ w2.sent = w.sent /\ w2.rcvd = w.rcvd /\ w2.next = w.next /\ w2.out = w.out
      /\ w2.fin = w.fin /\ w2.sock[i] = t /\ \A k \in Ids \ {i} : w2.sock[k] = w.sock[k]
  BY DEF Touched, SameWorldData
<1>4. v2 = View(e, w2, d)
  BY <1>2
<1>5. ViewOf(e, w, c, v) /\ ViewOf(e, w2, d, v2)
  BY <1>1, <1>2, <1>3, <1>4, ViewParts, Zenon
<1>6. /\ v.chan[e] = c /\ v2.chan[e] = d /\ v2.chan[Other(e)] = v.chan[Other(e)]
      /\ v.sock[e] = w.sock /\ v2.sock[e] = w2.sock /\ v2.next = v.next /\ v2.link = v.link /\ v2.state = v.state
      /\ \A f \in Procs : f # e => v2.sock[f] = v.sock[f]
      /\ v2.sent = v.sent /\ v2.rcvd = v.rcvd /\ v2.fin = v.fin
  BY <1>3, <1>5 DEF ViewOf
<1>7. OneSocket(v, v2, e, i, t)
  BY <1>3, <1>6 DEF OneSocket
<1>8. TakesHead(v, v2, e, i)
  BY <1>2, <1>6 DEF TakesHead
<1>9. SameKinds(v, v2)
  <2>1. ASSUME NEW f \in Procs, NEW k \in Ids PROVE SameKind(v.sock[f][k], v2.sock[f][k])
    <3>1. CASE f = e /\ k = i
      BY <1>3, <1>6, <3>1
    <3>2. CASE ~(f = e /\ k = i)
      <4>1. v2.sock[f][k] = v.sock[f][k]
        BY <1>7, <3>2 DEF OneSocket
      <4> QED
        BY <4>1 DEF SameKind
    <3> QED
      BY <3>1, <3>2
  <2> QED
    BY <1>6, <2>1 DEF SameKinds
<1> QED
  BY <1>6, <1>7, <1>8, <1>9 DEF Takes, SameSeen

\* The first A_OKAY tells a socket of the host who its peer is.
LEMMA BearConnected ==
  ASSUME V \in Views, NEW e \in Procs, NEW w, NEW c, Bears(e, w, c), c # <<>>, NEW i \in Ids, NEW k \in Ids,
         Head(c).cmd = "OKAY", Head(c).arg0 = k, Head(c).arg1 = i,
         w.sock[i].st = "live", w.sock[i].peer = None, online[e], NEW w2, w2 = Connected(w, i, k)
  PROVE  /\ Bears(e, w2, c) /\ w2.sock[i].st = "live" /\ w2.sock[i].peer = Remote(k)
         /\ SameSeen(w, w2)
<1>1. PICK v, v2 : v = View(e, w, c) /\ v2 = View(e, w2, c)
  OBVIOUS
<1>2. Good(v) /\ w \in Worlds /\ c \in Seq(Packets) /\ Fits(e, w, c)
  BY <1>1, BearView
<1>3. Fits(e, w2, c) /\ w2.sock[i].st = "live" /\ w2.sock[i].peer = Remote(k)
  BY <1>2, FitConnected, SMTT(30)
<1>4. w.sock[i] \in Sockets /\ SocketOK(e, w.sock[i]) /\ w.sock \in [Ids -> Sockets]
  BY <1>2, FitFacts, WorldFacts
<1>5. e = "host"
  BY <1>4, PeerKinds DEF SocketOK, LiveOK, IsRemote, Procs
<1>6. PICK t : t = [w.sock[i] EXCEPT !.peer = Remote(k)]
  OBVIOUS
<1>7. /\ t \in Sockets /\ t.st = "live" /\ t.peer = Remote(k) /\ t.transport = w.sock[i].transport
      /\ t.want = w.sock[i].want /\ t.pkts = w.sock[i].pkts /\ t.end = w.sock[i].end
  BY <1>4, <1>6, PeerKinds DEF Sockets
<1>8. w2 = [w EXCEPT !.sock[i] = t]
  BY <1>2, <1>4, <1>6 DEF Worlds, Connected
<1>9. Touched(w, i, t, w2)
  BY <1>2, <1>7, <1>8, TouchFacts, Zenon
<1>10. /\ w2 \in Worlds /\ w2.sent = w.sent /\ w2.rcvd = w.rcvd /\ w2.next = w.next /\ w2.out = w.out
       /\ w2.fin = w.fin /\ w2.sock[i] = t /\ \A m \in Ids \ {i} : w2.sock[m] = w.sock[m]
  BY <1>9 DEF Touched, SameWorldData
<1>11. Change(e, w, w2, c, v, v2)
  BY <1>1, <1>2, <1>10, ViewChange, Zenon
<1>12. /\ SameRest(v, v2) /\ v2.next = v.next /\ v2.chan = v.chan /\ v.sock["host"] = w.sock /\ v2.sock["host"] = w2.sock
       /\ \A f \in Procs : f # "host" => v2.sock[f] = v.sock[f]
       /\ v2.sent = v.sent /\ v2.rcvd = v.rcvd /\ v2.fin = v.fin /\ v.chan["host"] = c
  BY <1>5, <1>10, <1>11 DEF Change
<1>13. OneSocket(v, v2, "host", i, t) /\ SameSeen(v, v2)
  BY <1>10, <1>12 DEF OneSocket, SameSeen
<1>14. PICK p \in Elements(v.chan["host"]) : p.cmd = "OKAY" /\ p.arg0 = k /\ p.arg1 = i
  BY <1>2, <1>12, PopFacts
<1>15. Carried(v2)
  <2>1. /\ v.sock["host"][i].st = "live" /\ v.sock["host"][i].peer = None
        /\ t.st = "live" /\ t.peer = Remote(k) /\ t.pkts = v.sock["host"][i].pkts /\ t.end = v.sock["host"][i].end
        /\ t.want = v.sock["host"][i].want /\ t.transport = v.sock["host"][i].transport
    BY <1>7, <1>12
  <2> QED
    BY <1>2, <1>12, <1>13, <1>14, <2>1, ConnectGood
<1>16. Bears(e, w2, c)
  BY <1>1, <1>3, <1>15, BearIs
<1> QED
  BY <1>3, <1>10, <1>16 DEF SameSeen

\* A_OKAY arrives, and the socket is read again.
LEMMA BearOkay ==
  ASSUME V \in Views, NEW e \in Procs, NEW w, NEW c, Bears(e, w, c), c # <<>>, NEW i \in Ids,
         Head(c).cmd = "OKAY", Head(c).arg1 = i, w.sock[i].st = "live", w.sock[i].peer # None,
         NEW w2, w2 = SocketReady(w, i)
  PROVE  Bears(e, w2, Tail(c)) /\ SameSeen(w, w2)
<1>1. PICK v, v2 : v = View(e, w, c) /\ v2 = View(e, w2, Tail(c))
  OBVIOUS
<1>2. Good(v) /\ ViewOf(e, w, c, v) /\ w \in Worlds /\ c \in Seq(Packets) /\ Fits(e, w, c)
  BY <1>1, BearView
<1>3. PICK s, t : s = w.sock[i] /\ t = Started(s)
  OBVIOUS
<1>4. Fits(e, w2, c) /\ Touched(w, i, t, w2)
  BY <1>2, <1>3, FitReady, Zenon
<1>5. s \in Sockets
  BY <1>2, <1>3, WorldFacts
<1>6. /\ t.st = s.st /\ t.peer = s.peer /\ t.transport = s.transport
      /\ t.pkts = s.pkts /\ t.end = s.end /\ t.why = s.why
  BY <1>3, <1>5, StartedFacts
<1>7. w2.sock[i] = t /\ w2.sent = w.sent /\ w2.rcvd = w.rcvd /\ w2.fin = w.fin
  BY <1>4 DEF Touched, SameWorldData
<1>8. Fits(e, w2, Tail(c))
  BY <1>2, <1>3, <1>4, <1>6, <1>7, FitPop
<1>9. SameKind(w.sock[i], t)
  BY <1>3, <1>6 DEF SameKind
<1>10. Takes(v, v2, e, i, t)
  BY <1>1, <1>2, <1>4, <1>9, TakesView
<1>11. SameKinds(v, v2) /\ SameSeen(v, v2) /\ OneSocket(v, v2, e, i, t) /\ TakesHead(v, v2, e, i)
  BY <1>10 DEF Takes
<1>12. /\ v.sock[e][i].st = "live" /\ Head(v.chan[e]).cmd = "OKAY"
       /\ t.pkts = v.sock[e][i].pkts /\ t.why = v.sock[e][i].why
  BY <1>2, <1>3, <1>6 DEF ViewOf
<1>13. Carried(v2)
  BY <1>2, <1>11, <1>12, OkayGood
<1> QED
  BY <1>1, <1>7, <1>8, <1>13, BearIs DEF SameSeen

\* A_OKAY arrives.
LEMMA OkayCarries ==
  ASSUME AdbInd, Carried(V), NEW e \in Procs, HandleOkay(e)
  PROVE  CarriesOn
<1>1. Arrives(e, "OKAY") /\ UNCHANGED <<online, state, leaving, linkVars>>
  BY DEF HandleOkay
<1>2. PICK w, c, p : w = World(e) /\ c = chan[e] /\ p = Head(chan[e])
  OBVIOUS
<1>3. /\ c \in Seq(Packets) /\ c # <<>> /\ p \in Packets /\ p.cmd = "OKAY" /\ w.sock = sock[e] /\ p = Head(c)
  BY <1>1, <1>2, Arrival
<1>4. V \in Views /\ Bears(e, w, c) /\ Unseen(w)
  BY <1>2, WorldBears
<1>5. PICK i \in Ids, k \in Ids : i = p.arg1 /\ k = p.arg0
  BY <1>3, PacketFacts
<1>6. CASE Target(e) = {}
  BY <1>1, <1>2, <1>3, <1>6, IgnoredCarries DEF HandleOkay
<1>7. CASE Target(e) # {}
  <2>1. online[e] /\ w.sock[i].st = "live"
    BY <1>2, <1>3, <1>5, <1>7 DEF Target
  <2>2. PICK w1 : w1 = IF w.sock[i].peer = None THEN [w EXCEPT !.sock[i].peer = Remote(k)] ELSE w
    OBVIOUS
  <2>3. Bears(e, w1, c) /\ w1.sock[i].st = "live" /\ w1.sock[i].peer # None /\ SameSeen(w, w1)
    <3>1. CASE w.sock[i].peer = None
      <4>1. w1 = Connected(w, i, k)
        BY <2>2, <3>1 DEF Connected
      <4>2. Bears(e, w1, c) /\ w1.sock[i].st = "live" /\ w1.sock[i].peer = Remote(k) /\ SameSeen(w, w1)
        BY <1>3, <1>4, <1>5, <2>1, <3>1, <4>1, BearConnected, SMTT(20)
      <4> QED
        BY <4>2, PeerKinds
    <3>2. CASE w.sock[i].peer # None
      BY <1>4, <2>1, <2>2, <3>2 DEF SameSeen
    <3> QED
      BY <3>1, <3>2
  <2>4. PICK w2 : w2 = SocketReady(w1, i)
    OBVIOUS
  <2>5. Bears(e, w2, Tail(c)) /\ SameSeen(w1, w2)
    BY <1>3, <1>4, <1>5, <2>3, <2>4, BearOkay
  <2>6. Permitted(w2)
    BY <1>4, <2>3, <2>5 DEF SameSeen, Unseen, Permitted, SentBy, RcvdBy, FinBy
  <2>7. Handled(e, w2)
    BY <1>2, <1>5, <1>7, <2>2, <2>4 DEF HandleOkay
  <2> QED
    BY <1>1, <1>2, <2>5, <2>6, <2>7, PacketBears
<1> QED
  BY <1>6, <1>7

\* What a socket that A_WRTE arrives for is: it is connected, and names the
\* socket that sent it.
Receiver(e, v, w, i, k) ==
  /\ w.sock[i].st = "live" /\ w.sock[i].pkts = <<>> /\ IsRemote(w.sock[i].peer)
  /\ e = "device" => w.sock[i].peer = Remote(k)
  /\ e = "host" => /\ v.sock["device"][k].st = "live" => v.sock["device"][k].peer = Remote(i)
                   /\ v.state["device"] = "connected" => k < v.next["device"]

\* The socket is one.
LEMMA WrteHead ==
  ASSUME V \in Views, NEW e \in Procs, NEW w, NEW c, Bears(e, w, c), c # <<>>, NEW i \in Ids, NEW k \in Ids,
         NEW d \in Data, Head(c).cmd = "WRTE", Head(c).arg0 = k, Head(c).arg1 = i, Head(c).data = d,
         w.sock[i].st = "live", NEW v, v = View(e, w, c)
  PROVE  Receiver(e, v, w, i, k)
<1>1. Good(v) /\ ViewOf(e, w, c, v) /\ w \in Worlds /\ c \in Seq(Packets) /\ Fits(e, w, c)
  BY BearView
<1>2. v.chan[e] = c /\ v.sock[e] = w.sock
  BY <1>1 DEF ViewOf
<1>3. PICK p \in Packets : p = Head(c) /\ p \in Elements(c)
  BY <1>1, PopFacts
<1>4. p \in WrtesTo(i) /\ Has(c, WrtesTo(i))
  BY <1>3 DEF WrtesTo, Has
<1>5. NamesOK(v) /\ RecvOK(v, e, i) /\ SocketOK(e, w.sock[i]) /\ w.sock[i].peer \in Peers
  BY <1>1, <1>2, GoodFacts DEF Sockets
<1>6. w.sock[i].pkts = <<>>
  BY <1>2, <1>3, <1>4, <1>5 DEF RecvOK, Receives
<1>7. CASE e = "device"
  BY <1>2, <1>3, <1>5, <1>6, <1>7 DEF NamesOK, ToDeviceOK, IsRemote, Receiver
<1>8. CASE e = "host"
  <2>1. ~IsLocal(w.sock[i].peer)
    BY <1>1, <1>2, <1>4, <1>8, LocalQuiet
  <2>2. w.sock[i].peer # None /\ Known(v, i)
    BY <1>1, <1>3, <1>8, FitHead
  <2>3. w.sock[i].peer # Smart
    BY <1>2, <1>5, <1>8, <2>2 DEF Known, SocketOK, LiveOK
  <2>4. IsRemote(w.sock[i].peer)
    BY <1>5, <2>1, <2>2, <2>3, PeerKinds
  <2>5. ToHostOK(v, p)
    BY <1>2, <1>3, <1>5, <1>8 DEF NamesOK
  <2> QED
    BY <1>3, <1>6, <1>8, <2>4, <2>5 DEF ToHostOK, Receiver
<1> QED
  BY <1>7, <1>8 DEF Procs

\* The data waits to be written.
IsQueued(w, i, d, t, w2) ==
  /\ Touched(w, i, t, w2) /\ SameKind(w.sock[i], t) /\ t.pkts = <<d>> /\ t.why = w.sock[i].why
  /\ "R" \in w.sock[i].want => "R" \in t.want

\* A_WRTE arrives, and the data waits to be written.
LEMMA BearQueued ==
  ASSUME V \in Views, NEW e \in Procs, NEW w, NEW c, Bears(e, w, c), c # <<>>, NEW i \in Ids,
         NEW d \in Data, Head(c).cmd = "WRTE", Head(c).arg1 = i, Head(c).data = d,
         w.sock[i].st = "live", w.sock[i].pkts = <<>>, IsRemote(w.sock[i].peer),
         NEW t, t = Queued(w.sock[i], d), NEW w2, w2 = [w EXCEPT !.sock[i] = t]
  PROVE  Bears(e, w2, Tail(c)) /\ IsQueued(w, i, d, t, w2)
<1>1. PICK v, v2 : v = View(e, w, c) /\ v2 = View(e, w2, Tail(c))
  OBVIOUS
<1>2. Good(v) /\ ViewOf(e, w, c, v) /\ w \in Worlds /\ c \in Seq(Packets) /\ Fits(e, w, c)
  BY <1>1, BearView
<1>3. w.sock[i] \in Sockets /\ SocketOK(e, w.sock[i])
  BY <1>2, FitFacts
<1>4. /\ t \in Sockets /\ t.st = w.sock[i].st /\ t.peer = w.sock[i].peer /\ t.transport = w.sock[i].transport
      /\ t.pkts = Append(w.sock[i].pkts, d) /\ t.end = w.sock[i].end /\ t.why = w.sock[i].why
      /\ t.want = w.sock[i].want \cup {"W"}
  BY <1>3, QueuedFacts
<1>5. t.pkts = <<d>>
  BY <1>4
<1>6. w.sock[i].peer \notin {None, Smart}
  BY PeerKinds DEF IsRemote
<1>7. SocketOK(e, t)
  BY <1>3, <1>6, QueuedFacts
<1>8. Touched(w, i, t, w2)
  BY <1>2, <1>4, TouchFacts, Zenon
<1>9. SameKind(w.sock[i], t)
  BY <1>4 DEF SameKind
<1>10. Fits(e, w2, c)
  BY <1>2, <1>4, <1>7, <1>8, FitTouched
<1>11. Fits(e, w2, Tail(c))
  BY <1>10, FitPop
<1>12. Takes(v, v2, e, i, t)
  BY <1>1, <1>2, <1>8, <1>9, TakesView
<1>13. SameKinds(v, v2) /\ SameSeen(v, v2) /\ OneSocket(v, v2, e, i, t) /\ TakesHead(v, v2, e, i)
  BY <1>12 DEF Takes
<1>14. /\ v.sock[e][i].st = "live" /\ Head(v.chan[e]).cmd = "WRTE"
       /\ t.pkts = <<Head(v.chan[e]).data>> /\ t.why = v.sock[e][i].why
       /\ "R" \in t.want => "R" \in v.sock[e][i].want
  BY <1>2, <1>4, <1>5 DEF ViewOf
<1>15. Carried(v2)
  BY <1>2, <1>13, <1>14, WrteGood
<1> QED
  BY <1>1, <1>4, <1>5, <1>8, <1>9, <1>11, <1>15, BearIs DEF IsQueued

\* The packet that socket k of the device sent to socket i of the host, at end
\* x, was written.
Arrived(v, v1, i, k, x) ==
  /\ v1.sock["device"] = v.sock["device"] /\ v1.chan = v.chan /\ v1.link
  /\ IsRemote(v1.sock["host"][i].peer) /\ x = v.sock["host"][i].end /\ x = v1.sock["host"][i].end
  /\ v.sent[FarOf(x)] # v.rcvd[x] /\ v1.sent[FarOf(x)] = v1.rcvd[x]
  /\ v1.sock["device"][k].st = "live" => v1.sock["device"][k].peer = Remote(i)
  /\ v1.state["device"] = "connected" => k < v1.next["device"]

\* The host may tell the device so.
LEMMA WrteMay ==
  ASSUME NEW v, NEW v1, Good(v), Good(v1), NEW i \in Ids, NEW k \in Ids, NEW x, Arrived(v, v1, i, k, x)
  PROVE  MayPush(v1, "device", Okay(i, k))
<1> USE DEF Arrived
<1>1. PICK p : p = Okay(i, k)
  OBVIOUS
<1>2. p \in Packets /\ p.cmd = "OKAY" /\ p.arg0 = i /\ p.arg1 = k
  BY <1>1, SentPackets DEF Okay
<1>3. "host" \in Procs /\ "device" \in Procs
  BY DEF Procs
<1>4. PICK n \in Ids : v1.sock["host"][i].peer = Remote(n)
  BY DEF IsRemote
<1>5. v1.state["device"] = "connected"
  BY <1>3, <1>4, Online
<1>6. x = Near(i) /\ x \in Ends /\ i \in HostSide
  BY <1>3, <1>4, Partner
<1>7. ToDeviceOK(v1, p)
  BY <1>2, <1>5 DEF ToDeviceOK
<1>8. ASSUME v1.sock["device"][k].st = "live"
      PROVE  /\ "R" \notin v1.sock["device"][k].want /\ ~Has(v1.chan["device"], OkaysTo(k))
             /\ v1.sent[v1.sock["device"][k].end] = v1.rcvd[FarOf(v1.sock["device"][k].end)]
  <2>1. v.sock["device"][k].peer = Remote(i) /\ v.sock["device"][k].st = "live"
    BY <1>8
  <2>2. v.sock["device"][k].end = Far(i)
    BY <1>3, <2>1, Partner
  <2>3. Far(i) = FarOf(x) /\ FarOf(Far(i)) = x
    BY <1>6, SideFacts
  <2>4. SendOK(v, "device", k)
    BY <1>3, GoodFacts
  <2>5. Sends(v.sock["device"][k], k, v.chan["device"], v.sent[FarOf(x)], v.rcvd[x])
    BY <2>2, <2>3, <2>4 DEF SendOK
  <2>6. v.sock["device"][k].peer \notin {None, Smart}
    BY <2>1, PeerKinds
  <2>7. "R" \notin v.sock["device"][k].want /\ ~Has(v.chan["device"], OkaysTo(k))
    BY <2>1, <2>5, <2>6 DEF Sends
  <2> QED
    BY <2>2, <2>3, <2>7
<1>9. MayPush(v1, "device", p)
  BY <1>2, <1>7, <1>8 DEF MayPush
<1> QED
  BY <1>1, <1>9

\* The data of A_WRTE is written at once.
LEMMA BearDelivered ==
  ASSUME V \in Views, NEW e \in Procs, NEW w, NEW c, NEW i \in Ids, NEW d \in Data, Fits(e, w, c),
         w.sock[i].st = "live", w.sock[i].pkts = <<>>,
         NEW t, NEW wq, Bears(e, wq, Tail(c)), IsQueued(w, i, d, t, wq),
         NEW x, x = w.sock[i].end, NEW w1, w1 = Written(w, i, <<d>>)
  PROVE  Bears(e, w1, Tail(c)) /\ HasWritten(wq, w1, x) /\ IsDelivered(w, i, d, w1)
<1>1. w \in Worlds /\ w.sock[i] \in Sockets /\ SocketOK(e, w.sock[i]) /\ w.sock \in [Ids -> Sockets]
  BY FitFacts, WorldFacts
<1>2. x \in Ends
  BY <1>1 DEF SocketOK
<1>3. IsDelivered(w, i, d, w1)
  BY <1>1, <1>2, DeliveredFacts, Zenon
<1>4. /\ w1 \in Worlds /\ w1.sent = w.sent /\ w1.fin = w.fin /\ w1.next = w.next /\ w1.out = w.out
      /\ w1.freed = w.freed /\ w1.sock = w.sock /\ w1.rcvd = [w.rcvd EXCEPT ![x] = @ \o <<d>>]
  BY <1>3 DEF IsDelivered
<1>5. /\ wq.sent = w.sent /\ wq.rcvd = w.rcvd /\ wq.fin = w.fin /\ wq.next = w.next /\ wq.out = w.out
      /\ wq.freed = w.freed /\ wq.sock = [w.sock EXCEPT ![i] = t] /\ wq.sock[i] = t
  BY DEF IsQueued, Touched, SameWorldData
<1>6. w.sock = [wq.sock EXCEPT ![i] = w.sock[i]]
  BY <1>1, <1>5
<1>7. wq.sock[i].end = x /\ wq.sock[i].pkts = <<d>> /\ wq.sock[i].st = "live" /\ wq.sock[i].why = w.sock[i].why
  BY <1>5 DEF IsQueued, SameKind
<1>8. PICK s : s = w.sock[i]
  OBVIOUS
<1>9. IsWritten(wq, i, s, w1)
  <2>1. w1.sock = [wq.sock EXCEPT ![i] = s] /\ w1.sock[i] = s
    BY <1>4, <1>6, <1>8
  <2>2. \A k \in Ids \ {i} : w1.sock[k] = wq.sock[k]
    BY <1>1, <1>4, <1>5
  <2>3. w1.rcvd = [wq.rcvd EXCEPT ![wq.sock[i].end] = @ \o wq.sock[i].pkts]
    BY <1>4, <1>5, <1>7
  <2> QED
    BY <1>4, <1>5, <2>1, <2>2, <2>3 DEF IsWritten
<1>10. /\ SameKind(wq.sock[i], s) /\ SocketOK(e, s) /\ s.pkts = <<>> /\ s.why = wq.sock[i].why
       /\ wq.sock[i].st \in {"live", "closing"} /\ wq.sock[i].pkts # <<>> /\ x = wq.sock[i].end
       /\ "R" \in s.want => "R" \in wq.sock[i].want
  <2>1. <<d>> # <<>>
    OBVIOUS
  <2> QED
    BY <1>1, <1>5, <1>7, <1>8, <2>1 DEF IsQueued, SameKind
<1>11. Bears(e, w1, Tail(c)) /\ HasWritten(wq, w1, x)
  BY <1>9, <1>10, BearDrain
<1> QED
  BY <1>3, <1>11

\* What it takes: wq is the world in which the data waits, w1 the one in which
\* it was written.
Delivers(w, wq, w1, i, x) ==
  /\ x = w.sock[i].end /\ wq.sock[i].end = x /\ wq.sock[i].peer = w.sock[i].peer
  /\ wq.out = w1.out /\ wq.next = w1.next /\ w1.sock = w.sock /\ HasWritten(wq, w1, x)

\* It is answered.
LEMMA BearAnswered ==
  ASSUME V \in Views, NEW e \in Procs, NEW w, NEW c, NEW v, v = View(e, w, c), NEW i \in Ids, NEW k \in Ids,
         Receiver(e, v, w, i, k), NEW x, NEW wq, NEW w1, NEW d, Bears(e, wq, d), Bears(e, w1, d), Delivers(w, wq, w1, i, x),
         NEW w2, w2 = SendPacket(w1, Okay(i, k)), w \in Worlds, c \in Seq(Packets)
  PROVE  Bears(e, w2, d) /\ SameSeen(w1, w2)
<1> USE DEF Delivers
<1>1. PICK vq, v1 : vq = View(e, wq, d) /\ v1 = View(e, w1, d)
  OBVIOUS
<1>2. /\ Good(vq) /\ Good(v1) /\ ViewOf(e, wq, d, vq) /\ ViewOf(e, w1, d, v1) /\ Fits(e, w1, d)
      /\ w1 \in Worlds /\ wq \in Worlds /\ d \in Seq(Packets) /\ ViewOf(e, w, c, v)
  BY <1>1, BearView, ViewParts, Zenon
<1>3. Change(e, wq, w1, d, vq, v1)
  BY <1>1, <1>2, ViewChange, Zenon
<1>4. /\ v1.chan = vq.chan /\ v1.link = link /\ v1.sock[e] = w.sock /\ vq.sock[e] = wq.sock
      /\ \A f \in Procs : f # e => v1.sock[f] = vq.sock[f] /\ v1.sock[f] = v.sock[f] /\ v1.next[f] = v.next[f]
      /\ v1.state = v.state
      /\ v1.sent = w1.sent /\ v1.rcvd = w1.rcvd /\ vq.sent = wq.sent /\ vq.rcvd = wq.rcvd
  BY <1>2, <1>3 DEF Change, ViewOf
<1>5. vq.sent[FarOf(x)] # vq.rcvd[x] /\ v1.sent[FarOf(x)] = v1.rcvd[x]
  BY <1>4 DEF HasWritten
<1>6. PICK p \in Packets : p = Okay(i, k)
  BY SentPackets DEF Okay
<1>7. link => MayPush(v1, Other(e), p)
  <2> SUFFICES ASSUME link PROVE MayPush(v1, Other(e), p)
    OBVIOUS
  <2>1. CASE e = "device"
    <3>1. /\ v1.sock[Other(e)] = vq.sock[Other(e)] /\ v1.link
          /\ vq.sock[e][i].peer = Remote(k) /\ v1.sock[e][i].peer = Remote(k)
          /\ x = vq.sock[e][i].end /\ x = v1.sock[e][i].end
      BY <1>4, <2>1, ProcFacts DEF Receiver
    <3> QED
      BY <1>2, <1>4, <1>5, <1>6, <3>1, OkayMay
  <2>2. CASE e = "host"
    <3>1. /\ v1.sock["device"] = vq.sock["device"] /\ v1.link
          /\ IsRemote(v1.sock["host"][i].peer) /\ x = vq.sock["host"][i].end /\ x = v1.sock["host"][i].end
          /\ v1.sock["device"][k].st = "live" => v1.sock["device"][k].peer = Remote(i)
          /\ v1.state["device"] = "connected" => k < v1.next["device"]
      BY <1>4, <2>2 DEF Procs, Receiver
    <3>2. MayPush(v1, "device", Okay(i, k))
      <4>1. Arrived(vq, v1, i, k, x)
        BY <1>4, <1>5, <3>1 DEF Arrived
      <4> QED
        BY <1>2, <4>1, WrteMay, Zenon
    <3> QED
      BY <1>6, <2>2, <3>2, ProcFacts
  <2> QED
    BY <2>1, <2>2 DEF Procs
<1>8. w2 = SendPacket(w1, p)
  BY <1>6
<1>9. Fits(e, w2, d)
  <2>1. /\ w2 \in Worlds /\ w2.next = w1.next /\ w2.out = Append(w1.out, p) /\ w2.sock = w1.sock
    BY <1>2, <1>8, SendFacts DEF SameWorldData
  <2>2. PICK n \in Ids : w1.sock[i].peer = Remote(n)
    BY DEF Receiver, IsRemote
  <2>3. /\ e = "host" => Known(View(e, w1, d), i)
        /\ e = "device" => Known(View(e, w1, d), n) /\ n = k
    BY <1>2, <2>2, FitKnown, PeerKinds DEF Receiver
  <2>4. p.cmd = "OKAY" /\ p.arg0 = i /\ p.arg1 = k
    BY <1>6 DEF Okay
  <2>5. /\ p.cmd # "SYNC"
        /\ e = "device" => /\ p.cmd # "OPEN"
                           /\ p.cmd \in {"OKAY", "WRTE"} => Known(View(e, w1, d), p.arg1)
                           /\ p.cmd = "WRTE" => \E m \in Ids : w1.sock[m].peer = Remote(p.arg1)
        /\ e = "host" /\ p.cmd \in {"OPEN", "OKAY", "WRTE"} => Known(View(e, w1, d), p.arg0)
    BY <2>3, <2>4
  <2> QED
    BY <1>2, <2>1, <2>5, FitPush, Zenon
<1> QED
  BY <1>1, <1>7, <1>8, <1>9, BearPush DEF SameSeen

\* A_WRTE arrives for an open socket.
LEMMA BearWrte ==
  ASSUME V \in Views, NEW e \in Procs, NEW w, NEW c, Bears(e, w, c), Unseen(w), c # <<>>,
         NEW i \in Ids, NEW k \in Ids, NEW d \in Data,
         Head(c).cmd = "WRTE", Head(c).arg0 = k, Head(c).arg1 = i, Head(c).data = d, w.sock[i].st = "live",
         NEW res \in WriteResults, NEW q, q = Enqueue(w, i, d, res),
         NEW w2, w2 = IF q.r = 0 THEN SendPacket(q.w, Okay(i, k)) ELSE q.w
  PROVE  Bears(e, w2, Tail(c)) /\ Permitted(w2)
<1>1. PICK v : v = View(e, w, c)
  OBVIOUS
<1>2. w \in Worlds /\ c \in Seq(Packets) /\ Fits(e, w, c)
  BY <1>1, BearView
<1>3. Receiver(e, v, w, i, k)
  BY <1>1, WrteHead
<1>4. PICK t, wq : t = Queued(w.sock[i], d) /\ wq = [w EXCEPT !.sock[i] = t]
  OBVIOUS
<1>5. Bears(e, wq, Tail(c)) /\ IsQueued(w, i, d, t, wq)
  <2>1. w.sock[i].pkts = <<>> /\ IsRemote(w.sock[i].peer)
    BY <1>3 DEF Receiver
  <2> QED
    BY <1>4, <2>1, BearQueued, Zenon
<1>6. CASE q.r = 1 /\ q.w = [w EXCEPT !.sock[i] = Queued(w.sock[i], d)]
  <2>1. w2 = wq
    BY <1>4, <1>6
  <2>2. wq.sent = w.sent /\ wq.rcvd = w.rcvd /\ wq.fin = w.fin
    BY <1>5 DEF IsQueued, Touched, SameWorldData
  <2> QED
    BY <1>5, <2>1, <2>2 DEF Unseen, Permitted, SentBy, RcvdBy, FinBy
<1>7. CASE q.r = 1 /\ q.w = Close(w, i, "own")
  <2>1. PICK y \in Promise!Closed : y = "own"
    BY DEF Promise!Closed
  <2>2. w2 = Close(w, i, y) /\ y # "peer"
    BY <1>7, <2>1
  <2>3. Bears(e, w2, c) /\ Faded(w, w2) /\ w2.sock[i].st \in {"closing", "gone"}
    BY <2>2, BearClose
  <2>4. Bears(e, w2, Tail(c))
    BY <2>3, BearPop
  <2>5. Moved(w)
    BY DEF Unseen, Moved, SentBy, RcvdBy
  <2> QED
    BY <2>3, <2>4, <2>5, MovedFades
<1>8. CASE q.r = 0 /\ q.w = Written(w, i, <<d>>)
  <2>1. PICK w1, x : w1 = Written(w, i, <<d>>) /\ x = w.sock[i].end
    OBVIOUS
  <2>2. Bears(e, w1, Tail(c)) /\ HasWritten(wq, w1, x) /\ IsDelivered(w, i, d, w1)
    <3>1. w.sock[i].pkts = <<>>
      BY <1>3 DEF Receiver
    <3> QED
      BY <1>2, <1>5, <2>1, <3>1, BearDelivered, Zenon
  <2>3. /\ w1.sock = w.sock /\ w1.next = w.next /\ w1.out = w.out /\ w1.sent = w.sent /\ w1.fin = w.fin
    BY <2>2 DEF IsDelivered
  <2>4. w2 = SendPacket(w1, Okay(i, k))
    BY <1>8, <2>1
  <2>5. /\ wq.sock[i].end = x /\ wq.sock[i].peer = w.sock[i].peer /\ wq.out = w1.out /\ wq.next = w1.next
        /\ wq.rcvd = w.rcvd
    BY <1>5, <2>1, <2>3 DEF IsQueued, Touched, SameWorldData, SameKind
  <2>6. Bears(e, w2, Tail(c)) /\ SameSeen(w1, w2)
    <3>1. PICK f : f = Tail(c)
      OBVIOUS
    <3>2. Bears(e, wq, f) /\ Bears(e, w1, f)
      BY <1>5, <2>2, <3>1
    <3>3. Delivers(w, wq, w1, i, x)
      BY <2>1, <2>2, <2>3, <2>5 DEF Delivers
    <3>4. Bears(e, w2, f) /\ SameSeen(w1, w2)
      BY <1>1, <1>2, <1>3, <2>4, <3>2, <3>3, BearAnswered, Zenon
    <3> QED
      BY <3>1, <3>4
  <2>7. Permitted(w1)
    <3>1. w.fin[x] = "open" /\ x \in Ends
      BY <2>1, BearEnd
    <3>2. /\ \E f \in Data : w1.rcvd[x] = Append(w.rcvd[x], f)
          /\ \A y \in Ends : y # x => w1.rcvd[y] = w.rcvd[y]
      BY <2>2, <2>5 DEF HasWritten
    <3> QED
      BY <2>3, <3>1, <3>2, WroteFacts
  <2> QED
    BY <2>6, <2>7 DEF SameSeen, Permitted, SentBy, RcvdBy, FinBy
<1> QED
  BY <1>2, <1>6, <1>7, <1>8, EnqueueCases

\* A_WRTE arrives.
LEMMA WrteCarries ==
  ASSUME AdbInd, Carried(V), NEW e \in Procs, HandleWrte(e)
  PROVE  CarriesOn
<1>1. Arrives(e, "WRTE") /\ UNCHANGED <<online, state, leaving, linkVars>>
  BY DEF HandleWrte
<1>2. PICK w, c, p : w = World(e) /\ c = chan[e] /\ p = Head(chan[e])
  OBVIOUS
<1>3. /\ c \in Seq(Packets) /\ c # <<>> /\ p \in Packets /\ p.cmd = "WRTE" /\ w.sock = sock[e] /\ p = Head(c)
  BY <1>1, <1>2, Arrival
<1>4. V \in Views /\ Bears(e, w, c) /\ Unseen(w)
  BY <1>2, WorldBears
<1>5. PICK i \in Ids, k \in Ids, d \in Data : i = p.arg1 /\ k = p.arg0 /\ d = p.data
  BY <1>3, PacketFacts
<1>6. CASE Target(e) = {} /\ Handled(e, World(e))
  BY <1>1, <1>2, <1>3, <1>6, IgnoredCarries
<1>7. ASSUME NEW res \in WriteResults, Target(e) # {}, NEW q, q = Enqueue(w, i, d, res), NEW w2,
             w2 = (IF q.r = 0 THEN SendPacket(q.w, Okay(i, k)) ELSE q.w), Handled(e, w2)
      PROVE  CarriesOn
  <2>1. w.sock[i].st = "live"
    BY <1>2, <1>3, <1>5, <1>7 DEF Target
  <2>2. Bears(e, w2, Tail(c)) /\ Permitted(w2)
    BY <1>3, <1>4, <1>5, <1>7, <2>1, BearWrte
  <2> QED
    BY <1>1, <1>2, <1>7, <2>2, PacketBears
<1>8. (Target(e) = {} /\ Handled(e, World(e))) \/ \E res \in WriteResults : \E q, w2 :
        /\ Target(e) # {} /\ q = Enqueue(w, i, d, res)
        /\ w2 = (IF q.r = 0 THEN SendPacket(q.w, Okay(i, k)) ELSE q.w) /\ Handled(e, w2)
  BY <1>2, <1>5 DEF HandleWrte, Okay
<1> QED
  BY <1>6, <1>7, <1>8

\* The world that a handler leaves fits, if the state after it is sound.
LEMMA FitsAfter ==
  ASSUME NEW e \in Procs, NEW w \in Worlds, NEW c \in Seq(Packets), Commit(e, w, c),
         UNCHANGED <<online, state, leaving, linkVars>>, AdbInd'
  PROVE  Fits(e, w, c)
<1>1. /\ sock' = [sock EXCEPT ![e] = w.sock] /\ next' = [next EXCEPT ![e] = w.next]
      /\ sent' = w.sent /\ rcvd' = w.rcvd /\ fin' = w.fin
      /\ chan' = [chan EXCEPT ![e] = c, ![Other(e)] = IF link THEN @ \o w.out ELSE @]
      /\ link' = link /\ online' = online /\ state' = state /\ leaving' = leaving
  BY DEF Commit, linkVars
<1>2. V' = View(e, w, c)
  BY <1>1 DEF V, View
<1>3. Sound(V')
  BY DEF AdbInd
<1> QED
  BY <1>2, <1>3 DEF Fits

\* A stream whose A_OPEN was taken: its far end has yet to open.
OpensNow(v, j) ==
  /\ j \in HostSide /\ Known(v, j)
  /\ v.fin[Far(j)] = "none" /\ v.fin[Near(j)] \notin {"none", "peer"}
  /\ ~Has(v.chan["device"], OpensOf(j))
  /\ v.sock["host"][j].st = "live" => ~Has(v.chan["host"], ClsesTo(j))

\* A_OPEN is taken.
LEMMA OpenHead ==
  ASSUME V \in Views, NEW e \in Procs, NEW w, NEW c, Bears(e, w, c), c # <<>>, Head(c).cmd = "OPEN",
         NEW j, j = Head(c).arg0, NEW v1, v1 = View(e, w, Tail(c))
  PROVE  e = "device" /\ Bears(e, w, Tail(c)) /\ OpensNow(v1, j) /\ Head(c).end = Far(j)
<1>1. PICK v : v = View(e, w, c)
  OBVIOUS
<1>2. Good(v) /\ ViewOf(e, w, c, v) /\ w \in Worlds /\ c \in Seq(Packets) /\ Fits(e, w, c)
  BY <1>1, BearView
<1>3. Bears(e, w, Tail(c))
  BY BearPop
<1>4. Good(v1) /\ ViewOf(e, w, Tail(c), v1)
  BY <1>3, BearView
<1>5. e = "device" /\ Head(c) \in Packets /\ Known(v, j)
  BY <1>1, <1>2, FitHead DEF Procs
<1>6. /\ v.chan["device"] = c /\ v1.chan["device"] = Tail(c) /\ v1.chan["host"] = v.chan["host"]
      /\ v1.fin = v.fin /\ v1.sock["host"] = v.sock["host"]
  BY <1>2, <1>4, <1>5, ProcFacts DEF ViewOf, Procs
<1>7. j \in Ids /\ Head(c) \in OpensOf(j) /\ Head(c) \in Elements(c)
  BY <1>2, <1>5, PopFacts, PacketFacts DEF OpensOf
<1>8. NamesOK(v) /\ "host" \in Procs
  BY <1>2, GoodFacts DEF Procs
<1>9. /\ j \in HostSide /\ Head(c).end = Far(j)
      /\ v.fin[Far(j)] = "none" /\ v.fin[Near(j)] \notin {"none", "peer"}
  BY <1>6, <1>7, <1>8 DEF NamesOK, ToDeviceOK
<1>10. ~Has(Tail(c), OpensOf(j))
  <2>1. AtMostOne(c, OpensOf(j))
    BY <1>6, <1>7, <1>8 DEF NamesOK
  <2> QED
    BY <1>2, <1>7, <2>1, PopFacts
<1>11. v.sock["host"][j].st = "live" => ~Has(v.chan["host"], ClsesTo(j))
  <2>1. RecvOK(v, "host", j)
    BY <1>2, <1>7, <1>8, GoodFacts
  <2>2. Opens(v, "host", j)
    BY <1>6, <1>7 DEF Opens, Has
  <2> QED
    BY <2>1, <2>2 DEF RecvOK, Receives
<1>12. Known(v1, j)
  BY <1>5, <1>6 DEF Known
<1> QED
  BY <1>3, <1>5, <1>6, <1>9, <1>10, <1>11, <1>12 DEF OpensNow

\* The A_CLSE that refuses a stream may be sent.
LEMMA RefuseMay ==
  ASSUME NEW v, Good(v), NEW j, OpensNow(v, j), NEW p \in Packets, p = Clse(j)
  PROVE  MayPush(v, "host", p)
<1>1. p.cmd = "CLSE" /\ p.arg1 = j
  BY DEF Clse
<1>2. j \in HostSide /\ j \in Ids /\ Known(v, j) /\ FarOf(Near(j)) = Far(j) /\ Near(j) \in Ends /\ "host" \in Procs
  BY SideFacts DEF OpensNow, Procs
<1>3. ASSUME v.sock["host"][j].st = "live"
      PROVE  /\ v.fin[FarOf(v.sock["host"][j].end)] # "open" /\ ~Opens(v, "host", j)
             /\ v.sent[FarOf(v.sock["host"][j].end)] = v.rcvd[v.sock["host"][j].end]
  <2>1. EndOK(v, "host", j) /\ SocketOK("host", v.sock["host"][j]) /\ SeenOK(v, Near(j)) /\ SeenOK(v, Far(j))
    BY <1>2, GoodFacts, SideFacts
  <2>2. ~IsLocal(v.sock["host"][j].peer)
    BY <1>2, <1>3, <2>1 DEF SocketOK, LiveOK, Known
  <2>3. v.sock["host"][j].end = Near(j)
    <3>1. \A k \in HostSide : v.sock["host"][j].peer # Local(k)
      BY <2>2, SideFacts DEF IsLocal
    <3> QED
      BY <1>3, <2>1, <3>1 DEF EndOK
  <2>4. v.fin[Far(j)] = "none" /\ ~Has(v.chan["device"], OpensOf(j))
    BY DEF OpensNow
  <2>5. v.sent[Far(j)] = <<>>
    BY <2>1, <2>4 DEF SeenOK
  <2>6. v.rcvd[Near(j)] \in Seq(Data)
    BY <1>2, GoodFacts
  <2>7. v.rcvd[Near(j)] = v.sent[Far(j)]
    <3>1. v.rcvd[Near(j)] = v.sent[Far(j)] \/ \E d \in Data : v.sent[Far(j)] = Append(v.rcvd[Near(j)], d)
      BY <1>2, <2>1 DEF SeenOK
    <3> QED
      BY <2>5, <2>6, <3>1, Longer
  <2> QED
    BY <1>2, <2>3, <2>4, <2>7 DEF Opens
<1>4. ToHostOK(v, p)
  BY <1>1, <1>2 DEF ToHostOK
<1> QED
  BY <1>1, <1>3, <1>4 DEF MayPush

\* The far end of a stream opens, with its A_OKAY on its way.
Accepts(w, x, t, y, w2) ==
  /\ w2 \in Worlds /\ w2.sent = w.sent /\ w2.rcvd = w.rcvd /\ w2.out = Append(w.out, y)
  /\ w2.next = w.next + 1 /\ w2.sock = [w.sock EXCEPT ![w.next] = t]
  /\ w2.fin = [w.fin EXCEPT ![x] = "open"]
NewFar(t, j) == t.st = "live" /\ t.peer = Remote(j) /\ t.end = Far(j) /\ t.pkts = <<>>

\* The device accepts a stream.
LEMMA BearAccepted ==
  ASSUME V \in Views, NEW e \in Procs, e = "device", online[e], NEW w, NEW d, Bears(e, w, d), Unseen(w),
         NEW v, v = View(e, w, d), NEW j, OpensNow(v, j), NEW n \in Ids, n = w.next,
         NEW t, NewFar(t, j), NEW y \in Packets, y = Okay(n, j), NEW w2, Accepts(w, Far(j), t, y, w2), Fits(e, w2, d)
  PROVE  Bears(e, w2, d) /\ Permitted(w2)
<1>1. PICK v2 : v2 = View(e, w2, d)
  OBVIOUS
<1>2. Good(v) /\ ViewOf(e, w, d, v) /\ w \in Worlds /\ d \in Seq(Packets)
  BY BearView
<1>3. /\ w2 \in Worlds /\ w2.sent = w.sent /\ w2.rcvd = w.rcvd /\ w2.out = Append(w.out, y) /\ w2.next = n + 1
      /\ w2.sock = [w.sock EXCEPT ![n] = t] /\ w2.fin = [w.fin EXCEPT ![Far(j)] = "open"]
  BY DEF Accepts
<1>4. Change(e, w, w2, d, v, v2)
  BY <1>1, <1>2, <1>3, ViewChange, Zenon
<1>5. Other(e) = "host" /\ "host" \in Procs /\ "device" \in Procs /\ "host" # "device"
  BY ProcFacts DEF Procs
<1>6. /\ SameRest(v, v2) /\ v2.next = [v.next EXCEPT !["device"] = n + 1] /\ v.next["device"] = n
      /\ v2.sent = v.sent /\ v2.rcvd = v.rcvd /\ v2.fin = [v.fin EXCEPT ![Far(j)] = "open"] /\ v.fin = w.fin
      /\ v.sock["device"] = w.sock /\ v2.sock["device"] = w2.sock
      /\ \A f \in Procs : f # "device" => v2.sock[f] = v.sock[f]
      /\ v2.chan = IF v.link THEN [v.chan EXCEPT !["host"] = Append(@, y)] ELSE v.chan
  <2>1. /\ SameRest(v, v2) /\ v2.next = [v.next EXCEPT ![e] = n + 1] /\ v.next[e] = n
        /\ v2.sent = v.sent /\ v2.rcvd = v.rcvd /\ v2.fin = w2.fin /\ v.fin = w.fin
        /\ v.sock[e] = w.sock /\ v2.sock[e] = w2.sock
        /\ \A f \in Procs : f # e => v2.sock[f] = v.sock[f]
    BY <1>3, <1>4 DEF Change
  <2>2. v2.chan = IF v.link THEN [v.chan EXCEPT ![Other(e)] = Append(@, y)] ELSE v.chan
    BY <1>3, <1>4 DEF Change
  <2>3. v2.chan = IF v.link THEN [v.chan EXCEPT !["host"] = Append(@, y)] ELSE v.chan
    BY <1>5, <2>2
  <2> QED
    BY <1>3, <2>1, <2>3
<1>7. w.sock \in [Ids -> Sockets] /\ w.fin \in [Ends -> Promise!Fins] /\ v.chan \in [Procs -> Seq(Packets)]
  BY <1>2, WorldFacts, GoodFacts, ViewFacts
<1>8. w2.sock[n] = t /\ \A k \in Ids : k # n => w2.sock[k] = w.sock[k]
  BY <1>3, <1>7
<1>9. OneSocket(v, v2, "device", n, t)
  BY <1>6, <1>8 DEF OneSocket
<1>10. /\ v2.chan["device"] = v.chan["device"]
       /\ v2.chan["host"] = IF v.link THEN Append(v.chan["host"], Okay(n, j)) ELSE v.chan["host"]
  BY <1>5, <1>6, <1>7
<1>11. NextUp(v, v2, "device", n) /\ FinOpens(v, v2, Far(j)) /\ n = v.next["device"]
  BY <1>6 DEF NextUp, FinOpens
<1>12. v.state["device"] = "connected"
  <2>1. LinkOK(v, "device") /\ v.online = online
    BY <1>2, <1>5, GoodFacts DEF Sound, ViewOf
  <2> QED
    BY <2>1 DEF LinkOK
<1>13. /\ j \in HostSide /\ Known(v, j) /\ v.fin[Far(j)] = "none" /\ v.fin[Near(j)] \notin {"none", "peer"}
       /\ ~Has(v.chan["device"], OpensOf(j))
       /\ v.sock["host"][j].st = "live" => ~Has(v.chan["host"], ClsesTo(j))
  BY DEF OpensNow
<1>14. t.st = "live" /\ t.peer = Remote(j) /\ t.end = Far(j) /\ t.pkts = <<>>
  BY DEF NewFar
<1>15. Carried(v2)
  <2>1. SameRest(v, v2) /\ v2.sent = v.sent /\ v2.rcvd = v.rcvd
    BY <1>6
  <2> QED
    BY <1>2, <1>9, <1>10, <1>11, <1>12, <1>13, <1>14, <2>1, OpenGood, SMTT(60)
<1>16. Bears(e, w2, d)
  BY <1>1, <1>15, BearIs
<1>17. Permitted(w2)
  <2>1. PICK x \in Ends : x = Far(j)
    BY <1>13, SideFacts
  <2>2. fin[x] = "none" /\ fin[Near(j)] \notin {"none", "peer"} /\ Promise!Opposite(x) = Near(j)
    BY <1>6, <1>13, <2>1 DEF Unseen, Near, Far, Promise!Opposite
  <2>3. Promise!CanOpen(x)
    BY <2>2 DEF Promise!CanOpen
  <2>4. w2.fin[x] = "open" /\ \A z \in Ends : z # x => w2.fin[z] = fin[z]
    BY <1>3, <1>7, <2>1 DEF Unseen
  <2>5. w2.sent = sent /\ w2.rcvd = rcvd
    BY <1>3 DEF Unseen
  <2> QED
    BY <2>3, <2>4, <2>5 DEF Permitted, SentBy, RcvdBy, FinBy
<1> QED
  BY <1>16, <1>17

\* A_OPEN arrives.
LEMMA OpenCarries ==
  ASSUME AdbInd, Carried(V), NEW e \in Procs, HandleOpen(e)
  PROVE  CarriesOn
<1>1. Arrives(e, "OPEN") /\ UNCHANGED <<online, state, leaving, linkVars>>
  BY DEF HandleOpen
<1>2. PICK w, c, d, p : w = World(e) /\ c = chan[e] /\ p = Head(chan[e]) /\ d = Tail(chan[e])
  OBVIOUS
<1>3. /\ c \in Seq(Packets) /\ c # <<>> /\ p \in Packets /\ p.cmd = "OPEN" /\ p = Head(c) /\ d = Tail(c)
      /\ d \in Seq(Packets)
  <2>1. /\ c \in Seq(Packets) /\ c # <<>> /\ p \in Packets /\ p.cmd = "OPEN" /\ p = Head(c) /\ d = Tail(c)
    BY <1>1, <1>2, Arrival
  <2> QED
    BY <2>1, PopFacts
<1>4. V \in Views /\ Bears(e, w, c) /\ Unseen(w) /\ w \in Worlds /\ w.next = next[e] /\ w.out = <<>>
  BY <1>1, <1>2, WorldBears, Arrival
<1>5. PICK j : j = p.arg0
  OBVIOUS
<1>6. PICK v : v = View(e, w, d)
  OBVIOUS
<1>7. e = "device" /\ Bears(e, w, d) /\ OpensNow(v, j) /\ p.end = Far(j)
  BY <1>3, <1>4, <1>5, <1>6, OpenHead
<1>8. j \in Ids /\ j \in HostSide /\ Far(j) \in Ends /\ Other(e) = "host" /\ Good(v) /\ Fits(e, w, d)
  BY <1>4, <1>6, <1>7, SideFacts, ProcFacts, BearView DEF OpensNow
<1>9. Permitted(w)
  BY <1>4 DEF Unseen, Permitted, SentBy, RcvdBy, FinBy
<1>10. CASE Handled(e, w)
  BY <1>1, <1>2, <1>7, <1>9, <1>10, PacketBears
<1>11. CASE Handled(e, SendPacket(w, [cmd |-> "CLSE", arg0 |-> 0, arg1 |-> j]))
  <2>1. PICK y \in Packets : y = Clse(j)
    BY <1>8, SentPackets DEF Clse
  <2>2. PICK w2 : w2 = SendPacket(w, y)
    OBVIOUS
  <2>3. /\ w2 \in Worlds /\ w2.next = w.next /\ w2.out = Append(w.out, y) /\ w2.sock = w.sock
    BY <1>4, <2>2, SendFacts DEF SameWorldData
  <2>4. /\ y.cmd # "SYNC"
        /\ e = "device" => /\ y.cmd # "OPEN"
                           /\ y.cmd \in {"OKAY", "WRTE"} => Known(View(e, w, d), y.arg1)
                           /\ y.cmd = "WRTE" => \E n \in Ids : w.sock[n].peer = Remote(y.arg1)
        /\ e # "host"
    BY <1>7, <2>1 DEF Clse
  <2>5. Fits(e, w2, d)
    BY <1>4, <1>8, <2>3, <2>4, FitPush, Zenon
  <2>6. MayPush(v, Other(e), y)
    BY <1>7, <1>8, <2>1, RefuseMay
  <2>7. Bears(e, w2, d) /\ w2.sent = w.sent /\ w2.rcvd = w.rcvd /\ w2.fin = w.fin
    BY <1>4, <1>6, <1>7, <2>2, <2>5, <2>6, BearPush
  <2>8. Permitted(w2)
    BY <1>9, <2>7 DEF Permitted, SentBy, RcvdBy, FinBy
  <2>9. Handled(e, w2)
    BY <1>11, <2>1, <2>2 DEF Clse
  <2> QED
    BY <1>1, <1>2, <2>7, <2>8, <2>9, PacketBears
<1>12. ASSUME online[e], w.next <= MaxId(e),
              Handled(e, SendPacket(Create(w, Far(j), Remote(j), {"R"}, FALSE),
                                    [cmd |-> "OKAY", arg0 |-> w.next, arg1 |-> j]))
       PROVE  CarriesOn
  <2>1. PICK n \in Ids : n = w.next
    <3>1. w.next \in Nat \ {0} /\ MaxId(e) \in Nat
      BY <1>4, WorldFacts, BoundsAssumption DEF MaxId
    <3>2. w.next \in 1..MaxId(e)
      BY <1>12, <3>1
    <3> QED
      BY <3>2 DEF MaxId, Ids
  <2>2. PICK x \in Ends, pr \in Peers, want \in SUBSET {"R", "W"}, tr \in BOOLEAN :
          x = Far(j) /\ pr = Remote(j) /\ want = {"R"} /\ tr = FALSE
    BY <1>8, PeerKinds
  <2>3. PICK y \in Packets : y = Okay(n, j)
    BY <1>8, SentPackets DEF Okay
  <2>4. PICK wc, t : wc = Create(w, x, pr, want, tr) /\ t = New(x, pr, want, tr)
    OBVIOUS
  <2>5. IsCreated(w, x, New(x, pr, want, tr), wc)
    BY <1>4, <2>1, <2>4, CreateFacts, Zenon
  <2>6. IsCreated(w, x, t, wc) /\ IsNew(t, x, pr, want, tr)
    BY <2>4, <2>5, NewSocket, Zenon
  <2>7. PICK w2 : w2 = SendPacket(wc, y)
    OBVIOUS
  <2>8. Accepts(w, Far(j), t, y, w2)
    <3>1. wc \in Worlds
      BY <2>6 DEF IsCreated
    <3>2. /\ w2 \in Worlds /\ SameWorldData(wc, w2) /\ w2.sock = wc.sock /\ w2.fin = wc.fin
          /\ w2.out = Append(wc.out, y)
      BY <2>7, <3>1, SendFacts
    <3> QED
      BY <2>2, <2>6, <3>2 DEF IsCreated, SameWorldData, Accepts
  <2>9. NewFar(t, j)
    BY <2>2, <2>6 DEF IsNew, NewFar
  <2>10. Handled(e, w2)
    BY <1>12, <2>1, <2>2, <2>3, <2>4, <2>7 DEF Okay
  <2>11. Fits(e, w2, d)
    <3>1. AdbInd'
      BY OpenKeeps
    <3>2. Commit(e, w2, d)
      BY <1>2, <2>10 DEF Handled
    <3>3. w2 \in Worlds
      BY <2>8 DEF Accepts
    <3> QED
      BY <1>1, <1>3, <3>1, <3>2, <3>3, FitsAfter
  <2>12. Bears(e, w2, d) /\ Permitted(w2)
    BY <1>4, <1>6, <1>7, <1>12, <2>1, <2>3, <2>8, <2>9, <2>11, BearAccepted
  <2> QED
    BY <1>1, <1>2, <2>10, <2>12, PacketBears
<1>13. \/ Handled(e, w)
       \/ Handled(e, SendPacket(w, [cmd |-> "CLSE", arg0 |-> 0, arg1 |-> j]))
       \/ /\ online[e] /\ w.next <= MaxId(e)
          /\ Handled(e, SendPacket(Create(w, Far(j), Remote(j), {"R"}, FALSE),
                                   [cmd |-> "OKAY", arg0 |-> w.next, arg1 |-> j]))
  BY <1>2, <1>5, <1>7 DEF HandleOpen
<1> QED
  BY <1>10, <1>11, <1>12, <1>13

\* A step of a handler after which the streams are carried on.
LEMMA SeenStep ==
  ASSUME V \in Views, NEW e \in Procs, NEW w \in Worlds, NEW c, Permitted(w), Commit(e, w, c),
         NEW v2, v2 = V', Carried(v2)
  PROVE  CarriesOn
<1>1. sent' = w.sent /\ rcvd' = w.rcvd /\ fin' = w.fin
  BY DEF Commit
<1>2. v2.sent = w.sent /\ v2.rcvd = w.rcvd /\ v2.fin = w.fin
  BY <1>1 DEF V
<1>3. Promise!StreamNext
  BY <1>1, <1>2, KeptStep
<1> QED
  BY <1>3 DEF CarriesOn

\* The packet that changes the flags of a process is taken.
LEMMA FlagBears ==
  ASSUME AdbInd, NEW e \in Procs, NEW w, Bears(e, w, chan[e]), Permitted(w), chan[e] # <<>>, Handled(e, w),
         UNCHANGED linkVars, NEW up \in BOOLEAN, NEW leaves \in BOOLEAN, FlagsSet(e, up, leaves),
         \/ Head(chan[e]).cmd = "SYNC" /\ ~up
         \/ Head(chan[e]).cmd = "CNXN" /\ up
  PROVE  CarriesOn
<1>1. PICK c : c = chan[e]
  OBVIOUS
<1>2. PICK v, v2 : v = View(e, w, chan[e]) /\ v2 = V'
  OBVIOUS
<1>3. V \in Views
  BY DEF AdbInd, Sound
<1>4. Good(v) /\ w \in Worlds /\ c \in Seq(Packets) /\ Fits(e, w, chan[e]) /\ ViewOf(e, w, c, v)
  BY <1>1, <1>2, <1>3, BearView
<1>5. Popped(e, w, v, v2, up, leaves)
  BY <1>2, <1>4, FlagPop, Zenon
<1>6. Commit(e, w, Tail(c))
  BY <1>1 DEF Handled
<1>7. /\ v2.sock = v.sock /\ v2.next = v.next /\ v2.link = v.link
      /\ v2.state[e] = (IF up THEN "connected" ELSE "offline")
      /\ \A f \in Procs : f # e => v2.state[f] = v.state[f]
      /\ v2.chan = [v.chan EXCEPT ![e] = Tail(@)]
  BY <1>5 DEF Popped, Flags
<1>8. SameSeen(v, v2)
  <2>1. v2.sent = w.sent /\ v2.rcvd = w.rcvd /\ v2.fin = w.fin
    BY <1>2, <1>6 DEF V, Commit
  <2> QED
    BY <1>4, <2>1 DEF ViewOf, SameSeen
<1>9. v.chan \in [Procs -> Seq(Packets)] /\ Other(e) \in Procs /\ Other(e) # e /\ v.chan[e] = c
  BY <1>4, GoodFacts, ViewFacts, ProcFacts DEF ViewOf
<1>10. v2.chan[e] = Tail(v.chan[e]) /\ v2.chan[Other(e)] = v.chan[Other(e)] /\ v.chan[e] # <<>>
  BY <1>1, <1>7, <1>9
<1>11. Head(v.chan[e]).cmd = "SYNC" => ~v.link
  <2>1. LinkOK(v, e) /\ Head(v.chan[e]) \in Packets /\ Head(v.chan[e]) \in Elements(v.chan[e])
    BY <1>4, <1>9, <1>10, GoodFacts, PopFacts DEF Sound
  <2> QED
    BY <2>1, PacketFacts DEF LinkOK
<1>12. Head(v.chan[e]).cmd \notin {"OKAY", "CLSE", "WRTE"}
  BY <1>1, <1>9
<1>13. \/ /\ v2.state["device"] = v.state["device"] \/ (v2.state["device"] = "offline" /\ ~v.link)
          /\ e = "device" => Head(v.chan[e]).cmd # "CNXN"
       \/ e = "device" /\ Head(v.chan[e]).cmd = "CNXN" /\ v2.state["device"] = "connected"
  BY <1>1, <1>7, <1>9, <1>11 DEF Procs
<1>14. Carried(v2)
  BY <1>4, <1>7, <1>8, <1>10, <1>12, <1>13, PopGood
<1> QED
  BY <1>2, <1>3, <1>4, <1>6, <1>14, SeenStep

\* The sockets that are connected to the other side are closed.
LEMMA BearOffline ==
  ASSUME AdbInd, Carried(V), NEW e \in Procs, NEW w, w = World(e), NEW w2, w2 = Disconnect(w, OverTransport(w))
  PROVE  Bears(e, w2, chan[e]) /\ Permitted(w2)
<1>1. V \in Views /\ Bears(e, w, chan[e]) /\ Unseen(w)
  BY WorldBears
<1>2. Moved(w) /\ Fits(e, w, chan[e])
  BY <1>1 DEF Unseen, Moved, SentBy, RcvdBy, Bears
<1>3. PICK lost : lost = OverTransport(w)
  OBVIOUS
<1>4. lost \in SUBSET Ids /\ \A i \in lost : w.sock[i].st = "live" /\ ~IsLocal(w.sock[i].peer)
  BY <1>1, <1>2, <1>3, OverFacts
<1>5. Bears(e, w2, chan[e]) /\ Faded(w, w2)
  BY <1>1, <1>3, <1>4, BearCut
<1> QED
  BY <1>2, <1>5, MovedFades

\* A_SYNC arrives: the transport is offline.
LEMMA SyncCarries ==
  ASSUME AdbInd, Carried(V), NEW e \in Procs, HandleSync(e)
  PROVE  CarriesOn
<1>1. Arrives(e, "SYNC") /\ UNCHANGED linkVars
  BY DEF HandleSync
<1>2. chan[e] # <<>> /\ Head(chan[e]).cmd = "SYNC"
  BY <1>1, Arrival
<1>3. PICK w, w2 : w = World(e) /\ w2 = Disconnect(w, OverTransport(w))
  OBVIOUS
<1>4. Bears(e, w2, chan[e]) /\ Permitted(w2)
  BY <1>3, BearOffline
<1>5. Handled(e, w2)
  BY <1>3 DEF HandleSync
<1>6. PICK up \in BOOLEAN, leaves \in BOOLEAN : up = FALSE /\ leaves = TRUE
  OBVIOUS
<1>7. FlagsSet(e, up, leaves)
  BY <1>6 DEF HandleSync, FlagsSet
<1> QED
  BY <1>1, <1>2, <1>4, <1>5, <1>6, <1>7, FlagBears

\* A_CNXN arrives: the transport is online again.
LEMMA CnxnCarries ==
  ASSUME AdbInd, Carried(V), NEW e \in Procs, HandleCnxn(e)
  PROVE  CarriesOn
<1>1. Arrives(e, "CNXN") /\ UNCHANGED linkVars
  BY DEF HandleCnxn
<1>2. chan[e] # <<>> /\ Head(chan[e]).cmd = "CNXN" /\ V \in Views
  BY <1>1, Arrival
<1>3. PICK w, w1 : w = World(e) /\ w1 = IF state[e] = "offline" THEN w ELSE Disconnect(w, OverTransport(w))
  OBVIOUS
<1>4. Bears(e, w1, chan[e]) /\ Permitted(w1)
  <2>1. CASE state[e] = "offline"
    <3>1. Bears(e, w, chan[e]) /\ Unseen(w)
      BY <1>3, WorldBears
    <3>2. Permitted(w)
      BY <3>1 DEF Unseen, Permitted, SentBy, RcvdBy, FinBy
    <3> QED
      BY <1>3, <2>1, <3>1, <3>2
  <2>2. CASE state[e] # "offline"
    BY <1>3, <2>2, BearOffline
  <2> QED
    BY <2>1, <2>2
<1>5. PICK w2 : w2 = IF e = "host" THEN w1 ELSE SendPacket(w1, Cnxn)
  OBVIOUS
<1>6. Bears(e, w2, chan[e]) /\ Permitted(w2)
  <2>1. CASE e = "host"
    BY <1>4, <1>5, <2>1
  <2>2. CASE e # "host"
    <3>1. PICK p \in Packets : p = Cnxn
      BY PacketFacts
    <3>2. p.cmd = "CNXN" /\ w2 = SendPacket(w1, p) /\ Fits(e, w1, chan[e]) /\ w1 \in Worlds
      BY <1>4, <1>5, <2>2, <3>1, PacketFacts DEF Bears, Fits
    <3>3. /\ w2 \in Worlds /\ w2.next = w1.next /\ w2.out = Append(w1.out, p) /\ w2.sock = w1.sock
      BY <3>2, SendFacts DEF SameWorldData
    <3>4. /\ p.cmd # "SYNC"
          /\ e = "device" => /\ p.cmd # "OPEN"
                             /\ p.cmd \in {"OKAY", "WRTE"} => Known(View(e, w1, chan[e]), p.arg1)
                             /\ p.cmd = "WRTE" => \E n \in Ids : w1.sock[n].peer = Remote(p.arg1)
          /\ e = "host" /\ p.cmd \in {"OPEN", "OKAY", "WRTE"} => Known(View(e, w1, chan[e]), p.arg0)
      BY <3>2
    <3>5. Fits(e, w2, chan[e])
      BY <1>2, <3>2, <3>3, <3>4, FitPush, Zenon
    <3>6. PICK v : v = View(e, w1, chan[e])
      OBVIOUS
    <3>7. Other(e) = "host"
      BY <2>2, ProcFacts DEF Procs
    <3>8. MayPush(v, Other(e), p)
      BY <3>2, <3>7 DEF MayPush, ToHostOK
    <3>9. Bears(e, w2, chan[e]) /\ w2.sent = w1.sent /\ w2.rcvd = w1.rcvd /\ w2.fin = w1.fin
      BY <1>2, <1>4, <3>2, <3>5, <3>6, <3>8, BearPush
    <3> QED
      BY <1>4, <3>9 DEF Permitted, SentBy, RcvdBy, FinBy
  <2> QED
    BY <2>1, <2>2
<1>7. Handled(e, w2)
  BY <1>3, <1>5 DEF HandleCnxn, Cnxn
<1>8. leaving \in [Procs -> BOOLEAN]
  BY <1>2 DEF Views, V
<1>9. PICK up \in BOOLEAN, leaves \in BOOLEAN : up = TRUE /\ leaves = leaving[e]
  BY <1>8
<1>10. FlagsSet(e, up, leaves)
  <2>1. /\ online' = [online EXCEPT ![e] = TRUE] /\ state' = [state EXCEPT ![e] = "connected"]
        /\ leaving' = leaving
    BY DEF HandleCnxn
  <2>2. leaving = [leaving EXCEPT ![e] = leaves]
    BY <1>8, <1>9
  <2> QED
    BY <1>9, <2>1, <2>2 DEF FlagsSet
<1> QED
  BY <1>1, <1>2, <1>6, <1>7, <1>9, <1>10, FlagBears

\* The input thread leaves, and closes what still uses the transport.
LEMMA ExitCarries ==
  ASSUME AdbInd, Carried(V), NEW e \in Procs, InputThreadExit(e)
  PROVE  CarriesOn
<1>1. PICK w, c : w = World(e) /\ c = chan[e]
  OBVIOUS
<1>2. V \in Views /\ Bears(e, w, c) /\ Unseen(w) /\ Fits(e, w, c)
  BY <1>1, WorldBears DEF Bears
<1>3. PICK lost : lost = {i \in Ids : w.sock[i].st = "live" /\ w.sock[i].transport} \cup OverTransport(w)
  OBVIOUS
<1>4. lost \in SUBSET Ids /\ \A i \in lost : w.sock[i].st = "live" /\ ~IsLocal(w.sock[i].peer)
  <2>1. /\ OverTransport(w) \in SUBSET Ids
        /\ \A i \in OverTransport(w) : w.sock[i].st = "live" /\ ~IsLocal(w.sock[i].peer)
    BY <1>2, OverFacts
  <2>2. \A i \in Ids : w.sock[i].st = "live" /\ w.sock[i].transport => ~IsLocal(w.sock[i].peer)
    BY <1>2, FitFacts DEF SocketOK, LiveOK
  <2> QED
    BY <1>3, <2>1, <2>2
<1>5. PICK w2 : w2 = Disconnect(w, lost)
  OBVIOUS
<1>6. Bears(e, w2, c) /\ Faded(w, w2)
  BY <1>2, <1>4, <1>5, BearCut
<1>7. Permitted(w2)
  <2>1. Moved(w)
    BY <1>2 DEF Unseen, Moved, SentBy, RcvdBy
  <2> QED
    BY <1>6, <2>1, MovedFades
<1>8. /\ Commit(e, w2, c) /\ link' = link /\ online' = online /\ state' = state
  BY <1>1, <1>3, <1>5 DEF InputThreadExit, linkVars
<1>9. PICK v, v2 : v = View(e, w2, c) /\ v2 = V'
  OBVIOUS
<1>10. Good(v) /\ w2 \in Worlds
  BY <1>2, <1>6, <1>9, BearView
<1>11. /\ v2.sock = v.sock /\ v2.next = v.next /\ v2.chan = v.chan /\ v2.link = v.link
       /\ v2.state = v.state /\ v2.sent = v.sent /\ v2.rcvd = v.rcvd /\ v2.fin = v.fin
  BY <1>8, <1>9 DEF V, View, Commit
<1>12. \A f \in Procs, k \in Ids : /\ Steady(v.sock[f][k], v2.sock[f][k])
                                   /\ v2.sock[f][k].transport = v.sock[f][k].transport
  BY <1>11 DEF Steady
<1>13. Carried(v2)
  <2>1. SameSeen(v, v2)
    BY <1>11 DEF SameSeen
  <2> QED
    BY <1>10, <1>11, <1>12, <2>1, SteadyKeeps
<1> QED
  BY <1>2, <1>7, <1>8, <1>9, <1>10, <1>13, SeenStep

\* The connection is lost.
LEMMA UnplugCarries ==
  ASSUME AdbInd, Carried(V), Unplug
  PROVE  CarriesOn
<1>1. /\ link' = FALSE /\ UNCHANGED <<sock, next, state, sent, rcvd, fin>>
  BY DEF Unplug, transportVars
<1>2. PICK h \in Prefixes(chan["host"]), d \in Prefixes(chan["device"]) :
        chan' = [host |-> Append(h, Sync), device |-> Append(d, Sync)]
  BY DEF Unplug, Sync
<1>3. chan'["host"] = Append(h, Sync) /\ chan'["device"] = Append(d, Sync)
  BY <1>2
<1>4. \A e \in Procs : \E k \in Prefixes(chan[e]) : chan'[e] = Append(k, Sync)
  BY <1>2, <1>3 DEF Procs
<1>5. PICK v, v2 : v = V /\ v2 = V'
  OBVIOUS
<1>6. /\ ~v2.link /\ v2.sock = v.sock /\ v2.next = v.next /\ v2.state = v.state
      /\ SameSeen(v, v2) /\ v.chan = chan /\ v2.chan = chan' /\ Good(v)
  BY <1>1, <1>5 DEF V, SameSeen, Good, AdbInd
<1>7. CutOff(v, v2)
  BY <1>4, <1>6 DEF CutOff
<1>8. Carried(v2)
  BY <1>6, <1>7, UnplugGood, Zenon
<1> QED
  BY <1>1, <1>5, <1>8, UnseenStep

\* A connection is made anew.
LEMMA ReplugCarries ==
  ASSUME AdbInd, Carried(V), Replug
  PROVE  CarriesOn
<1>1. /\ ~link /\ chan = [e \in Procs |-> <<>>]
      /\ chan' = [chan EXCEPT !["device"] = <<Cnxn>>]
      /\ UNCHANGED <<sock, next, state, sent, rcvd, fin>>
  BY DEF Replug, transportVars, Cnxn
<1>2. chan'["host"] = <<>> /\ chan'["device"] = <<Cnxn>> /\ \A e \in Procs : chan[e] = <<>>
  BY <1>1 DEF Procs
<1>3. PICK v, v2 : v = V /\ v2 = V'
  OBVIOUS
<1>4. /\ ~v.link /\ v2.sock = v.sock /\ v2.next = v.next /\ v2.state = v.state
      /\ SameSeen(v, v2) /\ v.chan = chan /\ v2.chan = chan' /\ Good(v)
  BY <1>1, <1>3 DEF V, SameSeen, Good, AdbInd
<1>5. Carried(v2)
  BY <1>2, <1>4, ReplugGood
<1> QED
  BY <1>1, <1>3, <1>5, UnseenStep

\* adbd dies, with all its sockets: their ends are lost.
LEMMA RestartCarries ==
  ASSUME AdbInd, Carried(V), DeviceRestart
  PROVE  CarriesOn
<1>1. /\ link' = FALSE
      /\ sock' = [sock EXCEPT !["device"] = [i \in Ids |-> NoSocket]]
      /\ next' = [next EXCEPT !["device"] = 1]
      /\ state' = [state EXCEPT !["device"] = "offline"]
      /\ UNCHANGED <<sent, rcvd>>
  BY DEF DeviceRestart, Restart
<1>2. fin' = [x \in Ends |->
              IF \E i \in Ids : sock["device"][i].end = x /\ sock["device"][i].st \in {"live", "closing"}
              THEN "lost" ELSE fin[x]]
  BY DEF DeviceRestart, Restart
<1>3. PICK h \in Prefixes(chan["host"]) : chan' = [host |-> Append(h, Sync), device |-> <<>>]
  BY DEF DeviceRestart, Sync
<1>4. chan'["host"] = Append(h, Sync) /\ chan'["device"] = <<>> /\ "host" \in Procs /\ "device" \in Procs
  BY <1>3 DEF Procs
<1>5. /\ V \in Views /\ Good(V) /\ sock \in [Procs -> [Ids -> Sockets]] /\ next \in [Procs -> Nat \ {0}]
      /\ state \in [Procs -> {"offline", "connected"}] /\ freedUse \in BOOLEAN
  BY DEF AdbInd, Sound, Good, Views, V
<1>6. /\ sock'["host"] = sock["host"] /\ next'["host"] = next["host"] /\ state'["device"] = "offline"
      /\ \A k \in Ids : sock'["device"][k] = NoSocket
  BY <1>1, <1>4, <1>5
<1>7. PICK v, v2 : v = V /\ v2 = V'
  OBVIOUS
<1>8. /\ ~v2.link /\ v.sock = sock /\ v2.sock = sock' /\ v.next = next /\ v2.next = next'
      /\ v2.state = state' /\ v.chan = chan /\ v2.chan = chan' /\ Good(v)
      /\ v.fin = fin /\ v2.fin = fin' /\ v2.sent = v.sent /\ v2.rcvd = v.rcvd /\ v.sent = sent /\ v.rcvd = rcvd
  BY <1>1, <1>5, <1>7 DEF V
<1>9. \A x \in Ends : v2.fin[x] = IF \E i \in Ids : v.sock["device"][i].end = x /\ Used(v, "device", i)
                                  THEN "lost" ELSE v.fin[x]
  BY <1>2, <1>8 DEF Used
<1>10. Carried(v2)
  <2>1. \E k \in Prefixes(v.chan["host"]) : v2.chan["host"] = Append(k, Sync)
    BY <1>3, <1>4, <1>8
  <2>2. /\ v2.sock["host"] = v.sock["host"] /\ \A k \in Ids : v2.sock["device"][k] = NoSocket
        /\ v2.next["host"] = v.next["host"] /\ v2.state["device"] = "offline" /\ v2.chan["device"] = <<>>
    BY <1>4, <1>6, <1>8
  <2> QED
    BY <1>8, <1>9, <2>1, <2>2, RestartGood
<1>11. PICK w0, w : w0 = World("device") /\ w = [World("device") EXCEPT !.fin = fin']
  OBVIOUS
<1>12. w0 \in Worlds /\ w0.sent = sent /\ w0.rcvd = rcvd
  BY <1>4, <1>5, <1>11, WorldView
<1>13. fin' \in [Ends -> Promise!Fins]
  <2>1. fin \in [Ends -> Promise!Fins] /\ "lost" \in Promise!Fins
    BY <1>5 DEF Views, V, Promise!Fins, Promise!Closed
  <2> QED
    BY <1>2, <2>1
<1>14. w \in Worlds /\ w.sent = sent /\ w.rcvd = rcvd /\ w.fin = fin'
  BY <1>11, <1>12, <1>13 DEF Worlds
<1>15. Permitted(w)
  <2>1. ASSUME NEW x \in Ends, fin'[x] # fin[x]
        PROVE  fin[x] \in {"open", "ending"} /\ fin'[x] = "lost"
    <3>1. PICK i \in Ids : v.sock["device"][i].end = x /\ Used(v, "device", i) /\ fin'[x] = "lost"
      BY <1>8, <1>9, <2>1
    <3>2. EndOK(v, "device", i)
      BY <1>4, <1>8, GoodFacts
    <3> QED
      BY <1>8, <3>1, <3>2 DEF EndOK, Used
  <2> QED
    BY <1>14, <2>1 DEF Permitted, SentBy, RcvdBy, FinBy, Promise!Closed
<1>16. Promise!StreamNext
  <2>1. v2.sent = w.sent /\ v2.rcvd = w.rcvd /\ v2.fin = w.fin /\ sent' = w.sent /\ rcvd' = w.rcvd /\ fin' = w.fin
    BY <1>1, <1>8, <1>14
  <2> QED
    BY <1>5, <1>10, <1>14, <1>15, <2>1, KeptStep
<1> QED
  BY <1>7, <1>10, <1>16 DEF CarriesOn

\* At first there is nothing to carry.
LEMMA InitCarries ==
  ASSUME Init
  PROVE  Carried(V) /\ Promise!StreamInit
<1>1. /\ sock = [e \in Procs |-> [i \in Ids |-> NoSocket]] /\ state = [e \in Procs |-> "offline"]
      /\ chan = [host |-> <<>>, device |-> <<Cnxn>>] /\ Promise!StreamInit
      /\ sent = [x \in Ends |-> <<>>] /\ rcvd = [x \in Ends |-> <<>>] /\ fin = [x \in Ends |-> "none"]
  BY DEF Init, Promise!StreamInit, Ends, Cnxn
<1>2. PICK v : v = V
  OBVIOUS
<1>3. v.sock = sock /\ v.state = state /\ v.chan = chan /\ v.sent = sent /\ v.rcvd = rcvd /\ v.fin = fin
  BY <1>2 DEF V
<1>4. /\ \A e \in Procs, i \in Ids : v.sock[e][i] = NoSocket
      /\ \A x \in Ends : v.sent[x] = <<>> /\ v.rcvd[x] = <<>> /\ v.fin[x] = "none"
      /\ v.chan["host"] = <<>> /\ v.chan["device"] = <<Cnxn>> /\ v.state["device"] = "offline"
  BY <1>1, <1>3 DEF Procs
<1>5. Carried(v)
  BY <1>4, FirstGood
<1> QED
  BY <1>1, <1>2, <1>5

\* Every step carries the streams on.
LEMMA StepCarries ==
  ASSUME MaxSession = 0, AdbInd, Carried(V), [Next]_vars
  PROVE  CarriesOn
<1>1. CASE UNCHANGED vars
  <2>1. V' = V /\ sent' = sent /\ rcvd' = rcvd /\ fin' = fin
    BY <1>1 DEF vars, transportVars, linkVars, V
  <2> QED
    BY <2>1, UnseenStep
<1>2. CASE Accept
  BY <1>2, AcceptCarries
<1>3. CASE Forward
  BY <1>3, ForwardCarries
<1>4. ASSUME NEW e \in Procs, Loop(e) PROVE CarriesOn
  <2>1. CASE FdeventProcess(e)
    BY <2>1, ProcessCarries
  <2>2. CASE HandleSync(e)
    BY <2>2, SyncCarries
  <2>3. CASE HandleCnxn(e)
    BY <2>3, CnxnCarries
  <2>4. CASE HandleOpen(e)
    BY <2>4, OpenCarries
  <2>5. CASE HandleOkay(e)
    BY <2>5, OkayCarries
  <2>6. CASE HandleClse(e)
    BY <2>6, ClseCarries
  <2>7. CASE HandleWrte(e)
    BY <2>7, WrteCarries
  <2>8. ASSUME NEW i \in Ids, EventFunc(e, i) PROVE CarriesOn
    BY <2>8, EventCarries
  <2> QED
    BY <1>4, <2>1, <2>2, <2>3, <2>4, <2>5, <2>6, <2>7, <2>8 DEF Loop, HandlePacket
<1>5. ASSUME NEW e \in Procs, InputThreadExit(e) PROVE CarriesOn
  BY <1>5, ExitCarries
<1>6. CASE Unplug
  BY <1>6, UnplugCarries
<1>7. CASE Replug
  BY <1>7, ReplugCarries
<1>8. CASE HostRestart
  BY <1>8 DEF HostRestart, AdbInd
<1>9. CASE DeviceRestart
  BY <1>9, RestartCarries
<1> QED
  BY <1>1, <1>2, <1>3, <1>4, <1>5, <1>6, <1>7, <1>8, <1>9 DEF Next

\* The streams of this state.
AdbCarries == AdbInd /\ Carried(V)

\* adb keeps its promise: in every behaviour in which the host process lives
\* on, with any number of sockets, any data, lost connections and restarts of
\* adbd, each step of handle_packet, local_socket_event_func and the rest is,
\* for the programs at the ends of the streams, a step that AdbStream permits.
THEOREM StreamsCarried == MaxSession = 0 /\ Spec => StreamsKept
<1> SUFFICES ASSUME MaxSession = 0 PROVE Spec => StreamsKept
  OBVIOUS
<1>1. Init => AdbCarries /\ Promise!StreamInit
  BY InitSound, InitCarries DEF AdbCarries
<1>2. AdbCarries /\ [Next]_vars => AdbCarries'
  BY StepSound, StepCarries DEF AdbCarries, CarriesOn
<1>3. AdbCarries /\ [Next]_vars => [Promise!StreamNext]_(Promise!streamVars)
  BY StepCarries DEF AdbCarries, CarriesOn
<1> QED
  BY <1>1, <1>2, <1>3, PTL DEF Spec, StreamsKept, Promise!StreamSpec

\* In every behaviour of the sockets in which the host process lives on: what
\* arrives at an end is what was sent at the other, in order.
THEOREM SocketsInOrder == MaxSession = 0 /\ Spec => []Promise!InOrder
  BY StreamsCarried, StreamsInOrder, PTL DEF StreamsKept

\* In every behaviour of the sockets in which the host process lives on: an end
\* that was closed because the other end was has received everything.
THEOREM SocketsComplete == MaxSession = 0 /\ Spec => []Promise!CompleteWhenPeerClosed
  BY StreamsCarried, NothingTruncated, PTL DEF StreamsKept
=============================================================================
