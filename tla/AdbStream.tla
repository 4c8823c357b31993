------------------------------ MODULE AdbStream ------------------------------
(* What adb promises the two programs at the ends of a stream: a channel of *)
(* capacity one in each direction that neither loses, repeats, reorders nor *)
(* mixes up data, and that ends in an orderly way.                          *)
(*                                                                          *)
(* sent[x] and rcvd[x] are the packets adb took from, and wrote to, the     *)
(* program at end x = <<stream, side>>; fin[x] is the state of that end.    *)
EXTENDS Naturals, Sequences

CONSTANTS Streams, Data

VARIABLES sent, rcvd, fin

streamVars == <<sent, rcvd, fin>>

StreamEnds == Streams \X {"near", "far"}
Opposite(x) == <<x[1], IF x[2] = "near" THEN "far" ELSE "near">>

\* An end is not there yet; open; no longer read, but still written to; or
\* closed: by its own program, before it was connected (quit) or after,
\* because the other end was closed, or because the connection was lost.
Closed == {"own", "quit", "peer", "lost"}
Fins == {"none", "open", "ending"} \cup Closed

StreamInit ==
  /\ sent = [x \in StreamEnds |-> <<>>]
  /\ rcvd = [x \in StreamEnds |-> <<>>]
  /\ fin = [x \in StreamEnds |-> "none"]

\* The next packet is taken only when the previous one was delivered.
SendStep(x) ==
  \/ sent'[x] = sent[x]
  \/ /\ fin[x] = "open"
     /\ Len(sent[x]) = Len(rcvd[Opposite(x)])
     /\ \E d \in Data : sent'[x] = Append(sent[x], d)

DeliverStep(x) ==
  \/ rcvd'[x] = rcvd[x]
  \/ /\ fin[x] \in {"open", "ending"}
     /\ Len(rcvd[x]) < Len(sent'[Opposite(x)])
     /\ rcvd'[x] = Append(rcvd[x], sent'[Opposite(x)][Len(rcvd[x]) + 1])

\* The near end comes first, and a far end that was refused never comes.
CanOpen(x) == /\ fin[x] = "none"
              /\ x[2] = "far" => fin[Opposite(x)] \notin {"none", "peer"}

\* An end that closes because the other one did has received everything that
\* was sent to it. (It may have been opened in the same step.)
FinStep(x) ==
  \/ fin'[x] = fin[x]
  \/ CanOpen(x) /\ fin'[x] = "open"
  \/ /\ fin[x] = "open"
     /\ fin'[x] = "ending"
  \/ /\ fin[x] \in {"open", "ending"}
     /\ fin'[x] \in Closed \ {"peer"}
  \/ /\ fin[x] \in {"open", "ending"} \/ CanOpen(x)
     /\ fin'[x] = "peer"
     /\ fin'[Opposite(x)] # "open"
     /\ rcvd'[x] = sent'[Opposite(x)]

\* One step of the program can move several ends: a local service is written
\* to as soon as its client is read, and a lost connection ends every stream.
StreamNext ==
  /\ {DOMAIN sent', DOMAIN rcvd', DOMAIN fin'} = {StreamEnds}
  /\ \A x \in StreamEnds : SendStep(x) /\ DeliverStep(x) /\ FinStep(x)

StreamSpec == StreamInit /\ [][StreamNext]_streamVars

(***************************************************************************)
(* Consequences of the promise.                                            *)
(***************************************************************************)

\* What was delivered is what was sent, in order, and at most one packet is
\* under way in each direction (the WRITE/READY rule of A_WRTE and A_OKAY).
InOrder ==
  \A x \in StreamEnds : \/ rcvd[x] = sent[Opposite(x)]
                        \/ \E d \in Data : sent[Opposite(x)] = Append(rcvd[x], d)

\* An end that local_socket_close_locked closed on behalf of the other end
\* received all of it.
CompleteWhenPeerClosed ==
  \A x \in StreamEnds : fin[x] = "peer" => /\ fin[Opposite(x)] # "open"
                                           /\ rcvd[x] = sent[Opposite(x)]
=============================================================================
