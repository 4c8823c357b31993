---------------------------- MODULE WakeupProofs ----------------------------
(***************************************************************************)
(* Proofs about the two components in which a thread goes to sleep and has *)
(* to be woken in time.                                                    *)
(*                                                                         *)
(* Looper, for any number of threads, handlers, descriptors, messages and  *)
(* registrations: the types, that no wakeup is lost, and that a removed    *)
(* registration is dispatched at most once more.                           *)
(*                                                                         *)
(* Autosuspend, for any number of wakeup events: the value of the          *)
(* semaphore, that disable keeps the system awake, and that no wakeup      *)
(* event is slept over.                                                    *)
(***************************************************************************)
EXTENDS Looper, Autosuspend, TLAPS

-----------------------------------------------------------------------------
(* Looper                                                                  *)

\* A registration has a positive identifier, which no registration lacks.
LEMMA RegIds ==
    /\ \A r \in Regs : r.id \in 1..MaxRegs /\ r # NoReg
    /\ NoReg.id = 0
    /\ \A c \in [fd : Fds, reg : Regs] : c.reg \in Regs /\ c.fd \in Fds
  BY BoundsAssumption DEF Regs, NoReg

\* During a callback there is a current registration.
LEMMA CurrentReg ==
    ASSUME TypeOK, pc = "calling"
    PROVE  current.reg \in Regs /\ current.fd \in Fds
  BY RegIds, BoundsAssumption DEF TypeOK, Wake

\* Every step keeps the types.
LEMMA TypeStep ==
    ASSUME TypeOK, [Next]_vars
    PROVE  TypeOK'
<1> USE DEF TypeOK, vars, clockVars, messageVars, wakeVars, fdVars, callVars
<1>1. CASE \E t \in AllThreads, uptime \in 0..MaxTime, h \in Handlers : SendMessageAtTime(t, uptime, h)
  BY <1>1, BoundsAssumption DEF SendMessageAtTime
<1>2. CASE \E t \in AllThreads, h \in Handlers : RemoveMessages(t, h)
  BY <1>2 DEF RemoveMessages
<1>3. CASE \E t \in AllThreads : WakeCall(t)
  BY <1>3 DEF WakeCall
<1>4. CASE \E t \in AllThreads : WakeWrite(t)
  BY <1>4 DEF WakeWrite
<1>5. CASE \E t \in AllThreads, f \in Fds, cb \in BOOLEAN : AddFd(t, f, cb)
  <2>1. PICK t \in AllThreads, f \in Fds, cb \in BOOLEAN : AddFd(t, f, cb)
    BY <1>5
  <2>2. [id |-> regs + 1, callback |-> cb] \in Regs
    BY <2>1, BoundsAssumption DEF AddFd, Regs, TypeOK
  <2>3. OwnRemoved(t, f) \subseteq 1..MaxRegs
    BY RegIds, CurrentReg DEF OwnRemoved
  <2>4. requests' \in [Fds -> Regs \cup {NoReg}] /\ spent' \subseteq 1..MaxRegs
    BY <2>1, <2>2, <2>3 DEF AddFd, TypeOK
  <2>5. regs' \in 0..MaxRegs
    BY <2>1, BoundsAssumption DEF AddFd, TypeOK
  <2> QED
    BY <2>1, <2>4, <2>5 DEF AddFd, TypeOK
<1>6. CASE \E t \in AllThreads, f \in Fds : RemoveFd(t, f)
  <2>1. PICK t \in AllThreads, f \in Fds : RemoveFd(t, f)
    BY <1>6
  <2>3. OwnRemoved(t, f) \subseteq 1..MaxRegs
    BY RegIds, CurrentReg DEF OwnRemoved
  <2>4. requests' \in [Fds -> Regs \cup {NoReg}] /\ spent' \subseteq 1..MaxRegs
    BY <2>1, <2>3 DEF RemoveFd, TypeOK
  <2> QED
    BY <2>1, <2>4 DEF RemoveFd, TypeOK
<1>7. CASE \E f \in Fds : Readiness(f)
  BY <1>7 DEF Readiness
<1>8. CASE \E f \in Fds : ReturnIdent(f)
  <2>1. PICK f \in Fds : ReturnIdent(f)
    BY <1>8
  <2>2. responses[f] \in Regs
    BY <2>1 DEF ReturnIdent, Idents, TypeOK
  <2>3. responses' \in [Fds -> Regs \cup {NoReg}] /\ spent' \subseteq 1..MaxRegs
    BY <2>1, <2>2, RegIds DEF ReturnIdent, Dispatched, TypeOK
  <2>4. /\ current' \in [fd : Fds, reg : Regs] \cup {[fd |-> Wake, reg |-> NoReg]}
        /\ (current'.fd \in Fds <=> pc' = "calling")
    BY <2>1, <2>2 DEF ReturnIdent, TypeOK
  <2> QED
    BY <2>1, <2>3, <2>4 DEF ReturnIdent, TypeOK
<1>9. CASE \E timeout \in Timeouts \cup {Forever} : PollInner(timeout)
  BY <1>9, BoundsAssumption DEF PollInner, Forever, Deadline
<1>10. CASE EpollReturn
  BY <1>10 DEF EpollReturn, Wake, Reported, Registered
<1>11. CASE EpollInterrupted
  BY <1>11 DEF EpollInterrupted, Wake, Reported, Registered
<1>12. CASE HandleEvents
  BY <1>12 DEF HandleEvents
<1>13. CASE \E m \in envelopes : HandleMessage(m)
  BY <1>13 DEF HandleMessage
<1>14. CASE HandlerReturns
  BY <1>14 DEF HandlerReturns
<1>15. CASE MessagesDone
  BY <1>15, BoundsAssumption DEF MessagesDone, Forever
<1>16. CASE \E f \in Fds : StartCallback(f)
  <2>1. PICK f \in Fds : StartCallback(f)
    BY <1>16
  <2>2. responses[f] \in Regs
    BY <2>1 DEF StartCallback, Callbacks, TypeOK
  <2>3. responses' \in [Fds -> Regs \cup {NoReg}] /\ spent' \subseteq 1..MaxRegs
    BY <2>1, <2>2, RegIds DEF StartCallback, Dispatched, TypeOK
  <2>4. /\ current' \in [fd : Fds, reg : Regs] \cup {[fd |-> Wake, reg |-> NoReg]}
        /\ (current'.fd \in Fds <=> pc' = "calling")
    BY <2>1, <2>2 DEF StartCallback, TypeOK
  <2> QED
    BY <2>1, <2>3, <2>4 DEF StartCallback, TypeOK
<1>17. CASE CallbackKeeps
  <2>1. current.reg \in Regs /\ current.fd \in Fds
    BY <1>17, CurrentReg DEF CallbackKeeps
  <2>2. /\ current' \in [fd : Fds, reg : Regs] \cup {[fd |-> Wake, reg |-> NoReg]}
        /\ ~(current'.fd \in Fds) /\ pc' # "calling"
    BY <1>17, BoundsAssumption DEF CallbackKeeps, Wake
  <2>3. requests' \in [Fds -> Regs \cup {NoReg}] /\ spent' \subseteq 1..MaxRegs
    BY <1>17, <2>1, RegIds DEF CallbackKeeps, TypeOK
  <2> QED
    BY <1>17, <2>2, <2>3 DEF CallbackKeeps, TypeOK
<1>18. CASE CallbackUnregisters
  <2>1. current.reg \in Regs /\ current.fd \in Fds
    BY <1>18, CurrentReg DEF CallbackUnregisters
  <2>2. /\ current' \in [fd : Fds, reg : Regs] \cup {[fd |-> Wake, reg |-> NoReg]}
        /\ ~(current'.fd \in Fds) /\ pc' # "calling"
    BY <1>18, BoundsAssumption DEF CallbackUnregisters, Wake
  <2>3. requests' \in [Fds -> Regs \cup {NoReg}] /\ spent' \subseteq 1..MaxRegs
    BY <1>18, <2>1, RegIds DEF CallbackUnregisters, TypeOK
  <2> QED
    BY <1>18, <2>2, <2>3 DEF CallbackUnregisters, TypeOK
<1>19. CASE CallbacksDone
  BY <1>19 DEF CallbacksDone
<1>20. CASE Tick
  BY <1>20, BoundsAssumption DEF Tick
<1>21. CASE UNCHANGED vars
  BY <1>21
<1> QED
  BY <1>1, <1>2, <1>3, <1>4, <1>5, <1>6, <1>7, <1>8, <1>9, <1>10, <1>11,
     <1>12, <1>13, <1>14, <1>15, <1>16, <1>17, <1>18, <1>19, <1>20, <1>21
  DEF Next, Poll, Call

LEMMA InitType == Init => TypeOK
<1> SUFFICES ASSUME Init PROVE TypeOK
  OBVIOUS
<1>1. /\ current \in [fd : Fds, reg : Regs] \cup {[fd |-> Wake, reg |-> NoReg]}
      /\ current.fd \in Fds <=> pc = "calling"
  BY BoundsAssumption DEF Init, Wake
<1>0. /\ now \in 0..MaxTime /\ polledAt \in 0..now /\ nextUptime \in 0..Forever
      /\ sends \in 0..MaxSends /\ regs \in 0..MaxRegs
  BY BoundsAssumption DEF Init, Forever
<1>2. /\ requests \in [Fds -> Regs \cup {NoReg}]
      /\ responses \in [Fds -> Regs \cup {NoReg}]
  BY DEF Init
<1> QED
  <2>1. deadline \in Nat /\ deadline >= polledAt
    BY DEF Init
  <2>2. pipe \in BOOLEAN
    BY DEF Init
  <2>3. /\ envelopes \subseteq [uptime : 0..MaxTime, n : 1..sends, handler : Handlers]
        /\ waking \subseteq AllThreads
        /\ events \subseteq Fds \cup {Wake}
        /\ ready \subseteq Fds
        /\ spent \subseteq 1..MaxRegs
    BY DEF Init
  <2>4. pc = "idle"
    BY DEF Init
  <2> QED
    BY <1>0, <1>1, <1>2, <2>1, <2>2, <2>3, <2>4 DEF TypeOK

\* Looper's state keeps its types.
THEOREM LooperTypes == Spec => []TypeOK
  BY InitType, TypeStep, PTL DEF Spec

\* From the end of the message loop to the next epoll_wait, a message due
\* before mNextMessageUptime has a wake byte written or about to be written.
Covered ==
    pc \in {"idle", "epoll", "callbacks", "calling"} =>
        \/ pipe \/ waking # {}
        \/ \A m \in envelopes : nextUptime <= m.uptime

\* The sleep ends by mNextMessageUptime or has already ended, unless there is
\* no next message or it is too far away.
Asleep ==
    pc = "epoll" =>
        \/ deadline <= nextUptime
        \/ deadline <= polledAt
        \/ nextUptime > polledAt + MaxDelay
        \/ nextUptime = Forever

\* Every step keeps the two halves of the wakeup argument.
LEMMA WakeStep ==
    ASSUME TypeOK, TypeOK', Covered, Asleep, [Next]_vars
    PROVE  Covered' /\ Asleep'
<1> USE DEF Covered, Asleep, TypeOK, vars, clockVars, messageVars, wakeVars, fdVars, callVars
<1>1. CASE \E t \in AllThreads, uptime \in 0..MaxTime, h \in Handlers : SendMessageAtTime(t, uptime, h)
  BY <1>1 DEF SendMessageAtTime, mSendingMessage
<1>2. CASE \E t \in AllThreads, h \in Handlers : RemoveMessages(t, h)
  BY <1>2 DEF RemoveMessages
<1>3. CASE \E t \in AllThreads : WakeCall(t)
  BY <1>3 DEF WakeCall
<1>4. CASE \E t \in AllThreads : WakeWrite(t)
  BY <1>4 DEF WakeWrite
<1>5. CASE \E t \in AllThreads, f \in Fds, cb \in BOOLEAN : AddFd(t, f, cb)
  BY <1>5 DEF AddFd
<1>6. CASE \E t \in AllThreads, f \in Fds : RemoveFd(t, f)
  BY <1>6 DEF RemoveFd
<1>7. CASE \E f \in Fds : Readiness(f)
  BY <1>7 DEF Readiness
<1>8. CASE \E f \in Fds : ReturnIdent(f)
  BY <1>8 DEF ReturnIdent
<1>9. CASE \E timeout \in Timeouts \cup {Forever} : PollInner(timeout)
  BY <1>9, BoundsAssumption DEF PollInner, Deadline, Forever
<1>10. CASE EpollReturn
  BY <1>10 DEF EpollReturn
<1>11. CASE EpollInterrupted
  BY <1>11 DEF EpollInterrupted
<1>12. CASE HandleEvents
  BY <1>12 DEF HandleEvents
<1>13. CASE \E m \in envelopes : HandleMessage(m)
  BY <1>13 DEF HandleMessage
<1>14. CASE HandlerReturns
  BY <1>14 DEF HandlerReturns
<1>15. CASE MessagesDone
  BY <1>15 DEF MessagesDone, AtHead, Forever
<1>16. CASE \E f \in Fds : StartCallback(f)
  BY <1>16 DEF StartCallback
<1>17. CASE CallbackKeeps
  BY <1>17 DEF CallbackKeeps
<1>18. CASE CallbackUnregisters
  BY <1>18 DEF CallbackUnregisters
<1>19. CASE CallbacksDone
  BY <1>19 DEF CallbacksDone
<1>20. CASE Tick
  BY <1>20, BoundsAssumption DEF Tick
<1>21. CASE UNCHANGED vars
  BY <1>21
<1> QED
  BY <1>1, <1>2, <1>3, <1>4, <1>5, <1>6, <1>7, <1>8, <1>9, <1>10, <1>11,
     <1>12, <1>13, <1>14, <1>15, <1>16, <1>17, <1>18, <1>19, <1>20, <1>21
  DEF Next, Poll, Call

\* NoLostWakeup follows from the two halves.
LEMMA WakeInvImplies ==
    ASSUME TypeOK, Covered, Asleep
    PROVE  NoLostWakeup
  BY BoundsAssumption DEF TypeOK, Covered, Asleep, NoLostWakeup, Forever

\* No interleaving of a sender's enqueue and wake with the polling thread's
\* decision how long to sleep loses a wakeup.
THEOREM NoWakeupIsLost == Spec => []NoLostWakeup
<1>1. Init => TypeOK /\ Covered /\ Asleep
  BY InitType DEF Init, Covered, Asleep
<1>2. TypeOK /\ Covered /\ Asleep /\ [Next]_vars => TypeOK' /\ Covered' /\ Asleep'
  BY TypeStep, WakeStep
<1>3. TypeOK /\ Covered /\ Asleep => NoLostWakeup
  BY WakeInvImplies
<1> QED
  BY <1>1, <1>2, <1>3, PTL DEF Spec

\* Identifiers are given once: the registrations in mRequests, in mResponses
\* and under way that have the same identifier are the same registration of
\* the same descriptor, and each is pending at most once.
Unique ==
    /\ \A f \in Fds : requests[f].id <= regs /\ responses[f].id <= regs
    /\ current.reg.id <= regs
    /\ \A r \in spent : r <= regs
    /\ \A f, g \in Fds : requests[f].id # 0 /\ requests[f].id = requests[g].id => f = g
    /\ \A f, g \in Fds : responses[f].id # 0 /\ responses[f].id = responses[g].id => f = g
    /\ \A f, g \in Fds : responses[f].id # 0 /\ responses[f].id = requests[g].id
                         => f = g /\ responses[f] = requests[f]
    /\ \A f \in Fds : pc = "calling" /\ requests[f].id = current.reg.id
                         => f = current.fd /\ requests[f] = current.reg
    /\ \A f \in Fds : pc = "calling" => responses[f].id # current.reg.id

\* A registration that had its last call is neither registered nor pending.
Gone ==
    \A f \in Fds : requests[f].id \notin spent /\ responses[f].id \notin spent

\* Every step keeps identifiers unique and the spent ones gone.
LEMMA IdStep ==
    ASSUME TypeOK, TypeOK', Unique, Gone, [Next]_vars
    PROVE  Unique' /\ Gone'
<1> USE RegIds
    DEF Unique, Gone, TypeOK, vars, clockVars, messageVars, wakeVars, fdVars, callVars
<1>1. CASE \E t \in AllThreads, uptime \in 0..MaxTime, h \in Handlers : SendMessageAtTime(t, uptime, h)
  BY <1>1 DEF SendMessageAtTime
<1>2. CASE \E t \in AllThreads, h \in Handlers : RemoveMessages(t, h)
  BY <1>2 DEF RemoveMessages
<1>3. CASE \E t \in AllThreads : WakeCall(t)
  BY <1>3 DEF WakeCall
<1>4. CASE \E t \in AllThreads : WakeWrite(t)
  BY <1>4 DEF WakeWrite
<1>5. CASE \E t \in AllThreads, f \in Fds, cb \in BOOLEAN : AddFd(t, f, cb)
  BY <1>5, CurrentReg DEF AddFd, OwnRemoved, Registered
<1>6. CASE \E t \in AllThreads, f \in Fds : RemoveFd(t, f)
  BY <1>6, CurrentReg DEF RemoveFd, OwnRemoved, Registered
<1>7. CASE \E f \in Fds : Readiness(f)
  BY <1>7 DEF Readiness
<1>8. CASE \E f \in Fds : ReturnIdent(f)
  BY <1>8 DEF ReturnIdent, Dispatched, Idents, Callbacks
<1>9. CASE \E timeout \in Timeouts \cup {Forever} : PollInner(timeout)
  BY <1>9 DEF PollInner
<1>10. CASE EpollReturn
  BY <1>10 DEF EpollReturn
<1>11. CASE EpollInterrupted
  BY <1>11 DEF EpollInterrupted
<1>12. CASE HandleEvents
  BY <1>12 DEF HandleEvents
<1>13. CASE \E m \in envelopes : HandleMessage(m)
  BY <1>13 DEF HandleMessage
<1>14. CASE HandlerReturns
  BY <1>14 DEF HandlerReturns
<1>15. CASE MessagesDone
  BY <1>15 DEF MessagesDone
<1>16. CASE \E f \in Fds : StartCallback(f)
  BY <1>16 DEF StartCallback, Dispatched, Idents, Callbacks
<1>17. CASE CallbackKeeps
  BY <1>17, CurrentReg DEF CallbackKeeps
<1>18. CASE CallbackUnregisters
  BY <1>18, CurrentReg DEF CallbackUnregisters
<1>19. CASE CallbacksDone
  BY <1>19 DEF CallbacksDone
<1>20. CASE Tick
  BY <1>20 DEF Tick
<1>21. CASE UNCHANGED vars
  BY <1>21
<1> QED
  BY <1>1, <1>2, <1>3, <1>4, <1>5, <1>6, <1>7, <1>8, <1>9, <1>10, <1>11,
     <1>12, <1>13, <1>14, <1>15, <1>16, <1>17, <1>18, <1>19, <1>20, <1>21
  DEF Next, Poll, Call

\* A removed registration is dispatched at most once more, and never again
\* once it removed itself.
THEOREM DispatchedOnceMore == Spec => LastCallOnly
<1>1. Init => TypeOK /\ Unique /\ Gone
  BY InitType, RegIds DEF Init, Unique, Gone
<1>2. TypeOK /\ Unique /\ Gone /\ [Next]_vars => TypeOK' /\ Unique' /\ Gone'
  BY TypeStep, IdStep
<1>3. TypeOK /\ Gone /\ [Next]_vars
      => [\A f \in Fds : responses[f] # NoReg /\ responses'[f] = NoReg
              => responses[f].id \notin spent]_vars
  BY DEF Gone
<1> QED
  BY <1>1, <1>2, <1>3, PTL DEF Spec, LastCallOnly

-----------------------------------------------------------------------------
(* Autosuspend                                                             *)

\* Where the state last written stands between calls and inside them.  The
\* wakeup_count operations never write it.
WantedExact ==
    /\ backend = "wakeup_count" => wanted = "on" /\ call \notin {"awaitMem", "awaitOn"}
    /\ backend # "wakeup_count" =>
         /\ call = "none" => (wanted = "mem" <=> enabled)
         /\ call = "enable" => wanted = "on" /\ ~enabled
         /\ call = "disable" => wanted = "mem" /\ enabled
         /\ call = "awaitMem" => wanted = "mem" /\ ~enabled
         /\ call = "awaitOn" => wanted = "on" /\ enabled
    /\ backend = "wakeup_count" =>
         /\ call = "enable" => ~enabled
         /\ call = "disable" => enabled
    /\ waits => backend = "earlysuspend"
    /\ call \in {"awaitMem", "awaitOn"} => waits

\* A suspended system has the suspend thread in its critical section, or "mem"
\* standing.
AsleepExact ==
    power = "suspended" =>
        /\ backend = "wakeup_count" => spc = "post"
        /\ backend # "wakeup_count" => wanted = "mem"

\* The earlysuspend thread and the framebuffer go round together, and away
\* from the two resting places only while a call waits for them, or the thread
\* ended where it was.
Phase ==
    waits =>
        \/ wanted = "on" /\ fb = "on" /\ epc \in {"sleep", "exited"} /\ early = "on"
        \/ /\ wanted = "on" /\ call = "awaitOn" /\ early = "mem"
           /\ \/ epc \in {"wake", "exited"}
              \/ epc = "setOn" /\ fb = "on"
        \/ wanted = "mem" /\ fb = "off" /\ epc \in {"wake", "exited"} /\ early = "mem"
        \/ /\ wanted = "mem" /\ call = "awaitMem" /\ early = "on"
           /\ \/ epc \in {"sleep", "exited"}
              \/ epc = "setMem" /\ fb = "off"

\* From the read of the count to the write of the state, an event that began
\* is still active or has changed the count; and the thread writes the state
\* only with the kernel watching.
Watched ==
    backend = "wakeup_count" =>
        /\ spc \in {"wait", "writeCount", "writeState"} /\ unseen
               => active \/ count # saved
        /\ spc = "writeState" => armed

\* Outside its own kind of autosuspend the suspend thread does not exist; the
\* bound leaves room for the event that is active.
ThreadIdle ==
    /\ backend # "wakeup_count" => spc = "read" /\ lockout = 0
    /\ active => count < MaxEvents

SuspendInv ==
    /\ SuspendTypeOK /\ WantedExact /\ AsleepExact /\ Phase /\ Watched /\ ThreadIdle
    /\ LockoutExact /\ NoEventSleptOver

\* The invariant holds at first.
LEMMA SuspendInitInv == SuspendInit => SuspendInv
<1> SUFFICES ASSUME SuspendInit PROVE SuspendInv
  OBVIOUS
<1>1. SuspendTypeOK
  <2>1. saved \in 0..count /\ count \in 0..MaxEvents /\ lockout \in 0..1
    BY EventsAssumption DEF SuspendInit
  <2>2. enabled \in BOOLEAN /\ active \in BOOLEAN /\ armed \in BOOLEAN /\ unseen \in BOOLEAN
    BY DEF SuspendInit
  <2> QED
    BY <2>1, <2>2 DEF SuspendInit, SuspendTypeOK
<1>2. LockoutExact
  BY DEF SuspendInit, LockoutExact, Section
<1>3. WantedExact /\ AsleepExact /\ Phase
  BY DEF SuspendInit, WantedExact, AsleepExact, Phase
<1>4. Watched /\ ThreadIdle /\ NoEventSleptOver
  BY DEF SuspendInit, Watched, ThreadIdle, NoEventSleptOver
<1> QED
  BY <1>1, <1>2, <1>3, <1>4 DEF SuspendInv

\* Every step keeps the invariant.
LEMMA SuspendStep == SuspendInv /\ [SuspendNext]_suspendVars => SuspendInv'
<1> SUFFICES ASSUME SuspendInv, [SuspendNext]_suspendVars PROVE SuspendInv'
  OBVIOUS
<1> USE EventsAssumption
    DEF SuspendInv, SuspendTypeOK, WantedExact, AsleepExact, Phase, Watched, ThreadIdle, LockoutExact,
        NoEventSleptOver, Section, Awake, apiVars, threadVars, earlyVars, kernelVars
<1>1. CASE Enable
  BY <1>1 DEF Enable
<1>2. CASE Disable
  BY <1>2 DEF Disable
<1>3. CASE OpFails
  BY <1>3 DEF OpFails
<1>4. CASE SemPost
  BY <1>4 DEF SemPost
<1>5. CASE SemWait
  <2> USE <1>5 DEF SemWait
  <2>1. saved' \in 0..count' /\ count' \in 0..MaxEvents /\ lockout' \in 0..1
    OBVIOUS
  <2>2. enabled' \in BOOLEAN /\ active' \in BOOLEAN /\ unseen' \in BOOLEAN
    OBVIOUS
  <2>3. SuspendTypeOK'
    BY <2>1, <2>2
  <2>4. LockoutExact'
    OBVIOUS
  <2>5. WantedExact' /\ AsleepExact' /\ Phase'
    OBVIOUS
  <2>6. Watched' /\ ThreadIdle' /\ NoEventSleptOver'
    OBVIOUS
  <2> QED
    BY <2>3, <2>4, <2>5, <2>6
<1>6. CASE WriteWanted
  BY <1>6 DEF WriteWanted
<1>7. CASE Awaited
  BY <1>7 DEF Awaited
<1>8. CASE ReadCount
  <2> USE <1>8 DEF ReadCount, Runs
  <2>1. saved' \in 0..count' /\ count' \in 0..MaxEvents /\ lockout' \in 0..1
    OBVIOUS
  <2>2. enabled' \in BOOLEAN /\ active' \in BOOLEAN /\ unseen' \in BOOLEAN
    OBVIOUS
  <2>3. SuspendTypeOK'
    BY <2>1, <2>2
  <2>4. LockoutExact'
    OBVIOUS
  <2>5. WantedExact' /\ AsleepExact' /\ Phase'
    OBVIOUS
  <2>6. Watched' /\ ThreadIdle' /\ NoEventSleptOver'
    OBVIOUS
  <2> QED
    BY <2>3, <2>4, <2>5, <2>6
<1>9. CASE TakeLockout
  BY <1>9 DEF TakeLockout, Runs
<1>10. CASE TakeFails
  BY <1>10 DEF TakeFails, Runs
<1>11. CASE WriteCount
  BY <1>11 DEF WriteCount, Runs
<1>12. CASE WriteState
  BY <1>12 DEF WriteState, Runs
<1>13. CASE Post
  BY <1>13 DEF Post, Runs
<1>14. CASE FbSeen
  BY <1>14 DEF FbSeen
<1>15. CASE SetEarly
  BY <1>15 DEF SetEarly
<1>16. CASE EventBegins
  BY <1>16 DEF EventBegins
<1>17. CASE EventEnds
  <2> USE <1>17 DEF EventEnds
  <2>1. saved' \in 0..count' /\ count' \in 0..MaxEvents /\ lockout' \in 0..1
    OBVIOUS
  <2>2. enabled' \in BOOLEAN /\ active' \in BOOLEAN /\ unseen' \in BOOLEAN
    OBVIOUS
  <2>3. SuspendTypeOK'
    BY <2>1, <2>2
  <2>4. LockoutExact'
    OBVIOUS
  <2>5. WantedExact' /\ AsleepExact' /\ Phase'
    OBVIOUS
  <2>6. Watched' /\ ThreadIdle' /\ NoEventSleptOver'
    OBVIOUS
  <2> QED
    BY <2>3, <2>4, <2>5, <2>6
<1>18. CASE FbFollows
  BY <1>18 DEF FbFollows
<1>19. CASE KernelSuspends
  BY <1>19 DEF KernelSuspends
<1>21. CASE WriteFails
  BY <1>21 DEF WriteFails, Runs
<1>22. CASE ThreadExits
  BY <1>22 DEF ThreadExits
<1>20. CASE UNCHANGED suspendVars
  BY <1>20 DEF suspendVars
<1> QED
  BY <1>1, <1>2, <1>3, <1>4, <1>5, <1>6, <1>7, <1>8, <1>9, <1>10,
     <1>11, <1>12, <1>13, <1>14, <1>15, <1>16, <1>17, <1>18, <1>19, <1>20,
     <1>21, <1>22 DEF SuspendNext

\* The semaphore is worth what autosuspend_enabled says.
THEOREM SemaphoreExact == SuspendSpec => []LockoutExact
<1>1. SuspendInv => LockoutExact
  BY DEF SuspendInv
<1> QED
  BY SuspendInitInv, SuspendStep, <1>1, PTL DEF SuspendSpec

\* After autosuspend_disable has returned the system is awake and stays so.
THEOREM DisableKeepsAwake == SuspendSpec => []DisabledMeansAwake
<1>1. SuspendInv => DisabledMeansAwake
  BY DEF SuspendInv, SuspendTypeOK, WantedExact, AsleepExact, Phase, ThreadIdle, LockoutExact,
         DisabledMeansAwake, Section
<1> QED
  BY SuspendInitInv, SuspendStep, <1>1, PTL DEF SuspendSpec

\* No wakeup event is slept over.
THEOREM EventsWake == SuspendSpec => []NoEventSleptOver
<1>1. SuspendInv => NoEventSleptOver
  BY DEF SuspendInv
<1> QED
  BY SuspendInitInv, SuspendStep, <1>1, PTL DEF SuspendSpec

\* The types, with the semaphore never above one.
THEOREM AutosuspendTypes == SuspendSpec => []SuspendTypeOK
<1>1. SuspendInv => SuspendTypeOK
  BY DEF SuspendInv
<1> QED
  BY SuspendInitInv, SuspendStep, <1>1, PTL DEF SuspendSpec
=============================================================================
