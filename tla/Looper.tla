------------------------------- MODULE Looper -------------------------------
(***************************************************************************)
(* android::Looper of core/libutils/Looper.cpp: one thread calls pollOnce  *)
(* in a loop, every thread (that one included, from inside a callback)     *)
(* sends messages and adds and removes file descriptors.                   *)
(*                                                                         *)
(* pollInner is cut where it gives up or takes mLock: the computation of   *)
(* the timeout and the entry into epoll_wait (PollInner), its return       *)
(* (EpollReturn), the events handled under the lock (HandleEvents), each   *)
(* turn of the message loop under the lock (HandleMessages) and without it *)
(* (HandlerReturns), and each callback (StartCallback, CallbackReturns).   *)
(* Senders put the message in the queue under the lock and write the wake  *)
(* byte after they released it (WakeWrite), which is the race that the     *)
(* property NoLostWakeup is about.                                         *)
(*                                                                         *)
(* mMessageEnvelopes is a vector kept sorted by uptime, equal uptimes in   *)
(* order of arrival: a set of envelopes, each with its arrival number.     *)
(* The descriptors are fewer than EPOLL_MAX_EVENTS, so epoll_wait reports  *)
(* every ready one.  A descriptor is closed only while it is unregistered, *)
(* as removeFd's contract asks, so epoll_ctl does not fail.                *)
(***************************************************************************)
EXTENDS Naturals, FiniteSets

CONSTANTS
    Threads,     \* threads other than the one that polls
    PollThread,  \* the thread that polls
    Handlers,    \* message handlers
    Fds,         \* file descriptors
    Timeouts,    \* finite timeouts pollOnce is called with
    MaxDelay,    \* the longest delay epoll_wait is asked to wait: INT_MAX - 1 ms
    MaxTime,     \* bound on the clock
    MaxSends,    \* bound on the messages sent
    MaxRegs      \* bound on the registrations made

ASSUME BoundsAssumption ==
    /\ PollThread \notin Threads /\ "wake" \notin Fds
    /\ Timeouts \subseteq Nat
    /\ MaxDelay \in Nat /\ MaxTime \in Nat /\ MaxSends \in Nat /\ MaxRegs \in Nat

VARIABLES
    now,        \* systemTime(SYSTEM_TIME_MONOTONIC), in milliseconds
    envelopes,  \* mMessageEnvelopes
    sends,      \* messages sent so far
    nextUptime, \* mNextMessageUptime
    pipe,       \* there is a byte in the wake pipe
    waking,     \* threads about to write the wake byte
    pc,         \* where the polling thread is
    polledAt,   \* when it computed the timeout of its epoll_wait, and
    deadline,   \* when that times out (both 0 outside of epoll_wait)
    events,     \* descriptors epoll_wait reported ("wake" for the pipe)
    requests,   \* mRequests: descriptor -> registration
    regs,       \* registrations made so far
    responses,  \* mResponses not yet dispatched: descriptor -> registration
    current,    \* descriptor and registration whose callback runs
    ready,      \* descriptors that are readable
    spent       \* registrations that had their last call: it began after they
                \* were removed, or they removed themselves during a call

clockVars   == <<now, polledAt, deadline>>
messageVars == <<envelopes, sends, nextUptime>>
wakeVars    == <<pipe, waking>>
fdVars      == <<requests, regs, ready>>
callVars    == <<responses, current>>
vars == <<clockVars, messageVars, wakeVars, pc, events, fdVars, callVars, spent>>

Forever == MaxTime + 1          \* LLONG_MAX, and the deadline of an infinite wait
AllThreads == Threads \cup {PollThread}
NoReg == [id |-> 0, callback |-> FALSE]
Regs == [id : 1..MaxRegs, callback : BOOLEAN]
Wake == "wake"

Registered == {f \in Fds : requests[f] # NoReg}
mSendingMessage == pc = "handling"

\* mLock is held by the polling thread only across the steps at "messages";
\* every other critical section is a single action.
LockFree == pc # "messages"

\* Thread t can make a call: it is not inside one, and the polling thread is
\* running a handler or a callback.
CanCall(t) ==
    /\ t \notin waking
    /\ t = PollThread => pc \in {"handling", "calling"}

Init ==
    /\ now = 0 /\ polledAt = 0 /\ deadline = 0
    /\ envelopes = {} /\ sends = 0 /\ nextUptime = Forever
    /\ pipe = FALSE /\ waking = {}
    /\ pc = "idle" /\ events = {}
    /\ requests = [f \in Fds |-> NoReg] /\ regs = 0
    /\ responses = [f \in Fds |-> NoReg]
    /\ current = [fd |-> Wake, reg |-> NoReg]
    /\ ready = {}
    /\ spent = {}

-----------------------------------------------------------------------------
(* Messages and the wake pipe                                              *)

\* The mutant skips the wake whenever the queue was not empty.
SendMessageAtTime_OnlyWhenEmpty(t, uptime, h) ==
    /\ CanCall(t) /\ LockFree /\ sends < MaxSends
    /\ envelopes' = envelopes \cup {[uptime |-> uptime, n |-> sends + 1, handler |-> h]}
    /\ sends' = sends + 1
    /\ waking' = IF ~mSendingMessage /\ envelopes = {} THEN waking \cup {t} ELSE waking
    /\ UNCHANGED <<clockVars, nextUptime, pipe, pc, events, fdVars, callVars, spent>>

\* The new envelope goes behind those that are due no later; when it lands at
\* index 0 the sender wakes the poll, unless a message is just being handled.
SendMessageAtTime(t, uptime, h) ==
    /\ CanCall(t) /\ LockFree /\ sends < MaxSends
    /\ envelopes' = envelopes \cup {[uptime |-> uptime, n |-> sends + 1, handler |-> h]}
    /\ sends' = sends + 1
    /\ waking' = IF ~mSendingMessage /\ \A m \in envelopes : uptime < m.uptime
                 THEN waking \cup {t} ELSE waking
    /\ UNCHANGED <<clockVars, nextUptime, pipe, pc, events, fdVars, callVars, spent>>

\* removeMessages leaves mNextMessageUptime alone: the poll may wake for nothing.
RemoveMessages(t, h) ==
    /\ CanCall(t) /\ LockFree
    /\ envelopes' = {m \in envelopes : m.handler # h}
    /\ UNCHANGED <<clockVars, sends, nextUptime, wakeVars, pc, events, fdVars, callVars, spent>>

\* A plain call of wake().
WakeCall(t) ==
    /\ CanCall(t)
    /\ waking' = waking \cup {t}
    /\ UNCHANGED <<clockVars, messageVars, pipe, pc, events, fdVars, callVars, spent>>

\* The write in wake(); a full pipe (EAGAIN) is a pipe with a byte in it.
WakeWrite(t) ==
    /\ t \in waking
    /\ pipe' = TRUE
    /\ waking' = waking \ {t}
    /\ UNCHANGED <<clockVars, messageVars, pc, events, fdVars, callVars, spent>>

-----------------------------------------------------------------------------
(* Descriptors                                                             *)

\* The registration that a call of the polling thread takes away from inside
\* that registration's own callback.
OwnRemoved(t, f) ==
    IF t = PollThread /\ pc = "calling" /\ requests[f] = current.reg /\ current.fd = f
    THEN {current.reg.id} ELSE {}

\* addFd; a descriptor already registered gets the new registration instead.
AddFd(t, f, isCallback) ==
    /\ CanCall(t) /\ LockFree /\ regs < MaxRegs
    /\ regs' = regs + 1
    /\ requests' = [requests EXCEPT ![f] = [id |-> regs + 1, callback |-> isCallback]]
    /\ spent' = spent \cup OwnRemoved(t, f)
    /\ UNCHANGED <<clockVars, messageVars, wakeVars, pc, events, ready, callVars>>

RemoveFd(t, f) ==
    /\ CanCall(t) /\ LockFree /\ f \in Registered
    /\ requests' = [requests EXCEPT ![f] = NoReg]
    /\ spent' = spent \cup OwnRemoved(t, f)
    /\ UNCHANGED <<clockVars, messageVars, wakeVars, pc, events, regs, ready, callVars>>

\* Data arrives on a descriptor, or is read from it.
Readiness(f) ==
    /\ ready' = IF f \in ready THEN ready \ {f} ELSE ready \cup {f}
    /\ UNCHANGED <<clockVars, messageVars, wakeVars, pc, events, requests, regs,
                   callVars, spent>>

-----------------------------------------------------------------------------
(* pollOnce and pollInner                                                  *)

Idents == {f \in Fds : responses[f] # NoReg /\ ~responses[f].callback}
Callbacks == {f \in Fds : responses[f] # NoReg /\ responses[f].callback}

\* A response is dispatched, for the last time if its registration is no
\* longer the descriptor's.
Dispatched(f) ==
    /\ responses' = [responses EXCEPT ![f] = NoReg]
    /\ spent' = IF requests[f] = responses[f] THEN spent
                ELSE spent \cup {responses[f].id}

\* pollOnce returns the identifier of a response left by the last pollInner.
ReturnIdent(f) ==
    /\ pc = "idle" /\ f \in Idents
    /\ Dispatched(f)
    /\ UNCHANGED <<clockVars, messageVars, wakeVars, pc, events, fdVars, current>>

\* The epoll_wait timeout of pollInner, as an absolute time: the caller's, or
\* the next message's when that is sooner and toMillisecondTimeoutDelay can
\* express it; a message that is overdue gives a delay of zero.
Deadline(timeout) ==
    LET own == IF timeout = Forever THEN Forever ELSE now + timeout
        due == IF nextUptime > now THEN nextUptime ELSE now
    IN  IF /\ timeout # 0
           /\ nextUptime # Forever
           /\ due - now <= MaxDelay
           /\ due < own
        THEN due ELSE own

\* The mutant lets a message that is overdue leave the caller's timeout alone.
PollInner_OverdueIgnored(timeout) ==
    /\ pc = "idle" /\ Idents = {}
    /\ pc' = "epoll"
    /\ polledAt' = now
    /\ deadline' = IF nextUptime > now THEN Deadline(timeout)
                   ELSE IF timeout = Forever THEN Forever ELSE now + timeout
    /\ UNCHANGED <<now, messageVars, wakeVars, events, fdVars, callVars, spent>>

\* pollInner up to epoll_wait; mResponses is cleared, all of it dispatched.
PollInner(timeout) ==
    /\ pc = "idle" /\ Idents = {}
    /\ pc' = "epoll"
    /\ polledAt' = now
    /\ deadline' = Deadline(timeout)
    /\ UNCHANGED <<now, messageVars, wakeVars, events, fdVars, callVars, spent>>

Reported == (Registered \cap ready) \cup (IF pipe THEN {Wake} ELSE {})

\* epoll_wait returns: with the ready descriptors, or with none at the
\* deadline.
EpollReturn ==
    /\ pc = "epoll"
    /\ Reported # {} \/ now >= deadline
    /\ events' = Reported
    /\ pc' = "woken"
    /\ polledAt' = 0 /\ deadline' = 0
    /\ UNCHANGED <<now, messageVars, wakeVars, fdVars, callVars, spent>>

\* epoll_wait, with nothing to report yet, is interrupted by a signal (EINTR):
\* pollInner goes to Done.
EpollInterrupted ==
    /\ pc = "epoll" /\ Reported = {}
    /\ events' = {}
    /\ pc' = "woken"
    /\ polledAt' = 0 /\ deadline' = 0
    /\ UNCHANGED <<now, messageVars, wakeVars, fdVars, callVars, spent>>

\* The mutant stops at the wake pipe's event and drops the others.
HandleEvents_WakeOnly ==
    /\ pc = "woken"
    /\ pc' = "messages"
    /\ pipe' = IF Wake \in events THEN FALSE ELSE pipe
    /\ responses' = [f \in Fds |-> IF f \in events /\ Wake \notin events
                                   THEN requests[f] ELSE NoReg]
    /\ events' = {}
    /\ UNCHANGED <<clockVars, messageVars, waking, fdVars, current, spent>>

\* pollInner takes mLock, drains the pipe (awoken) and pushes a response for
\* each reported descriptor that is registered now.
HandleEvents ==
    /\ pc = "woken"
    /\ pc' = "messages"
    /\ pipe' = IF Wake \in events THEN FALSE ELSE pipe
    /\ responses' = [f \in Fds |-> IF f \in events THEN requests[f] ELSE NoReg]
    /\ events' = {}
    /\ UNCHANGED <<clockVars, messageVars, waking, fdVars, current, spent>>

\* m is at index 0 of mMessageEnvelopes.
AtHead(m) ==
    \A o \in envelopes : m.uptime < o.uptime \/ (m.uptime = o.uptime /\ m.n <= o.n)

\* The message loop takes the message at the head, which is due, out of the
\* queue, releases the lock and calls the handler.
HandleMessage(m) ==
    /\ pc = "messages"
    /\ AtHead(m) /\ m.uptime <= now
    /\ envelopes' = envelopes \ {m}
    /\ pc' = "handling"
    /\ UNCHANGED <<clockVars, sends, nextUptime, wakeVars, events, fdVars, callVars, spent>>

\* handleMessage returns; the loop takes the lock again.
HandlerReturns ==
    /\ pc = "handling" /\ PollThread \notin waking
    /\ pc' = "messages"
    /\ UNCHANGED <<clockVars, messageVars, wakeVars, events, fdVars, callVars, spent>>

\* No message is due: the head determines the next wakeup, the lock is
\* released.
MessagesDone ==
    /\ pc = "messages"
    /\ \/ envelopes = {} /\ nextUptime' = Forever
       \/ \E m \in envelopes : AtHead(m) /\ m.uptime > now /\ nextUptime' = m.uptime
    /\ pc' = "callbacks"
    /\ UNCHANGED <<clockVars, envelopes, sends, wakeVars, events, fdVars, callVars, spent>>

\* The callback of a response begins.
StartCallback(f) ==
    /\ pc = "callbacks" /\ f \in Callbacks
    /\ Dispatched(f)
    /\ current' = [fd |-> f, reg |-> responses[f]]
    /\ pc' = "calling"
    /\ UNCHANGED <<clockVars, messageVars, wakeVars, events, fdVars>>

\* The callback returns 1, and stays registered if it still is.
CallbackKeeps ==
    /\ pc = "calling" /\ PollThread \notin waking
    /\ pc' = "callbacks"
    /\ current' = [fd |-> Wake, reg |-> NoReg]
    /\ UNCHANGED <<clockVars, messageVars, wakeVars, events, fdVars, responses, spent>>

\* The mutant forgets the removeFd.
CallbackUnregisters_NoRemove ==
    /\ pc = "calling" /\ PollThread \notin waking
    /\ pc' = "callbacks"
    /\ spent' = spent \cup {current.reg.id}
    /\ current' = [fd |-> Wake, reg |-> NoReg]
    /\ UNCHANGED <<clockVars, messageVars, wakeVars, events, requests, regs, ready,
                   responses>>

\* The callback returns 0: removeFd takes away whatever registration the
\* descriptor has by then.
CallbackUnregisters ==
    /\ pc = "calling" /\ PollThread \notin waking
    /\ pc' = "callbacks"
    /\ requests' = [requests EXCEPT ![current.fd] = NoReg]
    /\ spent' = spent \cup {current.reg.id}
    /\ current' = [fd |-> Wake, reg |-> NoReg]
    /\ UNCHANGED <<clockVars, messageVars, wakeVars, events, regs, ready, responses>>

\* All callbacks have run: pollInner returns, and so does pollOnce.
CallbacksDone ==
    /\ pc = "callbacks" /\ Callbacks = {}
    /\ pc' = "idle"
    /\ UNCHANGED <<clockVars, messageVars, wakeVars, events, fdVars, callVars, spent>>

Tick ==
    /\ now < MaxTime
    /\ now' = now + 1
    /\ UNCHANGED <<polledAt, deadline, messageVars, wakeVars, pc, events, fdVars, callVars, spent>>

-----------------------------------------------------------------------------
Poll ==
    \/ \E f \in Fds : ReturnIdent(f) \/ StartCallback(f)
    \/ \E timeout \in Timeouts \cup {Forever} : PollInner(timeout)
    \/ EpollReturn
    \/ HandleEvents
    \/ \E m \in envelopes : HandleMessage(m)
    \/ HandlerReturns
    \/ MessagesDone
    \/ CallbackKeeps
    \/ CallbackUnregisters
    \/ CallbacksDone

Call(t) ==
    \/ \E uptime \in 0..MaxTime, h \in Handlers : SendMessageAtTime(t, uptime, h)
    \/ \E h \in Handlers : RemoveMessages(t, h)
    \/ WakeCall(t)
    \/ \E f \in Fds : RemoveFd(t, f) \/ \E cb \in BOOLEAN : AddFd(t, f, cb)

Next ==
    \/ Poll
    \/ EpollInterrupted
    \/ \E t \in AllThreads : Call(t) \/ WakeWrite(t)
    \/ \E f \in Fds : Readiness(f)
    \/ Tick

Spec == Init /\ [][Next]_vars

\* The polling thread calls pollOnce for ever, its handlers and callbacks
\* return however many calls they make first; a thread inside wake() writes
\* its byte; time passes.
FairSpec ==
    /\ Spec
    /\ WF_vars(Poll)
    /\ SF_vars(HandlerReturns) /\ SF_vars(CallbackKeeps \/ CallbackUnregisters)
    /\ \A t \in AllThreads : WF_vars(WakeWrite(t))
    /\ WF_vars(Tick)

-----------------------------------------------------------------------------
\* Type correctness; epoll_wait is never given a negative delay for a message
\* that is overdue, and a callback runs only in pollInner's last loop.
TypeOK ==
    /\ now \in 0..MaxTime /\ polledAt \in 0..now
    /\ deadline \in Nat /\ deadline >= polledAt
    /\ envelopes \subseteq [uptime : 0..MaxTime, n : 1..sends, handler : Handlers]
    /\ sends \in 0..MaxSends
    /\ nextUptime \in 0..Forever
    /\ pipe \in BOOLEAN
    /\ waking \subseteq AllThreads
    /\ pc \in {"idle", "epoll", "woken", "messages", "handling", "callbacks", "calling"}
    /\ events \subseteq Fds \cup {Wake}
    /\ regs \in 0..MaxRegs
    /\ requests \in [Fds -> Regs \cup {NoReg}]
    /\ responses \in [Fds -> Regs \cup {NoReg}]
    /\ current \in [fd : Fds, reg : Regs] \cup {[fd |-> Wake, reg |-> NoReg]}
    /\ current.fd \in Fds <=> pc = "calling"
    /\ ready \subseteq Fds
    /\ spent \subseteq 1..MaxRegs

\* While the polling thread sleeps in epoll_wait with nothing in the wake pipe
\* and nobody about to write to it, the sleep ends before every queued message
\* is due: the sender's decision to skip wake() (Looper.cpp:519-530), taken
\* from the queue alone, never leaves a message behind.  A message further
\* away than epoll_wait can express is the exception (Timers.cpp:63).
NoLostWakeup ==
    pc = "epoll" /\ ~pipe /\ waking = {} =>
        \A m \in envelopes : \/ deadline <= m.uptime
                             \/ deadline <= now
                             \/ m.uptime > polledAt + MaxDelay

\* What Looper.h:232-240 promises to whoever removes a descriptor: after
\* removeFd (or a replacement) the callback runs, or the identifier is
\* returned, at most one last time, and not at all when the callback removed
\* itself.
LastCallOnly ==
    [][\A f \in Fds : responses[f] # NoReg /\ responses'[f] = NoReg
           => responses[f].id \notin spent]_vars

\* What handleEvent's 0 asks for: "this file descriptor and callback
\* unregistered" (Looper.h:99-101).  The end of a callback takes no other
\* registration away.
OnlyOwnRemoved ==
    [][(pc = "calling" /\ pc' = "callbacks") =>
           \A f \in Fds : requests'[f] # requests[f] => requests[f] = current.reg]_vars

\* Every message sent is handled, unless it is removed: whoever sent it and
\* wherever the polling thread was, no message waits for another event.
MessagesHandled ==
    \A n \in 1..MaxSends : (\E m \in envelopes : m.n = n) ~> (\A m \in envelopes : m.n # n)

\* A descriptor that is registered with a callback and readable gets its
\* callback called, unless it is removed or read first: no order of adding it
\* while the poll sleeps, reports or dispatches others makes the looper miss it.
FdServed ==
    \A f \in Fds : \A r \in 1..MaxRegs :
        (requests[f] = [id |-> r, callback |-> TRUE] /\ f \in ready)
            ~> (requests[f].id # r \/ f \notin ready \/ (pc = "calling" /\ current.reg.id = r))
=============================================================================
