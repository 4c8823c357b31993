----------------------------- MODULE Autosuspend -----------------------------
(***************************************************************************)
(* core/libsuspend: autosuspend_enable and autosuspend_disable and the     *)
(* three ways they have of letting the kernel suspend.                     *)
(*                                                                         *)
(*   wakeup_count  a thread reads /sys/power/wakeup_count, waits for the   *)
(*                 semaphore suspend_lockout, writes the count back and,   *)
(*                 if the kernel takes it, writes "mem" to                 *)
(*                 /sys/power/state; enable posts the semaphore and        *)
(*                 disable waits for it;                                   *)
(*   earlysuspend  enable and disable write "mem" and "on" to              *)
(*                 /sys/power/state and wait until a thread that follows   *)
(*                 the framebuffer has seen it stop or resume;             *)
(*   autosleep     enable and disable write "mem" and "off" to             *)
(*                 /sys/power/autosleep.                                   *)
(*                                                                         *)
(* One thread calls the library, as charger.c does.  The kernel is         *)
(* modelled as these files show it: user space is frozen while the system  *)
(* is suspended, a wakeup source is active from its event until user space *)
(* is done with it, and each one that ends adds one to the count.          *)
(***************************************************************************)
EXTENDS Naturals

CONSTANT MaxEvents   \* bound on wakeup events

ASSUME EventsAssumption == MaxEvents \in Nat

VARIABLES
    backend,  \* the operations autosuspend_init selected
    enabled,  \* autosuspend_enabled
    call,     \* the call under way: "none", "enable", "disable", "awaitMem", "awaitOn"
    lockout,  \* suspend_lockout
    spc,      \* where the suspend thread is
    saved,    \* the wakeup_count it read
    waits,    \* wait_for_earlysuspend
    epc,      \* what the earlysuspend thread waits for or is about to set, or "exited"
    early,    \* earlysuspend_state
    wanted,   \* the state last written by enable and disable: "mem" or "on"
    count,    \* kernel: wakeup events completed
    active,   \* kernel: a wakeup source is active
    armed,    \* kernel: it took the count, and watches for events since
    fb,       \* kernel: the framebuffer is "on" or "off"
    power,    \* kernel: "awake" or "suspended"
    unseen    \* an event began after the suspend thread last read the count

apiVars    == <<backend, enabled, call>>
threadVars == <<lockout, spc, saved>>
earlyVars  == <<waits, epc, early>>
kernelVars == <<count, active, armed, fb, power, unseen>>
suspendVars == <<apiVars, threadVars, earlyVars, wanted, kernelVars>>

Awake == power = "awake"
Section == {"writeCount", "writeState", "post"}   \* suspend_lockout is held

\* autosuspend_init takes the first kind the kernel has; earlysuspend's thread
\* exists only where the framebuffer files do.
SuspendInit ==
    /\ backend \in {"earlysuspend", "autosleep", "wakeup_count"}
    /\ enabled = FALSE /\ call = "none"
    /\ lockout = 0 /\ spc = "read" /\ saved = 0
    /\ waits \in BOOLEAN /\ (waits => backend = "earlysuspend")
    /\ epc = "sleep" /\ early = "on"
    /\ wanted = "on"
    /\ count = 0 /\ active = FALSE /\ armed = FALSE
    /\ fb = "on" /\ power = "awake" /\ unseen = FALSE

-----------------------------------------------------------------------------
(* autosuspend_enable and autosuspend_disable                              *)

Enable ==
    /\ Awake /\ call = "none" /\ ~enabled
    /\ call' = "enable"
    /\ UNCHANGED <<backend, enabled, threadVars, earlyVars, wanted, kernelVars>>

Disable ==
    /\ Awake /\ call = "none" /\ enabled
    /\ call' = "disable"
    /\ UNCHANGED <<backend, enabled, threadVars, earlyVars, wanted, kernelVars>>

\* The mutant records the new state when the operation failed as well.
OpFails_Records ==
    /\ Awake /\ call \in {"enable", "disable"}
    /\ call' = "none"
    /\ enabled' = (call = "enable")
    /\ UNCHANGED <<backend, threadVars, earlyVars, wanted, kernelVars>>

\* The operation fails: autosuspend_enabled stays as it was.
OpFails ==
    /\ Awake /\ call \in {"enable", "disable"}
    /\ call' = "none"
    /\ UNCHANGED <<backend, enabled, threadVars, earlyVars, wanted, kernelVars>>

\* autosuspend_wakeup_count_enable
SemPost ==
    /\ Awake /\ backend = "wakeup_count" /\ call = "enable"
    /\ lockout' = lockout + 1
    /\ enabled' = TRUE /\ call' = "none"
    /\ UNCHANGED <<backend, spc, saved, earlyVars, wanted, kernelVars>>

\* The mutant does not wait for the semaphore when the thread has it.
SemWait_Try ==
    /\ Awake /\ backend = "wakeup_count" /\ call = "disable"
    /\ lockout' = IF lockout > 0 THEN lockout - 1 ELSE 0
    /\ enabled' = FALSE /\ call' = "none"
    /\ UNCHANGED <<backend, spc, saved, earlyVars, wanted, kernelVars>>

\* autosuspend_wakeup_count_disable
SemWait ==
    /\ Awake /\ backend = "wakeup_count" /\ call = "disable"
    /\ lockout > 0
    /\ lockout' = lockout - 1
    /\ enabled' = FALSE /\ call' = "none"
    /\ UNCHANGED <<backend, spc, saved, earlyVars, wanted, kernelVars>>

\* autosuspend_autosleep_enable and _disable, and those of earlysuspend, write
\* the state; earlysuspend's may have to wait for the framebuffer.
WriteWanted ==
    /\ Awake /\ backend # "wakeup_count" /\ call \in {"enable", "disable"}
    /\ wanted' = IF call = "enable" THEN "mem" ELSE "on"
    /\ IF waits
       THEN /\ call' = IF call = "enable" THEN "awaitMem" ELSE "awaitOn"
            /\ UNCHANGED enabled
       ELSE /\ call' = "none"
            /\ enabled' = (call = "enable")
    /\ UNCHANGED <<backend, threadVars, earlyVars, kernelVars>>

\* The wait on earlysuspend_cond ends.
Awaited ==
    /\ Awake
    /\ \/ call = "awaitMem" /\ early = "mem"
       \/ call = "awaitOn" /\ early = "on"
    /\ enabled' = (call = "awaitMem")
    /\ call' = "none"
    /\ UNCHANGED <<backend, threadVars, earlyVars, wanted, kernelVars>>

-----------------------------------------------------------------------------
(* suspend_thread_func                                                     *)

Runs(at) == Awake /\ backend = "wakeup_count" /\ spc = at

\* The read blocks while a wakeup source is active.
ReadCount ==
    /\ Runs("read") /\ ~active
    /\ saved' = count /\ unseen' = FALSE
    /\ spc' = "wait"
    /\ UNCHANGED <<apiVars, lockout, earlyVars, wanted, count, active, armed, fb, power>>

TakeLockout ==
    /\ Runs("wait") /\ lockout > 0
    /\ lockout' = lockout - 1
    /\ spc' = "writeCount"
    /\ UNCHANGED <<apiVars, saved, earlyVars, wanted, kernelVars>>

\* sem_wait is interrupted: the thread begins again, without the semaphore.
TakeFails ==
    /\ Runs("wait")
    /\ spc' = "read"
    /\ UNCHANGED <<apiVars, lockout, saved, earlyVars, wanted, kernelVars>>

\* The mutant goes on to suspend when the kernel refused the count.
WriteCount_Ignored ==
    /\ Runs("writeCount")
    /\ armed' = (count = saved /\ ~active)
    /\ spc' = "writeState"
    /\ UNCHANGED <<apiVars, lockout, saved, earlyVars, wanted, count, active, fb, power,
                   unseen>>

\* The kernel takes the count if it is still right and no source is active;
\* otherwise the thread does not suspend.
WriteCount ==
    /\ Runs("writeCount")
    /\ IF count = saved /\ ~active
       THEN armed' = TRUE /\ spc' = "writeState"
       ELSE spc' = "post" /\ UNCHANGED armed
    /\ UNCHANGED <<apiVars, lockout, saved, earlyVars, wanted, count, active, fb, power,
                   unseen>>

\* The write of "mem": the kernel suspends, or gives up when it watches for
\* events and there was one.  The write returns when the system resumes.
WriteState ==
    /\ Runs("writeState")
    /\ power' = IF armed /\ (count # saved \/ active) THEN "awake" ELSE "suspended"
    /\ armed' = FALSE
    /\ spc' = "post"
    /\ UNCHANGED <<apiVars, lockout, saved, earlyVars, wanted, count, active, fb, unseen>>

\* The write fails for another reason, such as a driver that refuses.
WriteFails ==
    /\ Runs("writeState")
    /\ spc' = "post"
    /\ UNCHANGED <<apiVars, lockout, saved, earlyVars, wanted, kernelVars>>

\* The mutant does not give the semaphore back.
Post_Forgotten ==
    /\ Runs("post")
    /\ spc' = "read"
    /\ UNCHANGED <<apiVars, lockout, saved, earlyVars, wanted, kernelVars>>

Post ==
    /\ Runs("post")
    /\ lockout' = lockout + 1
    /\ spc' = "read"
    /\ UNCHANGED <<apiVars, saved, earlyVars, wanted, kernelVars>>

-----------------------------------------------------------------------------
(* earlysuspend_thread_func                                                *)

\* wait_for_fb_sleep and wait_for_fb_wake return.
FbSeen ==
    /\ Awake /\ waits
    /\ \/ epc = "sleep" /\ fb = "off" /\ epc' = "setMem"
       \/ epc = "wake" /\ fb = "on" /\ epc' = "setOn"
    /\ UNCHANGED <<apiVars, threadVars, waits, early, wanted, kernelVars>>

\* One of them fails: the thread ends, and nobody tells the calls that wait for
\* it or will.
ThreadExits ==
    /\ Awake /\ waits /\ epc \in {"sleep", "wake"}
    /\ epc' = "exited"
    /\ UNCHANGED <<apiVars, threadVars, waits, early, wanted, kernelVars>>

\* The thread sets earlysuspend_state and signals the condition.
SetEarly ==
    /\ Awake
    /\ \/ epc = "setMem" /\ early' = "mem" /\ epc' = "wake"
       \/ epc = "setOn" /\ early' = "on" /\ epc' = "sleep"
    /\ UNCHANGED <<apiVars, threadVars, waits, wanted, kernelVars>>

-----------------------------------------------------------------------------
(* The kernel                                                              *)

\* A wakeup source becomes active: a suspended system resumes.
EventBegins ==
    /\ ~active /\ count < MaxEvents
    /\ active' = TRUE /\ unseen' = TRUE /\ power' = "awake"
    /\ UNCHANGED <<apiVars, threadVars, earlyVars, wanted, count, armed, fb>>

\* User space is done with the event.
EventEnds ==
    /\ Awake /\ active
    /\ active' = FALSE /\ count' = count + 1
    /\ UNCHANGED <<apiVars, threadVars, earlyVars, wanted, armed, fb, power, unseen>>

\* The framebuffer follows the state that was written.
FbFollows ==
    /\ Awake /\ backend = "earlysuspend"
    /\ fb # (IF wanted = "mem" THEN "off" ELSE "on")
    /\ fb' = IF fb = "on" THEN "off" ELSE "on"
    /\ UNCHANGED <<apiVars, threadVars, earlyVars, wanted, count, active, armed, power,
                   unseen>>

\* The kernel suspends on its own while "mem" stands.
KernelSuspends ==
    /\ Awake /\ backend # "wakeup_count" /\ wanted = "mem" /\ ~active
    /\ backend = "earlysuspend" => fb = "off"
    /\ power' = "suspended"
    /\ UNCHANGED <<apiVars, threadVars, earlyVars, wanted, count, active, armed, fb, unseen>>

-----------------------------------------------------------------------------
SuspendNext ==
    \/ Enable \/ Disable \/ OpFails \/ SemPost \/ SemWait \/ WriteWanted \/ Awaited
    \/ ReadCount \/ TakeLockout \/ TakeFails \/ WriteCount \/ WriteState \/ WriteFails \/ Post
    \/ FbSeen \/ ThreadExits \/ SetEarly
    \/ EventBegins \/ EventEnds \/ FbFollows \/ KernelSuspends

SuspendSpec == SuspendInit /\ [][SuspendNext]_suspendVars

\* The threads and the kernel run, sem_wait is not interrupted for ever, the
\* kernel does not refuse the state for ever without an event (SF), and disable gets
\* the semaphore although the thread, which sleeps 100 ms before each attempt,
\* keeps taking it (SF).
FairSuspendSpec ==
    /\ SuspendSpec
    /\ WF_suspendVars(SemPost) /\ SF_suspendVars(SemWait)
    /\ WF_suspendVars(WriteWanted) /\ WF_suspendVars(Awaited)
    /\ WF_suspendVars(ReadCount) /\ SF_suspendVars(TakeLockout) /\ WF_suspendVars(WriteCount)
    /\ SF_suspendVars(WriteState) /\ WF_suspendVars(Post)
    /\ WF_suspendVars(FbSeen) /\ WF_suspendVars(SetEarly) /\ WF_suspendVars(FbFollows)
    /\ WF_suspendVars(KernelSuspends) /\ WF_suspendVars(EventEnds)

-----------------------------------------------------------------------------
\* Type correctness; suspend_lockout is a binary semaphore in effect, and the
\* count the thread has read is never ahead of the kernel's.
SuspendTypeOK ==
    /\ backend \in {"earlysuspend", "autosleep", "wakeup_count"}
    /\ enabled \in BOOLEAN
    /\ call \in {"none", "enable", "disable", "awaitMem", "awaitOn"}
    /\ lockout \in 0..1
    /\ spc \in {"read", "wait"} \cup Section
    /\ saved \in 0..count /\ count \in 0..MaxEvents
    /\ waits \in BOOLEAN
    /\ epc \in {"sleep", "setMem", "wake", "setOn", "exited"}
    /\ early \in {"on", "mem"} /\ wanted \in {"on", "mem"} /\ fb \in {"on", "off"}
    /\ active \in BOOLEAN /\ armed \in BOOLEAN /\ unseen \in BOOLEAN
    /\ power \in {"awake", "suspended"}

\* autosuspend.h: disable prevents suspend "synchronizing with any in-progress
\* resume".  Once it has returned, the system is awake, no thread is on the way
\* to a suspend, and the framebuffer is back.
DisabledMeansAwake ==
    ~enabled /\ call = "none" =>
        /\ power = "awake"
        /\ spc \notin Section
        /\ wanted = "on"
        /\ waits => early = "on" /\ fb = "on"

\* The system never sleeps over a wakeup event that user space has not had the
\* time to see: the count read before the wait for the semaphore, however old,
\* is what the kernel compares.
NoEventSleptOver ==
    backend = "wakeup_count" /\ power = "suspended" => ~unseen /\ ~active

\* The semaphore is worth what autosuspend_enabled says: enable and disable
\* alternate, so two enables never let the thread through twice.
LockoutExact ==
    backend = "wakeup_count" =>
        lockout + (IF spc \in Section THEN 1 ELSE 0) = (IF enabled THEN 1 ELSE 0)

\* A system left enabled with nothing active suspends again and again, however
\* often it was enabled, disabled and woken before and however old the count of
\* the suspend thread was then.
Suspends == <>[](enabled /\ call = "none" /\ ~active) => []<>(power = "suspended")

\* enable and disable return, unless the system is asleep or the thread that
\* follows the framebuffer has ended (autosuspend_earlysuspend.c:86-98): the
\* next call then waits for ever.
CallsReturn == (call # "none") ~> (call = "none" \/ power = "suspended" \/ epc = "exited")
=============================================================================
