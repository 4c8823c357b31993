# Verification of the Android 4.4 system tree

TLA+ models of parts of `src/system` (Android 4.4: `core`, `vold`, `netd`,
`security`, `media`, `extras`), the TLC configurations that check them, and
TLAPS proofs of their main safety properties. Every definition is translated
from the source; `PROJECT.json` maps each one to its lines.

## 1. Inventory

The tree is a set of daemons around a few shared libraries.

| Part | State it keeps | Operations | Hard behaviour |
|---|---|---|---|
| `libutils` RefBase, sp, wp | `mStrong`, `mWeak`, `mFlags` per object; two heap blocks | incStrong, forceIncStrong, decStrong, incWeak, decWeak, attemptIncStrong (promote), attemptIncWeak, destructor | lock-free; every pair of atomic accesses interleaves with other threads; who frees which block |
| `init`: services | `struct service` list: flags, pid, time_started, time_crashed, nr_crashed; `process_needs_restart` | service_start/stop/reset/restart, restart_processes, wait_for_one_process, handle_signal, handle_keychord, ctl messages | children fork, exit and die at any time; SIGCHLD through a socket; restart delay; crash window |
| `init`: actions and properties | `action_list`, `action_queue`, `cur_action`, `cur_command`; the property area; files in `/data/property`; `property_triggers_enabled`, `persistent_properties_loaded` | execute_one_command, action_add_queue_tail, property_set, queue_all_property_triggers, start_property_service, load_persist_props | settings while an action runs; boot order; `/data` mounted late on encrypted devices |
| `adb`, `adbd` | asocket lists, per-socket packet queue and peer, closing list; fdevent wants and pending events; transports | local/remote/smart socket enqueue, ready, close; handle_packet; close_all_sockets | closing with data queued, peers closing each other, messages for ids already closed or of an older session, lost connections |
| `libutils` Looper | request table, response list, message queue, wake pipe | addFd, removeFd, sendMessage, removeMessages, wake, pollInner | callbacks and handlers run unlocked from lists made before; a sender decides not to wake |
| `libsysutils` SocketListener | client list with reference counts, pending list, descriptor set | listener thread, accept, worker answers, broadcasts, stopListener | a client is zapped while another thread answers it; descriptor numbers are reused; send blocks under the lock |
| `libsuspend` | a semaphore, `wakeup_count`, `earlysuspend_state`, `autosuspend_enabled` | enable, disable, the suspend thread, the earlysuspend thread | a count read before a wait is used after it; a disable races a suspend under way |
| `sdcard` | the tree of nodes: refcount, parent, name, child list; one mutex | LOOKUP, MKNOD, MKDIR, UNLINK, RMDIR, RENAME, OPEN and others by node, FORGET | two handler threads keep bare pointers over the sections without the mutex; the kernel has a second tree |
| `vold` | volume states, encryption state | mount, unmount, share, cryptfs | uevents and commands race; a failed step halfway |
| `netd`, `keystore`, `debuggerd`, `healthd`, `charger`, `fs_mgr`, `fastboot` | little protocol state | commands, files, I/O | mostly I/O and formats |

How they interact: `init` starts every daemon and restarts it; clients set
properties over a socket, and `init` answers with services (`ctl.start`) and
actions (`on property:...`); vold asks `init` through properties to load the
stored properties once `/data` is mounted; vold and netd are driven over
libsysutils sockets; charger calls libsuspend; the kernel's
FUSE module drives sdcard; everything in C++ uses RefBase.

What makes each part correct:

- **RefBase** - no access after free, no leak, the object lives while it is
  referenced, a promotion fails only when the object was really gone, callbacks
  to the subclass balance, the retry loops make progress.
- **init services** - one process per service, no exit missed, pending restarts
  happen and exclude other requests, nothing of an old process group is left
  without SIGKILL when a service runs again, `init.svc.*` is true, recovery is entered only when justified.
- **init actions** - no trigger is lost, an action is queued at most once and
  eventually runs to its end, `ro.*` never changes, stored properties are
  neither overwritten by defaults nor, unless a write or a load failed, out of
  step with the live ones.
- **adb** - data arrives in order, once, and only at the stream it was sent on,
  nothing is cut off when one end closes, a socket is freed once, both ends of a
  stream end together.
- **Looper** - no wakeup is lost, a message is handled and a ready descriptor
  served without another event, a removed callback runs at most once more.
- **SocketListener** - no client is used after it is deleted, none leaks whose
  worker threads could all be created, the one thread that reads for everybody never blocks in a read and starves nobody.
- **libsuspend** - no suspend while disabled or over an unseen wakeup event, and
  suspends again and again while nothing forbids it.
- **sdcard** - exact reference counts against the kernel's lookups, one sound
  tree, agreement with the kernel's names, no pointer to a freed node.

## 2. Modules

| Module | Models | Proofs |
|---|---|---|
| `RefBase` (run by `MCRefBase`) | `libutils/RefBase.cpp`, `utils/RefBase.h`, `utils/StrongPointer.h` | `RefBaseProofs` |
| `InitService` (`MCInitService`) | `init/init.c`, `signal_handler.c`, `keychords.c`, service builtins | `InitProofs` |
| `InitActions` (`MCInitActions`) | `init/init_parser.c`, `property_service.c`, the command part of `init.c` | `InitProofs` |
| `AdbStream` | what adb promises the programs at the ends of a stream | `AdbProofs` |
| `AdbSockets` (`MCAdbSockets`) | `adb/sockets.c`, `adb.c`, `transport.c`, `fdevent.c`, in both processes | `AdbProofs`; implements `AdbStream`: `AdbStreamProofs` |
| `Looper` (`MCLooper`) | `libutils/Looper.cpp`, `Timers.cpp` | `WakeupProofs` |
| `SocketListener` (`MCSocketListener`) | `libsysutils` SocketListener, SocketClient, FrameworkListener; the workers of `netd/DnsProxyListener.cpp` | `SocketListenerProofs` |
| `Autosuspend` (`MCAutosuspend`) | `libsuspend`, all three back ends | `WakeupProofs` |
| `SdcardFuse` (`MCSdcardFuse`) | the node tree of `sdcard/sdcard.c` | `SdcardFuseProofs` |
| `Lists` | the lists that InitActions, SocketListener and SdcardFuse walk and take elements out of | `ListTheorems` |

A definition named `X_Something` above a definition `X`, marked "Mutant" in its
comment, is a wrong version of `X` that shows what the properties detect. The
specifications never use them. A property named `...Inv` is the conjunction of
the type invariant of its module with named parts.

### 2.1 RefBase

One object and a finite set of handles. A handle is one `sp<>` or `wp<>`
variable, and `pc[h]` says where it is: at rest (`null`, `wp`, `sp`) or between
two atomic accesses of its current operation. The names of the places follow the functions
(`is_` incStrong, `fs_` forceIncStrong, `as_` attemptIncStrong, `ds_` decStrong,
`dw_` decWeak, `aw_` attemptIncWeak). Each atomic access, each callback and each
`delete` is an action of its own. `base` and `refs` say whether the object and
its `weakref_impl` are allocated.

Copying borrows the source handle (`src`), which therefore is not destroyed
meanwhile: that is what C++ asks of its users. An assignment `a = b` is
incStrong by the new value and decStrong of the old one; the two belong to
different handles of the model. `attemptIncWeak` may only be called when
something keeps the memory alive; `utils/RefBase.h:91-94` says so and points at
its users, which keep a table of weak pointers under a mutex from which
`onLastWeakRef` removes the object. `Register`, `LookUp` and the removal in
`decWeak_last` stand for them and are external.

`Races` is the set of kinds of programs that are considered, because the code is
not safe for all of them: "none" (one handle at a time tries for the first strong
reference), "promotes" (any number of promotions may), "all" (promotions and
`incStrong` too). The variable `race` is the kind of the program at hand, chosen at
Init and never changed.

History variables: `pinned[h]`, the strong handles that have been there since `h`
began to promote, and `held`, the references the subclass was given by
callbacks. No action depends on them.

### 2.2 InitService

`init` has one thread: a function is one action unless something outside `init`
can tell the steps apart. `loop` is the place in the main loop: `cmd`
(execute_one_command), `restart` (restart_processes), `poll`, then the handlers
of the readable descriptors in the order of `ufds` (`key`, `prop`, `sig`: the
order in which `keychord_init`, `property_service_init` and `signal_init` are
queued), `reap` (the waitpid loop) and `onrestart` (its onrestart commands).

`flags[s]` holds the dynamic `SVC_` flags; the options of the rc files are
constants. `proc[s]` is the child: forked but not yet in its own group, up,
killed, zombie. `orphans[s]` says which other processes are left in its groups: "alive" ones, and
"doomed" ones that were sent SIGKILL and have not died yet. `kill(-pid)` makes the
first into the second and waits for nothing; `group_dies` is the kernel's later step,
so doomed processes may be there when the service runs again. `Forking` is the
set of services whose process starts others.
Time is kept as ages that saturate where the code stops comparing, so there is
no bound on the length of a behaviour. InitActions models the same main loop for
its own part of the state, so three actions have a name for the part they model:
`execute_service_command` (execute_one_command), `handle_control_fd`
(handle_property_set_fd) and `poll_fds` (poll). `MaxQueue` bounds how many commands
property triggers queue at a time.

`service_start` has three outcomes: forked; disabled by one of its checks; or
given up (SELinux, fork), which leaves the service without a flag.

Left out: a poll interrupted by a signal (one more turn of the loop); more than
32 unread bytes in the signal socket (the descriptor is just readable again);
the instant between sigaction and socketpair in `signal_init` (the
`handle_signal()` at its end covers it); untracked children; builtins that block.

### 2.3 InitActions

`action_list` is filled by `parse_action` and `queue_builtin_action`; the queue
holds places in it. What a `property_set` changes is one record (`Area`), so
`load_properties` is a recursive function of the number of lines read, each a
`property_set`, and stored properties are loaded in every order a directory may
be read (`Orders`). `mounted` says
whether `/data` is there; vold (`Mount`, external) may mount it at any time. `storage`
says what becomes of a write of a property's file: it succeeds, it is refused (mkstemp or
rename fails, and the old file stays), or, since the result of `write` is ignored, a
cut file takes the old one's place (`Cut`, the empty value). `disk[n]` is the value in the
file and whether it is `stale`: the last write of it failed, or the last load skipped
it (unreadable, not regular, insecure). The
commands that matter are `setprop`, `trigger`, `load_persist_props` and the
builtin actions; all others are "other".

`init.rc` names are short model values; a property's value is one of two; the
names' prefixes `ro.`, `persist.`, `net.` are the constants `Ro`, `Persist`, `Net`.
`ran` (history) says whether an action was taken from the queue since the last setting that
triggers it. Permissions (`check_perms`) only make a message disappear: every
message is one that passes. The properties the ramdisk's `default.prop` sets before the rc
files are read are not told apart from properties that do not exist yet. A property
area that is full (`__system_property_add` fails, `property_service.c:326-330`, and the
setting is dropped) is not modelled.

### 2.4 AdbStream and AdbSockets

`AdbStream` is the abstract specification: per end of a stream, the data taken
from its program (`sent`), the data written to it (`rcvd`) and its state
(`fin`). The next packet is taken only when the last one was delivered; an end
closes because its own program did (`own`, or `quit` before the stream was
connected), because the other end did (`peer`, and then it has received
everything), or because the connection or the process was lost (`lost`). One
step may move several ends at once, since a lost connection ends all of them.

`AdbSockets` holds both processes. `sock[e][i]` is the local socket of id `i` in
process `e`: live, on the closing list, or gone; its peer (a local or a remote
socket, or the smart socket that awaits a request); its packets; the events its
fdevent wants and the ones that are pending. A client of the smart
socket may first acquire the transport (`host:transport`), after which the smart socket
carries it and awaits the next request. `HandlePacket` is handle_packet for
each command, `EventFunc` is local_socket_event_func (write half, then read
half), `FdeventProcess` is one select with its pending list, `Accept` and
`Forward` are the listeners. A handler is one action: it computes on a record
`World(e)` and commits it, so the order of its calls is kept and the packets it
sends leave in that order. Remote sockets have no state of their own but the id
they name. `Unplug`, `Replug`, `HostRestart` and `DeviceRestart` are the
environment: what was under way may be lost from the end that dies, and old
packets stay in the kernel for the next session. `close_all_sockets` runs in the
input thread (`InputThreadExit`), as in `transport.c`; it closes the sockets over the
transport, those with a remote peer, and the clients of smart sockets that have
acquired the transport.

The refinement is `Promise == INSTANCE AdbStream WITH ...` (the three
variables `sent`, `rcvd`, `fin` record what the programs see) and the property
`StreamsKept == Promise!StreamSpec`.

Left out: authentication, the jdwp and track-devices sockets, force_eof, the
device's own smart socket, USB and TCP framing (a packet is read and written whole).

### 2.5 Looper

One polling thread and others; every operation may also be called by the polling
thread inside a callback. `pollInner` is cut where it releases or takes `mLock`.
A sender puts its message into the queue under the lock and writes the wake byte
later (`waking`). A registration has an identifier (`regs` counts them), which tells
an old registration of a descriptor from a new one: `requests` is the table,
`responses` the list made by the last poll, `current` the callback under way.
`deadline` is the moment epoll_wait will give up, `Forever` when it has no
timeout; `MaxDelay` stands for the longest delay that toMillisecondTimeoutDelay
can express. `spent` (history) holds the registrations that had their last call
after they were removed. A message handler returning, a callback returning 0 and
one returning 1 are separate actions.

### 2.6 SocketListener

A client is named after its connection, its descriptor number comes from the
kernel's rule "lowest free". `pc` is the place of the listener thread: build the
descriptor set, select, accept, scan the clients for the pending list, process
them one by one (read, answer, hand to a worker, broadcast, or zap and deref).
`workers[c]` counts the threads that answer client `c` with a reference
(DnsProxyListener), `bcast` is a broadcast of another thread, which holds
`mClientsLock` while it sends and blocks while a peer's buffer is full. When
`pthread_create` fails, `start()` goes on (`StartFails`): `leaked[c]` counts the
references that no thread will give back, at most `MaxFailed` of them. (`start()` then
also detaches a handle that was never set, which is undefined and is left out.)
`QuietStop` restricts stopListener to moments without workers and broadcasts, as
its callers use it.

### 2.7 Autosuspend

The back end is chosen at Init, as `autosuspend_init` does at its first call.
`call` is the call under way, `spc` the place of the suspend thread, `epc` that
of the earlysuspend thread. The kernel is external: it counts wakeup events,
accepts a written count only if it is current and no event is active, then
watches (`armed`) until the suspend, and lets user space run only while awake.
`unseen` (history) says that an event began since the count was read. The
earlysuspend thread may end when a framebuffer file cannot be read (`ThreadExits`),
and the kernel may refuse the state though no event came (`WriteFails`).

### 2.8 SdcardFuse

`tree` is the daemon's tree, with the list order of the children (newest first).
`req[h]` is the request that handler `h` works on: a section under `fuse->lock` is
an action, and so is what happens between two of them. The kernel is external:
`dentry` and `nlookup` are its own names and lookup counts, it locks the
directories of an operation, keeps what a request names from being evicted,
revalidates without directory locks, and sends FORGET for what it drops. An
identifier is the address of its node, and addresses are reused. A reply may be
refused (`FuseReplyFails`); what the daemon then keeps is counted in `lost`. The
status of an UNLINK or RMDIR may be refused too (`FuseStatusFails`): the kernel keeps
the name and the daemon does not know. The refused status of a RENAME is not modelled:
the two trees then differ, so what is shown of their agreement is shown
while the kernel takes the status of each rename.

## 3. Runs

| Run | Distinct states | Checks |
|---|---|---|
| `RefBaseRun` | 1,945,994 | `NoUseAfterFree`, `LiveWhileReferenced`, `FreedWhenUnreferenced`, `CountsExact`, `PromoteOnlyFailsUnpinned`, `CallbacksBalanced`, `LockFree` |
| `InitServiceSafety` | 6,607,967 | `OneProcess`, `NoLostChild`, `StateReported`, `SupervisionInv` (`TypeOK`, `RestartingAlone`, `GroupSignalled`, `DeadlineCovers`, `RebootJustified`), `DisabledNeedsCommand` |
| `InitServiceLive` | 87,674 | `RestartHappens`, `ChildReaped` |
| `InitActionsRun` | 113,130 | `QueueInv` (`ActionsTypeOK`, `NoMissedTrigger`), `PersistAgrees`, `PropertiesKept` (`StoredNotOverwritten`, `RoNeverModified`), `AllRun` |
| `AdbStreams` | 2,153,906 | `SocketsInv` (`TypeOK`, `DrainHasPeer`, `InputThreadAlone`), `StreamsKept` |
| `AdbRestart` | 199,899 | `StreamsKept`, `EndsTogether` |
| `LooperRun` | 186,456 | `NoLostWakeup`, `LastCallOnly`, `MessagesHandled`, `FdServed` |
| `SocketListenerRun` | 157,436 | `ClientsInv` (`TypeOK`, `NoFreedUse`, `CountExact`), `NeverBlocksInRead`, `Released`, `CommandsRead`, `StopJoins` |
| `AutosuspendRun` | 1,021 | `DisabledMeansAwake`, `NoEventSleptOver`, `Suspends`, `CallsReturn` |
| `SdcardFuseRun` | 101,443 | `Accounted`, `TreeInv` (`TypeOK`, `TreeSound`), `NoFreedNode`, `DcacheAgrees` |
| `AdbFreedUse` | violation | `NoFreedUse` |
| `SdcardRollback` | violation | `RolledBack` |

The type invariants of RefBase, Looper and Autosuspend, and `LockoutExact` of
Autosuspend, are proved (section 5) and are not repeated in the runs.

**Bounds.**

- *RefBase*: four handles, in both kinds of programs for which the code is safe
  (`Races = {"none", "promotes"}`). An interesting case needs one that
  holds, one that releases, and two that race. More handles are covered by the
  theorems. The counter keeps its real offset, 2^28. There is no symmetry, since
  `LockFree` is a liveness property; it is stated for one handle, since they are
  interchangeable.
- *InitService*: two services, a critical daemon whose onrestart command restarts
  a oneshot, disabled service of the same class that also has a keychord: every
  option and every flag occurs. A delay and window of one tick already order
  before, at and after; the threshold of two lets a window end between counted exits.
  In the safety run the daemon starts other processes (`Forking`), in the liveness
  run nobody does: nothing waits for them.
- *InitActions*: actions that trigger each other in a circle, an empty action, a
  stored property with a default, a read-only one, and `/data` mounted before,
  during or after boot; any write of the file may fail, any load may skip it.
- *AdbStreams*: two host sockets, so a client and a service of the host, or a
  client and a forwarded stream, meet; one device socket; two packets per
  direction, so a second one waits for the READY of the first; one loss of the
  connection, or one restart of adbd, at any moment. *AdbRestart*: one id for each life of
  adb and of adbd, one packet, one restart of the host together with one loss of the
  connection or restart of adbd, in either order: packets of an earlier session meet
  the sockets of the next. The bound of one restart of the host matters: with two, `StreamsKept` fails (section 4).
- *Looper*: one other thread, one handler, one descriptor, two messages, two
  registrations, three moments: enough for a message before and after another, and
  for a descriptor that is registered again while its old response is pending.
- *SocketListener*: two connections over two descriptor numbers, so that a number
  is closed and reused; a buffer of one message, so that send blocks; one worker and
  one thread that cannot be created for each client.
- *Autosuspend*: four wakeup events, each of which may fall before, in or after
  any of the thread's steps.
- *SdcardFuse*: three addresses (a chain of two directories and a file, or a
  replaced and a replacing file), two names, two handlers; at most three lookups
  held or under way and one refused reply. Nodes, names and handlers are
  interchangeable, so symmetry is sound (no liveness is checked there).

**Fairness.** RefBase: a thread inside an operation is scheduled; nobody
has to start one. InitService: `init` takes its steps (it never waits for anyone
but `poll`), time passes, a forked child gets as far as `setpgid`, a killed child
dies. Nothing is assumed of clients, key presses or of a service that runs.
InitActions: only `init` itself. `AllRun` therefore holds although clients may
keep setting properties: the queue is first in, first out, and an action is on it once.
`LockFree` says what the cmpxchg loops give: one operation may starve, but only
while others complete. AdbSockets: the loops and the input threads run, and a
program that is written to reads in the end, or closes (strong fairness, because
select reports other sockets in between). Looper: the polling thread and the clock go on,
a thread that decided to wake writes its byte, handlers and callbacks return
(strongly: other threads may hold `mLock` again and again). SocketListener: the
listener and a broadcast go on, strongly where they need the lock; peers read
their answers and workers finish: without that a peer that never reads does
block everybody (`SocketListener.cpp:273`). Autosuspend: both library threads and the calling
thread run while the system is awake, an active wakeup source ends, the
semaphore is strongly fair to its two waiters, and the kernel does not refuse the
state for ever when no event comes (strong fairness of the successful write).

Deadlock is checked except in the adb runs and in Autosuspend, where everybody
may be content: all streams closed and the bounds used up, or the bound on
wakeup events reached in a suspend.

## 4. Known disagreements

`AdbFreedUse` is a run of its own. A client of the adb server talks to a service of
the server through two local sockets. When the write to the service fails,
`local_socket_enqueue` closes that socket (`sockets.c:156`), which closes and frees its
peer, the socket whose read handler is the caller, and returns 1. The caller takes
a return below 0 for "closed us" ("error return means they closed us as a
side-effect and we must return immediately", `sockets.c:355-356`) and goes on with
`fdevent_del` on the freed socket.

`SdcardRollback` is the other. `handle_lookup` and the other requests that return an entry
raise the node's count before they write the reply. When such an operation "fails writing the
reply to the kernel, you must rollback the refcount", says `sdcard.c:62-64`; `fuse_reply` only logs the error (760), so the
reference stays and the node is never freed. `RolledBack` states the comment;
`Accounted` counts such references in `lost` and shows that they are the only ones.

The following hold in the model as the code is, and not as a comment, an
assertion or a document says. Each is found by checking the named property on
the named instance; the other properties are stated so that they hold.

| Where | What the code does | What the repository says | Property and instance |
|---|---|---|---|
| `RefBase.cpp:333` | a promotion between incStrong's increment and its unconditional fix-up subtracts the initial value a second time | the assertion "attemptIncStrong called on %p after underflow" (435-436) | `NoUnderflow`, `Races = {"all"}` |
| `RefBase.cpp:501` | of two racing first promotions the loser calls `onLastStrongRef` without `onIncStrongAttempted` before | the comment above that call (496-500) | `UnneededWasTaken`, 3 handles, `Races = {"promotes"}`; `CallbacksBalanced` without `race = "none"` fails there too |
| `signal_handler.c:95` | the window starts at the first crash and does not slide | `readme.txt:63-64`, "more than four times in four minutes" | `CriticalReboots`, one service (`OneClassOf`, `OneOnRestart`) |
| `init.c:396` | `kill(-pid)` before the child's `setpgid` hits nobody | `readme.txt:223-224`, "stop <service>" | `StopStops`, one service, `FairSpec` |
| `init.c:360` | a failed fork or SELinux lookup forgets the service | `readme.txt:48-49`, "restarts when they exit" | `RestartedAfterExit`, one service, `FairSpec` |
| `property_service.c:576` | `/data/local.prop` is loaded late, with writing already enabled | 346-347, "prevent them from being overwritten by default values" | `StoredNotOverwritten`, `LocalProps <- MCLocal` |
| `adb.c:524` | a CNXN reply that an earlier host process left in the channel takes the third one online, and the OKAY, WRTE or CLSE behind it is taken for the socket that has the same id now | `protocol.txt:68`, "Any messages received before a CONNECT message MUST be ignored": the CONNECT does not say which session it begins | `StreamsKept` and `DrainHasPeer`, `MaxSession = 2`, one id and one packet each, no loss, 22 states |
| `Looper.cpp:331` | a callback that returns 0 removes whatever is registered for its descriptor now | `Looper.h:99-101`, "this file descriptor and callback unregistered" | `OnlyOwnRemoved`, `MaxSends = 0`, `Timeouts = {0}`, `MaxTime = 1` |
| `SocketListener.cpp:142` | stopListener deletes clients that workers and broadcasts still use | nothing; no caller in the tree does it with workers running | `NoFreedUse`, `QuietStop = FALSE` |
| `sdcard.c:559` | check_caller_access_to_node follows `node->parent` without the lock: a rename and a FORGET may free the parent first | - | `NoFreedNode` with `req[h].node` of "node" requests included, 19 steps |
| `sockets.c:122` | when the transport is lost, the input thread closes the client of a smart socket that has acquired it (`adb.c:1426`) and still wants to read, so the loop may be in its handler | `socket_list_lock` guards the lists, not the handlers | `InputThreadAlone` with `peer = Smart` included |
| `signal_handler.c:67` | SIGKILL is sent to the group and not waited for: the service may run again beside what is left of its last group | - | `GroupSignalled` with "doomed" for "alive" |
| `property_service.c:264-276` | a file that cannot be made or renamed keeps the old value, one whose `write` is cut short keeps a piece of the new, and `property_set` succeeds all the same | - | `PersistAgrees` without `stale` |
| `DnsProxyListener.cpp:152` | `start()` ignores that pthread_create fails: the reference of the thread stays, the client is never deleted | - | `Released` without `leaked` |
| `autosuspend_earlysuspend.c:87` | when a framebuffer file cannot be read the thread ends, and every later enable or disable waits for ever | - | `CallsReturn` without `epc = "exited"` |

Smaller ones, met while translating. init: a restart that finds no binary leaves
`init.svc.<name>` at "restarting" (`init.c:190`); a second action of one name is
kept, not "ignored as an error" (`init_parser.c:872`); `property:x=*` matches a
property that does not exist (`init_parser.c:600`); `net.change` triggers no action
(`property_service.c:335`). adb: `fdevent.c:646` masks the pending events with the
complement of the wanted ones and so drops the wanted instead of the unwanted (they come
again with the next select); a socket that is closed by a CLSE
answers with one of its own (`adb.c:595`), where `protocol.txt:163` says "should not respond to a
CLOSE message in any way"; a client that sends its request and closes at once
leaves the device's end of the stream open (`quit`); `close_all_sockets` runs in the
input thread, beside handlers that hold no lock (`InputThreadAlone` says why that does no
harm to sockets that were sent to the device; the table has the ones it may harm). sdcard: a new file may get the node, and so the identifier and generation, of
a removed file of the same name, where `fuse.h:280` asks for unique ones; a rename does not
derive the permissions again that "State derived based on current position" (167) holds.
libsuspend: `autosuspend_enabled` has no lock, so the library is for one calling thread.

## 5. Proofs

**RefBaseProofs** proves, for every finite set of fewer than 2^28 handles and
`"all" \notin Races` (`NoUnderflow` in section 4 shows why that is needed):
`TypeCorrect`, `CountsAreExact`, `MemorySafe`, `ObjectOutlivesReferences`,
`NothingLeaks`, `PromoteSucceedsWhilePinned`. None of these properties is
inductive alone: that memory is not freed depends on the counts, these on where
every handle is, and whether the offset 2^28 is still in `mStrong` on who is to
remove it. The inductive invariant `IInv` says:
*Counts* (`mWeak` and `mStrong` are cardinalities of sets of handles, plus the offset), *Allocated*
(who keeps which block), *Sources* (borrowed handles are at rest and valid),
*FixUp* (while the offset is there, somebody is before his fix-up), *Locals*
(what `curCount` can be), *Ends* (at most one handle is at the end of an
object's life), *Table* (the mutex and the entry), *Pinned*. The work is
done by lemmas on how the cardinality of `At(P)` changes when one handle moves,
from the finite-set theorems of the library. Each action is a lemma.

`CallbacksAreBalanced` is about programs of the kind "none", since the code does not
balance otherwise (section 4). Its invariant counts `held` by the places of all handles: the
callbacks that are due and not yet made, minus the ones made early.

**InitProofs**, services: for all services, options, classes, commands and time
constants, `ServiceHasOneProcess`, `RestartingIsAlone`, `NoChildIsLost`,
`StateIsReported`, `DisabledIsRespected`, `SupervisionIsSound`. The invariant is
`SvcInv` (types of the flags, `OneProcess`, `RestartingAlone`, `GroupSignalled`),
`LoopInv` (`NoLostChild`, where `reaped` is non-empty, and what `init.svc` says of
every service) and the types of the queued commands. The lemma on `Touches(S)` reduces service_start and
service_stop_or_reset on a set of services to what they do to one.
`StateIsReported` assumes that no onrestart command names its own service:
such a command starts the service, after which the code still reports "restarting".
`DisabledIsRespected` compares the target of the command with the service that was started.
`SupervisionIsSound` (which includes `GroupSignalled`) adds the clock (`SInv`): `nr_crashed` and `time_crashed` describe
the newest of the recorded exits, so a reboot finds enough of them in the window,
and `process_needs_restart` is the least of the times that the waiting services have
left, which one tick shortens alike. It assumes a threshold of at least 1.

**InitProofs**, actions: for any rc file, properties, clients and order of the
directory, `NoTriggerIsMissed` (`QueueInv`), `StoredAreCurrent`
(`PersistAgrees`), `RoIsReadOnly` and `BootKeepsProperties` (`PropertiesKept`). The
invariant `AInv` says that the area is *Sound* (an action is on the queue at most once,
and once the triggers are enabled each action whose property has its value is
queued or has run since), that nothing is parsed any more when the triggers are
enabled (*BootFirst*: a later action would have missed its setting), that the current
action is one of the list, and that stored values are current once `/data` was
read (*Synced*), where no write and no load of the file failed: every outcome of a write
and of a load is allowed, and what failed is marked `stale`. Soundness is shown once of `property_set`; `LoadKeeps` carries any property that
`property_set` keeps through a file of any length, `StoredKeeps` through the
directory in any order. The assumptions are that the prefixes exclude each other, that the
commands of the rc file set known properties, and that the directory is finite.
`BootKeepsProperties` has two hypotheses, for the code promises no more:
`NoStoredDefaults` (no line of `/data/local.prop` is for a stored property; section 4
shows what happens otherwise) and `BootOrder`, which is what `main()` and init.rc:532 do:
`property_service_init` is queued once, no section contains or triggers a builtin
action, and `load_persist_props` is a command of property triggers only. Why the defaults are
then read before anything can be written is a second invariant, `BInv`:
on the queue, the action that reads the defaults comes before every action of a
property trigger (*Ordered*), while it is still to be queued none of these is there
(*BootPending*), and once writing is enabled, or such an action is executed, it is on the queue
no more (*Executed*).

**AdbProofs** proves of the abstract streams, for all ids and data:
`StreamsInOrder` (what an end received is what the other sent, in order, less at
most one packet) and `NothingTruncated` (an end closed by its peer received
everything). The invariant adds that a far end never comes before its near end.
AdbSockets inherits both (`SocketsInOrder`, `SocketsComplete`, below).

Of AdbSockets it proves `SocketsSound`: `SocketsInv` for any number of ids, packets,
losses of the connection and restarts of adbd, under `MaxSession = 0`. The hypothesis is
needed: with two restarts of the host `DrainHasPeer` is false (section 4). A socket
has the peer it calls only if the packets that reach it are the ones meant for
it, so the invariant `AdbInd` is about both processes and the channels between them:
*SocketsOK* (what each kind of peer says of a socket), *PairsOK* (two sockets of the
host that are joined name each other), *KnownOK* (a packet or a remote socket names only ids of
sockets that went to the transport), *OrderOK* (a socket that waits for its first A_OKAY gets
it before any A_WRTE), *LinkOK* (A_SYNC is the last packet of a lost
connection, and an offline transport has no remote sockets, with live ones over it only until its
input thread leaves: this is why `close_all_sockets` meets nobody among the sockets
that were sent to the device; the clients of smart sockets are the exception). A handler is a
chain of calls on a record, so the invariant is carried through each of them:
`Fits(e, w, c)` says that committing world `w` with channel `c` would give a
sound state, and every helper of `sockets.c` has a lemma that it keeps `Fits`; the lemma of an
action then only follows its calls.

**AdbStreamProofs** proves that AdbSockets implements AdbStream (`StreamsCarried`, which
is `StreamsKept` under `MaxSession = 0`), and with it that the streams of
AdbSockets arrive in order and complete. The condition is the one of
`SocketsSound`: with two restarts of the host the refinement is false (section 4).
`AdbInd` says nothing of data, so the refinement needs a second invariant,
`Carried`, which relates what the programs have seen to the sockets and to the packets
under way:

- *EndsOK*: each end of a stream is served by at most one socket, which has at
  most one packet queued, and the sockets of a pair serve the two ends of one stream;
- *FreshOK*: the ends of streams to come have not begun, and a far end does not
  begin before its A_OPEN arrives;
- *DataOK*: what `StreamsInOrder` and `NothingTruncated` say, at each end;
- *NamesOK*: an id in a packet or in a remote socket is either the id of the
  other end of the same stream or of a socket that is gone; adbd has used up every id
  it is called by, so that no later stream gets it;
- *CnxnOK*: an adbd that starts again gets A_CNXN before any packet that could be
  meant for its predecessor;
- *Flow*: the one packet that was sent and not received is in the receiver's queue or
  in the channel, before any A_CLSE; a socket that reads from its program, or
  will when the A_OKAY under way arrives, has nothing under way.

`Flow` holds between the calls of a handler only together with the world the
handler works on. So, as `Fits` does for `AdbInd`, `Bears(e, w, c)` says that
the state would be sound and carry its streams if process `e` went on with world `w`
and channel `c`. The lemmas named `...Good` (most of them in AdbProofs) say which changes of a socket, a
channel and the data keep `Carried`; those named `Bear...` say that each function of
`sockets.c` makes such a change, and that what it does at each end is permitted by the
promise as seen from the start of the step (*Permitted*); those named
`...Carries` follow the calls of an action. A handler may write to two programs and close
both ends, which is why the promise allows a step to do something at several
ends at once.

**WakeupProofs** proves of Looper for any threads, handlers, descriptors and bounds:
`LooperTypes`, `NoWakeupIsLost` and `DispatchedOnceMore`. The wakeup argument needs
two facts that hold at different moments: *Covered* (unless somebody is about to
wake the poll, `mNextMessageUptime` is no later than any queued message) and
*Asleep* (the deadline of a sleep is no later than `mNextMessageUptime`). The
other theorem rests on *Unique* (an identifier names one registration of one
descriptor, pending at most once) and *Gone* (a spent registration is neither
registered nor pending).

Of Autosuspend it proves for any number of events: `AutosuspendTypes`,
`SemaphoreExact`, `DisableKeepsAwake` and `EventsWake`. The invariant says what each call has
written so far (*WantedExact*), where a suspended system's threads are
(*AsleepExact*), how the earlysuspend thread and the framebuffer go round
(*Phase*), and that from the read of the count to the write of the state an event
that began is still active or has changed the count (*Watched*): this is why a
count read long before the semaphore was taken is safe.

**SocketListenerProofs** proves for any peers, descriptors, workers and buffers
`ClientsCorrect` (`ClientsInv`: types, `NoFreedUse`, `CountExact`, where the references of
threads that could not be created are counted) and
`ListenerNeverBlocks`, both for `QuietStop`: without it they are false (section 4).
The pending list has no references, so the invariant has to say why its clients live:
they are on the client list, except that the head may have left it in `zap`; a client
is on the list exactly while it is live and not zapped; and two live clients have different
descriptors, so that a bit of `readFds` that is set for a listed client was set by
a select that saw this client readable.

**SdcardFuseProofs** proves for any nodes, names and handler threads `CountsExact`
(`Accounted`), `TreeStaysSound`, `PointersLive` and `DentriesFound`. The four need each
other: a node may be freed when its count is 0, so pointers are live because
counts account for them; counts fall only with lookups the kernel has, which it has
because it found the node under its name. `TreeOK(t, e, D)` is the shape of a tree in
which every node has `e` references from outside and the nodes of `D` are cut off
for a moment; each tree operation is shown to keep it for a changed `e` and `D`, and
`Destroyed`, which climbs from a node to the first parent that survives, by
induction over the climb. The tree has no cycle because every set of
live nodes has one whose parent is outside; a rename keeps that because the kernel never
moves a directory below itself, as the model of its locks says.

**ListTheorems** holds what these share: which elements `Kept` leaves and in
what order, what Append, Tail and prepending do to `Elements` and `Distinct`,
where the first element of a kind is. The library's induction theorems take an operator,
which the provers cannot instantiate; `NatSet` states induction for a *set* of natural
numbers, derived from well-foundedness, and carries the inductions over lists,
property files and the climb in the tree. The recursive operators it is used
on are recursive functions.

Assumptions on the constants are the named ASSUMEs of the modules; every run
evaluates them. Besides those mentioned: the sets of handles, peers, nodes and
handlers are finite.

**Only model-checked:** all liveness properties (out of the prover's reach, like
ENABLED), and `StreamsKept` across a restart of the host, which the run
`AdbRestart` shows for one restart. For two it is false (section 4).

## 6. Not modelled, and what is left

Next, in this order:

1. `InitLoop`: InitService and InitActions composed over one main loop, the
   commands of actions being those of services.
2. `Volume` (vold): states of a volume under commands and uevents; the per-user
   states of keystore; the coldboot handshake of ueventd.

Not modelled, and not planned, is the greater part of the tree by size:
rendering and code generation (libpixelflinger), the shell and the
command-line tools, file-system images and sparse files (ext4_utils, libsparse,
fastboot), metadata tables (media), cryptography (mincrypt, most of cryptfs and
keystore), the Windows layer of adb, iptables command lines (netd), logging and
imported code. They are sequential and keep almost no state between calls; what
can go wrong in them is a matter of formats, arithmetic on data and I/O, which a
state machine says little about. That is why the modules cover only a small share of
the tree's lines, and concentrate on the code whose threads, processes and
messages interleave.
