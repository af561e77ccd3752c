# libgphoto2: specification and verification

This directory holds TLA+ modules for parts of libgphoto2, the TLC
configurations that check them, and proofs checked by TLAPS. Paths below are
relative to the repository's root (`src/` in `PROJECT.json`).

Run a configuration with `tlc -workers 2 -config X.cfg M`, a proof module with
`tlapm M.tla`.

## 1. The system

libgphoto2 gives an application one interface to cameras of many makers. The
application owns a `Camera`, which loads the driver (camlib) of its model,
which talks to the device through a port.

```
 application
   |  gp_camera_*          ^ context callbacks (progress, idle, cancel, status)
   v                       |
 Camera (gphoto2-camera.c) ---- CameraAbilitiesList, CameraFile, CameraWidget, ...
   |  functions->*    \
   |                   \ gp_filesystem_*      ^ gp_filesystem_append, set_file_noop,
   v                    v                     | ... called by the driver
 driver (camlibs/ptp2)  CameraFilesystem (gphoto2-filesys.c)
   |   ptp_*             tree, dirty marks, downloaded files
   v
 PTP transactions (ptp.c over usb.c / ptpip.c)
   v
 GPPort (libgphoto2_port) -> libusb1, serial, ptpip, ... -> camera
```

| Component | State it keeps | Operations | What must be right |
|---|---|---|---|
| Camera life cycle, `libgphoto2/gphoto2-camera.c` | reference count, busy counter `used` (unsigned char), `exit_requested`, abilities, driver library, port, timer ids | ref, unref, init, exit, free, set_abilities, set_port_info, start/stop_timeout, and some twenty operations between `CHECK_INIT` and `CAMERA_UNUSED` | the driver is never unloaded or the camera freed under a running call; a postponed exit or free does happen; no timer outlives the driver |
| Operation contexts, `camlibs/ptp2/ptp-context.c`, `gphoto2-context.c` | thread-private binding tables, generation per `PTPData`, global count of held references, reference count of each `GPContext` | owner_init, owner_forget, set, get, clear, release_thread; new/ref/unref of a context | transport code gets its own operation's context and never a freed one, in every interleaving of threads |
| Pentax tethered capture, `camlibs/ptp2/library.c`, `pentax-utils.c`, `pentax-publication.c` | `transfer_state`, `recovery_required`, `capture_output_pending`, Bulb flags, publications, extra files; on the camera the candidate queue and the exposure being made | capture, Bulb start and stop, orphan claims, admission, reconciliation of companions | no second shutter over an unsettled exposure, no image under another's name, nothing deleted that is not kept, calls return |
| Camera filesystem, `libgphoto2/gphoto2-filesys.c` | folder tree with two dirty marks per folder, file information, the doubly linked list of downloads | list, append, get/set info, get/put/delete file, make/remove folder, delete all, reset, the `_noop` calls of drivers | what is marked clean agrees with the camera; the list never links a freed entry; what is served is current |
| CameraFile, widgets, lists, settings | reference counts, trees, arrays | create, ref/unref, get/set | counts, parent links |
| Abilities list, driver loading | table of models | load, detect, lookup | the right driver is found |
| Port layer and port drivers | open port, pending settings; libusb1: the pool of interrupt transfers, the queue of what they brought | open, close, reset, read, write, check_int, set_settings | settings in force match those asked for; no interrupt packet is lost, repeated or out of order; lost transfers are replaced |
| PTP transactions over USB and network | session and transaction numbers, a response read ahead of its turn | open and close session, transaction, cancel | a call that returns OK was done, and handed on its own data; a failed call does not spoil the next ones for good |
| PTP event queue, object cache | queue of events, table of objects | check_event, get_one_event, object_want | events in order and once, no stale handle |
| Pentax session opening, live view, exit and recovery | live view found or started, vendor mode and doubt about it, `recovery_required` | camera_init, preview, camera_exit, stale-session recovery | no reset over an exposing body; an exit that says OK leaves the body as it was found |
| Configuration (`config.c`), datasets (`ptp-pack.c`) | none of their own | translate values | data, not control |
| Picture decoding, texts, versions, build files | none | pure functions | not program control |
| About sixty other drivers | each its own protocol | the same functions table | out of scope one by one |

Every row is in `PROJECT.json` under `components`, with its status.

**What is hard here.** (a) *Callbacks.* The library is meant for one thread per
camera, but a driver calls the application back during an operation, and the
application may call the library from there. (b) *Threads.* Several cameras in
several threads share drivers and contexts. (c) *Lost and late answers.* A
capture's response may be lost though the shutter fired; an image may turn up
after the wait was given up. (d) *Restarts.* A host that dies leaves images
and an open shutter on the camera. (e) *Stale caches.* The tree mirrors a
storage that changes by itself, as do the function table and the flags read
after a driver call. (f) *Half-done work.* Listings, deletions and
reconciliations stop in the middle. `hazards` in `PROJECT.json` lists each of
these at its line, with the properties that cover it or why none does.

## 2. Modules

| Module | Models | Checked by | Proved in |
|---|---|---|---|
| `CameraCore` | life of one `Camera` with callbacks and timers | `MCCameraCore` | `CameraCoreProofs` |
| `PTPContext` | contexts bound by threads | `MCPTPContext` | `PTPContextProofs` |
| `PentaxCapture` | the capture state machine and the camera's queue | `MCPentaxCapture` | `PentaxCaptureProofs` |
| `CameraFilesys` | the tree, dirty marks, information, downloads | `MCCameraFilesys` | `CameraFilesysProofs` |
| `LruQueue` | abstract: what the list of downloads promises | refined by `CameraFilesys` | `CameraFilesysQueueProofs` |
| `PTPTransaction` | request, data and response over USB, with a device that answers late | `MCPTPTransaction` | `PTPTransactionProofs` |
| `RequestResponse` | abstract: what a transaction layer promises its callers | refined by `PTPTransaction` | - |
| `PentaxSession` | connecting to a body another process may have left, live view, exit | `MCPentaxSession` | `PentaxSessionProofs` |
| `InterruptPool` | the interrupt transfers of the libusb1 port driver | `MCPTPEvents` | `PTPEventsProofs` |
| `PTPEvents` | the driver's event queue; extends `InterruptPool` | `MCPTPEvents` | `PTPEventsProofs` |

How they compose: `PTPEvents` extends `InterruptPool`, so its steps are the
port's and the driver's together. `PentaxSession` is what happens around
`PentaxCapture`: the flags it hands over when it is `"ready"`
(`recovery_required`, `candidateKnown`) are those `PentaxCapture`'s restart
begins with. `CameraCore`'s driver calls are what `PTPContext`'s operations
run in. `CameraFilesys`'s `news` are the object events that `PTPEvents`
delivers in order and once.

### CameraCore

State: one variable per field of `struct _CameraPrivateCore` that decides
control, and `stack`, the library calls in progress, innermost last. A call
stands on the stack while driver or detection code runs for it (`at` is
`"driver"`, `"detect"` or, for an operation waiting for its implied
`gp_camera_init`, `"init"`); code between two such points is one step.
Correspondence:

| Action | Code |
|---|---|
| `Ref`, `Unref`, `Exit`, `SetAbilities`, `SetPortInfo` | `gp_camera_ref`, `_unref`, `_exit`, `_set_abilities`, `_set_port_info` |
| `CallInit`, `LoadDriver`, `InitFindsNothing`, `InitDetectFails`, `InitReturns`, `DriverInitFails` | `gp_camera_init` up to detection, the library load, its error paths, the driver's `camera_init` |
| `CallOperation`, `OperationReturns`, `InfoFallback` | `CHECK_INIT` .. `CAMERA_UNUSED` around a driver function; `gp_camera_file_get_info` with its own preview download; `gp_camera_get_extra_capture_files` |
| `ExitReturns` | the driver's `camera_exit`, and the rest of its caller |
| `ToggleTimer` | a driver starting or stopping its keepalive |
| `Release`, `BeginExit`, `BeginFree` | the `CAMERA_UNUSED` macro, `gp_camera_exit`, `gp_camera_free` |

About twenty operations have the same skeleton and are one kind, `"ordinary"`.
`CallbackFrom` says in which calls the application is called back and calls
the library in turn, `Faults` which failures occur. `used` counts modulo
`UsedModulus` (256).

A direct `gp_camera_init` is called on a camera at rest without a driver
(`CallInit`). The code has no such guard: called from a callback, or a second
time, it clears `exit_requested`, so that a postponed exit is forgotten, and
loads again over the driver that is loaded. So what is said of postponed exits
(`IdleExitIsPerformed`) is said of applications that leave the initialisation of
a camera in use alone. A driver that starts a timer in its `camera_init` and
then fails is left out too: the error path does not stop that timer.

### PTPContext

Every step touches the shared count of one context, as each atomic
instruction does, so a `ptp_context_set` that drops an old binding and stores a
new one is several steps (`Enter`, `Reclaim`, `Bind`, ...), with the other
threads and the application between them. Slots of a thread's table are a set,
since no code depends on which slot is used. The contract of
ptp-context.c:135-156, that the caller keeps the context alive until it has
been retained, is the guard `~InWindow(c)` of the application's unref. With
`PlainUnref` the application's `gp_context_unref` is a load and a store
(`AppLoad`, `AppStore`), as it is in gphoto2-context.c.

### PentaxCapture

The camera is `making` (images of an exposure in progress), `queue`
(candidates, oldest first) and `held` (a Bulb shutter). A call is a program
counter `pc` that stops at each transaction, because an answer can fail, get
lost or a restart come between any two. `Look`, `Fetch`, `Drop` and `Claimed`
are the loop that the claim of orphans and the reconciliation of companions
share (`loop` says for which of them it runs). Design decisions:

- `Faults` names what may go wrong: a condition frame that cannot be read, a
  rejected or lost shutter response, a failing transfer, deletion, write to the
  recovery directory, publication; a rejected stop; a delete carried out whose
  response is lost; a shutter on the body; a host restart.
- A frame reports `+36` nonzero exactly when a candidate is offered (and `+32`
  with it), and `+104` unsafe while an exposure is being made.
- A deadline or a cancellation ends any wait, so the choice to give up is
  always there. The loops' limits of four rounds and eight files are reached by
  the same choice.
- Beyond `MaxExposures` the camera rejects the shutter.
- A frame that is too short to be parsed is one that cannot be read: both refuse
  the start of a Bulb action and latch the recovery (`Admit`).
- Transfer states that no other step distinguishes are merged
  (`TransferStates` lists what is left).
- The filesystem entry left behind by a failed publication is not modelled.

### CameraFilesys and LruQueue

`fs` is the tree: known folders, the folders with `folders_dirty` and
`files_dirty`, files, cached content (`normal`: none, current, or old by now),
cached information (`info`), and the list of downloads `lru` with `first`,
`last`, `prev`, `next` as in the C structure, the self-link of the first entry
included. `device` is what the camera has, `host` the files no card has, `news`
the events not handled. Each action is one call of the interface with all the
listings and prunings that it sets off; the set `w` names the listing that
fails. `CaptureToHost` and `HandleEvent` are what the ptp2 driver does to the
tree (library.c 4424-4482, 3629-3668, 9611-9713).

`LruQueue` is the abstract specification: the held files, which of two was used
longer ago, the files there are and the doubtful ones, whose directory is to be
read again. Using a file lets go of doubtful ones and of the oldest beyond
`Keep`; otherwise a download goes only with its file (`Forget`), when its
directory is read again, or when its folder is cleared, even if the deletion then stops
half-way (`Clear`). `CameraFilesys` implements it (property
`KeepsRecentlyUsed`): held are the entries with an `lru_prev`, their order is
that in which a walk from `lru_first` meets them, and doubtful are the entries in
or below a dirty folder.

Abstractions: normal, raw and audio content are one kind; previews, EXIF and
metadata, which are cached outside the list, the byte count `lru_size`,
storage information and lookups by index are left out. In one call at
most one listing fails, the same one each time it is tried. `delete_all`
without a driver function is a sequence of single deletions. The camera
announces every change of its own in an event, and the events are handled in
order.

*Answers that get lost.* A deletion, an upload, and the making or removal of a
folder may take effect on the camera, the removal also in part, and still be
answered with an error; so may the deletion at which `delete_all`, going one by
one, stops. The code then returns before it touches the tree (filesys.c 1122,
1185, 1258, 1301): `DeleteFile`, `PutFile` and `MakeDir` with `answered = FALSE`,
and the last disjuncts of `RemoveDir` and `DeleteAll`. The caller has the error,
the folder still counts as clean, and what it says of that one file or folder
may be wrong. `lost` and `lostDirs` name these, `unread` the folders that count
as clean though their listing failed. They are the specification's own
knowledge, like `host`, and only `MayFail` reads them, to bound their number
by `MaxFaults`: the properties leave out exactly these files and folders and
nothing else of their folders, and only until a call that succeeds, or a new
listing, sets them right. A folder made a second time, because the tree did not
know that it was there, is entered in its parent's list twice; `twice` tells
which, because removing it brings the older entry to light.

### PTPTransaction and RequestResponse

`transactionId` and `buffer` are `params->transaction_id` and
`params->response_packet`; `op`, `id`, `do_retry`, `left`, `tries` and `pc` the
transaction at work; `inbox` and `pipe` what the device has not dealt with and what the
host has not read. Correspondence:

| Action | Code |
|---|---|
| `OpenSession`, `Transact`, `Begin` | `ptp_opensession`, any `ptp_transaction`: the id taken and moved on (ptp.c 225-302, 2179-2203) |
| `SendRequest`, `SendData` | `ptp_usb_sendreq`, `ptp_usb_senddata` |
| `GetData`, `GetMore`, `Drain` | `ptp_usb_getdata`: its first packet, the rest of a long container, reading away late data |
| `GetResponse` (`Skip`, `Conclude`) | `ptp_usb_getresp` in the loop of `ptp_transaction_new` |
| `ReadFails` | a read that returned nothing or an error, retries included |
| `DeviceAnswers`, `Reopen` | external: the device; a session opened again, with or without a reset of the port |

A packet is one read of the host. The device answers in the order of the
requests, with an error at once or with data and OK, the two perhaps in one
read. Packets remember whose answer they carry, which the code cannot see.
Which data packet a container begins with does not matter beyond its operation
code, since the code compares nothing else of it.

A write that failed may have reached the device all the same. After
`GP_ERROR_IO_WRITE` the code clears the halt and writes the request, with the
same id, once more (usb.c 84-95), so that the device may have it twice, do it
twice and answer twice: the second disjunct of `SendRequest`, after which
`do_retry` is false. A call may therefore return OK on the first answer and
leave the other request, or its answer, in flight. What is promised after an OK
allows for it: nothing of an *earlier* call is left, and nothing at all if the
request was written only once (`OkResynchronises`); the next call's data are
its own if the call before it returned OK with its request written only once
(`DataAfterOkIsOwn`, by way of `afterOk`), and it may then write its own request
twice. What the duplicate can do to the call after it is the same as any late
answer can (`MCPTPLateData`, `MCPTPLateRefusal`).

`RequestResponse` is the abstract specification: a caller is told "ok" only
when the device has done the request of that call; `PTPTransaction` implements
it (`AnswersOwnRequest`) under the mapping of `Promised`, where a close, and what follows a session
opened over the remains of another, may end "unsure".

### PentaxSession

One process after another connects; nothing bounds how many. `session`,
`vendor`, `liveView`, `exposing` and `candidate` are the body; the rest is the
process. Correspondence:

| Action | Code (camlibs/ptp2/library.c) |
|---|---|
| `Connect`, `OpenSession` | `camera_init` and its opening loop |
| `NotOverUsb`, `RecoveryObserves`, `CloseStale`, `ResetPort`, `Reopen` | `pentax_recover_stale_session` |
| `GetDeviceInfo`, `IdentifySupportedModel`, `Reconcile`, `EnableVendorMode`, `RefreshDeviceInfo`, `RollBack` | the rest of `camera_init` |
| `StartPreview`, `StartLiveView`, `GetFrame`, `SetKeepLiveView` | `camera_capture_preview`, `_put_Pentax_KeepLiveView` |
| `Exit`, `ExitRestores`, `ExitDisables`, `ExitCloses` | `camera_exit` |
| `Dies`, `Exposes`, `SwitchedOff` | external: the process dies anywhere, somebody uses the body |

A command that failed may have been carried out. An observation of the body is
one step: live view is changed by the host alone, and of the exposure only the
moment at which it was seen matters. `touched` and `loose` are the
specification's knowledge of what the code cannot know (the body was operated
since; an answer was lost), and no guard reads them. The branch of
`pentax_restore_live_view` for a missing original value is not there, because
it is never reached: `inliveview => originalValid` is part of
`ReadyIsReconciled`.

### InterruptPool and PTPEvents

Slots of `transfers[]` are counted, as no code depends on which one is used.
`active` is `nrofactiveinttransfers`, `irqs` the queue the callback fills,
`ended` what libusb has to report. Correspondence:

| Action | Code |
|---|---|
| `Callback` (`Queues`, `Freed`, `Resubmitted`) | `_cb_irq` |
| `CheckInt` (`Restarts`, `Queue`, `Missing`), `Serve`, `WaitEnds` | `gp_libusb1_check_int`, `gp_libusb1_queue_interrupt_urbs` |
| `Open`, `Bulk`, `BulkDone` | `gp_libusb1_open`; reads and writes, during which events are handled too |
| `Cut`, `CaughtUp`, `CancelAll`, `Reaped`, `Closed`, `ResetDone` | `_close_async_interrupts` and the rest of close and reset |
| `Check`, `CheckAgain`, `CheckFails`, `ReadEvent`, `ReadOn`, `ReadRest` | `ptp_usb_event` and `ptp_add_event` |
| `TakeEvent` | `ptp_get_one_event`, `ptp_get_one_event_by_type` |

Handling events reports everything that has ended, so the blocking call at
the end of `_close_async_interrupts` has nothing left to wait for. Left out: an
open whose submission fails (the interface stays claimed and a second open is
refused), a device without an interrupt endpoint, empty packets and packets
shorter than a header, what an event does to the object cache, the vendors' own
queues. `WaitEnds` ends in a timeout or in the error of
`libusb_handle_events_timeout`. `dropped` and `forgotten` are for
the properties only.

## 3. Runs

Passing:

| Run | Question | Bounds | Size |
|---|---|---|---|
| `camera_core` | do postponed exits and frees happen exactly when nothing runs, with the application calling from every operation? | 2 models, 3 references, 5 nested calls, no faults | 504 states |
| `camera_faults` | what survives calls that unbalance `used`, up to its wrap? | the same, all faults, no callbacks | 39 048 states |
| `ptp_context` | are counts exact and bindings one's own in every interleaving? | 2 threads, 2 owner addresses, 2 contexts, 2 slots, generations modulo 3 | 800 k states (symmetry) |
| `ptp_context_plain` | what is left when the application's unref is not atomic? | 2 threads, 1 owner, 2 contexts | symmetric |
| `pentax_capture` | who owns an image and what holds back the shutter, whatever fails? | 3 exposures of up to 2 files, 2 publication slots, all faults but a shutter on the body, restarts | 478 k states |
| `pentax_body` | is nothing lost with somebody at the camera, and does every call return? | 2 exposures, 8 slots, fair | 285 k states |
| `ptp_transaction` | is every OK the answer to its own request, with its own data, whatever came late or twice? | 2 operations with data, 1 that sends, 1 plain; 4 calls, containers of 3 packets, 2 sessions, 1 request written again | 378 k states |
| `pentax_session` | does recovery leave a working body alone, and an exit a clean one? | none | 1.19 M states |
| `ptp_events` | does each event arrive, once and in order, whatever transfers fail? | pool of 2, 3 packets, 2 faults of six kinds, 2 closings or resets, fair | 487 k states |
| `filesys` | do the tree, the information and the list stay right under every order of calls? | 3 nested folders, 1 file each, 1 picture kept, 1 pending event, 1 failure that left something wrong | 83 k states |

Why the bounds are enough. *camera*: two models make a stale driver visible;
three references and five calls allow an operation, its implied init, a
callback, an exit and a second reference dropped at every level. The counter
wraps to 255 at the first unmatched decrement, so its true width is used.
*contexts*: an address reused by a second lifetime, by another thread, and a
generation that wraps all occur within 2/2/2/3; the theorems lift the bounds.
*pentax*: the property of a capture speaks of its exposure, one before it and
one after; two files make a companion, two slots run out with the third file.
*filesys*: a folder, its parent and the root distinguish every case of the
recursive listing; three entries and one kept picture make the list empty,
single, full and overfull. `InfoDepths`, `NewsDepths`, `UploadDepths` and
`FaultDepths` give each feature its own levels, so that the features meet in
every pair on a state space that stays small: listings fail and answers are lost
in the root and the folder below it, uploads go to that folder, the camera
changes files one level further down. One failure at a time (`MaxFaults`) is
still to be made good when the next call is made; a new listing heals it, and
then there may be another. One event waits at a time: that two events of one
file are handled one after the other, as when a file is deleted on the body and
stored again, is beyond this run and covered by the theorem `HeldIsCurrent`.

*transactions*: a late answer meets the call after its own, the one after that
and, by way of a reopened session, one with its own id again: four calls have
an opening, a failed call and two that may be confused, one of them written
twice. With two requests written again (2.39 M states) everything holds as well.
*session*: all variables are finite, so nothing is cut off. *events*: a pool of
two loses one transfer, then the other; the third packet comes after an event
of two; two faults include a failure and a second one while the first is made
good; with two cuts a port is reset and then closed, or closed, opened and
closed.

Deadlock is checked except in the camera runs, where a freed camera accepts no
call, and in `ptp_transaction`, where the calls run out.

Violations of what the repository says (each is a finding in `PROJECT.json`):

| Run | Statement | What happens |
|---|---|---|
| `pentax_late_frame` | a frame that landed is claimed as an orphan | the latched obligation of the capture that gave up forbids the claim |
| `pentax_live_view` | an exit never leaves the camera in PC live view | found on at the connection, left by a process that died, it is what the exit restores |

Further configurations reproduce disagreements that are not among the runs,
each as a counterexample to the property it names:

| Configuration (module) | Property | Statement and code |
|---|---|---|
| `MCCameraDetect` (MCCameraCore) | `RestingCameraAnswers` | camera.c:243 "will get reinitialized"; CRSL/CRS in `gp_camera_init` (706) lower a counter that was not raised: 255. With `Faults = {"set_port_info"}` the same of `gp_camera_set_port_info` (421) |
| `MCCameraExtraFiles` | `IdleExitIsPerformed` | an exit is performed when the camera is no longer in use; `gp_camera_get_extra_capture_files` never gives the camera back |
| `MCCameraInfoPreview` | `InfoPreviewNotRefused` | camera.c:1640; the preview is fetched through the public call, which finds the camera busy |
| `MCCameraInitCallback` | `DriverOutlivesItsCalls` | camera.c:257; a direct `gp_camera_init` is not counted as use |
| `MCPTPContextFull` (MCPTPContext) | `OnlyLiveOwnersFillTable` | ptp-context.c:213; slots of freed owners at other addresses stay taken |
| `MCPTPContextLost` | `UnreferencedIsFreed` | ptp-context.c:155 "every path below is balanced"; the store of a plain unref overwrites a release |
| `MCPentaxObligation` (MCPentaxCapture) | `ObligationOutlivesReadiness` | CAPTURE-RECOVERY.md:18; library.c:6741 clears it on such a sample |
| `MCPentaxOrphans` | `OrphansNotReported` | library.c:6624; a failed claim returns at 6622, before the clearing |
| `MCPentaxRefusal` | `RefusalKeepsResult` | library.c:7163; a successful claim clears all publications (6626), then the shutter is refused |
| `MCPentaxSlotZero` | `SlotZeroIsPrimary` | ptp.h:4191; companions are published before the primary (7641) |
| `MCPentaxStuckBulb` | `OperationCompletes` | CAPTURE-RECOVERY.md:10; after a rejected stop the operation never ends |
| `MCPentaxLost` | `DeletedIsKept` | a candidate is preserved when publication fails; it was deleted on the camera before |
| `MCFilesysCapture` (MCCameraFilesys) | `CaptureStaysFetchable` | a captured file can be downloaded; the only copy of a capture kept on no card is pruned by the fourth |
| `MCFilesysRemoveDir` | `RemoveDirOnlyEmpty` | filesys.c:1246; a folder never listed looks empty |
| `MCFilesysAppend` | `AnnouncedWhereItIs` | "Tells the fs that there is a file called filename in folder called folder": with two unknown levels the file enters the wrong folder too |
| `MCFilesysMTime` | `ServesCurrent` | a modification time that was set stays stale in the cached information |
| `MCPTPLateData` (MCPTPTransaction) | `DataIsOwn` | usb.c "if this is a valid packet that came late, drain it": late data of the same operation are taken for this call's own; only a call right after one that returned OK and wrote its request once is safe (`DataAfterOkIsOwn`) |
| `MCPTPLateRefusal` | `RefusalIsOwn` | an error code ends the call whichever transaction it answers |
| `MCPTPReopen` | `OkIsOwn` | ptp.c "try to clean up potential left overs from previous session": without a reset of the port an old OK has the new session's id |
| `MCPTPEventsLate` (MCPTPEvents) | `WaitHasTransfer` | libusb1.c:831 "If we have lost all the queued transfers, we should probably restart them"; a transfer that ends just before its cancellation stays counted |
| `MCPTPEventsPieces` | `EventsAreWhole` | usb.c:609 "if we read anything over interrupt endpoint it must be an event"; the rest of an event that came too late is read as one |

Seen while reading, and not turned into a property: the comment on
`PICTURES_TO_KEEP` speaks of two pictures and one more is kept, as pruning
comes before the new picture is linked; `lru_size` drifts when content is
replaced; `gp_filesystem_put_file` stores content of any type as normal.

## 4. Fairness

- `CameraCore!FairSpec`: weak fairness of `CallReturns`. A driver call comes
  back because the port's timeouts bound its waits. The application owes
  nothing: `AbandonedIsFreed` starts when it has dropped its last reference.
- `PentaxCapture!FairSpec`: weak fairness of the call's own steps (every wait
  polls with a deadline), of the camera finishing an exposure, of the
  application asking for another capture, and of its stopping a Bulb action it
  started. `CallsReturn` needs only the first two; the last two are there for
  `LandedFrameIsClaimed` and `OperationCompletes`, where without them the
  application could simply stop.
- `PTPTransaction!FairSpec`: weak fairness of the host's steps. A read ends,
  if only by the port's timeout. Nothing is assumed of the device
  (`CallReturns`).
- `PTPEvents!FairSpec`: weak fairness of the port's steps (a wait has a
  timeout), of the readings of `ptp_usb_event` and of a device that sends what
  it has when asked; strong fairness of `Check(TRUE)`, because the driver asks
  for events with a timeout again and again in every wait for an event or a
  capture, though between two of those the port may be busy or closed
  (`EventArrives`).
- `PTPContext`, `CameraFilesys`, `LruQueue`, `PentaxSession`: safety only.

## 5. Proofs

`CameraCoreProofs` proves for any models, counter width of at least two, number
of references and nesting bound (`CameraAssumption`):

- `TypeCorrect`: `Spec => []TypeOK`, without further condition; `TypeOK` is
  inductive by itself.
- `BusyCountIsExact` (`UsedCountsOperations`, `DriverNotReentered`),
  `DriverIsNotPulledAway`, `FreeingIsLast`, `RequestedExitHappens`,
  `RightDriverAtRest` and `TimersNeedDriver`, all under `Balanced`: no failing
  detection step, no failing `gp_port_set_info`, no
  `gp_camera_get_extra_capture_files`, callbacks from operations only. These
  are the paths on which `CAMERA_UNUSED` balances `CHECK_INIT`; the
  violations of section 3 show the code breaking these promises without each
  of the four conditions (for callbacks, from `gp_camera_init`; those from `gp_camera_exit`
  are checked by no run).

None of these properties is inductive: whether a release unloads or frees under
somebody depends on what lies on the stack. `CInv == TypeOK /\ Shape /\ Facts`
lists the five shapes the stack takes (`Rests`, `OpensAlone`, `Operates`,
`OpensToOperate`, `Closes`) with what each says of counter, driver and timers.
The stack never exceeds two calls whatever `MaxDepth` is, because a used camera
refuses operations and postpones exit and free, so callbacks nest no further.
The step has one lemma for what the application calls, with a case per call,
and one for what returning driver calls do; `ReleaseLast` is shared by every
path through `CAMERA_UNUSED`. `DriverIsNotPulledAway` is an action property: of
two calls on the stack the lower one is still waiting for its
`gp_camera_init`.

`PTPContextProofs` proves for any sets of threads, addresses and contexts, any
number of slots and generations (`ContextAssumption`: finite sets, at least one
slot, at least two generations):

- `TypeCorrect`: `Spec => []TypeOK`. `TypeOK` is inductive by itself.
- `CountsAreExact`, `UnreferencedAreFreed`: with an atomic unref (`~PlainUnref`),
  each count is the application's reference plus the bindings, and what nobody
  refers to is freed. `RefsAccounted` alone is not inductive: a step that
  drops a binding needs the ledger's count and the finiteness of the table, and
  it must be known that no half-done plain unref is about to overwrite a
  count. `IInv == TypeOK /\ Account /\ NothingLoaded` has them. One lemma shows
  what dropping a binding does to it, one what storing does, one the
  application's steps; each action of a thread is one of these.
- `BoundContextsLive`, `FreedStaysFreed`, `LedgerIsExact`: whichever unref the
  application has, no binding leads to freed memory, no operation retains what was
  freed, and the driver's ledger counts the bindings. With the plain unref counts
  are not exact, but `Covered` remains: a count is at least the bindings, and one
  more while the application has its reference or is between load and store of
  giving it back; and a loaded value is no less than the bindings that are left when it
  is stored, as no thread is given a context whose last holder has
  loaded (`CallerHolds`), so that its bindings only become fewer.
- `OneLifetimePerAddress`, `OwnContextOnly`: `TInv == TypeOK /\
  OneBindingPerOwner /\ GetsOwnContext /\ InUseIsOpen /\ ClosedAlone`. That a
  thread gets its own context after a wrapped generation rests on a thread
  holding at most one lifetime's binding per address, and that on the owner
  not being closed or reopened while a thread is inside an operation on it. No
  assumption on the unref is needed.
- `LosesContextOnlyWhenFull` without condition, `EveryOperationHasContext`
  (`RunningHasContext`) if a table has a slot for every owner address: an
  operation runs with its context, or its thread's table was full of bindings of
  other owners. `Settled` says this of one thread together with the size of its
  table: only the thread changes its table, save for an owner that is
  closed, and an owner in use is not (`InUseIsOpen`). A table that is full holds as many
  owners as it has slots (`OneBindingPerOwner`), and they cannot be all the
  others if there are no more owners than slots. `MCPTPContextFull` shows what
  happens with fewer.

`PentaxSessionProofs` has no constants and no assumptions; its theorems hold for
any number of connections:

- `TypeCorrect`: `TypeOK` is inductive by itself.
- `ResetIsSafe` (`ResetOnlyQuietBody`): inductive by itself.
- `OpenedIsReconciled` (`ReadyIsReconciled`): not inductive. `Owned` says in
  which stages the session is this process's, `Known` what the observations
  have told it of the body, `Books` how the original live view value and
  `inliveview` go together.
- `ExitIsClean` (`CleanExit`): from `Books`, `VendorAccounted` (vendor mode is
  on only where the flags say so, or doubt it, or the exit has failed) and
  `LiveViewAccounted` (the same for live view).

`PTPTransactionProofs` proves for any operations, any number of calls and
sessions and containers of any length (`TransactionAssumption`: the kinds of
operations are disjoint):

- `TypeCorrect`; `AnswersRequest`: `Spec => AnswersOwnRequest`, the refinement of
  `RequestResponse`; `OkLeavesInStep` (`OkResynchronises`); `DataIsTheCalls`
  (`DataAfterOkIsOwn`).

None but an OK read from the pipe makes a call return OK, and it is believed
for its id. So `IInv` keeps account of the ids in flight: no request and no
response has a greater id than the call at work, and a response that bears its
id means that the device has done it (`Accounted`, with `Fresh` for a session
about to be opened). What follows that response, or this call's request, is of
this call, because requests are answered in order (`Behind`): hence an OK leaves
nothing of an earlier one. If the request was written only once nothing follows
at all (`Last`), so the pipes are empty; then all that comes is of the next call
(`OnlyOwn`), in whichever number of copies, and its OK cannot overtake its data
(`DataComes`). Each part has a lemma with one step per action; a step of the
host is reduced to what it does to inbox, pipe and buffer by `HostAccount`,
`HostLast`, `HostBehind` and `HostOwn`. All holds until a session is opened over the remains
of another (`crossed`), after which ids begin again.

`PTPEventsProofs` proves for a pool of any size, and any number of packets,
faults, closings and resets (`PoolAssumption`: the pool has a slot, the bounds
are numbers), `TypeCorrect` and `PoolIsAccounted` (`PoolAccounted`). The count is
inductive only together with what is known of the slots: `Reaping` (once
transfers were cancelled, the slots that are taken are exactly those of ends
unreported, all cancelled, so that each callback frees one and none submits
again), `Finishing` (none is left when the call goes on), `Handled` (without a
handle no call is at work). `TypeOK` needs the accounts, which keep the counts
from going below zero, and `Filled`: what completed brought a packet. The lemmas
`AppendCounts`, `TailCounts` and `CancelCounts` say how many transfers of the
pool there are among the ends when one is added, reported, or all are
cancelled.

`EventsComeOnce` (`EachEventOnce`) is proved from an account of the places a
packet passes: what the device still owes, the ends libusb has to report, the
queue of the callback, the result of a check, the part of an event read so far,
the queue of events. `EachSorted` says that each place is in order, `Behind` that it is
before all that is further back, `Complete` that what is nowhere on the way was
taken or dropped, and nothing else was. A step moves the first of a place to the end
of the next, takes an event out of the last, or drops what a place holds. That
nothing is overwritten on the way needs `Phases` (a result is read before the next
check is answered, and a part is begun only when none is kept) and `Bare` (the
callback queues failures too, but without a packet, so those that are not read
lose nothing). `LinePlaces` translates from the property, which speaks of the
places as one sequence.

`PentaxCaptureProofs` proves for any number of exposures, files of an exposure
and publication slots, and any faults (`PentaxAssumption`: at least one file and
one slot):

- `TypeCorrect`, `OutputIsOwed` (`UnsettledIsPending`), `FlightAtRest`
  (`FlightIsBulb`) and `DeliversExposure` (`SuccessDeliversExposure`), without
  further condition, the body's own shutter and restarts included.
- `NoneDeletedInVain` (`DeletedIsKept`), if an exposure has no more files than
  there are slots, publication does not fail, no answer to a deletion is lost and
  the process lives. `MCPentaxLost` shows it broken when publication fails.
- `QuietShutter` (`ShutterOverQuietCamera`) and `OnlyOwnedAreDeleted`
  (`DeletesOnlyOwned`), if nobody releases the shutter on the body
  (`"body" \notin Faults`). TLC finds both broken without this: the code asks
  for the preconditions and for the shutter in two exchanges, and takes what
  appears in between for its own.

None of the action properties follows from the types. `InHand` says that the
candidate at hand is the first of the camera's queue while a call is about to
fetch or delete it, `Placed` which transfer states and modes a program counter
admits. `Owed` makes `UnsettledIsPending` inductive by saying it of every
point of a call and not only between calls; it needs `Numbered`, exposures being
numbered in the order they are made. That a companion finds a slot rests on
`Ascending` (the files of an exposure come in order) and `Room` (what is
published has lower numbers than what is to come), and `Accounted` then follows
what is deleted to where it is kept. For `DeliversExposure`, what the exposure in
flight wrote is in sight, published or at hand (`Balanced`), a successful
reconciliation leaves nothing of it in sight (`Reconciled`), and companions are
published under the primary's basename only (`Alike`): if the primary was a file of
the body's exposure, the own files stay in sight and the capture incomplete.
Without the body's shutter the camera is empty when the shutter is released
(`Uncovered`), and everything in sight is the operation's own (`OnlyOurs`).

`CameraFilesysProofs` proves for trees of any depth, any number of pictures to
keep and any bounds on events and folders (`BoundsAreNatural`,
`EntriesAreFinite`, `NilIsNoEntry`: the folder and file names are finitely many
and a null pointer is no entry):

- `TypeCorrect`, `ListStaysIntact` (`LruIntact`), `CleanFoldersAreExact`
  (`CleanIsExact`), `KnownFoldersAreExact` (`KnownFoldersExact`), and
  `HeldIsCurrent` (`ServesCurrent`), the last one if the modification time of a
  file cannot be set: `MCFilesysMTime` shows what happens otherwise.

None is inductive; `Settled` is. Its part `Current(x, d, h, n)` speaks of a tree
`x`, a camera `d`, the host's files `h` and the events `n`, so that each lemma can
change one of them: the calls of a step turn one tree into the next
(`DropEntries`, `LoadFolders`, `Lookup`, `LoadFiles`, `AppendFile`, `Attach`), the
camera's steps change `d` and `n`. `Current` consists of `Rooted` (folders hang
together from the root, marks and files are in known folders), `Blank` (nothing
is held of what is not in the tree), `Holds` (the list is well linked and holds
entries with content only), `Known` (a folder of the camera that a clean folder
does not list was made for a file still to be announced, or by a call that
failed), `Exact` and `Vouched`, which say the same of the files and of what is
held of them. A waiting event that a file was removed suspends the last three,
as it does the properties. What a call that failed left behind (`lost`,
`lostDirs`) is taken out file by file: `LostCurrent`, `LostDirsCurrent` and
`TreeLostCurrent` show that leaving the tree alone keeps it `Current` but for
these, `ExposedCurrent` the same of a folder entered twice, and every other
lemma shows that nothing joins them on the way. The failing deletion at the end
of `delete_all` is `OneByOneCurrent`. That the walk of the list ends is seen
from `Ordered`: some ranking of the entries rises along the links; taking an entry off, by whichever of
the branches of the unlinking code, keeps the ranking, and linking one at the end gives
it the highest rank. The recursive functions (`Walk`, `Prune`, the lookup along a
path) are followed with `UpTo`: a set of numbers that contains 0 and with each
number the next contains them all. It ranges over sets and so needs no
theorem with an operator parameter; a least number exists because the order of the
numbers is well founded.

`CameraFilesysQueueProofs` proves, from the same assumptions, that
`CameraFilesys` implements `LruQueue`: `ImplementsQueue` (`KeepsRecentlyUsed`).
`OrderIsRank` translates between the two: whatever ranking the links are `Ordered`
by, the walk meets the held entries in it. Pruning stops as soon as few
enough are held and takes the lowest rank each time, so an entry that went has at
least `Keep` newer ones and one that stays has fewer (`PruneKeepsNewest`);
`AttachIsUse` adds the move to the end. Every other call keeps the ranks of what
it leaves on the list. That a listing takes off doubtful entries only is
`LosesOnly`, an invariant of a call's sequence of listings: each lets go only of
entries in or below a folder dirty at that time, and the folders it newly marks dirty
hold nothing on the list, so no entry becomes doubtful on the way.

Each invariant was checked by TLC before it was proved. `DriverNotReentered`,
`OneBindingPerOwner`, `LedgerExact`, `UnreferencedIsFreed` (under the atomic unref),
`TableFits` and `ContextUnlessFull` are stated by theorems and by no passing run: the runs'
properties are parts or consequences of the same invariants. Every invariant,
action property and refinement of a passing run is stated by a theorem. Liveness
under fairness is out of the prover's reach and model-checked only:
`CallsReturn`, `AbandonedIsFreed`, `CallReturns` and `EventArrives`; so are the two
violations, which are single behaviours.

## 6. Plan

Done: all modules of section 2. `CameraCore`, `PTPContext`, `PentaxSession`,
`PTPTransaction` (with `RequestResponse`), `PentaxCapture` and `CameraFilesys`
(with `LruQueue`) with proofs, `PTPEvents` over `InterruptPool` with proofs.

Modules to come, most important first:

1. `CameraFilesys`: a second outcome for a later listing of the same call (a
   pointer held over a listing that frees its folder).
2. The object cache of the PTP driver and the vendors' own event queues
   (`handle_event_internal`), composed with `PTPEvents` and with `news`.
3. PTP/IP with its two connections; the port's settings.
4. `CameraFile` references; the publication ledger's lookup and removal.

A run that finds a further violation may take the place of a weaker one.

Theorems to come: with each module above, its invariants; and the composition of
`news` in `CameraFilesys` with the event queue, for which `EventsComeOnce` is
the lemma.

## 7. Not modelled

Timeouts' arithmetic, block-wise transfer and configuration of the Pentax code;
status, progress and question callbacks beyond the fact that they call the
application; the bulk side of the port drivers; PTP/IP; datasets; other
drivers; picture decoding. The reasons are with each component in
`PROJECT.json`: I/O without state, data without control, or later in the plan
above.

The modules stand for about two per cent of the lines under `src/`. Most of the
rest is about sixty drivers for other cameras, tables of models, properties and
their texts, encoders and decoders of datasets, and translated messages: code
whose correctness is a matter of values per model. What has control of its own
and is missing is listed in section 6.

Seen while reading `camera_init` and not turned into a property: its later
stages return an error without freeing the private library, and the command
that enables vendor mode is sent after an observation at the connection that
failed as well.
