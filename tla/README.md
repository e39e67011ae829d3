# VoidBridge: specifications, model checking and proofs

VoidBridge keeps the clipboard of one person's devices the same: what is copied
on one device can be pasted on the others.  Devices talk over direct TCP links
and through an optional relay server; files can be sent to a chosen device.
This directory holds TLA+ models of the Go code, TLC configurations that check
them on small instances, and TLAPS proofs about them for every instance.

Run the tools inside this directory:

    tlc -workers 2 -config ClipSyncPair.cfg MCClipSync
    tlapm FileTransferProofs.tla

`PROJECT.json` is the index: components, runs, the lines each definition
stands for, mutants (plausible bugs each property must notice), hazards,
findings and theorems.

## 1. The system

| component | code | state it keeps | operations | talks to |
|---|---|---|---|---|
| Sync node | `internal/node/node.go` | `current`, `seen`, `lastHash`, `lastSeq`, `settings`, `links`, `remote` | `Run`, `poll`, `LocalCopy`, `Recopy`, `Handle`, `AddLink`, `RemoveLink`, `SetSettings`, `SetRemoteDevices`, `Status` | clipboard (calls), links (`Send`, each in a goroutine), history, file transfer |
| Clip order and messages | `internal/protocol/protocol.go` | none | `Newer`, stamp, seal and open, frame encoding | everything |
| Clipboard history | `internal/node/history.go` | `items` (at most 50, at most 150 MiB) | `Add`, `Items`, `Get`, `Clear`, `SetEnabled` | called by the node, shared by successive nodes |
| Clipboard | `internal/clipboard` | the system's clipboard and its change counter | `Read`, `Write`, `Seq`, `WriteFiles` | window system, helper programs |
| File transfer | `internal/node/files.go`, `internal/files` | `fileAcks`, `incoming`, one writer per file, the folder | `SendFile`, `handleFile`, `expireFiles`, `Begin`/`Write`/`Commit`/`Abort` | links (synchronous `Send`), list of transfers |
| Link encryption | `internal/protocol/conn.go` | session key, two counters | `Handshake`, `Send`, `Recv` | peer manager |
| Peer manager | `internal/peer` | known peers, addresses, links, dialling set | accept, dial, `addLink`, beacons, peer exchange, Tailscale | node (`AddLink`, `RemoveLink`, `Handle`) |
| Relay server hub | `internal/server/server.go` | connections per account, current clip, files in flight | sync session, `route`, kick, admin API | store, relay clients |
| Account store | `internal/server/store.go` | users, invites, sessions, on disk | register, login, authenticate, revoke, patch | hub |
| Relay client | `internal/relay/relay.go` | session, back-off | `Run`, `session`, login calls | server, node |
| Settings | `internal/config/config.go` | settings file | `Load`, `Save`, `Remember`, `Forget` | apps, command line |
| Windows app | `cmd/voidbridge` | service, list of transfers, updater state, window | `Restart`, `Stop`, `SendFiles`, update loop | everything above |
| Linux daemon | `cmd/voidbridge-linux` | daemon state, transfer counters | run, reload, send, update over a control socket | everything above |
| Updater | `internal/update` | none | latest release, download, check | apps |
| Android | `android/` | a second implementation in Kotlin | the same protocol | the same devices |

Left to their platform: the clipboard backends, the USB bridge, the server's
listener and flags, the window, the tray, the Android screens and services,
packaging and the interoperability helper.

### How they interact, and what is hard about it

* One `Node` has one lock, and many threads: a reader per link calls `Handle`,
  the `Run` loop polls the clipboard, the user interface calls `Recopy`.  No
  operation keeps the lock from its start to its end: `LocalCopy` releases it
  to seal a clip, `Handle` releases it to open one, and every clipboard and
  history call is made without it.
* Clips are sent each in a goroutine of its own, so the order on a link is not
  the order of the sends; the same clip comes over several links; links break
  and are replaced, and both ends learn of it at different times.
* A restart loses `current` and the seen ids, not the system clipboard.
* A file's chunks are sent in order and synchronously, but the receiver's
  expiry runs in another thread than its reader, and acknowledgements race the
  sender's timeout.
* The hub checks a token at one time and registers the connection later; it
  keeps clips and transfers in memory while accounts come and go.

What makes each part correct: the node must converge on the newest clip,
forget nothing it was offered, apply nothing twice and send nothing the user
did not copy; the history must show what was current, once; a file reported as
sent must be stored, whole, under a name of its own, and every transfer must
end; two devices must end with one link; a revoked session must lose its
connection; the store must survive a crash with the old or the new state; the
settings of two processes must not overwrite each other.

The hazards list in `PROJECT.json` has the lines where each of these can go
wrong, with the properties that watch them, or why none does.

## 2. Modules

| module | what it is |
|---|---|
| `Clip` | a clip, the order `Newer`, the stamp of a local copy |
| `NewestWins` | abstract specification: one register per device that only moves to newer published clips, and its looser form |
| `History` | `History.Add` with its de-duplication and limits |
| `ClipSync` | the node, its threads, its clipboard and its links |
| `MCClipSync` | values of the constants for TLC |
| `ClipSyncProofs` | lemmas about the operators of `Clip` and `History`; type correctness |
| `ClipSyncSafety` | the inductive invariants, the safety theorems (what travels, the history, once only), the refinement |
| `Delivery` | abstract specification: what sending a file promises |
| `FileTransfer` | senders, the receiver's readers and expiry, the folder, the list of transfers |
| `MCFileTransfer` | values of the constants for TLC |
| `FileTransferProofs` | types, the inductive invariants, whole files, the refinement of `Delivery`, the list of transfers, temporary and stored files |
| `Hub` | one account's connections on the server: clips, device lists, files that pass through |
| `HubProofs` | types, the inductive invariant and the safety theorems of the hub |
| `Accounts` | the server's store with its file, and the requests of the HTTP API |
| `PeerLinks` | the peer managers of all devices: addresses, dialling, accepting, duplicate links, stop |
| `Desktop` | the desktop programs around the node: settings, commands and window calls, restarts, the relay client |
| `Updater` | how the desktop programs replace themselves |
| `AccountsProofs`, `PeerLinksProofs`, `DesktopProofs`, `UpdaterProofs` | types, inductive invariants and safety theorems of these four |
| `MCHub`, `MCAccounts`, `MCPeerLinks`, `MCDesktop`, `MCUpdater` | values of the constants for TLC |

### ClipSync and the code

One action is what the code does under one hold of `Node.mu`, or one call of
the clipboard or the history; any other thread of the device can run between
two actions.

| code | actions |
|---|---|
| `Node.AddLink`, `RemoveLink` | `AddLink`, `RemoveLink` |
| a connection made or lost by the peer manager or the relay client | `Connect`, `Break` |
| `readLoop` calling `Handle` up to its first unlock | `ReceivePaused`, `ReceiveKnown`, `ReceiveNew` |
| `Handle` from `OpenClip` to its second unlock | `HandleUnreadable`, `HandleStale`, `HandleApply` |
| `Handle`'s `cb.Write`, `cb.Seq`, `lastSeq =`, `hist.Add` | `HandleWrite`, `HandleSeq`, `HandleStore`, `HandleFails`, `HandleHistory` |
| `Run` before its loop (without the lock) | `BootSeq`, `BootRead`, `BootHash` |
| `poll` | `PollSeq`, `PollUnchanged`, `PollChanged`, `PollRead`, `PollFails` |
| `LocalCopy` up to its first unlock, and after sealing | `CopyIgnored`, `CopyWithheld`, `LocalStamp`; `LocalSeal`, `LocalHistory` |
| `Recopy`, `SetSettings` | `Recopy` (then `poll` in the thread `ui`), `SetSettings` |
| the process is ended and started again (`NewService`) | `Restart`: a new process, with the settings it saved |
| the user and other programs | `UserCopy` |

A link is a port at each end of a connection.  `Node.links` is the set of a
device's ports that are `"up"`.  The messages in flight to a port are a set,
because each is sent by a goroutine of its own: they arrive in any order, and
those in flight when the reader fails are lost.  `rd[p]` is where the reader
of `p` is inside `Handle`; `loc[d][t]` is where the poll loop or the user
interface is inside `poll` and `LocalCopy`.

A content is a model value: `Hash` is the content itself (SHA-256 taken as
injective), encryption is whether a device can read a content (`Readable`),
size is whether it is in `Oversized`.  A clip's id is drawn from `Ids` and
never twice; the code's ids are random, and the order among them is what
`Newer` uses to break ties, so the model draws them in any order.

`issued`, `held`, `got` and `dropped` are history variables: no guard reads
them except the one that keeps ids distinct.

### FileTransfer and the code

One action is what the code does under one hold of a lock (`Node.mu`, a
writer's, the list's), or one call of the file system.

| code | actions |
|---|---|
| `SendFile`: `linkTo`; the three kinds of message; its returns | `Begin`; `SendStart`, `SendChunk`, `SendEnd`; `SendFails`, `SendStops`, `SendConfirmed` |
| `handleFile`, `file_ack` | `AckArrives` |
| `handleFile` up to its first unlock | `Take` |
| `file_start` | `StartRefused`, `StartAccepted` |
| `file_chunk` | `ChunkRefused`, `ChunkTaken`, then `Progress` (the app's callback) or `fail` |
| `fail` | `FailAbort`, `FailForget` |
| `file_end`, with `writer.Commit` in two steps | `EndTaken`, `EndDiscard`, `EndCommit`, `EndRename`, `Acknowledge` |
| `expireFiles` | `Expire`, `ExpireAbort` |
| `OnReceived` of `Service.receiver` | `Match`, `Add`, `Mark` |
| a link that closes; what its reader loses | `Break`, `Lost` |
| the server's `sync` and `route` when the receiver's connection is replaced | `Reconnect` |
| `Service.Restart` | `Restart` |

A link carries file messages in order (they are sent synchronously); each
acknowledgement is sent by a goroutine of its own, so those in flight are a
set.  `at[r]` is where reader `r`, or the `Run` loop of node `r`, is inside
`handleFile`, `expireFiles` or the app's callback.  Successive nodes of the
receiver are numbered; a link belongs to one of them for good.  The fields of a
transfer's entry in `Node.incoming` are functions of the transfer, because a
reader keeps its pointer after the entry has left the table.

A transfer has two names: `Name` is the safe one, under which the file is
stored, and `Label` stands for the names its sender announced for the file and the
device, which are what `OnReceived` looks for in the list.  Two labels may have one
safe name.

### Hub and the code

One action is what a handler does under one hold of `hub.mu`, or one write.

| code | actions |
|---|---|
| `sync` up to the first unlock; then its broadcast, the greeting, and reading | `Sync`; `Announce` |
| `readLoop` with a clip | `ReadClip` (a dropped one changes nothing) |
| `readLoop` calling `route`, up to the unlock | `ReadFile`, `ReadAck` |
| `route`'s write to the receiver | `Send`, `SendFails` |
| `failTransfer` in the sender's own loop | `Fail` |
| `go c.send(...)` | `Write`: what is in `going` is written in any order |
| a read that fails, a ping unanswered; `kick`, `kickAll` | `Break`; `Kick` |
| the end of `sync` | `Leave`, then `Farewell` after `Store.Touch` |

A connection is used once: a device that connects again takes another one, and
until the older handler has left the device has two, as in the code.  `ended`
is the set of cancelled contexts.  What `route` writes is a sequence per
connection (`files`), because a handler waits for it; everything else is
written by goroutines, so `written` is a set.

### Accounts and the code

A request stands at one step of its handler (`pc`), each step one hold of a
lock, and may be interrupted by any other request between two of them; `Start`
and `After` say in which order the handler of an operation takes them.  `Change` is an operation
of the store in memory; the lock stays taken (`lock`) through `saveLocked`, which is
`SaveOpen`, `SaveWrite`, `SaveRename` or, at any of them, `SaveFails`.  `Auth` and the checks before
a handler, `Limit`, `First`, `Check`, `Kick`, `Connect` and `Disconnect` are
the other steps; a check that fails is counted by the limiter in a hold of its
own lock (`Count`), after which the request is refused; `Crash`, `Shutdown`, `Expire`, `Invites` and `Forgive` are the
process, time and the listing that drops expired invites.

### PeerLinks and the code

| code | actions |
|---|---|
| `heard`, `learn`, `SetManual`, `addTargets` | `Heard`, `Learn`, `SetManual`, `AddTargets` |
| `dialLoop` with `dialCandidates` | `DialLoop`, `Forget` |
| `dial`: the TCP dial, `Handshake`, the bookkeeping | `Accepted`, `DialFails`; `Shaken`, `ShakeFails`; `Note` |
| `acceptLoop`'s goroutine | `Accepted`, `Shaken`, `ShakeFails` of the other end |
| `addLink` up to its unlock; `readLoop`'s end and what follows | `Link`; `Unlink` |
| `Run`: `stop`, and its goroutine | `Stop`, `Sweep` |
| the network | `Cut` |

All devices run in one module, so that both ends of every connection are the
code's; each end has a stage of its own, and each registers the link in its own
time.

### Desktop and the code

A thread (`call`) is a window call, a command, or a callback of the node that
remembers a device.  It takes `Begin`, `LeaveGroup`, `SetGroup`, `SetOption`,
`Forget`, `Seen`, then `Save` in its three steps (`SaveOpen`, `SaveWrite`,
`SaveRename`), then `ApplySettings` or the restart: `StopGeneration`, on Linux
`ReadSettings` (`config.Load`) and `LoadSettings` (the later hold of `d.mu`), and
`Build`.  `CallFails` is the early return of a call whose save failed: what it changed in
memory stays and no restart follows; `failed` records what that leaves undone (a
save, a group, an option) until another call does it.  A generation of
running sync (`gen`) has a relay client, whose `Run` is `Dial`, `Connected`,
`SessionEnds`, `Fails`, `ShowsError`, `Refused`, `ShowsRefusal`, `SignedOut`,
`Waited`: the look at `stop` and each callback that shows a state are steps of
their own.  `Lost` and `ClosedByServer` end a connection from outside.
`Crash` kills the program anywhere, while commands go on; `StartProgram` starts
it again.

### Updater and the code

| code | actions |
|---|---|
| `update.Latest`, asked by the loop or the user | `Look` |
| what `checkUpdate` does with the answer; `SetAutoUpdate` | `Check`; `SetAutoUpdate` |
| `downloadUpdate`: it gets `updater.dl`; `os.Create` fails; `Fetch` ends | `Download`; `CannotCreate`; `Downloaded`, `DownloadFails` |
| `InstallUpdate`; `autoInstall`; `installUpdate` up to its unlock | `Ask`; `AutoInstall`; `TakeFile` |
| `installUpdate` (`selfupdate_windows.go`): the two renames, the start, and what undoes them | `MoveOut`, `MoveOutFails`; `MoveIn`, `MoveInFails`; `Starts`, `StartFails`; `Back` |
| the old process quits and the new one goes on | `Quit` |
| `cleanupUpdate` in a process that finds it is the second | `StartAgain`, `RemoveOld`, `RemoveNew` |
| Linux: `updateLoop`, `updateNow` after the look-up; `install` | `Approve`; `Install`, `CannotOpen`, `Fetched`, `InstallFails`, `Replace` |
| Linux: `shutdown` and `syscall.Exec` | `Exec`, `ExecFails` |
| GitHub; a transfer or the open window; a process that dies | `Publish`; `Use`; `Crash` |

`exe`, `old` and `new` are the three files by the version they hold; `image` is
the name under which the file of the running process lies, which Windows lets nobody
remove.  Every start of the program on Windows runs `cleanupUpdate` before it takes
the lock that shows whether another runs (`main.go:57`), so a second start
removes what the first has downloaded.

## 3. Runs

Every run is exhaustive for its bounds.  `Budget` in `ClipSync` and `Loads` in
the newer modules bound what the environment does: copies, connections, losses,
crashes, user calls, releases.  Nothing the program does by itself is bounded,
except that a generation of `Desktop`, a connection of `Hub` and a request of
`Accounts` is used once.

`Loads` is a set of settings; the initial state picks one and keeps in the
variable `load` what of it is left to happen.  A run then explores several
small worlds, each with the events that can meet there, where one world with
all of them would be too large: a crash together with every pair of requests,
but not three crashes.

| run | instance | shows |
|---|---|---|
| `pair` | 2 devices, 1 connection made up to twice, 2 copies, a restart, one device starting cold, a memory of one seen id | `TypeOK`; `Offered`: the peer has been offered our current clip over every open link; `Accepted`: no clip that arrives is forgotten; `Implements`: the devices refine the registers of `NewestWins`; `CaughtUp`: under fairness every open link catches up again and again |
| `paths` | 2 devices joined by two connections (as by a direct link and the relay), equal clocks, 2 copies | `NeighboursAgree`: quiet neighbours hold the same clip, also when stamps are equal; `AppliedOnce`: no clip becomes current twice in a device's life |
| `refuse` | paused, sensitive, unreadable, a clipboard that fails, a link that breaks, a history limited to 2 items | `NeighboursAgree` up to what was refused; `HistoryComplete`: no content twice, and nothing that was current missing, however readers, poll and `Recopy` interleave |
| `file_nodes` | 2 transfers over 2 links, announced under different names that are stored under one, the second of the app's second node, a failing disk, expiry between any two steps, a list of 2 entries | `TypeOK`; `WholeFiles`: a file under its final name holds every chunk; `StoredNotBusy`: a stored file is not shown as under way for ever, though the other has an entry too |
| `file_live` | 1 transfer of 2 chunks, refused, cancelled, cut off, a file that changes, a failing disk, a lost connection to the server, expiry | `EveryTransferEnds`: both sides let go of every transfer; `Implements`: senders and folder refine `Delivery`, with every kind of trouble at once |
| `hub` | 2 devices on 3 connections, one of them connecting again while its first connection lingers; 2 clips of one stamp, a file each way, kicks and broken connections | `Offered`, `ListOffered`: a live connection has the newest clip and list or is about to get them; `InflightConnected`, `NoneForgotten`, `InOrder`; `SenderTold` under fairness: a sender whose receiver is gone hears of it |
| `accounts` | 3 users, 2 devices, 3 requests at a time out of registrations, logins, connections, sign-outs and an admin's changes, a crash, a failing save, a shutdown, an invite that expires | `TypeOK`: the file is a whole store whenever the process dies; `AnswersDurable`: an answer outlives every crash; `InviteLimit`; `LiveEntitled`: signing out reaches the connections |
| `peers` | 3 devices, 4 addresses, five settings: found over a third device, both dialling, two addresses of one peer, stops, addresses typed and forgotten | `OneAttempt`, `OneDialled`; `AllLinked`: in the end all are linked |
| `desktop` | both platforms, a group joined, two accounts, options, a device remembered and forgotten, calls that fail, a crash, lost connections, revoked sessions | `TypeOK`: the file is whole whenever a process dies; `InStep`: what runs is what is saved, but for what a failed call left undone; `NeverSilent`: no client has given up unless that is shown; `StoppedEnds`, `RefusalShown`, `Reconnects` |
| `updater` | both platforms, automatic and by hand, up to 3 releases (also an older one), failures at every step, the setting turned, transfers and the window, a second start, crashes | `Startable`: a whole program is in its place or was moved out by an installation; `ReadyWhole`: what is offered is never a part of a file; `NeverBack`; `UpToDate` |
| `newest` | 2 devices, one link | a promise of the documentation the node does not keep, section 6 |
| `restart_twice` | two window calls at once on Windows | a promise of a comment `Service.Restart` does not keep, section 6 |

Why the bounds are enough for these questions: every hazard on the list needs
at most two clips that race; two devices with two links contain every way two readers
of one device, or a reader and a local copy, can interleave; equal clocks
(`Clock = {1}`) are the hard case for the order, since distinct ones only
decide it.  For files, every hazard needs at most two transfers that meet in
the folder or in the list, or one transfer whose reader races the expiry; two
chunks are enough to lose the first, a middle or the last message.  In the hub
the hard cases are a device with two connections and a transfer whose two ends leave;
in the accounts, two requests about one device or user and a third by an
admin; between peers, two devices that dial at once, two addresses of one
device, and a third device that introduces two others; in the desktop programs,
two generations of sync and a call; in the updater, two releases during one
installation.  What holds for any number of devices, links, connections, clips
and transfers, chains of devices included, is proved.

Where a run says `CHECK_DEADLOCK FALSE`, the system may really come to rest:
all transfers, requests or events are over.

### Fairness

`FairSpec` of `ClipSync` asks weak fairness of `AddLink`, `Receive` and `Handle` for each
port: the goroutine that made a connection goes on to call `AddLink`, a reader
goes on reading and finishes `Handle`, a goroutine that sends is scheduled.
The Go scheduler gives exactly this to runnable goroutines.  Nothing is asked
of `Connect`, of users, of the poll loop or of the clipboard.  A link may die
at any time, so `CaughtUp` speaks only of links that stay open: it says that
being behind over an open link never lasts.

In `FileTransfer`, `FairSpec` asks weak fairness of each sender (`SendFile`
waits for an acknowledgement with a timeout and gives up by itself), of each
reader inside `handleFile` and each callback (goroutines that hold no lock for
long), and of `Expire` and `ExpireAbort` in the live node, which the `Run`
loop's ticker calls.  A node that has been replaced has no ticker, so nothing is
asked of it (section 6).

In `Hub`, a handler goes on with what it has begun and a goroutine that writes
is scheduled: reads end when their context is cancelled, and every write has a
deadline (`conn.send`).  Nobody has to connect, send, or take what is
written before the deadline: `SendFails` is fair, `Send` is not.

`Accounts` has safety properties only and asks for no fairness.

In `PeerLinks`, attempts have deadlines, a dead connection is noticed after
`IdleTimeout`, and the loops' timers fire; beacons and peer lists are sent
again and again.  Nothing is asked of users or of the network's losses.

In `Desktop`, threads and clients run, calls on a server time out, and the
program is started again by systemd or at sign-in.  Nothing is asked of
`ClosedByServer`: the server may leave the connection of a revoked session open
(`Accounts` shows how), so `RefusalShown` begins with a client that is not connected.

In `Updater`, the loop runs, `updater.dl` is passed on, and downloads and calls come to an
end, well or badly.  `AutoInstall` is strongly fair, as the loop asks
for the file 360 times between two checks.  Releases and users are free, and
nothing is asked of transfers or of the window: a program that is always in use is
never updated, so `UpToDate` supposes that from some time on it is left alone and
its setting is on.

## 4. What is proved

Assumptions: `ClipAssumption`, `HistoryAssumption`, `ClipSyncAssumption`,
`FileTransferAssumption`, `HubAssumption`, `AccountsAssumption`,
`PeerLinksAssumption`, `DesktopAssumption` and `UpdaterAssumption`, which TLC
evaluates in the runs of
their modules (ids are naturals, a clip is not `NoClip`, a
connection joins two different devices, and so on).  The number of devices,
connections, contents, clips, transfers, links, nodes and the limits are
arbitrary (the number of transfers is finite).

* `ClipSyncProofs`, about the operators: `Newer` is irreflexive, transitive and total on clips with
  different keys; a stamp is newer than what was current; adding to the history and
  trimming it keep its type.
* `ClipSyncProofs!TypeCorrect`: `Spec => []TypeOK`.  `TypeOK` is not inductive by itself: a
  step that uses the clip of a reader or of a thread needs to know there is
  one, so the proof carries that each program counter has the clip it uses.
* `ClipSyncSafety!InductiveHolds`: `Spec => []Inductive`.  `Offered` and `Accepted` are not
  inductive either.  `ClipsOwned` adds that a stamped clip belongs to one
  thread until `LocalSeal` publishes it and that only published clips travel;
  `ClipsKnown` adds that a device has received what it holds, remembers and
  opens, and that whatever travels towards a device over an open link has been
  received by the device at the other end.  With these, a clip whose id is in
  `seen` is one the device has, so the early return of `Handle` loses nothing;
  ids alone would not be enough, for two clips of one id would be confused.
* `OfferedHolds`, `AcceptedHolds`, `Convergence` (`NeighboursAgree`) follow.
* `Refinement`: `Spec => Implements`.  `HandleApply` maps to `Adopt` because
  its second comparison is made under the lock that changes `current`;
  `LocalSeal` maps to `Publish`, or to the late step described in section 6;
  a restart maps to `Reset`; every other step leaves the registers alone.
* `HistoryHeldHolds` and `HistoryCompleteHolds`.  `HistoryComplete` speaks of
  devices where nobody is about to add to the history, so the invariant has
  to say what those that are about to add owe: the history shows only clips that
  were current, and each content once (`HistoryHeld`), and a clip that was
  current is shown, or a reader or a local copy holds it and will add it
  (`HistoryOrSoon`).  What `History.Add` does to a list is proved once
  (`HistoryAddKeeps`): it removes the same content from wherever it stands,
  puts the clip in front, and cuts only at the end.  `HistoryComplete` is proved
  under `Ample`, that `MaxItems` clips of the largest size fit into `MaxBytes`:
  otherwise the byte limit may cut a list that has fewer than `MaxItems`, and the
  property is about the other limit only.  The code's 50 items and 150 MiB are
  ample for texts, which have 1 MiB at most, and not for images, which may have 25.
  `Bytes` adds up a recursive function; what it adds up to (`BytesAdds`) is shown by
  the least length for which it would not.
* `SeenOnceHolds` and `AppliedOnceHolds`.  The invariant `SeenOnce` says that a
  device knows the id of every clip that was current and of every clip being
  opened, and that no two readers open one clip: the second copy finds the id
  that the first has marked under the lock.  It holds as long as `markSeen`
  forgets nothing, and it forgets the oldest id beyond `SeenLimit`.  So both are
  proved of behaviours in which every device meets at most `SeenLimit` clips
  (`[]Roomy`, 4096 in the code): as the ids in `seen` are different ids of clips
  the device has met, their number is bounded by that of the clips (`IdsCounted`).
  Beyond that `Handle` still refuses a forgotten clip unless it is newer
  than the current one.

* `FileTransferProofs!TypeCorrect`: `TypeOK` with `Placed`, which says that
  each thread has the transfer, the list entry and the path that its place uses.
* `FileTransferProofs!InductiveHolds`.  `WholeFiles` alone is not inductive: a
  commit looks at counters, not at the file.  `FileCounted` adds that the file
  holds what was counted, except after a write that failed, whose reader is on
  its way to forget the transfer.  That needs that no other reader touches the
  transfer (`Routed`: everything about it travels on the link its sender
  chose), and that it is not begun twice (`StartOnce`).  `OkIsStored` follows
  an "ok" from the rename through the callback, the link and the channel.
  Most of the proof is one lemma, `OwnStepKeeps`: a step of a reader that
  touches only its own transfer, and leaves it in order, keeps everything.
* `WholeFilesHold`, and `Refinement`: `Spec => Implements`.  `EndRename` maps to
  `Store`, `SendConfirmed` to `Confirm`, every other return of `SendFile` to
  `GiveUp`; every other step leaves stored files and outcomes alone.
* `AloneNotBusyHolds`: `StoredNotBusy` for every file that shares its announced
  name and device with no other, whatever else is sent; `StoredNotBusyHolds` is the
  same when all of these differ, whatever names the files are stored under.  Two threads may report one file, the reader at its end
  and the `Run` loop that expired it.  `LeavesOnce` says that a transfer leaves the
  table once, so there is one such loop, and that no chunk is counted after that.
  `ListKept` says that the list shows one entry of `OnProgress` per transfer, and
  that an entry `OnReceived` has added is claimed by the thread that will mark it.
  So an entry nobody is about to mark is the one of the progress, and
  `BusyFound` says when it is gone: whoever searches first takes it, because
  the other's entries are claimed.  Here the list may be as short as one entry.
  Files of one name are the case of section 6.
* `TempFilesAreListed`: between messages the temporary files are exactly those of
  the transfers in a table.  `Owned` is its inductive form: whoever takes a transfer
  from the table (a reader at its end, an expiry, an abort) keeps it in hand
  until its file was moved or removed, on every error path.  This is what
  `EveryTransferEnds` needs besides fairness.
* `SentIsThereHolds`: a file whose sender was told "ok" is in the folder, whole,
  and stays there, in behaviours in which no two readers stand between
  `uniquePath` and `os.Rename` for one name (`[]RenamesApart`).  The hypothesis is
  needed: TLC finds the loss without it (section 6), and the theorem says that
  there is no other way to lose a file: no failed write, no expiry and no second
  node on the same folder.  `DistinctNamesAreThere` has no such hypothesis: when
  all names differ, `RenamesApart` follows from the inductive invariant,
  because a transfer is in one reader's hands.

* `HubProofs!TypeCorrect`: `TypeOK` with `JobHeld`, which says that a handler
  that passes a message on holds one and has looked up a connection for it.
* `HubProofs!InductiveHolds`.  `Offered`, `ListOffered` and `InflightConnected`
  are inductive with the types: each action either leaves what they speak of,
  or sends in the same step what they ask for.  `NoneForgotten` and `InOrder`
  are not: a write comes after the lock was released, so they need `OneAtATime`.
  It says that the message a handler is about to pass on is the last of its
  file its sender has sent, that all the earlier ones went before it, and
  that a start is accounted for before it goes out (`InTurn`).  This holds
  because the messages of one transfer pass through one handler, that of the
  connection that began it.  `AccountedKept` and `FilesStill` carry it through
  the steps that pass nothing on.
* `OfferedHolds`, `ListOfferedHolds`, `InflightConnectedHolds`,
  `NoneForgottenHolds`, `InOrderHolds` follow, for any number of devices,
  connections, clips and transfers.
* `NoneLeftWaitingHolds`, an action property, the safety half of `SenderTold`: a step that
  ends a transfer in flight answers its sender or queues the notice in the same
  step, unless the sender's connection has ended (`LeftTold`), and no later
  step takes that back, a write that fails included (`ToldStays`).  Besides
  `Inductive` it needs that only a transfer whose start was read is in flight (`Begun`).

* `AccountsProofs`: `TypeCorrect`, `InductiveHolds`, `AnswersDurableHolds`,
  `InviteLimitHolds`, `LiveEntitledHolds`.  What a request was told is a fact
  about the file, and a request changes memory first, so the invariant follows
  both: while nobody saves there is no temporary file, and while somebody does
  it is torn or what memory holds (`Saving`); a token stands for one session for
  good, in memory and in the file (`Keys`); a session that was removed is gone
  from memory, and from the file once the request that removed it has let go of the
  lock (`CutGone`); one that was made stays until a request removes it (`Issued`).
  Crashes and failed saves are steps like any other: what they undo is what
  `lost` and `unsaved` except by name.
* `PeerLinksProofs`: `OneAttemptHolds` and `OneDialledHolds` rest on `Flagged`,
  an equivalence: the flag of a target is set exactly while a goroutine of that
  device dials it, on every way out of `dial`, also when the target is forgotten
  and found again meanwhile.
* `UpdaterProofs`: `StartableHolds`, `ReadyWholeHolds` and `NeverBackHolds`, an
  action property.  The invariant says which of the three files can be missing or
  written in part at which step of which thread (`OneMoves` on Windows,
  `OneInstalls` on Linux), and that what a thread is about to install is newer
  than what runs (`OnlyNewer`), although it was compared long before.  A second start
  may remove the download at any step; it cannot remove the file of the
  process that runs, which is why an installation can always be undone.  What is
  offered may be the earlier release under the later one's name: `ReadyWhole`
  says that it is whole if it is there, not which it is.  On Linux they assume
  `Apart`: the loop and the user are not both between opening the file and the
  end of the installation.  The daemon has no lock for it, and without it they
  are false (section 6).
* `DesktopProofs`: `TypedHolds` without any hypothesis.  `OneRunningHolds` under
  `OneCall`: on Linux `restartMu` lets one restart run, whatever the number of
  commands (`InTurn`); on Windows there is no such lock, and the theorem is about
  one window call at a time, which run `restart_twice` shows to be needed.
  `TypeCorrect`, `InductiveHolds` and `InStepHolds` under `Apart`: one call at a
  time.  On Windows what callbacks remember does not count as a call, since the lock of
  `Config` keeps their saves apart from the others; on Linux it does, since nothing
  keeps the daemon's `remember` apart from a command (section 6).  `Pending` is the
  invariant: whenever the file, the memory of the program and what runs disagree, some
  call is at a step from which it will bring them together, or the program is dead and
  reads the file when it starts, or a call has failed and left just that undone
  (`failed`), which no later one has done since.  `NeverSilentHolds` (under `OneCall`) is the safety half of `RefusalShown` and
  `Reconnects`: a client that the program holds and has not stopped has ended
  only if `signedOut` is set.  Only a restart and the end of the program clear it,
  and with restarts in turn no earlier client is held at that step.

The invariants `Inductive`, and `HistoryHeld`, `HistoryOrSoon`, `SeenOnce`, `LeavesOnce`,
`ListKept` and `BusyFound`, matter only to the proofs: they were model-checked on
these instances before they were proved (the last three also with two files of
different names), and the runs check what follows from them.  `TempFilesListed`
with `Owned` and `NoneLeftWaiting` were model-checked on the instances
of `file_live`, `file_nodes` and `hub`, `SentIsThere` with `Kept` on
those of the files with `RenamesApart` as a constraint; no run repeats
what the theorems say of all instances.

Every safety property of the passing runs is stated by a theorem; for
`HistoryComplete`, `AppliedOnce`, `StoredNotBusy`, and those of `Desktop` and `Updater`,
under the hypotheses named above.  Only model-checked is every liveness property: `CaughtUp`,
`EveryTransferEnds`, `SenderTold`, `AllLinked`, `StoppedEnds`, `RefusalShown`,
`Reconnects` and `UpToDate` are out of the prover's reach.

## 5. What is abstracted or left out

* `Status`, `SetRemoteDevices` and `OnChange` feed the list of devices in the
  user interface; they change nothing a clip depends on.
* A relay connection is a connection like any other in `ClipSync`; that the hub
  keeps a current clip of its own and forwards to a whole account is `Hub`.
  The two are not composed in one state space: `Hub` takes the clips that
  devices send as they come, in the order `Newer` of module `Clip`.
* Clocks are sets of readings; time itself is not modelled in `ClipSync`.
* The history outlives a `Restart` inside one process in the code; the model's
  restart is that of the process, after which the history is empty.
* `History.Clear` and `SetEnabled` are user commands on the list alone.
* In `FileTransfer` time is not counted: a timeout may come at any moment, and a
  transfer may be found quiet at any moment.  A chunk is a unit; the hash at the
  end is "every chunk is there", since the chunks of one transfer arrive over
  one link in order or not at all.  Names are model values: which label has
  which safe name is a constant (`SafeName` is a pure function).  A message about a
  file that cannot be opened (`OpenFile`: another group's) is dropped before
  anything changes, and no link of the model carries one.  The counters of a
  transfer after a chunk that was refused are left as they were: it is failed
  and forgotten next, and nothing reads them again.
* Senders are other devices; their own lists of transfers, and entries of the
  receiver's app for files it sends, are left out.
* The user's commands on the list (open a file, clear) are left out.
* What the server does with a file in flight is in `Reconnect` only as far as
  the two ends see it; the hub's own table is in `Hub`.
* `Hub` is one account: accounts share nothing but the table of transfers,
  whose ids are random.  A transfer's messages are numbers, its answers one.
* `Accounts` leaves out dates, names of devices and what the listings print; the
  limiter's counts, of the address and of the user, are one.  Which connections the hub has is a set;
  `Hub` has their life.
* `PeerLinks` leaves out time: what is due may happen at any moment, so that its
  safety holds for every schedule.  A list of peers is made, sent and learnt from in one step (an older one
  would only add less), and an address stays with its device.  The parsing of
  addresses, the limit of 8 addresses per peer and the Tailscale command are left out;
  addresses that Tailscale lists come as typed ones that are never taken back.
* `Desktop` has one option for all the settings that only restart sync, and one
  group at a time; manual addresses and the window's own state are left out.
* `Updater` takes the verification of a download as its outcome and a version
  as what `parse` makes of a tag.  The rename that puts the old program back is
  taken to succeed.  The old process is gone before the new one goes on: the 30
  seconds after which it would go on all the same (`waitForExit`) are not counted.
* A process may die between any two steps; the machine does not.  Nothing in the
  code calls `fsync`, and what a power cut leaves of a file that was written and
  renamed is not modelled.

Not modelled, and why:

* framing and link encryption (`protocol/conn.go`): one reader and one writer
  per connection, each with a counter and under its own lock; that it opens or fails is
  an outcome in `PeerLinks` and `ClipSync`;
* the clipboard backends, the USB bridge, the server's listener and flags, the
  window, the tray and the Android screens: calls of a platform, with no protocol
  of their own;
* the Android core: the protocol of the Go code written again in Kotlin; the
  modules here are translated from the Go code only;
* pure functions on strings (`SafeName`, addresses, codes).

## 6. Where the documentation and the code differ

* **An older local copy can replace a newer clip** (`newest`).  `LocalCopy`
  stamps under the lock, seals without it and then sets `current` without
  comparing.  A clip stamped later elsewhere that arrives in between is
  overwritten on this device, and every other device ignores the local copy.
  `docs/PROTOCOL.md:135-136` says the newest clip wins everywhere.  The looser
  registers of `NewestWins` (`LooseSpec`) allow exactly this one step, and the
  refinement theorem shows there is no other.
* **Two restarts at once leave a generation of sync that nothing stops**
  (`restart_twice`).  `Service.Restart` stops under one hold of the lock and
  builds under another; two window calls that both stop first both build, and
  the second overwrites the stop channel of the first
  (`cmd/voidbridge/service.go:60` says it stops whatever is running).  The
  Linux daemon has a lock for it; `OneRunningHolds` is the theorem for it and
  for one window call at a time.

The models also reach the following, which no run reports as a violation:
either the repository promises nothing about it, or the property was left out
of the runs, or it excepts the case by name.  Most are hazards in
`PROJECT.json`.

* **A received clip can be sent out again as a copy.**  `lastHash`
  moves under the lock before the clipboard is written, and `poll` compares
  only with it (`docs/PROTOCOL.md:137-138`).
* **The clipboard can keep the older of two clips**: two readers
  write it in the other order (`docs/PROTOCOL.md:133-134`).
* **A transfer outlives its node.**  Only the `Run` loop calls
  `expireFiles`; after `Service.Restart` nothing drops what the old node was
  receiving: its temporary file stays open and its list entry active
  (`docs/PROTOCOL.md:71-72`).  `EveryTransferEnds` is checked for one node.
  By `TempFilesAreListed` the old node's table lists all such files.
* **A received file can replace another.**  `uniquePath`
  looks and `os.Rename` takes; two readers that commit one name together get
  the same path (`internal/files/files_test.go:111`).  Both senders are told
  "ok", which is why `Delivery` speaks of files that were stored and not of
  files that are still there.  `SentIsThereHolds` shows that this is the only way.
* **The app can stay busy for ever.**  `OnReceived` finds its
  entry in one hold of the lock and marks it in another: two ends of one name
  can mark the same one (`cmd/voidbridge/transfers.go:77`), and an expiry
  between a chunk and its progress report marks an entry that the report then
  makes active again.  The automatic update waits for it (`UpToDate` excepts it by
  `~inUse`).  `StoredNotBusy` is what remains, and `AloneNotBusyHolds` says of which files.
* **Two devices that dial each other at once can close both connections**, each
  as the spare of the other (`peer.go:230`).  They dial again two seconds later, so
  `AllLinked` is stated for pairs of which one can reach the other.
* **A link can be registered after stop** has closed the manager's links
  (`peer.go:172`); it lives until its peer ends it.
* **A connection can outlive its session** when the session ends between the
  check of its token and its registration (`server.go:584`); `LiveEntitled`
  excepts these (`late`).  The device then stays connected and is not told that it
  was signed out.
* **An answer can be wrong after a failed save**: the change is in memory, the
  caller is told of an error, and `logout` does not look at it at all
  (`server.go:323`); a save after `Close` writes nothing
  (`cmd/voidbridge-server/main.go:147`).  `AnswersDurable` and `LiveEntitled`
  except these (`unsaved`).
* **On Linux two processes save the settings**, through one temporary file
  (`config.go:128`), and `remember` writes the daemon's whole copy over what a
  command has saved and not yet told it (`daemon.go:192`).  That the file is whole
  (`TypeOK`) and `InStep` are checked on Linux for one writer at a time.
* **A change whose save failed stays in memory.**  The call reports the error and
  returns before the restart (`app.go:196`, `252`, `308`), so memory, file and running
  sync differ.  A group that could not be joined, as the user was told, is then saved with
  the next device that is remembered, and joined at the next start.  `InStep`
  excepts what such a call left undone (`failed`), and nothing else.
* **A stopped relay client can still show its state** over that of its successor
  (`relay.go:262`), and its back-off is never reset, since every session ends with an error
  (`relay.go:269`).
* **On Linux two installations can run at once**, by the loop and by the
  command (`voidbridge-linux/update.go:97`); and a transfer that begins during the
  download is cut by the restart (`update.go:37`).
* **A second start removes the download that is ready** (`main.go:57`, before the
  lock at `main.go:93`); the right-click menu of the Explorer makes one.  The update is
  still offered: its installation moves the program out, finds nothing to move in and
  puts the program back, and the next check downloads again.
* **What is ready can be the earlier of two releases** under the name of the later,
  when that one was found during the download (`updater.go:97`).  The next start finds the later.
* **A failed `exec` leaves the Linux daemon without sync and without its socket**,
  which `shutdown` has taken away before (`update.go:119`).  The loop runs on and the next
  installation starts a whole daemon.
* **On Windows a crash between the two renames** of an installation leaves the
  program under `.exe.old` only (`selfupdate_windows.go:72`); `Startable` says
  that this is the worst.

Two more were read from the code, and no run shows them: a copy made between
`Handle`'s write and its reading of the change counter is taken for the write
itself and never sent (`node.go:213`); and a transfer that `expireFiles`
collects just before its `file_end` is reported to the app as failed and as
received (`files.go:300`).

## 7. Plan

Every component with a protocol of its own is modelled.  What is left, in order:

1. The hub composed with two nodes: that the newest clip of an account reaches
   a node through it, from the two modules' own guarantees.
2. The parts of the hazards that no property covers yet: what may be said of
   two devices that dial each other at once, and of two writers of the Linux
   settings.  For two transfers of one name `SentIsThereHolds` says it.
3. The step relations behind the liveness properties as theorems: that a
   step which fairness promises is possible where it is needed stays with TLC, but
   that nothing else undoes its progress can be proved.  Done for
   `EveryTransferEnds` (`TempFilesListed`), `SenderTold` (`NoneLeftWaiting`), `RefusalShown`
   and `Reconnects` (`NeverSilent`); left are `CaughtUp`, `AllLinked`, `StoppedEnds`
   and `UpToDate`.
