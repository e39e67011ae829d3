------------------------------ MODULE Updater ------------------------------
(***************************************************************************)
(* How the desktop programs replace themselves: the latest release is      *)
(* looked up, downloaded beside the executable, verified, put in its place *)
(* and started.  Windows keeps the downloaded file for a quiet moment, and *)
(* renames a running executable away since it cannot overwrite it; every   *)
(* start of the program removes what an update left behind.  The Linux     *)
(* daemon downloads when it installs.                                      *)
(*                                                                         *)
(* Versions are what parse makes of a tag.  The verification of a download *)
(* is its outcome: what Fetch passes is the release, whole.  What the      *)
(* display shows of an update is left out, and so is a setting that cannot *)
(* be saved (Desktop has those).  A process may die at any step; the power *)
(* does not fail, and the rename that puts the old program back succeeds.  *)
(***************************************************************************)
EXTENDS Naturals, Sequences, FiniteSets

CONSTANTS
  Versions,    \* versions of releases: three numbers and a pre-release part
  None, Part,  \* no file; a file written in part
  MaxWaiting,  \* download goroutines waiting for updater.dl
  Loads        \* what may happen: the platform, the first version, automatic
               \* updates or not at first, and bounds: new releases, steps that
               \* fail, requests of the user, times the program is in use or its
               \* setting is turned, starts beside the running one, crashes

Threads == {"loop", "user"}

World == [platform : {"linux", "windows"}, first : Versions, auto : BOOLEAN, releases : Nat,
          failures : Nat, requests : Nat, uses : Nat, turns : Nat, starts : Nat, crashes : Nat]

ASSUME UpdaterAssumption ==
  /\ Versions \subseteq [nums : [1..3 -> Nat], pre : BOOLEAN]
  /\ {None, Part} \cap Versions = {} /\ None # Part /\ MaxWaiting \in Nat
  /\ Loads \subseteq World

VARIABLES
  exe, old, new, \* the executable, .exe.old and .exe.new: a version, or none
  running,       \* the version of the process
  image,         \* the name the file of the process has, "exe" or "old"
  latest,        \* the latest stable release on GitHub
  rel, ready,    \* updater.rel, and whether updater.file names it
  dl,            \* the release that is being downloaded (updater.dl is held)
  waiting,       \* goroutines waiting for updater.dl
  doing,         \* doing[t]: where thread t is, and the release it looked up
  auto,          \* automatic updates are on
  inUse,         \* files are being sent or received, or the window is open
  second,        \* what a second process is about to remove
  serving,       \* the Linux daemon syncs and can be asked
  load           \* what is left to happen

vars == <<exe, old, new, running, image, latest, rel, ready, dl, waiting, doing, auto, inUse, second, serving, load>>
files == <<exe, old, new>>
upd == <<rel, ready, dl, waiting>>
around == <<running, image, latest, auto, inUse, second, serving>>

-----------------------------------------------------------------------------
File == Versions \cup {None, Part}
Stages == {"idle", "found", "wait", "load", "asked", "out", "in", "start", "back", "hold", "fetch", "quit", "gone"}
Doing == [at : Stages, rel : Versions \cup {None}]
Rest == [at |-> "idle", rel |-> None]

TypeOK ==
  /\ exe \in File /\ old \in File /\ new \in File /\ running \in Versions /\ image \in {"exe", "old"}
  /\ latest \in Versions /\ rel \in Versions \cup {None} /\ dl \in Versions \cup {None}
  /\ ready \in BOOLEAN /\ auto \in BOOLEAN /\ inUse \in BOOLEAN /\ serving \in BOOLEAN
  /\ waiting \in 0..MaxWaiting /\ second \in {"none", "old", "new"}
  /\ doing \in [Threads -> Doing] /\ load \in World

Init ==
  /\ load \in Loads
  /\ running = load.first /\ exe = load.first /\ old = None /\ new = None /\ image = "exe"
  /\ latest = load.first /\ rel = None /\ ready = FALSE /\ dl = None /\ waiting = 0
  /\ doing = [t \in Threads |-> Rest] /\ auto = load.auto /\ inUse = FALSE
  /\ second = "none" /\ serving = TRUE

Spend(b) == load[b] > 0 /\ load' = [load EXCEPT ![b] = @ - 1]
Windows == load.platform = "windows"
At(t, stage) == doing[t].at = stage
Goes(t, stage) == doing' = [doing EXCEPT ![t].at = stage]
Stops(t) == doing' = [doing EXCEPT ![t] = Rest]
Gone == \A t \in Threads : At(t, "gone")

Above(l, c) == \E i \in 1..3 : l[i] > c[i] /\ \A j \in 1..(i - 1) : l[j] = c[j]

\* Mutant: any other release is newer.
NewerOther(l, c) == ~l.pre /\ l.nums # c.nums

\* update.Newer: a stable version, above c or c's own final.
Newer(l, c) == ~l.pre /\ (Above(l.nums, c.nums) \/ (l.nums = c.nums /\ c.pre))

\* update.Latest, asked by the loop, by CheckForUpdates or by `voidbridge
\* update`: the answer is used later.
Look(t) ==
  /\ At(t, "idle") /\ Newer(latest, running)
  /\ IF t = "user" THEN Spend("requests") /\ (Windows \/ serving) ELSE UNCHANGED load
  /\ doing' = [doing EXCEPT ![t] = [at |-> "found", rel |-> latest]]
  /\ UNCHANGED <<files, upd, around>>

-----------------------------------------------------------------------------
(* Windows: checking and downloading.                                      *)

\* Mutant: only a release not seen before is downloaded.
CheckOnce(t) ==
  /\ Windows /\ At(t, "found") /\ Stops(t)
  /\ rel' = doing[t].rel /\ ready' = (ready /\ rel = doing[t].rel)
  /\ waiting' = IF auto /\ rel # doing[t].rel /\ waiting < MaxWaiting THEN waiting + 1 ELSE waiting
  /\ UNCHANGED <<files, around, dl, load>>

\* checkUpdate has its answer: a release not seen before replaces what was
\* found and downloaded.
Check(t) ==
  /\ Windows /\ At(t, "found") /\ Stops(t)
  /\ rel' = doing[t].rel /\ ready' = (ready /\ rel = doing[t].rel)
  /\ waiting' = IF auto /\ waiting < MaxWaiting THEN waiting + 1 ELSE waiting
  /\ UNCHANGED <<files, around, dl, load>>

\* InstallUpdate downloads first, if need be.
Ask ==
  /\ Windows /\ At("user", "idle") /\ Spend("requests") /\ Goes("user", "wait")
  /\ UNCHANGED <<files, upd, around>>

\* SetAutoUpdate; on Linux the setting comes with a restart of the sync.
SetAutoUpdate ==
  /\ Spend("turns") /\ auto' = ~auto /\ ~Gone /\ (Windows \/ serving)
  /\ waiting' = IF auto' /\ rel # None /\ waiting < MaxWaiting THEN waiting + 1 ELSE waiting
  /\ UNCHANGED <<files, rel, ready, dl, doing, running, image, latest, inUse, second, serving>>

\* updater.dl is free for a goroutine ("loop") or for InstallUpdate ("user").
Turn(t) ==
  /\ Windows /\ dl = None
  /\ IF t = "user" THEN At(t, "wait") /\ UNCHANGED waiting ELSE waiting > 0 /\ waiting' = waiting - 1

\* Mutant: a release that is ready is downloaded again.
DownloadAgain(t) ==
  /\ Turn(t)
  /\ IF rel = None
     THEN UNCHANGED <<new, dl>> /\ IF t = "user" THEN Stops(t) ELSE UNCHANGED doing
     ELSE new' = Part /\ dl' = rel /\ IF t = "user" THEN Goes(t, "load") ELSE UNCHANGED doing
  /\ UNCHANGED <<exe, old, rel, ready, around, load>>

\* downloadUpdate begins: one at a time, and what is ready is not downloaded
\* again.
Download(t) ==
  /\ Turn(t)
  /\ \/ rel = None /\ UNCHANGED <<new, dl>> /\ IF t = "user" THEN Stops(t) ELSE UNCHANGED doing
     \/ rel # None /\ ready /\ UNCHANGED <<new, dl>> /\ IF t = "user" THEN Goes(t, "asked") ELSE UNCHANGED doing
     \/ rel # None /\ ~ready /\ new' = Part /\ dl' = rel /\ IF t = "user" THEN Goes(t, "load") ELSE UNCHANGED doing
  /\ UNCHANGED <<exe, old, rel, ready, around, load>>

\* os.Create failed: nothing is removed.
CannotCreate(t) ==
  /\ Turn(t) /\ rel # None /\ ~ready /\ Spend("failures")
  /\ IF t = "user" THEN Stops(t) ELSE UNCHANGED doing
  /\ UNCHANGED <<files, rel, ready, dl, around>>

Downloaded ==
  /\ dl # None /\ new' = dl /\ dl' = None /\ ready' = TRUE
  /\ IF At("user", "load") THEN Goes("user", "asked") ELSE UNCHANGED doing
  /\ UNCHANGED <<exe, old, rel, waiting, around, load>>

\* Fetch failed, or found the file damaged: it is removed.
DownloadFails ==
  /\ dl # None /\ Spend("failures") /\ new' = None /\ dl' = None
  /\ IF At("user", "load") THEN Stops("user") ELSE UNCHANGED doing
  /\ UNCHANGED <<exe, old, rel, ready, waiting, around>>

-----------------------------------------------------------------------------
(* Windows: installing.  No lock is held; a file that is open or runs can  *)
(* be renamed only as Windows allows.                                      *)

\* autoInstall finds a file, the window closed and no transfer.
AutoInstall ==
  /\ Windows /\ At("loop", "idle") /\ ready /\ auto /\ ~inUse /\ Goes("loop", "asked")
  /\ UNCHANGED <<files, upd, around, load>>

\* installUpdate takes the file, which another check may have dropped.
TakeFile(t) ==
  /\ At(t, "asked") /\ IF ready THEN Goes(t, "out") ELSE Stops(t)
  /\ UNCHANGED <<files, upd, around, load>>

\* The executable is renamed to .old, unless that is what runs already.
MoveOut(t) ==
  /\ At(t, "out")
  /\ IF exe # None /\ image = "exe"
     THEN old' = exe /\ exe' = None /\ image' = "old" /\ Goes(t, "in") /\ UNCHANGED ready
     ELSE Stops(t) /\ ready' = FALSE /\ UNCHANGED <<exe, old, image>>
  /\ UNCHANGED <<new, running, latest, rel, dl, waiting, auto, inUse, second, serving, load>>

MoveOutFails(t) ==
  /\ At(t, "out") /\ Spend("failures") /\ Stops(t) /\ ready' = FALSE
  /\ UNCHANGED <<files, rel, dl, waiting, around>>

\* Mutant: what is being downloaded can be renamed as well.
MoveInOpen(t) ==
  /\ At(t, "in") /\ new # None
  /\ exe' = new /\ new' = None /\ Goes(t, "start")
  /\ UNCHANGED <<old, upd, around, load>>

\* The new file takes its place, if it is there and not being written.
MoveIn(t) ==
  /\ At(t, "in")
  /\ IF new # None /\ dl = None
     THEN exe' = new /\ new' = None /\ Goes(t, "start")
     ELSE Goes(t, "back") /\ UNCHANGED <<exe, new>>
  /\ UNCHANGED <<old, upd, around, load>>

MoveInFails(t) ==
  /\ At(t, "in") /\ Spend("failures") /\ Goes(t, "back")
  /\ UNCHANGED <<files, upd, around>>

Starts(t) ==
  /\ At(t, "start") /\ Goes(t, "quit")
  /\ UNCHANGED <<files, upd, around, load>>

\* The new file goes back, unless a download has begun where it was.
StartFails(t) ==
  /\ At(t, "start") /\ Spend("failures") /\ Goes(t, "back")
  /\ IF dl = None THEN new' = exe /\ exe' = None ELSE UNCHANGED <<new, exe>>
  /\ UNCHANGED <<old, upd, around>>

\* The old file goes back, over what is there.
Back(t) ==
  /\ At(t, "back") /\ exe' = old /\ old' = None /\ image' = "exe" /\ ready' = FALSE /\ Stops(t)
  /\ UNCHANGED <<new, running, latest, rel, dl, waiting, auto, inUse, second, serving, load>>

\* A process starts from the executable; on Windows it removes what is left.
Begin ==
  /\ running' = exe /\ image' = "exe" /\ UNCHANGED <<exe, latest, auto, second>>
  /\ IF Windows THEN old' = None /\ new' = None ELSE UNCHANGED <<old, new>>
  /\ rel' = None /\ ready' = FALSE /\ dl' = None /\ waiting' = 0
  /\ doing' = [t \in Threads |-> Rest] /\ inUse' = FALSE /\ serving' = TRUE

\* The old process quits, and the one that waits for it goes on.
Quit(t) == Windows /\ At(t, "quit") /\ Begin /\ UNCHANGED load

\* The program is started beside the running one, as Explorer's menu does to
\* send a file: it cleans up before it finds that it is the second.
StartAgain ==
  /\ Windows /\ exe # None /\ second = "none" /\ Spend("starts") /\ second' = "old"
  /\ UNCHANGED <<files, upd, doing, running, image, latest, auto, inUse, serving>>

\* A file that a process runs from stays.
RemoveOld ==
  /\ second = "old" /\ second' = "new" /\ old' = (IF image = "old" THEN old ELSE None)
  /\ UNCHANGED <<exe, new, upd, doing, running, image, latest, auto, inUse, serving, load>>

\* A file that is being written stays.
RemoveNew ==
  /\ second = "new" /\ second' = "none" /\ new' = (IF dl = None THEN None ELSE new)
  /\ UNCHANGED <<exe, old, upd, doing, running, image, latest, auto, inUse, serving, load>>

-----------------------------------------------------------------------------
(* Linux: daemon.updateLoop, updateNow and install.                        *)

\* The loop goes on only with automatic updates.
Approve(t) ==
  /\ ~Windows /\ At(t, "found")
  /\ IF t = "user" \/ auto THEN Goes(t, "hold") ELSE Stops(t)
  /\ UNCHANGED <<files, upd, around, load>>

\* The loop has waited for the end of the transfers; the command does not.
Quiet(t) == ~Windows /\ At(t, "hold") /\ (t = "loop" => ~inUse)

\* Mutant: the release is written over the executable.
InstallInPlace(t) ==
  /\ Quiet(t) /\ Goes(t, "fetch") /\ exe' = Part
  /\ UNCHANGED <<new, old, upd, around, load>>

Install(t) ==
  /\ Quiet(t) /\ Goes(t, "fetch") /\ new' = Part
  /\ UNCHANGED <<exe, old, upd, around, load>>

CannotOpen(t) ==
  /\ Quiet(t) /\ Spend("failures") /\ Stops(t)
  /\ UNCHANGED <<files, upd, around>>

Fetched(t) ==
  /\ ~Windows /\ At(t, "fetch") /\ new' = doing[t].rel /\ Goes(t, "in")
  /\ UNCHANGED <<exe, old, upd, around, load>>

\* Fetch or the rename failed: what was downloaded is removed.
InstallFails(t) ==
  /\ ~Windows /\ doing[t].at \in {"fetch", "in"} /\ Spend("failures") /\ new' = None /\ Stops(t)
  /\ UNCHANGED <<exe, old, upd, around>>

\* The rename replaces the executable in one step.
Replace(t) ==
  /\ ~Windows /\ At(t, "in") /\ exe' = new /\ new' = None /\ Goes(t, "quit")
  /\ UNCHANGED <<old, upd, around, load>>

\* shutdown and Exec.
Exec(t) == ~Windows /\ At(t, "quit") /\ Begin /\ UNCHANGED load

\* Exec failed: the old program runs on, without sync and without a socket.
ExecFails(t) ==
  /\ ~Windows /\ At(t, "quit") /\ Spend("failures") /\ Stops(t) /\ serving' = FALSE
  /\ UNCHANGED <<files, upd, running, image, latest, auto, inUse, second>>

-----------------------------------------------------------------------------
(* Around the programs.                                                    *)

\* GitHub names another release the latest, also an older one.
Publish(v) ==
  /\ Spend("releases") /\ ~v.pre /\ v # latest /\ latest' = v
  /\ UNCHANGED <<files, upd, doing, running, image, auto, inUse, second, serving>>

\* A transfer or the window: nothing says when it ends.
Use ==
  /\ inUse \/ load.uses > 0
  /\ inUse' = ~inUse /\ load' = [load EXCEPT !.uses = IF inUse THEN @ ELSE @ - 1]
  /\ UNCHANGED <<files, upd, doing, running, image, latest, auto, second, serving>>

\* The process dies and is started again, if there is an executable.
Crash ==
  /\ Spend("crashes")
  /\ \/ exe # None /\ Begin
     \/ /\ exe = None /\ doing' = [t \in Threads |-> [Rest EXCEPT !.at = "gone"]]
        /\ rel' = None /\ ready' = FALSE /\ dl' = None /\ waiting' = 0
        /\ UNCHANGED <<files, around>>

WindowsSteps(t) ==
  \/ TakeFile(t) \/ MoveOut(t) \/ MoveOutFails(t) \/ MoveIn(t) \/ MoveInFails(t)
  \/ Starts(t) \/ StartFails(t) \/ Back(t) \/ Quit(t)
LinuxSteps(t) ==
  Approve(t) \/ Install(t) \/ CannotOpen(t) \/ Fetched(t) \/ InstallFails(t) \/ Replace(t) \/ Exec(t) \/ ExecFails(t)
InstallSteps(t) == Check(t) \/ (Windows /\ WindowsSteps(t)) \/ LinuxSteps(t)

Next ==
  \/ \E t \in Threads : Look(t) \/ Download(t) \/ CannotCreate(t) \/ InstallSteps(t)
  \/ Ask \/ SetAutoUpdate \/ Downloaded \/ DownloadFails \/ AutoInstall
  \/ StartAgain \/ RemoveOld \/ RemoveNew
  \/ Use \/ Crash \/ \E v \in Versions : Publish(v)

\* The loop runs, a lock is passed on, and downloads and calls end.  Between
\* two checks the loop asks for the file 360 times.
Fairness ==
  /\ WF_vars(Look("loop")) /\ SF_vars(AutoInstall)
  /\ \A t \in Threads : WF_vars(InstallSteps(t)) /\ WF_vars(Download(t))
  /\ WF_vars(Downloaded \/ DownloadFails)

Spec == Init /\ [][Next]_vars /\ Fairness

-----------------------------------------------------------------------------
(* Properties.                                                             *)

\* At every step, whatever dies then, a whole program is in its place, or
\* was moved out by an installation that has not moved the next one in.
Startable == exe \in Versions \/ (exe = None /\ old \in Versions)

\* A download that is offered for installation is never a part of a file,
\* also when another release is found and asked for meanwhile.  A second start
\* may have removed it: then the installation puts the program back.
ReadyWhole == ready => new # Part

\* The program is never replaced by an older version of itself, whichever
\* release is the latest when it is looked up, downloaded or installed.
NeverBack == [][running' # running =>
  \/ Above(running'.nums, running.nums)
  \/ running'.nums = running.nums /\ running.pre /\ ~running'.pre]_running

Moving(t) == doing[t].at \in {"in", "start", "back", "quit"}

\* Why an installation on Windows keeps Startable, without a lock: only the
\* thread that moved the executable out goes on to move files, what it moved
\* out is what runs, and a download that is not finished cannot be moved in.
OneMoves ==
  /\ \A t, u \in Threads : Moving(t) /\ Moving(u) => t = u
  /\ image = "exe" => exe = running /\ \A t \in Threads : ~Moving(t)
  /\ image = "old" => old = running
  /\ \A t \in Threads :
       /\ At(t, "in") => exe = None
       /\ doing[t].at \in {"start", "quit"} => exe \in Versions
       /\ At(t, "gone") => Gone /\ ~ready /\ dl = None /\ waiting = 0
  /\ exe # Part
  /\ dl # None => new = Part /\ ~ready
  /\ dl = None => new # Part \/ Gone

\* On Linux one rename does it all, by the one thread that installs.
OneInstalls ==
  /\ image = "exe" /\ old = None /\ exe \in Versions /\ second = "none"
  /\ rel = None /\ dl = None /\ waiting = 0 /\ ~ready
  /\ \A t \in Threads :
       /\ doing[t].at \in {"idle", "found", "hold", "fetch", "in", "quit"}
       /\ At(t, "in") => new = doing[t].rel

\* Whatever was found, downloaded or put in place is newer than what runs.
OnlyNewer ==
  /\ exe # None => exe = running \/ Newer(exe, running)
  /\ Windows /\ new \in Versions => Newer(new, running)
  /\ rel # None => Newer(rel, running)
  /\ dl # None => Newer(dl, running)
  /\ \A t \in Threads :
       /\ doing[t].at \in {"found", "hold", "fetch"} \/ (At(t, "in") /\ ~Windows) =>
            doing[t].rel # None /\ Newer(doing[t].rel, running)
       /\ doing[t].at \in {"start", "quit"} => Newer(exe, running)

\* On Linux the loop and the user do not install at the same time.
Installing(t) == doing[t].at \in {"fetch", "in", "quit"}
Apart == Windows \/ \A t, u \in Threads : Installing(t) /\ Installing(u) => t = u

\* What the proofs carry through every step.
Inductive == (IF Windows THEN OneMoves ELSE OneInstalls) /\ OnlyNewer

\* While automatic updates stay on and the program is left alone, it gets to
\* the latest version again and again, after any number of downloads, renames
\* and starts that fail, unless it died between two renames.
UpToDate ==
  <>[](auto /\ ~inUse) => []<>(~Newer(latest, running) \/ Gone)
=============================================================================
