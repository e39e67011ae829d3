--------------------------- MODULE UpdaterProofs ---------------------------
(***************************************************************************)
(* Proofs about the updater, for any versions, releases, failures and      *)
(* crashes: a program that can be started is always there, what is offered *)
(* for installation is never a part, and no update goes back.              *)
(*                                                                         *)
(* On Linux they hold as long as the loop and the user do not install at   *)
(* the same time (Apart): the daemon has no lock for it.                   *)
(***************************************************************************)
EXTENDS Updater, TLAPS

Held == TypeOK /\ Inductive

\* What a step keeps when it spends something.
LEMMA SpendKeeps ==
  ASSUME load \in World,
         NEW b \in {"releases", "failures", "requests", "uses", "turns", "starts", "crashes"}, Spend(b)
  PROVE  load' \in World /\ load'.platform = load.platform
<1>1. load[b] \in Nat /\ load[b] > 0 /\ load' = [load EXCEPT ![b] = @ - 1]
  BY DEF World, Spend
<1>2. load[b] - 1 \in Nat
  BY <1>1
<1> QED
  BY <1>1, <1>2 DEF World

LEMMA InitHeld == Init => Held
<1> SUFFICES ASSUME Init PROVE Held
  OBVIOUS
<1>1. load \in World /\ load.first \in Versions /\ None \notin Versions /\ Part \notin Versions
  BY UpdaterAssumption DEF Init, World
<1>2. doing \in [Threads -> Doing] /\ \A t \in Threads : doing[t].at = "idle"
  BY DEF Init, Doing, Rest, Stages
<1>3. exe \in File /\ old \in File /\ new \in File
  BY <1>1 DEF Init, File
<1>a. ready \in BOOLEAN /\ inUse \in BOOLEAN /\ serving \in BOOLEAN
  BY DEF Init
<1>b. waiting \in 0..MaxWaiting
  BY UpdaterAssumption DEF Init
<1>c. rel = None /\ dl = None /\ latest \in Versions /\ running \in Versions /\ image = "exe" /\ second = "none"
  BY <1>1 DEF Init
<1>d. ~ready
  BY DEF Init
<1>e. new # Part /\ exe # Part /\ exe = running
  BY <1>1, UpdaterAssumption DEF Init
<1>f. auto \in BOOLEAN
  BY <1>1 DEF Init, World
<1>4. TypeOK
  BY <1>1, <1>2, <1>3, <1>a, <1>b, <1>c, <1>f DEF TypeOK
<1>5. OnlyNewer
  BY <1>1, <1>2 DEF Init, OnlyNewer, At
<1>6. OneMoves
  BY <1>2, <1>c, <1>d, <1>e DEF OneMoves, Moving, At
<1>7. ~Windows => OneInstalls
  BY <1>1, <1>2 DEF Init, OneInstalls, At
<1> QED
  BY <1>4, <1>5, <1>6, <1>7 DEF Held, Inductive

\* Where the threads are after one of them moves.
LEMMA GoesMoves ==
  ASSUME TypeOK, NEW t \in Threads, NEW stage \in Stages, Goes(t, stage)
  PROVE  /\ doing' \in [Threads -> Doing]
         /\ \A u \in Threads : doing'[u].rel = doing[u].rel
                               /\ doing'[u].at = IF u = t THEN stage ELSE doing[u].at
BY DEF TypeOK, Goes, Doing

LEMMA StopsMoves ==
  ASSUME TypeOK, NEW t \in Threads, Stops(t)
  PROVE  /\ doing' \in [Threads -> Doing]
         /\ \A u \in Threads : doing'[u].rel = (IF u = t THEN None ELSE doing[u].rel)
                               /\ doing'[u].at = IF u = t THEN "idle" ELSE doing[u].at
BY DEF TypeOK, Stops, Doing, Rest, Stages

LEMMA BeginRests ==
  ASSUME Begin
  PROVE  doing' \in [Threads -> Doing] /\ \A u \in Threads : doing'[u] = Rest
BY DEF Begin, Doing, Rest, Stages

\* A process that starts from the executable keeps everything, if the
\* executable is whole.
LEMMA NewProcess ==
  ASSUME Held, Begin, exe \in Versions, load' \in World, load'.platform = load.platform
  PROVE  Held'
<1>1. doing' \in [Threads -> Doing] /\ \A u \in Threads : doing'[u].at = "idle"
  BY BeginRests DEF Rest
<1>2. ready' \in BOOLEAN /\ inUse' \in BOOLEAN /\ serving' \in BOOLEAN /\ auto' \in BOOLEAN /\ ~ready'
  BY DEF Begin, Held, TypeOK
<1>3. waiting' \in 0..MaxWaiting /\ waiting' = 0
  BY UpdaterAssumption DEF Begin
<1>4. /\ exe' \in Versions /\ exe' # None /\ exe' # Part /\ running' = exe' /\ image' = "exe"
      /\ rel' = None /\ dl' = None /\ latest' \in Versions /\ second' = second
      /\ old' \in File /\ new' \in File /\ second' \in {"none", "old", "new"}
  BY UpdaterAssumption DEF Begin, Held, TypeOK, File
<1>5. Windows => new' # Part /\ new' \notin Versions
  BY UpdaterAssumption DEF Begin
<1>6. ~Windows => old' = old /\ OneInstalls
  BY DEF Begin, Held, Inductive
<1>7. TypeOK'
  BY <1>1, <1>2, <1>3, <1>4 DEF TypeOK, File
<1>8. Windows' = Windows
  BY DEF Windows
<1>9. OnlyNewer'
  BY <1>1, <1>4, <1>5, <1>8 DEF OnlyNewer, At
<1>10. Windows => OneMoves'
  BY <1>1, <1>2, <1>4, <1>5 DEF OneMoves, Moving, At
<1>11. ~Windows => OneInstalls'
  BY <1>1, <1>2, <1>3, <1>4, <1>6 DEF OneInstalls, At
<1> QED
  BY <1>7, <1>8, <1>9, <1>10, <1>11 DEF Held, Inductive


LEMMA LookKeeps ==
  ASSUME Held, NEW t \in Threads, Look(t)
  PROVE  Held'
<1> USE DEF Held, Inductive, Look, At, files, upd, around, Windows
<1>1. load' \in World /\ load'.platform = load.platform
  BY SpendKeeps DEF TypeOK
<1>2. /\ doing' \in [Threads -> Doing]
      /\ \A u \in Threads : /\ u # t => doing'[u] = doing[u]
                            /\ u = t => doing'[u].at = "found" /\ doing'[u].rel = latest
  BY DEF TypeOK, Doing, Stages
<1>3. TypeOK'
  BY <1>1, <1>2, UpdaterAssumption DEF TypeOK, File
<1>4. OnlyNewer'
  BY <1>1, <1>2, UpdaterAssumption DEF OnlyNewer, TypeOK, OneMoves, Moving
<1>5. Windows => OneMoves'
  BY <1>1, <1>2, UpdaterAssumption DEF OneMoves, Moving, Gone, TypeOK, File
<1>6. ~Windows => OneInstalls'
  BY <1>1, <1>2, UpdaterAssumption DEF OneInstalls, TypeOK, Threads
<1> QED
  BY <1>1, <1>3, <1>4, <1>5, <1>6

LEMMA CheckKeeps ==
  ASSUME Held, NEW t \in Threads, Check(t)
  PROVE  Held'
<1> USE DEF Held, Inductive, Check, At, files, upd, around, Windows
<1>1. load' \in World /\ load'.platform = load.platform
  BY SpendKeeps DEF TypeOK
<1>2. /\ doing' \in [Threads -> Doing]
      /\ \A u \in Threads : doing'[u].rel = (IF u = t THEN None ELSE doing[u].rel)
                            /\ doing'[u].at = IF u = t THEN "idle" ELSE doing[u].at
  BY StopsMoves DEF Threads
<1>a. doing[t].rel \in Versions /\ Newer(doing[t].rel, running)
  BY DEF OnlyNewer, TypeOK, Doing
<1>b. waiting' \in 0..MaxWaiting
  BY UpdaterAssumption DEF TypeOK
<1>3. TypeOK'
  BY <1>1, <1>2, <1>a, <1>b, UpdaterAssumption DEF TypeOK, File
<1>4. OnlyNewer'
  BY <1>1, <1>2, <1>a, <1>b, UpdaterAssumption DEF OnlyNewer, TypeOK, OneMoves, Moving
<1>5. Windows => OneMoves'
  BY <1>1, <1>2, <1>a, <1>b, UpdaterAssumption DEF OneMoves, Moving, Gone, TypeOK, File
<1> QED
  BY <1>1, <1>3, <1>4, <1>5

LEMMA AskKeeps ==
  ASSUME Held, Ask
  PROVE  Held'
<1> USE DEF Held, Inductive, Ask, At, files, upd, around, Windows
<1>1. load' \in World /\ load'.platform = load.platform
  BY SpendKeeps DEF TypeOK
<1>2. /\ doing' \in [Threads -> Doing]
      /\ \A u \in Threads : doing'[u].rel = doing[u].rel
                            /\ doing'[u].at = IF u = "user" THEN "wait" ELSE doing[u].at
  BY GoesMoves DEF Threads, Stages
<1>3. TypeOK'
  BY <1>1, <1>2, UpdaterAssumption DEF TypeOK, File
<1>4. OnlyNewer'
  BY <1>1, <1>2, UpdaterAssumption DEF OnlyNewer, TypeOK, OneMoves, Moving
<1>5. Windows => OneMoves'
  BY <1>1, <1>2, UpdaterAssumption DEF OneMoves, Moving, Gone, TypeOK, File
<1> QED
  BY <1>1, <1>3, <1>4, <1>5

LEMMA SetAutoUpdateKeeps ==
  ASSUME Held, SetAutoUpdate
  PROVE  Held'
<1> USE DEF Held, Inductive, SetAutoUpdate, At, files, upd, around, Windows
<1>1. load' \in World /\ load'.platform = load.platform
  BY SpendKeeps DEF TypeOK
<1>2. doing' = doing
  OBVIOUS
<1>a. waiting' \in 0..MaxWaiting /\ (rel = None => waiting' = waiting)
  BY UpdaterAssumption DEF TypeOK
<1>b. auto' \in BOOLEAN
  BY DEF TypeOK
<1>3. TypeOK'
  BY <1>1, <1>2, <1>a, <1>b, UpdaterAssumption DEF TypeOK, File
<1>4. OnlyNewer'
  BY <1>1, <1>2, <1>a, <1>b, UpdaterAssumption DEF OnlyNewer, TypeOK, OneMoves, Moving
<1>5. Windows => OneMoves'
  BY <1>1, <1>2, <1>a, <1>b, UpdaterAssumption DEF OneMoves, Moving, Gone, TypeOK, File
<1>6. ~Windows => OneInstalls'
  BY <1>1, <1>2, <1>a, <1>b, UpdaterAssumption DEF OneInstalls, TypeOK, Threads
<1> QED
  BY <1>1, <1>3, <1>4, <1>5, <1>6

LEMMA DownloadedKeeps ==
  ASSUME Held, Downloaded
  PROVE  Held'
<1> USE DEF Held, Inductive, Downloaded, At, files, upd, around, Windows
<1>1. load' \in World /\ load'.platform = load.platform
  BY SpendKeeps DEF TypeOK
<1>2. /\ doing' \in [Threads -> Doing]
      /\ \A u \in Threads : /\ doing'[u].rel = doing[u].rel
                            /\ doing'[u].at = doing[u].at \/ (doing[u].at = "load" /\ doing'[u].at = "asked")
  BY GoesMoves DEF Threads, Stages, TypeOK
<1>3. TypeOK'
  BY <1>1, <1>2, UpdaterAssumption DEF TypeOK, File
<1>4. OnlyNewer'
  BY <1>1, <1>2, UpdaterAssumption DEF OnlyNewer, TypeOK, OneMoves, Moving
<1>5. Windows => OneMoves'
  BY <1>1, <1>2, UpdaterAssumption DEF OneMoves, Moving, Gone, TypeOK, File
<1>6. ~Windows => OneInstalls'
  BY <1>1, <1>2, UpdaterAssumption DEF OneInstalls, TypeOK, Threads
<1> QED
  BY <1>1, <1>3, <1>4, <1>5, <1>6

LEMMA DownloadFailsKeeps ==
  ASSUME Held, DownloadFails
  PROVE  Held'
<1> USE DEF Held, Inductive, DownloadFails, At, files, upd, around, Windows
<1>1. load' \in World /\ load'.platform = load.platform
  BY SpendKeeps DEF TypeOK
<1>2. /\ doing' \in [Threads -> Doing]
      /\ \A u \in Threads : \/ doing'[u].at = doing[u].at /\ doing'[u].rel = doing[u].rel
                            \/ doing[u].at = "load" /\ doing'[u].at = "idle"
  BY StopsMoves DEF Threads, TypeOK
<1>3. TypeOK'
  BY <1>1, <1>2, UpdaterAssumption DEF TypeOK, File
<1>4. OnlyNewer'
  BY <1>1, <1>2, UpdaterAssumption DEF OnlyNewer, TypeOK, OneMoves, Moving
<1>5. Windows => OneMoves'
  BY <1>1, <1>2, UpdaterAssumption DEF OneMoves, Moving, Gone, TypeOK, File
<1>6. ~Windows => OneInstalls'
  BY <1>1, <1>2, UpdaterAssumption DEF OneInstalls, TypeOK, Threads
<1> QED
  BY <1>1, <1>3, <1>4, <1>5, <1>6

LEMMA DownloadKeeps ==
  ASSUME Held, NEW t \in Threads, Download(t)
  PROVE  Held'
<1> USE DEF Held, Inductive, Download, Turn, At, files, upd, around, Windows
<1>1. load' \in World /\ load'.platform = load.platform
  BY SpendKeeps DEF TypeOK
<1>2. /\ doing' \in [Threads -> Doing]
      /\ \A u \in Threads : \/ doing'[u].at = doing[u].at /\ doing'[u].rel = doing[u].rel
                            \/ doing[u].at = "wait" /\ doing'[u].at \in {"idle", "asked", "load"}
  <2>1. \/ doing' = doing
        \/ Stops(t) /\ At(t, "wait")
        \/ At(t, "wait") /\ (Goes(t, "asked") \/ Goes(t, "load"))
    BY Zenon DEF At
  <2>2. CASE doing' = doing
    BY <2>2 DEF TypeOK
  <2>3. CASE Stops(t) /\ At(t, "wait")
    BY <2>3, StopsMoves
  <2>4. CASE At(t, "wait") /\ (Goes(t, "asked") \/ Goes(t, "load"))
    BY <2>4, GoesMoves DEF Stages
  <2> QED
    BY <2>1, <2>2, <2>3, <2>4
<1>a. waiting' \in 0..MaxWaiting /\ dl = None
  BY UpdaterAssumption DEF TypeOK
<1>3. TypeOK'
  BY <1>1, <1>2, <1>a, UpdaterAssumption DEF TypeOK, File
<1>4. OnlyNewer'
  BY <1>1, <1>2, <1>a, UpdaterAssumption DEF OnlyNewer, TypeOK, OneMoves, Moving
<1>5. Windows => OneMoves'
  BY <1>1, <1>2, <1>a, UpdaterAssumption DEF OneMoves, Moving, Gone, TypeOK, File
<1> QED
  BY <1>1, <1>3, <1>4, <1>5

LEMMA CannotCreateKeeps ==
  ASSUME Held, NEW t \in Threads, CannotCreate(t)
  PROVE  Held'
<1> USE DEF Held, Inductive, CannotCreate, Turn, At, files, upd, around, Windows
<1>1. load' \in World /\ load'.platform = load.platform
  BY SpendKeeps DEF TypeOK
<1>2. /\ doing' \in [Threads -> Doing]
      /\ \A u \in Threads : \/ doing'[u].at = doing[u].at /\ doing'[u].rel = doing[u].rel
                            \/ doing[u].at = "wait" /\ doing'[u].at \in {"idle", "asked", "load"}
  <2>1. \/ doing' = doing
        \/ Stops(t) /\ At(t, "wait")
        \/ At(t, "wait") /\ (Goes(t, "asked") \/ Goes(t, "load"))
    BY Zenon DEF At
  <2>2. CASE doing' = doing
    BY <2>2 DEF TypeOK
  <2>3. CASE Stops(t) /\ At(t, "wait")
    BY <2>3, StopsMoves
  <2>4. CASE At(t, "wait") /\ (Goes(t, "asked") \/ Goes(t, "load"))
    BY <2>4, GoesMoves DEF Stages
  <2> QED
    BY <2>1, <2>2, <2>3, <2>4
<1>a. waiting' \in 0..MaxWaiting
  BY UpdaterAssumption DEF TypeOK
<1>3. TypeOK'
  BY <1>1, <1>2, <1>a, UpdaterAssumption DEF TypeOK, File
<1>4. OnlyNewer'
  BY <1>1, <1>2, <1>a, UpdaterAssumption DEF OnlyNewer, TypeOK, OneMoves, Moving
<1>5. Windows => OneMoves'
  BY <1>1, <1>2, <1>a, UpdaterAssumption DEF OneMoves, Moving, Gone, TypeOK, File
<1> QED
  BY <1>1, <1>3, <1>4, <1>5

LEMMA AutoInstallKeeps ==
  ASSUME Held, AutoInstall
  PROVE  Held'
<1> USE DEF Held, Inductive, AutoInstall, At, files, upd, around, Windows
<1>1. load' \in World /\ load'.platform = load.platform
  BY SpendKeeps DEF TypeOK
<1>2. /\ doing' \in [Threads -> Doing]
      /\ \A u \in Threads : doing'[u].rel = doing[u].rel
                            /\ doing'[u].at = IF u = "loop" THEN "asked" ELSE doing[u].at
  BY GoesMoves DEF Threads, Stages
<1>3. TypeOK'
  BY <1>1, <1>2, UpdaterAssumption DEF TypeOK, File
<1>4. OnlyNewer'
  BY <1>1, <1>2, UpdaterAssumption DEF OnlyNewer, TypeOK, OneMoves, Moving
<1>5. Windows => OneMoves'
  BY <1>1, <1>2, UpdaterAssumption DEF OneMoves, Moving, Gone, TypeOK, File
<1> QED
  BY <1>1, <1>3, <1>4, <1>5

LEMMA TakeFileKeeps ==
  ASSUME Held, NEW t \in Threads, Windows, TakeFile(t)
  PROVE  Held'
<1> USE DEF Held, Inductive, TakeFile, At, files, upd, around, Windows
<1>1. load' \in World /\ load'.platform = load.platform
  BY SpendKeeps DEF TypeOK
<1>2. /\ doing' \in [Threads -> Doing]
      /\ \A u \in Threads : \/ doing'[u] = doing[u]
                            \/ doing[u].at = "asked" /\ doing'[u].at \in {"idle", "out"}
  BY StopsMoves, GoesMoves DEF Threads, Stages, TypeOK, Goes, Stops
<1>3. TypeOK'
  BY <1>1, <1>2, UpdaterAssumption DEF TypeOK, File
<1>4. OnlyNewer'
  BY <1>1, <1>2, UpdaterAssumption DEF OnlyNewer, TypeOK, OneMoves, Moving
<1>5. Windows => OneMoves'
  BY <1>1, <1>2, UpdaterAssumption DEF OneMoves, Moving, Gone, TypeOK, File
<1> QED
  BY <1>1, <1>3, <1>4, <1>5

LEMMA MoveOutKeeps ==
  ASSUME Held, NEW t \in Threads, Windows, MoveOut(t)
  PROVE  Held'
<1> USE DEF Held, Inductive, MoveOut, At, Windows
<1>1. CASE exe # None /\ image = "exe"
  <2>1. /\ doing' \in [Threads -> Doing]
        /\ \A u \in Threads : doing'[u].rel = doing[u].rel
                              /\ doing'[u].at = IF u = t THEN "in" ELSE doing[u].at
    BY <1>1, GoesMoves DEF Stages
  <2>2. TypeOK'
    BY <1>1, <2>1 DEF TypeOK, File
  <2>3. OnlyNewer'
    BY <1>1, <2>1, UpdaterAssumption DEF OnlyNewer, TypeOK, OneMoves, Moving, Gone, File
  <2>4. OneMoves'
    BY <1>1, <2>1, UpdaterAssumption DEF OneMoves, Moving, Gone, TypeOK, File
  <2> QED
    BY <2>2, <2>3, <2>4
<1>2. CASE ~(exe # None /\ image = "exe")
  <2>1. /\ doing' \in [Threads -> Doing]
        /\ \A u \in Threads : doing'[u].rel = (IF u = t THEN None ELSE doing[u].rel)
                              /\ doing'[u].at = IF u = t THEN "idle" ELSE doing[u].at
    BY <1>2, StopsMoves
  <2>2. ~ready'
    BY <1>2
  <2>3. TypeOK'
    BY <1>2, <2>1 DEF TypeOK, File
  <2>4. OnlyNewer'
    BY <1>2, <2>1, <2>2, UpdaterAssumption DEF OnlyNewer, TypeOK, OneMoves, Moving, File
  <2>5. OneMoves'
    BY <1>2, <2>1, <2>2, UpdaterAssumption DEF OneMoves, Moving, Gone, TypeOK, File
  <2> QED
    BY <2>3, <2>4, <2>5
<1> QED
  BY <1>1, <1>2

LEMMA MoveOutFailsKeeps ==
  ASSUME Held, NEW t \in Threads, Windows, MoveOutFails(t)
  PROVE  Held'
<1> USE DEF Held, Inductive, MoveOutFails, At, files, upd, around, Windows
<1>1. load' \in World /\ load'.platform = load.platform
  BY SpendKeeps DEF TypeOK
<1>2. /\ doing' \in [Threads -> Doing]
      /\ \A u \in Threads : doing'[u].rel = (IF u = t THEN None ELSE doing[u].rel)
                            /\ doing'[u].at = IF u = t THEN "idle" ELSE doing[u].at
  BY StopsMoves DEF Threads
<1>a. ready' \in BOOLEAN /\ ~ready'
  OBVIOUS
<1>3. TypeOK'
  BY <1>1, <1>2, <1>a, UpdaterAssumption DEF TypeOK, File
<1>4. OnlyNewer'
  BY <1>1, <1>2, <1>a, UpdaterAssumption DEF OnlyNewer, TypeOK, OneMoves, Moving
<1>5. Windows => OneMoves'
  BY <1>1, <1>2, <1>a, UpdaterAssumption DEF OneMoves, Moving, Gone, TypeOK, File
<1> QED
  BY <1>1, <1>3, <1>4, <1>5

LEMMA MoveInKeeps ==
  ASSUME Held, NEW t \in Threads, Windows, MoveIn(t)
  PROVE  Held'
<1> USE DEF Held, Inductive, MoveIn, At, upd, around, Windows
<1>1. CASE new # None /\ dl = None
  <2>1. /\ doing' \in [Threads -> Doing]
        /\ \A u \in Threads : doing'[u].rel = doing[u].rel
                              /\ doing'[u].at = IF u = t THEN "start" ELSE doing[u].at
    BY <1>1, GoesMoves DEF Stages
  <2>2. TypeOK'
    BY <1>1, <2>1 DEF TypeOK, File
  <2>3. OnlyNewer'
    BY <1>1, <2>1, UpdaterAssumption DEF OnlyNewer, TypeOK, OneMoves, Moving, Gone, File
  <2>4. OneMoves'
    BY <1>1, <2>1, UpdaterAssumption DEF OneMoves, Moving, Gone, TypeOK, File
  <2> QED
    BY <2>2, <2>3, <2>4
<1>2. CASE ~(new # None /\ dl = None)
  <2>1. /\ doing' \in [Threads -> Doing]
        /\ \A u \in Threads : doing'[u].rel = doing[u].rel
                              /\ doing'[u].at = IF u = t THEN "back" ELSE doing[u].at
    BY <1>2, GoesMoves DEF Stages
  <2>2. TypeOK'
    BY <1>2, <2>1 DEF TypeOK, File
  <2>3. OnlyNewer'
    BY <1>2, <2>1, UpdaterAssumption DEF OnlyNewer, TypeOK, OneMoves, Moving, File
  <2>4. OneMoves'
    BY <1>2, <2>1, UpdaterAssumption DEF OneMoves, Moving, Gone, TypeOK, File
  <2> QED
    BY <2>2, <2>3, <2>4
<1> QED
  BY <1>1, <1>2

LEMMA MoveInFailsKeeps ==
  ASSUME Held, NEW t \in Threads, Windows, MoveInFails(t)
  PROVE  Held'
<1> USE DEF Held, Inductive, MoveInFails, At, files, upd, around, Windows
<1>1. load' \in World /\ load'.platform = load.platform
  BY SpendKeeps DEF TypeOK
<1>2. /\ doing' \in [Threads -> Doing]
      /\ \A u \in Threads : doing'[u].rel = doing[u].rel
                            /\ doing'[u].at = IF u = t THEN "back" ELSE doing[u].at
  BY GoesMoves DEF Threads, Stages
<1>3. TypeOK'
  BY <1>1, <1>2, UpdaterAssumption DEF TypeOK, File
<1>4. OnlyNewer'
  BY <1>1, <1>2, UpdaterAssumption DEF OnlyNewer, TypeOK, OneMoves, Moving
<1>5. Windows => OneMoves'
  BY <1>1, <1>2, UpdaterAssumption DEF OneMoves, Moving, Gone, TypeOK, File
<1> QED
  BY <1>1, <1>3, <1>4, <1>5

LEMMA StartsKeeps ==
  ASSUME Held, NEW t \in Threads, Windows, Starts(t)
  PROVE  Held'
<1> USE DEF Held, Inductive, Starts, At, files, upd, around, Windows
<1>1. load' \in World /\ load'.platform = load.platform
  BY SpendKeeps DEF TypeOK
<1>2. /\ doing' \in [Threads -> Doing]
      /\ \A u \in Threads : doing'[u].rel = doing[u].rel
                            /\ doing'[u].at = IF u = t THEN "quit" ELSE doing[u].at
  BY GoesMoves DEF Threads, Stages
<1>3. TypeOK'
  BY <1>1, <1>2, UpdaterAssumption DEF TypeOK, File
<1>4. OnlyNewer'
  BY <1>1, <1>2, UpdaterAssumption DEF OnlyNewer, TypeOK, OneMoves, Moving
<1>5. Windows => OneMoves'
  BY <1>1, <1>2, UpdaterAssumption DEF OneMoves, Moving, Gone, TypeOK, File
<1> QED
  BY <1>1, <1>3, <1>4, <1>5

LEMMA StartFailsKeeps ==
  ASSUME Held, NEW t \in Threads, Windows, StartFails(t)
  PROVE  Held'
<1> USE DEF Held, Inductive, StartFails, At, files, upd, around, Windows
<1>1. load' \in World /\ load'.platform = load.platform
  BY SpendKeeps DEF TypeOK
<1>2. /\ doing' \in [Threads -> Doing]
      /\ \A u \in Threads : doing'[u].rel = doing[u].rel
                            /\ doing'[u].at = IF u = t THEN "back" ELSE doing[u].at
  BY GoesMoves DEF Threads, Stages
<1>a. exe \in Versions /\ Newer(exe, running) /\ image = "old" /\ old = running
  BY DEF OneMoves, OnlyNewer, Moving, TypeOK
<1>3. TypeOK'
  BY <1>1, <1>2, <1>a, UpdaterAssumption DEF TypeOK, File
<1>4. OnlyNewer'
  BY <1>1, <1>2, <1>a, UpdaterAssumption DEF OnlyNewer, TypeOK, OneMoves, Moving
<1>5. Windows => OneMoves'
  BY <1>1, <1>2, <1>a, UpdaterAssumption DEF OneMoves, Moving, Gone, TypeOK, File
<1> QED
  BY <1>1, <1>3, <1>4, <1>5

LEMMA BackKeeps ==
  ASSUME Held, NEW t \in Threads, Windows, Back(t)
  PROVE  Held'
<1> USE DEF Held, Inductive, Back, At, files, upd, around, Windows
<1>1. load' \in World /\ load'.platform = load.platform
  BY SpendKeeps DEF TypeOK
<1>2. /\ doing' \in [Threads -> Doing]
      /\ \A u \in Threads : doing'[u].rel = (IF u = t THEN None ELSE doing[u].rel)
                            /\ doing'[u].at = IF u = t THEN "idle" ELSE doing[u].at
  BY StopsMoves DEF Threads
<1>a. old = running /\ \A u \in Threads : Moving(u) => u = t
  BY DEF OneMoves, Moving, TypeOK
<1>3. TypeOK'
  BY <1>1, <1>2, <1>a, UpdaterAssumption DEF TypeOK, File
<1>4. OnlyNewer'
  BY <1>1, <1>2, <1>a, UpdaterAssumption DEF OnlyNewer, TypeOK, OneMoves, Moving
<1>5. Windows => OneMoves'
  BY <1>1, <1>2, <1>a, UpdaterAssumption DEF OneMoves, Moving, Gone, TypeOK, File
<1> QED
  BY <1>1, <1>3, <1>4, <1>5

LEMMA QuitKeeps ==
  ASSUME Held, NEW t \in Threads, Quit(t)
  PROVE  Held'
<1>1. exe \in Versions
  BY DEF Held, Inductive, Quit, At, OneMoves, OneInstalls, Windows
<1>2. Begin /\ UNCHANGED load
  BY DEF Quit
<1> QED
  BY <1>1, <1>2, NewProcess DEF Held, TypeOK

LEMMA StartAgainKeeps ==
  ASSUME Held, StartAgain
  PROVE  Held'
<1> USE DEF Held, Inductive, StartAgain, At, files, upd, around, Windows
<1>1. load' \in World /\ load'.platform = load.platform
  BY SpendKeeps DEF TypeOK
<1>2. doing' = doing
  OBVIOUS
<1>3. TypeOK'
  BY <1>1, <1>2, UpdaterAssumption DEF TypeOK, File
<1>4. OnlyNewer'
  BY <1>1, <1>2, UpdaterAssumption DEF OnlyNewer, TypeOK, OneMoves, Moving
<1>5. Windows => OneMoves'
  BY <1>1, <1>2, UpdaterAssumption DEF OneMoves, Moving, Gone, TypeOK, File
<1> QED
  BY <1>1, <1>3, <1>4, <1>5

LEMMA RemoveOldKeeps ==
  ASSUME Held, RemoveOld
  PROVE  Held'
<1> USE DEF Held, Inductive, RemoveOld, At, files, upd, around, Windows
<1>1. load' \in World /\ load'.platform = load.platform
  BY SpendKeeps DEF TypeOK
<1>2. doing' = doing
  OBVIOUS
<1>a. ~Windows => second = "none"
  BY DEF OneInstalls
<1>b. old' \in File /\ (image = "old" => old' = old)
  BY DEF TypeOK, File
<1>3. TypeOK'
  BY <1>1, <1>2, <1>a, <1>b, UpdaterAssumption DEF TypeOK, File
<1>4. OnlyNewer'
  BY <1>1, <1>2, <1>a, <1>b, UpdaterAssumption DEF OnlyNewer, TypeOK, OneMoves, Moving
<1>5. Windows => OneMoves'
  BY <1>1, <1>2, <1>a, <1>b, UpdaterAssumption DEF OneMoves, Moving, Gone, TypeOK, File
<1>6. ~Windows => OneInstalls'
  BY <1>1, <1>2, <1>a, <1>b, UpdaterAssumption DEF OneInstalls, TypeOK, Threads
<1> QED
  BY <1>1, <1>3, <1>4, <1>5, <1>6

LEMMA RemoveNewKeeps ==
  ASSUME Held, RemoveNew
  PROVE  Held'
<1> USE DEF Held, Inductive, RemoveNew, At, files, upd, around, Windows
<1>1. load' \in World /\ load'.platform = load.platform
  BY SpendKeeps DEF TypeOK
<1>2. doing' = doing
  OBVIOUS
<1>a. ~Windows => second = "none"
  BY DEF OneInstalls
<1>b. /\ new' \in File /\ (dl # None => new' = new)
      /\ (new' = new \/ new' = None) /\ None \notin Versions /\ None # Part
  BY UpdaterAssumption DEF TypeOK, File
<1>3. TypeOK'
  BY <1>1, <1>2, <1>a, <1>b, UpdaterAssumption DEF TypeOK, File
<1>4. OnlyNewer'
  BY <1>1, <1>2, <1>a, <1>b, UpdaterAssumption DEF OnlyNewer, TypeOK, OneMoves, Moving
<1>5. Windows => OneMoves'
  BY <1>1, <1>2, <1>a, <1>b, UpdaterAssumption DEF OneMoves, Moving, Gone, TypeOK, File
<1>6. ~Windows => OneInstalls'
  BY <1>1, <1>2, <1>a, <1>b, UpdaterAssumption DEF OneInstalls, TypeOK, Threads
<1> QED
  BY <1>1, <1>3, <1>4, <1>5, <1>6

LEMMA ApproveKeeps ==
  ASSUME Held, NEW t \in Threads, Approve(t)
  PROVE  Held'
<1> USE DEF Held, Inductive, Approve, At, files, upd, around, Windows
<1>1. load' \in World /\ load'.platform = load.platform
  BY SpendKeeps DEF TypeOK
<1>2. /\ doing' \in [Threads -> Doing]
      /\ \A u \in Threads : \/ doing'[u] = doing[u]
                            \/ doing'[u].at = "idle"
                            \/ doing[u].at = "found" /\ doing'[u].at = "hold" /\ doing'[u].rel = doing[u].rel
  BY StopsMoves, GoesMoves DEF Stages, TypeOK, Goes, Stops
<1>3. TypeOK'
  BY <1>1, <1>2, UpdaterAssumption DEF TypeOK, File
<1>4. OnlyNewer'
  BY <1>1, <1>2, UpdaterAssumption DEF OnlyNewer, TypeOK, OneMoves, Moving
<1>6. ~Windows => OneInstalls'
  BY <1>1, <1>2, UpdaterAssumption DEF OneInstalls, TypeOK, Threads
<1> QED
  BY <1>1, <1>3, <1>4, <1>6

LEMMA InstallKeeps ==
  ASSUME Held, NEW t \in Threads, Apart', Install(t)
  PROVE  Held'
<1> USE DEF Held, Inductive, Install, Quiet, At, files, upd, around, Windows
<1>1. load' \in World /\ load'.platform = load.platform
  BY SpendKeeps DEF TypeOK
<1>2. /\ doing' \in [Threads -> Doing]
      /\ \A u \in Threads : doing'[u].rel = doing[u].rel
                            /\ doing'[u].at = IF u = t THEN "fetch" ELSE doing[u].at
  BY GoesMoves DEF Threads, Stages
<1>a. ~Windows /\ ~Windows'
  BY <1>1
<1>b. \A u \in Threads : doing'[u].at # "in"
  BY <1>2, <1>a DEF Apart, Installing
<1>3. TypeOK'
  BY <1>1, <1>2, <1>a, <1>b, UpdaterAssumption DEF TypeOK, File
<1>4. OnlyNewer'
  BY <1>1, <1>2, <1>a, <1>b, UpdaterAssumption DEF OnlyNewer, TypeOK, OneMoves, Moving
<1>6. ~Windows => OneInstalls'
  BY <1>1, <1>2, <1>a, <1>b, UpdaterAssumption DEF OneInstalls, TypeOK, Threads
<1> QED
  BY <1>1, <1>3, <1>4, <1>6

LEMMA CannotOpenKeeps ==
  ASSUME Held, NEW t \in Threads, CannotOpen(t)
  PROVE  Held'
<1> USE DEF Held, Inductive, CannotOpen, Quiet, At, files, upd, around, Windows
<1>1. load' \in World /\ load'.platform = load.platform
  BY SpendKeeps DEF TypeOK
<1>2. /\ doing' \in [Threads -> Doing]
      /\ \A u \in Threads : doing'[u].rel = (IF u = t THEN None ELSE doing[u].rel)
                            /\ doing'[u].at = IF u = t THEN "idle" ELSE doing[u].at
  BY StopsMoves DEF Threads
<1>3. TypeOK'
  BY <1>1, <1>2, UpdaterAssumption DEF TypeOK, File
<1>4. OnlyNewer'
  BY <1>1, <1>2, UpdaterAssumption DEF OnlyNewer, TypeOK, OneMoves, Moving
<1>6. ~Windows => OneInstalls'
  BY <1>1, <1>2, UpdaterAssumption DEF OneInstalls, TypeOK, Threads
<1> QED
  BY <1>1, <1>3, <1>4, <1>6

LEMMA FetchedKeeps ==
  ASSUME Held, NEW t \in Threads, Apart, Fetched(t)
  PROVE  Held'
<1> USE DEF Held, Inductive, Fetched, At, files, upd, around, Windows
<1>1. load' \in World /\ load'.platform = load.platform
  BY SpendKeeps DEF TypeOK
<1>2. /\ doing' \in [Threads -> Doing]
      /\ \A u \in Threads : doing'[u].rel = doing[u].rel
                            /\ doing'[u].at = IF u = t THEN "in" ELSE doing[u].at
  BY GoesMoves DEF Threads, Stages
<1>a. new' \in Versions /\ Newer(new', running) /\ new' = doing[t].rel
  BY DEF OnlyNewer, TypeOK, Doing
<1>b. \A u \in Threads : doing[u].at # "in"
  BY DEF Apart, Installing
<1>3. TypeOK'
  BY <1>1, <1>2, <1>a, <1>b, UpdaterAssumption DEF TypeOK, File
<1>4. OnlyNewer'
  BY <1>1, <1>2, <1>a, <1>b, UpdaterAssumption DEF OnlyNewer, TypeOK, OneMoves, Moving
<1>6. ~Windows => OneInstalls'
  BY <1>1, <1>2, <1>a, <1>b, UpdaterAssumption DEF OneInstalls, TypeOK, Threads
<1> QED
  BY <1>1, <1>3, <1>4, <1>6

LEMMA InstallFailsKeeps ==
  ASSUME Held, NEW t \in Threads, Apart, InstallFails(t)
  PROVE  Held'
<1> USE DEF Held, Inductive, InstallFails, At, files, upd, around, Windows
<1>1. load' \in World /\ load'.platform = load.platform
  BY SpendKeeps DEF TypeOK
<1>2. /\ doing' \in [Threads -> Doing]
      /\ \A u \in Threads : doing'[u].rel = (IF u = t THEN None ELSE doing[u].rel)
                            /\ doing'[u].at = IF u = t THEN "idle" ELSE doing[u].at
  BY StopsMoves DEF Threads
<1>a. \A u \in Threads : u # t => doing[u].at # "in"
  BY DEF Apart, Installing
<1>3. TypeOK'
  BY <1>1, <1>2, <1>a, UpdaterAssumption DEF TypeOK, File
<1>4. OnlyNewer'
  BY <1>1, <1>2, <1>a, UpdaterAssumption DEF OnlyNewer, TypeOK, OneMoves, Moving
<1>6. ~Windows => OneInstalls'
  BY <1>1, <1>2, <1>a, UpdaterAssumption DEF OneInstalls, TypeOK, Threads
<1> QED
  BY <1>1, <1>3, <1>4, <1>6

LEMMA ReplaceKeeps ==
  ASSUME Held, NEW t \in Threads, Apart, Replace(t)
  PROVE  Held'
<1> USE DEF Held, Inductive, Replace, At, files, upd, around, Windows
<1>1. load' \in World /\ load'.platform = load.platform
  BY SpendKeeps DEF TypeOK
<1>2. /\ doing' \in [Threads -> Doing]
      /\ \A u \in Threads : doing'[u].rel = doing[u].rel
                            /\ doing'[u].at = IF u = t THEN "quit" ELSE doing[u].at
  BY GoesMoves DEF Threads, Stages
<1>a. \A u \in Threads : u # t => doing[u].at # "in"
  BY DEF Apart, Installing
<1>b. exe' \in Versions /\ Newer(exe', running)
  BY DEF OneInstalls, OnlyNewer, TypeOK, Doing
<1>3. TypeOK'
  BY <1>1, <1>2, <1>a, <1>b, UpdaterAssumption DEF TypeOK, File
<1>4. OnlyNewer'
  BY <1>1, <1>2, <1>a, <1>b, UpdaterAssumption DEF OnlyNewer, TypeOK, OneMoves, Moving
<1>6. ~Windows => OneInstalls'
  BY <1>1, <1>2, <1>a, <1>b, UpdaterAssumption DEF OneInstalls, TypeOK, Threads
<1> QED
  BY <1>1, <1>3, <1>4, <1>6

LEMMA ExecKeeps ==
  ASSUME Held, NEW t \in Threads, Exec(t)
  PROVE  Held'
<1>1. exe \in Versions
  BY DEF Held, Inductive, Exec, At, OneMoves, OneInstalls, Windows
<1>2. Begin /\ UNCHANGED load
  BY DEF Exec
<1> QED
  BY <1>1, <1>2, NewProcess DEF Held, TypeOK

LEMMA ExecFailsKeeps ==
  ASSUME Held, NEW t \in Threads, ExecFails(t)
  PROVE  Held'
<1> USE DEF Held, Inductive, ExecFails, At, files, upd, around, Windows
<1>1. load' \in World /\ load'.platform = load.platform
  BY SpendKeeps DEF TypeOK
<1>2. /\ doing' \in [Threads -> Doing]
      /\ \A u \in Threads : doing'[u].rel = (IF u = t THEN None ELSE doing[u].rel)
                            /\ doing'[u].at = IF u = t THEN "idle" ELSE doing[u].at
  BY StopsMoves DEF Threads
<1>a. serving' \in BOOLEAN
  OBVIOUS
<1>3. TypeOK'
  BY <1>1, <1>2, <1>a, UpdaterAssumption DEF TypeOK, File
<1>4. OnlyNewer'
  BY <1>1, <1>2, <1>a, UpdaterAssumption DEF OnlyNewer, TypeOK, OneMoves, Moving
<1>6. ~Windows => OneInstalls'
  BY <1>1, <1>2, <1>a, UpdaterAssumption DEF OneInstalls, TypeOK, Threads
<1> QED
  BY <1>1, <1>3, <1>4, <1>6

LEMMA PublishKeeps ==
  ASSUME Held, NEW v \in Versions, Publish(v)
  PROVE  Held'
<1> USE DEF Held, Inductive, Publish, At, files, upd, around, Windows
<1>1. load' \in World /\ load'.platform = load.platform
  BY SpendKeeps DEF TypeOK
<1>2. doing' = doing
  OBVIOUS
<1>3. TypeOK'
  BY <1>1, <1>2, UpdaterAssumption DEF TypeOK, File
<1>4. OnlyNewer'
  BY <1>1, <1>2, UpdaterAssumption DEF OnlyNewer, TypeOK, OneMoves, Moving
<1>5. Windows => OneMoves'
  BY <1>1, <1>2, UpdaterAssumption DEF OneMoves, Moving, Gone, TypeOK, File
<1>6. ~Windows => OneInstalls'
  BY <1>1, <1>2, UpdaterAssumption DEF OneInstalls, TypeOK, Threads
<1> QED
  BY <1>1, <1>3, <1>4, <1>5, <1>6

LEMMA UseKeeps ==
  ASSUME Held, Use
  PROVE  Held'
<1> USE DEF Held, Inductive, Use, At, files, upd, around, Windows
<1>1. load' \in World /\ load'.platform = load.platform
  <2>1. CASE inUse
    <3>1. load' = load
      BY <2>1 DEF TypeOK, World
    <3> QED
      BY <3>1 DEF TypeOK
  <2>2. CASE ~inUse
    <3>1. Spend("uses")
      BY <2>2 DEF Spend, TypeOK, World
    <3> QED
      BY <3>1, SpendKeeps DEF TypeOK
  <2> QED
    BY <2>1, <2>2
<1>2. doing' = doing
  OBVIOUS
<1>3. TypeOK'
  BY <1>1, <1>2, UpdaterAssumption DEF TypeOK, File
<1>4. OnlyNewer'
  BY <1>1, <1>2, UpdaterAssumption DEF OnlyNewer, TypeOK, OneMoves, Moving
<1>5. Windows => OneMoves'
  BY <1>1, <1>2, UpdaterAssumption DEF OneMoves, Moving, Gone, TypeOK, File
<1>6. ~Windows => OneInstalls'
  BY <1>1, <1>2, UpdaterAssumption DEF OneInstalls, TypeOK, Threads
<1> QED
  BY <1>1, <1>3, <1>4, <1>5, <1>6

LEMMA CrashKeeps ==
  ASSUME Held, Crash
  PROVE  Held'
<1>1. load' \in World /\ load'.platform = load.platform
  BY SpendKeeps DEF Crash, Held, TypeOK
<1>2. CASE exe # None /\ Begin
  <2>1. exe \in Versions
    BY <1>2 DEF Held, TypeOK, File, Inductive, OneMoves, OneInstalls
  <2> QED
    BY <1>1, <1>2, <2>1, NewProcess
<1>3. CASE exe = None
  <2> DEFINE Dies == /\ doing' = [t \in Threads |-> [Rest EXCEPT !.at = "gone"]]
                     /\ rel' = None /\ ready' = FALSE /\ dl' = None /\ waiting' = 0
                     /\ UNCHANGED <<files, around>>
  <2>1. Windows /\ Windows' /\ OneMoves /\ OnlyNewer
    BY <1>1, <1>3, UpdaterAssumption DEF Held, Inductive, OneInstalls, Windows
  <2>2. Dies
    BY <1>3 DEF Crash
  <2>3. doing' \in [Threads -> Doing] /\ \A u \in Threads : doing'[u].at = "gone"
    BY <2>2 DEF Doing, Rest, Stages
  <2>4. UNCHANGED <<exe, latest, old, new, running, image, auto, inUse, second, serving>> /\ rel' = None /\ dl' = None
    BY <2>2 DEF files, around
  <2>5. ready' \in BOOLEAN /\ ~ready'
    BY <2>2
  <2>9. waiting' \in 0..MaxWaiting /\ waiting' = 0
    BY <2>2, UpdaterAssumption
  <2> HIDE DEF Dies
  <2>6. TypeOK'
    BY <1>1, <2>3, <2>4, <2>5, <2>9 DEF Held, TypeOK
  <2>7. OnlyNewer'
    BY <2>1, <2>3, <2>4 DEF OnlyNewer, At
  <2>8. OneMoves'
    BY <1>3, <2>1, <2>3, <2>4, <2>5, <2>9, UpdaterAssumption DEF OneMoves, Moving, Gone, At
  <2> QED
    BY <1>1, <2>1, <2>6, <2>7, <2>8 DEF Held, Inductive
<1> QED
  BY <1>2, <1>3 DEF Crash

LEMMA StillHeld ==
  ASSUME Held, UNCHANGED vars
  PROVE  Held'
BY DEF Held, Inductive, TypeOK, OneMoves, OneInstalls, OnlyNewer, Windows, Moving, Gone, At, vars

LEMMA StepKeeps == Held /\ Apart /\ Apart' /\ [Next]_vars => Held'
<1> SUFFICES ASSUME Held, Apart, Apart', [Next]_vars PROVE Held'
  OBVIOUS
<1>1. ASSUME NEW t \in Threads, Look(t) \/ Download(t) \/ CannotCreate(t) \/ Check(t)
      PROVE  Held'
  BY <1>1, LookKeeps, DownloadKeeps, CannotCreateKeeps, CheckKeeps
<1>2. ASSUME NEW t \in Threads, Windows, WindowsSteps(t)
      PROVE  Held'
  BY <1>2, TakeFileKeeps, MoveOutKeeps, MoveOutFailsKeeps, MoveInKeeps, MoveInFailsKeeps,
     StartsKeeps, StartFailsKeeps, BackKeeps, QuitKeeps DEF WindowsSteps
<1>3. ASSUME NEW t \in Threads, LinuxSteps(t)
      PROVE  Held'
  BY <1>3, ApproveKeeps, InstallKeeps, CannotOpenKeeps, FetchedKeeps, InstallFailsKeeps,
     ReplaceKeeps, ExecKeeps, ExecFailsKeeps DEF LinuxSteps
<1>4. ASSUME Ask \/ SetAutoUpdate \/ Downloaded \/ DownloadFails \/ AutoInstall
      PROVE  Held'
  BY <1>4, AskKeeps, SetAutoUpdateKeeps, DownloadedKeeps, DownloadFailsKeeps, AutoInstallKeeps
<1>5. ASSUME StartAgain \/ RemoveOld \/ RemoveNew \/ Use \/ Crash \/ \E v \in Versions : Publish(v)
      PROVE  Held'
  BY <1>5, StartAgainKeeps, RemoveOldKeeps, RemoveNewKeeps, UseKeeps, CrashKeeps, PublishKeeps
<1>6. CASE UNCHANGED vars
  BY <1>6, StillHeld
<1> QED
  BY <1>1, <1>2, <1>3, <1>4, <1>5, <1>6 DEF Next, InstallSteps

LEMMA AlwaysHeld == Spec /\ []Apart => []Held
BY InitHeld, StepKeeps, PTL DEF Spec

-----------------------------------------------------------------------------
(* The theorems.                                                           *)

\* The updater's files are versions, missing or written in part, and what
\* runs is always a version: no process is started from a broken file.
THEOREM TypeCorrect == Spec /\ []Apart => []TypeOK
<1>1. Held => TypeOK
  BY DEF Held
<1> QED
  BY <1>1, AlwaysHeld, PTL

\* The order of the renames, the one thread that makes them, and the age of
\* every file, in all reachable states, whatever fails or is removed by a
\* second start between two steps.
THEOREM InductiveHolds == Spec /\ []Apart => []Inductive
<1>1. Held => Inductive
  BY DEF Held
<1> QED
  BY <1>1, AlwaysHeld, PTL

\* Whatever process dies, at whatever step of an installation, a whole program
\* is in its place, or was moved out by an installation on Windows
\* (installUpdate).
THEOREM StartableHolds == Spec /\ []Apart => []Startable
<1>1. Held => Startable
  BY DEF Held, Startable, Inductive, OneMoves, OneInstalls, TypeOK, File
<1> QED
  BY <1>1, AlwaysHeld, PTL

\* What updater.file names is never a part of a file, whatever was found,
\* downloaded or removed since.
THEOREM ReadyWholeHolds == Spec /\ []Apart => []ReadyWhole
<1>1. Held => ReadyWhole
  BY DEF Held, ReadyWhole, Inductive, OneMoves, OneInstalls, Gone, Threads
<1> QED
  BY <1>1, AlwaysHeld, PTL

\* A program is replaced only by a newer one, whichever release was named the
\* latest in between (update.Newer is asked once, long before the renames).
THEOREM NeverBackHolds == Spec /\ []Apart => NeverBack
<1>1. Held /\ Held' /\ [Next]_vars =>
        [running' # running =>
           \/ Above(running'.nums, running.nums)
           \/ running'.nums = running.nums /\ running.pre /\ ~running'.pre]_running
  <2> SUFFICES ASSUME Held, Held', [Next]_vars, running' # running
               PROVE  Newer(running', running)
    BY DEF Newer
  <2>1. running' = exe
    BY DEF Next, vars, files, upd, around, Begin, Look, Check, Ask, SetAutoUpdate, Download, CannotCreate,
           Downloaded, DownloadFails, AutoInstall, InstallSteps, WindowsSteps, LinuxSteps, TakeFile,
           MoveOut, MoveOutFails, MoveIn, MoveInFails, Starts, StartFails, Back, Quit, StartAgain,
           RemoveOld, RemoveNew, Approve, Install, CannotOpen, Fetched, InstallFails, Replace, Exec,
           ExecFails, Publish, Use, Crash
  <2>2. exe # None
    BY <2>1, UpdaterAssumption DEF Held, TypeOK
  <2> QED
    BY <2>1, <2>2 DEF Held, Inductive, OnlyNewer
<1> QED
  BY <1>1, AlwaysHeld, PTL DEF Spec, NeverBack
=============================================================================
