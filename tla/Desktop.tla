------------------------------ MODULE Desktop ------------------------------
(***************************************************************************)
(* The desktop programs around the node: the settings file, the commands   *)
(* and window calls that change it, the generations of running sync that   *)
(* Restart makes and stops, and the relay client of each generation.       *)
(*                                                                         *)
(* On Windows one program holds the settings in memory and every call      *)
(* works on them.  On Linux a command loads the file, changes its own copy,*)
(* saves it and asks the daemon to load it.  A hold of a lock, a system    *)
(* call on the file and a callback of the client are one action each, and  *)
(* a call on the file may fail.                                            *)
(***************************************************************************)
EXTENDS Naturals, FiniteSets

CONSTANTS
  Codes,       \* sync codes a group can have
  Tokens,      \* sessions on servers, each of an account
  Peers,       \* devices that connect and are remembered
  Calls,       \* threads that work on the settings
  MaxGen,      \* generations of running sync
  None, Part,  \* nothing; a file written in part
  Loads        \* what may happen: the platform, operations (each once), how
               \* many calls run at a time, and bounds: crashes, calls that
               \* fail, connections lost, changes of the server

Groups == Codes \cup Tokens \cup {None}
Config == [group : Groups, opt : BOOLEAN, known : SUBSET Peers]
Ops == [op : {"join"}, group : Codes] \cup [op : {"signin"}, group : Tokens]
       \cup [op : {"leave", "pause", "settings"}] \cup [op : {"forget", "seen"}, peer : Peers]
Start == [op |-> "start"]

Stages == {"begun", "left", "changed", "writing", "written", "saved", "restart", "stopped", "read", "loaded"}

\* cfg is a Config of the call's own, data what its Save has marshalled or the
\* restart has read, and moved says that the file it writes was renamed by
\* another.
Call == [op : Ops \cup {Start}, at : Stages, cfg : Config \cup {None}, data : Config \cup {None},
         moved : BOOLEAN]
Idle == None

World == [platform : {"linux", "windows"}, ops : SUBSET Ops, atOnce : Nat,
          crashes : Nat, errors : Nat, cuts : Nat, turns : Nat]

ASSUME DesktopAssumption ==
  /\ MaxGen \in Nat /\ IsFiniteSet(Calls)
  /\ {None, Part} \cap (Codes \cup Tokens \cup Config) = {} /\ Codes \cap Tokens = {}
  /\ None # Part /\ None \notin Call
  /\ Loads \subseteq World

VARIABLES
  file,      \* settings.json
  tmp,       \* settings.json.tmp
  mem,       \* the program's Config (daemon.cfg, App.cfg), None when it is down
  call,      \* call[c]: what the thread does, if anything
  gen,       \* gen[g]: generation g of running sync
  stop,      \* the generation whose stop channel the program holds, or 0
  relay,     \* relay.State shown: connected or not
  signedOut, \* shown: the server refused the session
  revoked,   \* sessions the server has ended
  reachable, \* whether the server can be reached
  failed,    \* what calls that failed have left undone (read by properties)
  load       \* what is left to happen

vars == <<file, tmp, mem, call, gen, stop, relay, signedOut, revoked, reachable, failed, load>>
running == <<gen, stop, relay, signedOut>>
disk == <<file, tmp>>
outside == <<revoked, reachable>>

-----------------------------------------------------------------------------
\* The stages of Client.Run: dialling, linked but not shown, connected,
\* failed or refused before and after the look at stop, refused and shown as
\* not connected, waiting, ended.
ClientStages ==
  {"dial", "linked", "on", "failed", "failing", "refused", "told", "outing", "wait", "ended"}
Generation == [group : Codes \cup Tokens, opt : BOOLEAN, up : BOOLEAN, client : ClientStages]

Typed ==
  /\ file \in Config \cup {Part} /\ tmp \in Config \cup {Part, None}
  /\ mem \in Config \cup {None}
  /\ call \in [Calls -> Call \cup {Idle}]
  /\ DOMAIN gen \subseteq 1..MaxGen /\ \A g \in DOMAIN gen : gen[g] \in Generation
  /\ stop \in DOMAIN gen \cup {0}
  /\ relay \in BOOLEAN /\ signedOut \in BOOLEAN
  /\ revoked \subseteq Tokens /\ reachable \in BOOLEAN /\ load \in World
  /\ failed \subseteq {"save", "group", "option"}

\* Whenever the program or a command is killed, the file is a whole one.
TypeOK == Typed /\ file \in Config

Init ==
  /\ load \in Loads
  /\ file = [group |-> None, opt |-> FALSE, known |-> {}]
  /\ tmp = None /\ mem = None
  /\ call = [c \in Calls |-> Idle]
  /\ gen = << >> /\ stop = 0
  /\ relay = FALSE /\ signedOut = FALSE
  /\ revoked = {} /\ reachable = TRUE /\ failed = {}

Spend(b) == load[b] > 0 /\ load' = [load EXCEPT ![b] = @ - 1]
Linux == load.platform = "linux"

Busy == {c \in Calls : call[c] # Idle}
Does(c, ops) == c \in Busy /\ call[c].op.op \in ops
At(c, stage) == c \in Busy /\ call[c].at = stage
Goes(c, stage) == call' = [call EXCEPT ![c].at = stage]
Ends(c) == call' = [call EXCEPT ![c] = Idle]

\* A command of the Linux CLI is a process with a Config of its own.
Command(c) == Linux /\ ~Does(c, {"seen", "start"})
Own(c) == call[c].cfg # None
\* A program that is starting does not serve yet.
Serving == mem # None /\ \A c \in Calls : ~Does(c, {"start"})

-----------------------------------------------------------------------------
(* Starting and stopping the program.                                      *)

\* config.Load, and the Restart at start.
StartProgram(c) ==
  /\ mem = None /\ file # Part /\ call[c] = Idle
  /\ mem' = file
  /\ call' = [call EXCEPT ![c] =
       [op |-> Start, at |-> "restart", cfg |-> None, data |-> None, moved |-> FALSE]]
  /\ UNCHANGED <<disk, running, outside, failed, load>>

\* The program is killed, with its threads and what ran; a command goes on.
Crash ==
  /\ mem # None /\ Spend("crashes")
  /\ mem' = None
  /\ call' = [c \in Calls |-> IF c \in Busy /\ Command(c) /\ call[c].at \notin {"stopped", "read", "loaded"}
                              THEN call[c] ELSE Idle]
  /\ gen' = << >> /\ stop' = 0 /\ relay' = FALSE /\ signedOut' = FALSE /\ failed' = {}
  /\ UNCHANGED <<disk, outside>>

-----------------------------------------------------------------------------
(* Operations on the settings.                                             *)

\* The calls that load.atOnce limits: of the user, and on Linux also what the
\* daemon remembers, which no lock keeps apart from a command.
Limited == {c \in Busy : ~Does(c, IF Linux THEN {"start"} ELSE {"seen", "start"})}

\* A call of the window, a command of the CLI (which loads the file first), or
\* OnChange of a node of this program, also of one that was stopped.
Begin(c, o) ==
  /\ o \in load.ops /\ call[c] = Idle
  /\ Linux \/ o.op # "seen" => Cardinality(Limited) < load.atOnce
  /\ IF o.op = "seen" THEN DOMAIN gen # {}
     ELSE IF Linux THEN file # Part /\ o.op # "pause" ELSE Serving
  /\ load' = [load EXCEPT !.ops = @ \ {o}]
  /\ call' = [call EXCEPT ![c] =
       [op |-> o, at |-> "begun", cfg |-> IF Linux /\ o.op # "seen" THEN file ELSE None,
        data |-> None, moved |-> FALSE]]
  /\ UNCHANGED <<disk, mem, running, outside, failed>>

Mine(c) == IF Own(c) THEN call[c].cfg ELSE mem

\* The Config of the call becomes cfg, and the call goes on.
Set(c, cfg, stage) ==
  IF Own(c)
  THEN call' = [call EXCEPT ![c].cfg = cfg, ![c].at = stage] /\ UNCHANGED mem
  ELSE mem' = cfg /\ Goes(c, stage)

Left(cfg) == [cfg EXCEPT !.group = None]
Remembered(cfg, p) == [cfg EXCEPT !.known = @ \cup {p}]
Forgotten(cfg, p) == [cfg EXCEPT !.known = @ \ {p}]

\* leaveServer and Leave: the server ends the session (which is best effort),
\* and the group is forgotten.
LeaveGroup(c) ==
  /\ At(c, "begun") /\ Does(c, {"join", "signin", "leave"})
  /\ revoked' \in {revoked, revoked \cup ({Mine(c).group} \cap Tokens)}
  /\ reachable \/ revoked' = revoked
  /\ Set(c, Left(Mine(c)), IF Does(c, {"leave"}) THEN "changed" ELSE "left")
  /\ UNCHANGED <<disk, running, reachable, failed, load>>

\* joinCode, account: the new group.
SetGroup(c) ==
  /\ At(c, "left")
  /\ Set(c, [Mine(c) EXCEPT !.group = call[c].op.group], "changed")
  /\ UNCHANGED <<disk, running, outside, failed, load>>

\* SetPaused, SetSettings; set.
SetOption(c) ==
  /\ At(c, "begun") /\ Does(c, {"pause", "settings"})
  /\ Set(c, [Mine(c) EXCEPT !.opt = ~@], "changed")
  /\ UNCHANGED <<disk, running, outside, failed, load>>

\* ForgetDevice; forget.
Forget(c) ==
  /\ At(c, "begun") /\ Does(c, {"forget"})
  /\ Set(c, Forgotten(Mine(c), call[c].op.peer), "changed")
  /\ UNCHANGED <<disk, running, outside, failed, load>>

\* rememberDevices; remember.  What is known already is not saved again.
Seen(c) ==
  /\ At(c, "begun") /\ Does(c, {"seen"})
  /\ IF Remembered(Mine(c), call[c].op.peer) = Mine(c) THEN Ends(c) /\ UNCHANGED mem
     ELSE Set(c, Remembered(Mine(c), call[c].op.peer), "changed")
  /\ UNCHANGED <<disk, running, outside, failed, load>>

-----------------------------------------------------------------------------
(* Config.Save.  Its lock is the Config's: calls on one Config wait for    *)
(* each other, another process does not.                                   *)

Saving(c) == At(c, "writing") \/ At(c, "written")

\* Mutant: the settings are written in place.
SaveInPlace(c) ==
  /\ At(c, "changed")
  /\ Own(c) \/ \A o \in Calls \ {c} : Saving(o) => Own(o)
  /\ file' = Part /\ tmp' = Part
  /\ call' = [call EXCEPT ![c].at = "writing", ![c].data = Mine(c), ![c].moved = FALSE]
  /\ UNCHANGED <<mem, running, outside, failed, load>>

SaveOpen(c) ==
  /\ At(c, "changed")
  /\ Own(c) \/ \A o \in Calls \ {c} : Saving(o) => Own(o)
  /\ tmp' = Part
  /\ call' = [call EXCEPT ![c].at = "writing", ![c].data = Mine(c), ![c].moved = FALSE]
  /\ UNCHANGED <<file, mem, running, outside, failed, load>>

SaveWrite(c) ==
  /\ At(c, "writing")
  /\ IF call[c].moved THEN file' = call[c].data /\ UNCHANGED tmp
     ELSE tmp' = call[c].data /\ UNCHANGED file
  /\ Goes(c, "written")
  /\ UNCHANGED <<mem, running, outside, failed, load>>

\* After the rename c goes on as its operation says.  Another that has the
\* file open goes on writing it under its new name; its own rename fails.
Renamed(c, o) ==
  IF o # c THEN IF At(o, "writing") THEN [call[o] EXCEPT !.moved = TRUE] ELSE call[o]
  ELSE IF Does(c, {"seen"}) \/ (Does(c, {"forget"}) /\ ~Linux) THEN Idle
  ELSE [call[c] EXCEPT !.at = IF Does(c, {"pause"}) THEN "saved" ELSE "restart", !.data = None]

\* Once the program has what is saved, no failed save is left.
Mends == failed' = IF file' = mem' THEN failed \ {"save"} ELSE failed

SaveRename(c) ==
  /\ At(c, "written")
  /\ IF tmp = None THEN Ends(c) /\ UNCHANGED disk
     ELSE file' = tmp /\ tmp' = None /\ call' = [o \in Calls |-> Renamed(c, o)]
  /\ UNCHANGED <<mem, running, outside, load>>
  /\ Mends

\* What a call of the program does not do when it fails: it returns before the
\* restart, or before the running node gets its options.
Undone(c) ==
  IF Command(c) THEN {}
  ELSE {"save"} \cup (IF Does(c, {"seen", "forget"}) THEN {} ELSE {"option"})
                \cup (IF Does(c, {"seen", "forget", "pause"}) THEN {} ELSE {"group"})

\* setAutostart or SetMaster fails, or a step of Save does.  What the call
\* has changed in memory stays, and so does the temporary file.
CallFails(c) ==
  /\ At(c, "changed") \/ Saving(c)
  /\ Spend("errors")
  /\ failed' = failed \cup Undone(c) /\ Ends(c)
  /\ UNCHANGED <<disk, mem, running, outside>>

\* ApplySettings: the running node gets the options, without a restart.
ApplySettings(c) ==
  /\ At(c, "saved")
  /\ gen' = IF stop = 0 THEN gen ELSE [gen EXCEPT ![stop].opt = mem.opt]
  /\ Ends(c) /\ failed' = failed \ {"option"}
  /\ UNCHANGED <<disk, mem, stop, relay, signedOut, outside, load>>

-----------------------------------------------------------------------------
(* Restart.  On Linux restartMu lets one run at a time.                    *)

\* The daemon is not there: the command says how to start it.  One that
\* listens but does not serve yet lets the command wait.
ReloadFails(c) ==
  /\ At(c, "restart") /\ Command(c)
  /\ mem = None \/ \E o \in Calls : Does(o, {"start"}) /\ At(o, "restart")
  /\ Ends(c)
  /\ UNCHANGED <<disk, mem, running, outside, failed, load>>

Restarting(c) == At(c, "stopped") \/ At(c, "read") \/ At(c, "loaded")

\* Service.Stop, daemon.shutdown.
StopGeneration(c) ==
  /\ At(c, "restart") /\ (Does(c, {"start"}) \/ Serving)
  /\ Linux => \A o \in Calls : ~Restarting(o)
  /\ stop' = 0
  /\ gen' = IF stop = 0 THEN gen ELSE [gen EXCEPT ![stop].up = FALSE]
  /\ Goes(c, "stopped")
  /\ UNCHANGED <<disk, mem, relay, signedOut, outside, failed, load>>

\* daemon.restart reads the file.
ReadSettings(c) ==
  /\ At(c, "stopped") /\ Linux
  /\ call' = [call EXCEPT ![c].at = "read", ![c].data = IF file = Part THEN None ELSE file]
  /\ UNCHANGED <<disk, mem, running, outside, failed, load>>

\* Mutant: the daemon restarts from the settings it has.
LoadNothing(c) ==
  /\ At(c, "read")
  /\ relay' = FALSE /\ signedOut' = FALSE
  /\ call' = [call EXCEPT ![c].at = "loaded", ![c].data = None]
  /\ UNCHANGED <<disk, mem, gen, stop, outside, failed, load>>

\* It makes them its own; a file it could not read leaves what it had.  What
\* is being remembered goes on with the Config that it began with.
LoadSettings(c) ==
  /\ At(c, "read")
  /\ mem' = IF call[c].data = None THEN mem ELSE call[c].data
  /\ call' = [o \in Calls |->
       IF o = c THEN [call[o] EXCEPT !.at = "loaded", !.data = None]
       ELSE IF Does(o, {"seen"}) /\ ~Own(o) /\ call[c].data # None THEN [call[o] EXCEPT !.cfg = mem]
       ELSE call[o]]
  /\ relay' = FALSE /\ signedOut' = FALSE
  /\ UNCHANGED <<disk, gen, stop, outside, load>>
  /\ Mends

\* The new generation; without a group there is none.
Build(c) ==
  LET g == Cardinality(DOMAIN gen) + 1 IN
  /\ At(c, IF Linux THEN "loaded" ELSE "stopped")
  /\ IF Linux THEN UNCHANGED <<relay, signedOut>> ELSE relay' = FALSE /\ signedOut' = FALSE
  /\ IF mem.group = None THEN UNCHANGED <<gen, stop>>
     ELSE /\ g \in 1..MaxGen
          /\ gen' = [h \in 1..g |-> IF h # g THEN gen[h] ELSE
               [group |-> mem.group, opt |-> mem.opt, up |-> TRUE,
                client |-> IF mem.group \in Tokens THEN "dial" ELSE "ended"]]
          /\ stop' = g
  /\ Ends(c) /\ failed' = failed \ {"group", "option"}
  /\ UNCHANGED <<disk, mem, outside, load>>

-----------------------------------------------------------------------------
(* relay.Client: Run and session of generation g.                          *)

Client(g, from, to) ==
  /\ gen[g].client = from
  /\ gen' = [gen EXCEPT ![g].client = to]
  /\ UNCHANGED <<disk, mem, call, stop, outside, failed, load>>

Shows(g, state, out) == relay' = state /\ signedOut' = (signedOut \/ out)

Dial(g) ==
  /\ Client(g, "dial", IF ~gen[g].up THEN "ended" ELSE IF ~reachable THEN "failed"
                       ELSE IF gen[g].group \in revoked THEN "refused" ELSE "linked")
  /\ UNCHANGED <<relay, signedOut>>

\* The state is shown whether or not the client has been stopped meanwhile.
Connected(g) == Client(g, "linked", "on") /\ Shows(g, TRUE, FALSE)

\* The connection ends because the server is out of reach or because of stop.
SessionEnds(g) ==
  /\ ~reachable \/ ~gen[g].up
  /\ Client(g, "on", "failed") /\ UNCHANGED <<relay, signedOut>>

\* The server closes the connection of a session it has ended, or does not.
ClosedByServer(g) ==
  /\ gen[g].group \in revoked
  /\ Client(g, "on", "failed") /\ UNCHANGED <<relay, signedOut>>

\* A connection is lost although both ends live.
Lost(g) ==
  /\ gen[g].client = "on" /\ Spend("cuts")
  /\ gen' = [gen EXCEPT ![g].client = "failed"]
  /\ UNCHANGED <<disk, mem, call, stop, relay, signedOut, outside, failed>>

\* A client that was stopped says nothing more; one that was not shows the
\* error, even if it is stopped in between.
Fails(g) ==
  Client(g, "failed", IF gen[g].up THEN "failing" ELSE "ended") /\ UNCHANGED <<relay, signedOut>>

\* Mutant: an error ends the client.
GivesUp(g) == Client(g, "failing", "ended") /\ Shows(g, FALSE, FALSE)

ShowsError(g) == Client(g, "failing", "wait") /\ Shows(g, FALSE, FALSE)

\* Mutant: a session the server refused is an error like any other.
RefusedFails(g) ==
  Client(g, "refused", IF gen[g].up THEN "failing" ELSE "ended") /\ UNCHANGED <<relay, signedOut>>

\* Mutant: a client that was refused returns without a word.
RefusedReturns(g) == Client(g, "refused", "ended") /\ UNCHANGED <<relay, signedOut>>

Refused(g) ==
  Client(g, "refused", IF gen[g].up THEN "told" ELSE "ended") /\ UNCHANGED <<relay, signedOut>>

\* OnState, then OnUnauthorized.
ShowsRefusal(g) == Client(g, "told", "outing") /\ Shows(g, FALSE, FALSE)
SignedOut(g) == Client(g, "outing", "ended") /\ Shows(g, relay, TRUE)

\* Mutant: a client that waits does not look at its stop.
WaitsOn(g) == gen[g].up /\ Client(g, "wait", "dial") /\ UNCHANGED <<relay, signedOut>>

\* The wait is over, or cut short by stop.
Waited(g) ==
  Client(g, "wait", IF gen[g].up THEN "dial" ELSE "ended") /\ UNCHANGED <<relay, signedOut>>

Run(g) ==
  \/ Dial(g) \/ Connected(g) \/ SessionEnds(g) \/ Fails(g) \/ ShowsError(g)
  \/ Refused(g) \/ ShowsRefusal(g) \/ SignedOut(g) \/ Waited(g)

-----------------------------------------------------------------------------
\* The server goes away or comes back, or an account signs a device out.
Turn ==
  /\ Spend("turns")
  /\ reachable' = ~reachable /\ UNCHANGED <<disk, mem, call, running, revoked, failed>>

Revoke(t) ==
  /\ Spend("turns")
  /\ t \notin revoked /\ revoked' = revoked \cup {t}
  /\ UNCHANGED <<disk, mem, call, running, reachable, failed>>

Work(c) ==
  \/ LeaveGroup(c) \/ SetGroup(c) \/ SetOption(c) \/ Forget(c) \/ Seen(c)
  \/ SaveOpen(c) \/ SaveWrite(c) \/ SaveRename(c) \/ ApplySettings(c)
  \/ ReloadFails(c) \/ StopGeneration(c) \/ ReadSettings(c) \/ LoadSettings(c) \/ Build(c)

Next ==
  \/ \E c \in Calls : Work(c) \/ CallFails(c) \/ StartProgram(c) \/ \E o \in load.ops : Begin(c, o)
  \/ \E g \in DOMAIN gen : Run(g) \/ Lost(g) \/ ClosedByServer(g)
  \/ Crash \/ Turn \/ \E t \in Tokens : Revoke(t)

\* Threads and clients run, calls on a server time out, and the program is
\* started again by systemd or at sign-in.
Fairness ==
  /\ \A c \in Calls : WF_vars(Work(c))
  /\ WF_vars(\E c \in Calls : StartProgram(c))
  /\ \A g \in 1..MaxGen : WF_vars(g \in DOMAIN gen /\ Run(g))

Spec == Init /\ [][Next]_vars /\ Fairness

-----------------------------------------------------------------------------
(* Properties.                                                             *)

\* Whenever no call is under way, the program works with what is saved, and
\* what runs is what the settings say, but for what a call that failed left
\* undone and none has done since: such a call returns without a restart, and
\* nothing takes back what it has changed.
InStep ==
  (Busy = {} /\ mem # None) =>
    /\ mem = file \/ "save" \in failed
    /\ (IF mem.group = None THEN stop = 0 ELSE stop # 0 /\ gen[stop].group = mem.group) \/ "group" \in failed
    /\ (stop # 0 => gen[stop].opt = mem.opt) \/ "option" \in failed

\* Restart stops whatever is running: no generation is left that the program
\* does not hold and so cannot stop.
OneRunning == \A g \in DOMAIN gen : gen[g].up => g = stop

\* A client that was stopped ends, wherever stop finds it, and its link to
\* the server with it.
StoppedEnds == \A g \in 1..MaxGen :
  (g \in DOMAIN gen /\ ~gen[g].up) ~> (g \in DOMAIN gen => gen[g].client = "ended")

Holds(g) == g \in DOMAIN gen /\ stop = g /\ gen[g].up /\ gen[g].group \in Tokens

\* A session that the server has ended is shown as signed out once it is not
\* connected, wherever the client was then, unless the program stops using it.
\* A connection that the server leaves open stays.
RefusalShown == \A g \in 1..MaxGen :
  (Holds(g) /\ gen[g].group \in revoked /\ reachable /\ gen[g].client \notin {"linked", "on"})
    ~> (signedOut \/ ~Holds(g) \/ ~reachable)

\* A client that the program holds and has not stopped gives up only for a
\* session the server refused, and that is shown: no step, of the client, of a
\* restart or of another generation, leaves sync silently off.
NeverSilent == \A g \in DOMAIN gen : Holds(g) /\ gen[g].client = "ended" => signedOut

\* With a server that can be reached and a session it accepts, the program
\* ends up connected, however often the connection was lost before.
Reconnects == \A g \in 1..MaxGen :
  <>[](Holds(g) /\ gen[g].group \notin revoked /\ reachable)
    => <>[](Holds(g) /\ gen[g].client = "on")

-----------------------------------------------------------------------------
(* What else holds between two steps.                                      *)

\* Generations are numbered in turn, and there is none before the program has
\* started.  A thread has the Config it works on, and whatever is not a command
\* lives in the program.
Placed ==
  /\ \E n \in 0..MaxGen : DOMAIN gen = 1..n
  /\ DOMAIN gen # {} => mem # None
  /\ \A c \in Busy :
       LET o == call[c].op.op
           at == call[c].at
       IN /\ IF Command(c) THEN Own(c) ELSE mem # None
          /\ Own(c) => Linux /\ o # "start"
          /\ at \in {"stopped", "read", "loaded"} => mem # None
          /\ at \in {"writing", "written"} => call[c].data # None
          /\ at = "left" => o \in {"join", "signin"}
          /\ at = "saved" => o = "pause"
          /\ at = "read" => Linux
          /\ o = "pause" => ~Linux
          /\ o = "start" => at \in {"restart", "stopped", "read", "loaded"} /\ DOMAIN gen = {}
          /\ o = "seen" => at \in {"begun", "changed", "writing", "written"} /\ DOMAIN gen # {}

\* Restarts take turns: on Linux by restartMu, on Windows only because no two
\* window calls run at once.
Alone(c) == c \in Busy /\ ~Does(c, {"seen"})
InTurn ==
  /\ \A c, o \in Calls : Restarting(c) /\ Restarting(o) => c = o
  /\ \A c \in Calls : Restarting(c) => stop = 0
  /\ ~Linux => \A c, o \in Calls : Alone(c) /\ Alone(o) => c = o
OneCall == Linux \/ load.atOnce <= 1

\* One writer at a time: on Windows by the Config's lock, on Linux only
\* because one command runs and the daemon does not save meanwhile.
OneWriter ==
  /\ \A c, o \in Calls : Saving(c) /\ Saving(o) => c = o
  /\ \A c \in Calls :
       /\ At(c, "writing") => ~call[c].moved
       /\ At(c, "written") => tmp = call[c].data
       /\ At(c, "read") => call[c].data # None
  /\ Linux => /\ \A c, o \in Limited : c = o
              /\ \A c \in Calls : Does(c, {"seen"}) => ~Own(c)
  /\ file # Part
Apart == load.atOnce <= 1

\* What is saved, or being saved, is what the program has, unless a call that
\* has changed it is still to save or has failed, or on Linux the program is
\* about to load the file.
SavedOrSoon ==
  \/ "save" \in failed
  \/ Linux /\ \E c \in Calls : At(c, "restart") \/ At(c, "stopped") \/ At(c, "read")
  \/ \E c \in Calls : ~Command(c) /\ (At(c, "left") \/ At(c, "changed"))
  \/ /\ \A c \in Calls : Saving(c) /\ ~Command(c) => call[c].data = mem
     /\ mem = file \/ \E c \in Calls : Saving(c) /\ ~Command(c)

\* What a restart has read is still what is saved, or another will read that.
ReadLast ==
  \A c \in Calls : At(c, "read") =>
    call[c].data = file \/ \E o \in Calls : At(o, "restart") \/ At(o, "stopped")

\* c will restart sync.
Renews(c) ==
  \/ At(c, "restart") \/ Restarting(c)
  \/ ~Linux /\ Does(c, {"join", "signin", "leave", "settings"}) /\ ~At(c, "begun")

\* c will restart sync or give it its options.
Applies(c) == Renews(c) \/ (Does(c, {"pause"}) /\ ~At(c, "begun"))

GroupOrSoon ==
  \/ IF mem.group = None THEN stop = 0 ELSE stop # 0 /\ gen[stop].group = mem.group
  \/ "group" \in failed \/ \E c \in Calls : Renews(c)

OptionOrSoon ==
  \/ stop # 0 => gen[stop].opt = mem.opt
  \/ "option" \in failed \/ \E c \in Calls : Applies(c)

\* Whatever is out of step has a thread that brings it back, or was left so by
\* one that failed.
Pending == mem # None => SavedOrSoon /\ ReadLast /\ GroupOrSoon /\ OptionOrSoon

Inductive == Placed /\ InTurn /\ OneRunning /\ OneWriter /\ Pending
=============================================================================
