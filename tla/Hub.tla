-------------------------------- MODULE Hub --------------------------------
(***************************************************************************)
(* The server's hub for one account: the handler sync of each connection,  *)
(* its readLoop and route, the goroutines that write to a connection, and  *)
(* what the hub keeps between them: the connections, the newest clip and   *)
(* the transfers passed on and not yet acknowledged.                       *)
(*                                                                         *)
(* One hold of hub.mu is one action, and so is one write to a socket.      *)
(* route writes before readLoop reads on; every other write is made by a   *)
(* goroutine of its own, so the writes that wait for a connection are a    *)
(* set.  A connection that is cancelled, whose ping fails or whose socket  *)
(* breaks has ended: its next read fails, a write may or may not.          *)
(***************************************************************************)
EXTENDS Clip, Sequences, FiniteSets

CONSTANTS
  Conns,       \* connections, each made once
  DeviceOf,    \* DeviceOf[c]: the device at the other end of c
  Traffic,     \* the clips the devices send
  Transfers,   \* files sent over the server, each once
  From, To,    \* From[t], To[t]: the devices t goes between
  Chunks,      \* Chunks[t]: its chunks
  None,        \* no connection
  Loads        \* what may happen in one behaviour: the clips and files sent,
               \* whether device lists are followed, and bounds: connections
               \* that break, devices kicked

ASSUME HubAssumption ==
  /\ DeviceOf \in [Conns -> Devices] /\ None \notin Conns
  /\ Traffic \subseteq Clip
  /\ From \in [Transfers -> Devices] /\ To \in [Transfers -> Devices]
  /\ Chunks \in [Transfers -> Nat]
  /\ Loads \subseteq [clips : SUBSET Traffic, files : SUBSET Transfers,
                      lists : BOOLEAN, breaks : Nat, kicks : Nat]

VARIABLES
  stage,     \* stage[c]: where the handler of c is
  ended,     \* connections whose next read fails
  current,   \* account.current
  held,      \* held[c]: what current was when c was registered
  job,       \* job[c]: the file message route(c) holds, and its target
  going,     \* going[c]: what goroutines are about to write to c
  written,   \* written[c]: what they have written
  met,       \* met[c]: clips sent or received over c
  files,     \* files[c]: file messages written to c, in order
  inflight,  \* inflight[t]: the receiving connection, or None
  sent,      \* sent[t]: file messages of t read so far
  via,       \* via[t]: the connection they come over
  answered,  \* transfers whose receiver has answered
  load       \* what is left to happen

handlers == <<stage, held, job>>
clips == <<current, met>>
transfers == <<inflight, sent, via, answered, files>>
writes == <<going, written>>
vars == <<handlers, ended, clips, transfers, writes, load>>

-----------------------------------------------------------------------------
(* Messages.  Number 0 of a transfer is file_start, the last is file_end.  *)

ClipMsg(m) == [type |-> "clip", clip |-> m]
AckMsg(t) == [type |-> "file_ack", t |-> t]
DevicesMsg(D) == [type |-> "devices", peers |-> D]
FileMsg(t, n) == [type |-> "file", t |-> t, n |-> n]

FileMessage == [type : {"file"}, t : Transfers, n : Nat]
AckMessage == [type : {"file_ack"}, t : Transfers]

Message ==
  [type : {"clip"}, clip : Traffic] \cup AckMessage \cup [type : {"devices"}, peers : SUBSET Devices]

Job == [m : FileMessage \cup AckMessage \cup {None}, target : Conns \cup {None}]

NoJob == [m |-> None, target |-> None]

TypeOK ==
  /\ stage \in [Conns -> {"out", "joined", "reading", "routing", "failing", "left", "gone"}]
  /\ ended \subseteq Conns
  /\ current \in Traffic \cup {NoClip} /\ held \in [Conns -> Traffic \cup {NoClip}]
  /\ job \in [Conns -> Job]
  /\ going \in [Conns -> SUBSET Message] /\ written \in [Conns -> SUBSET Message]
  /\ met \in [Conns -> SUBSET Traffic]
  /\ files \in [Conns -> Seq(FileMessage)]
  /\ inflight \in [Transfers -> Conns \cup {None}]
  /\ sent \in [Transfers -> Nat] /\ via \in [Transfers -> Conns \cup {None}]
  /\ answered \subseteq Transfers
  /\ load \in [clips : SUBSET Traffic, files : SUBSET Transfers, lists : BOOLEAN,
              breaks : Nat, kicks : Nat]

Init ==
  /\ stage = [c \in Conns |-> "out"] /\ ended = {}
  /\ current = NoClip /\ held = [c \in Conns |-> NoClip]
  /\ job = [c \in Conns |-> NoJob]
  /\ going = [c \in Conns |-> {}] /\ written = [c \in Conns |-> {}]
  /\ met = [c \in Conns |-> {}] /\ files = [c \in Conns |-> <<>>]
  /\ inflight = [t \in Transfers |-> None]
  /\ sent = [t \in Transfers |-> 0] /\ via = [t \in Transfers |-> None]
  /\ answered = {}
  /\ load \in Loads

Spend(b) == load[b] > 0 /\ load' = [load EXCEPT ![b] = @ - 1]

-----------------------------------------------------------------------------
(* The connections of the account.                                         *)

conns == {c \in Conns : stage[c] \in {"joined", "reading", "routing", "failing"}}

ConnsOf(d) == {c \in conns : DeviceOf[c] = d}

online == {DeviceOf[c] : c \in conns}

\* sync, up to the end of its first hold of the lock: the older connections
\* of the device are cancelled, not removed.
Sync(c) ==
  /\ stage[c] = "out"
  /\ stage' = [stage EXCEPT ![c] = "joined"]
  /\ held' = [held EXCEPT ![c] = current]
  /\ ended' = ended \cup ConnsOf(DeviceOf[c])
  /\ UNCHANGED <<job, clips, transfers, writes, load>>

\* broadcastDevices: the list of this moment to everyone connected.
Listed ==
  [c \in Conns |-> IF c \in conns /\ load.lists THEN {DevicesMsg(online)} ELSE {}]

\* sync: tell everyone, start to send the newest clip, and read.
Announce(c) ==
  /\ stage[c] = "joined"
  /\ stage' = [stage EXCEPT ![c] = "reading"]
  /\ going' = [o \in Conns |-> going[o] \cup Listed[o] \cup
                 IF o = c /\ held[c] # NoClip THEN {ClipMsg(held[c])} ELSE {}]
  /\ held' = [held EXCEPT ![c] = NoClip]
  /\ UNCHANGED <<job, ended, clips, transfers, written, load>>

\* A read fails on its own, a ping is not answered, or a frame is damaged.
Break(c) ==
  /\ c \in conns \ ended
  /\ Spend("breaks")
  /\ ended' = ended \cup {c}
  /\ UNCHANGED <<handlers, clips, transfers, writes>>

\* hub.kick for one device, hub.kickAll for every device of the account.
Kick(D) ==
  /\ Spend("kicks")
  /\ ended' = ended \cup {c \in conns : DeviceOf[c] \in D}
  /\ UNCHANGED <<handlers, clips, transfers, writes>>

-----------------------------------------------------------------------------
(* readLoop: clips.                                                        *)

\* The clips readLoop does not drop.
Fresh == {m \in load.clips : Newer(m, current) /\ (current # NoClip => current.id # m.id)}

\* Mutant: only connections whose handler reads already are sent the clip.
ReadClipToReaders(c, m) ==
  /\ stage[c] = "reading"
  /\ m \in Fresh
  /\ current' = m
  /\ met' = [met EXCEPT ![c] = @ \cup {m}]
  /\ going' = [o \in Conns |-> IF o # c /\ stage[o] = "reading"
                               THEN going[o] \cup {ClipMsg(m)} ELSE going[o]]
  /\ UNCHANGED <<handlers, ended, transfers, written, load>>

\* A clip that is not newer than the hub's own is dropped; a newer one is
\* kept and goes to every other connection.
ReadClip(c, m) ==
  /\ stage[c] = "reading"
  /\ m \in Fresh
  /\ current' = m
  /\ met' = [met EXCEPT ![c] = @ \cup {m}]
  /\ going' = [o \in Conns |-> IF o \in conns \ {c} THEN going[o] \cup {ClipMsg(m)} ELSE going[o]]
  /\ UNCHANGED <<handlers, ended, transfers, written, load>>

\* Whether a socket still takes writes; after Leave it is closed.
Open(c) == c \in conns

\* Mutant: a write that fails does not end the connection.
WriteFails(c, m) ==
  /\ m \in going[c]
  /\ going' = [going EXCEPT ![c] = @ \ {m}]
  /\ \/ /\ Open(c)
        /\ written' = [written EXCEPT ![c] = IF m.type = "clip" THEN @ ELSE @ \cup {m}]
        /\ met' = [met EXCEPT ![c] = IF m.type = "clip" THEN @ \cup {m.clip} ELSE @]
     \/ UNCHANGED <<written, met>>
  /\ UNCHANGED <<handlers, ended, current, transfers, load>>

\* A goroutine writes to c: it may fail once the connection has ended.
Write(c, m) ==
  /\ m \in going[c]
  /\ going' = [going EXCEPT ![c] = @ \ {m}]
  /\ \/ /\ Open(c)
        /\ written' = [written EXCEPT ![c] = IF m.type = "clip" THEN @ ELSE @ \cup {m}]
        /\ met' = [met EXCEPT ![c] = IF m.type = "clip" THEN @ \cup {m.clip} ELSE @]
     \/ c \in ended /\ UNCHANGED <<written, met>>
  /\ UNCHANGED <<handlers, ended, current, transfers, load>>

-----------------------------------------------------------------------------
(* route: file messages.                                                   *)

\* The connections route may pick: map order decides between several.
Targets(c, d) == ConnsOf(d) \ {c}

\* Mutant: the device is taken for its connection.
TargetDevice(c, d) == IF Targets(c, d) = {} THEN {None} ELSE {d}

Target(c, d) == IF Targets(c, d) = {} THEN {None} ELSE Targets(c, d)

Route(c, m, target) ==
  /\ job' = [job EXCEPT ![c] = [m |-> m, target |-> target]]
  /\ stage' = [stage EXCEPT ![c] = IF target # None THEN "routing"
                                   ELSE IF m.type = "file_ack" THEN "reading" ELSE "failing"]

\* The sender's next message: a file_start that has a target is in flight.
ReadFile(c, t) ==
  /\ stage[c] = "reading" /\ DeviceOf[c] = From[t]
  /\ t \in load.files /\ (sent[t] = 0 \/ via[t] = c)
  /\ sent[t] <= Chunks[t] + 1
  /\ sent' = [sent EXCEPT ![t] = @ + 1] /\ via' = [via EXCEPT ![t] = c]
  /\ \E target \in Target(c, To[t]) :
       /\ Route(c, FileMsg(t, sent[t]), target)
       /\ inflight' = IF sent[t] = 0 /\ target # None
                      THEN [inflight EXCEPT ![t] = target] ELSE inflight
  /\ UNCHANGED <<held, ended, clips, answered, files, writes, load>>

\* The receiver's answer ends the transfer, whether or not it gets through.
ReadAck(c, t) ==
  /\ stage[c] = "reading" /\ DeviceOf[c] = To[t] /\ t \notin answered
  /\ \E o \in Conns : DeviceOf[o] = To[t] /\ \E i \in DOMAIN files[o] : files[o][i].t = t
  /\ answered' = answered \cup {t}
  /\ inflight' = [inflight EXCEPT ![t] = None]
  /\ \E target \in Target(c, From[t]) : Route(c, AckMsg(t), target)
  /\ UNCHANGED <<held, ended, clips, sent, via, files, writes, load>>

\* Mutant: the result of a write is lost, and the message written again.
SendAgain(c) ==
  /\ stage[c] = "routing" /\ Open(job[c].target)
  /\ files' = [files EXCEPT ![job[c].target] = Append(@, job[c].m)] /\ Len(files'[job[c].target]) < 9
  /\ UNCHANGED <<handlers, ended, clips, inflight, sent, via, answered, writes, load>>

\* The write route waits for, done.
Send(c) ==
  /\ stage[c] = "routing" /\ Open(job[c].target)
  /\ IF job[c].m.type = "file"
     THEN files' = [files EXCEPT ![job[c].target] = Append(@, job[c].m)] /\ UNCHANGED written
     ELSE written' = [written EXCEPT ![job[c].target] = @ \cup {job[c].m}] /\ UNCHANGED files
  /\ stage' = [stage EXCEPT ![c] = "reading"] /\ job' = [job EXCEPT ![c] = NoJob]
  /\ UNCHANGED <<held, ended, clips, inflight, sent, via, answered, going, load>>

\* The write fails, or the receiver has not taken the message in time: the
\* receiving connection is cancelled.
SendFails(c) ==
  /\ stage[c] = "routing"
  /\ ended' = ended \cup {job[c].target}
  /\ stage' = [stage EXCEPT ![c] = IF job[c].m.type = "file_ack" THEN "reading" ELSE "failing"]
  /\ UNCHANGED <<held, job, clips, transfers, writes, load>>

\* failTransfer to the sender itself, in its own readLoop.
Fail(c) ==
  /\ stage[c] = "failing"
  /\ \/ written' = [written EXCEPT ![c] = @ \cup {AckMsg(job[c].m.t)}]
     \/ c \in ended /\ UNCHANGED written
  /\ stage' = [stage EXCEPT ![c] = "reading"] /\ job' = [job EXCEPT ![c] = NoJob]
  /\ UNCHANGED <<held, ended, clips, transfers, going, load>>

-----------------------------------------------------------------------------
(* sync: the end.                                                          *)

Orphaned(c) == {t \in Transfers : inflight[t] = c}

\* Mutant: the transfers a connection received are dropped, not failed.
LeaveSilently(c) ==
  /\ stage[c] = "reading" /\ c \in ended
  /\ stage' = [stage EXCEPT ![c] = "left"]
  /\ job' = [job EXCEPT ![c] = NoJob]
  /\ inflight' = [t \in Transfers |-> IF c \in {inflight[t], via[t]} THEN None ELSE inflight[t]]
  /\ UNCHANGED <<held, ended, clips, sent, via, answered, files, writes, load>>

\* Mutant: the transfers a connection sent stay in flight.
LeaveSent(c) ==
  /\ stage[c] = "reading" /\ c \in ended
  /\ stage' = [stage EXCEPT ![c] = "left"]
  /\ job' = [job EXCEPT ![c] = NoJob]
  /\ inflight' = [t \in Transfers |-> IF inflight[t] = c THEN None ELSE inflight[t]]
  /\ going' = [o \in Conns |-> going[o] \cup {AckMsg(t) : t \in {s \in Orphaned(c) : via[s] = o}}]
  /\ UNCHANGED <<held, ended, clips, sent, via, answered, files, written, load>>

\* The read failed: the connection is removed, its transfers end, and the
\* senders of those it was receiving are told.
Leave(c) ==
  /\ stage[c] = "reading" /\ c \in ended
  /\ stage' = [stage EXCEPT ![c] = "left"]
  /\ job' = [job EXCEPT ![c] = NoJob]
  /\ inflight' = [t \in Transfers |-> IF c \in {inflight[t], via[t]} THEN None ELSE inflight[t]]
  /\ going' = [o \in Conns |-> going[o] \cup {AckMsg(t) : t \in {s \in Orphaned(c) : via[s] = o}}]
  /\ UNCHANGED <<held, ended, clips, sent, via, answered, files, written, load>>

\* Mutant: those who stay are not told.
FarewellSilent(c) ==
  /\ stage[c] = "left"
  /\ stage' = [stage EXCEPT ![c] = "gone"]
  /\ UNCHANGED <<held, job, ended, clips, transfers, writes, load>>

\* broadcastDevices, after the store has noted the device's last use.
Farewell(c) ==
  /\ stage[c] = "left"
  /\ stage' = [stage EXCEPT ![c] = "gone"]
  /\ going' = [o \in Conns |-> going[o] \cup Listed[o]]
  /\ UNCHANGED <<held, job, ended, clips, transfers, written, load>>

-----------------------------------------------------------------------------
Handle(c) == Announce(c) \/ SendFails(c) \/ Fail(c) \/ Leave(c) \/ Farewell(c)

Next ==
  \/ \E c \in Conns :
       \/ Sync(c) \/ Break(c) \/ Send(c) \/ Handle(c)
       \/ \E m \in Traffic : ReadClip(c, m)
       \/ \E m \in going[c] : Write(c, m)
       \/ \E t \in Transfers : ReadFile(c, t) \/ ReadAck(c, t)
  \/ \E D \in {{d} : d \in Devices} \cup {Devices} : Kick(D)

\* Goroutines run, a cancelled read returns, and every write has a deadline:
\* what a handler has begun it ends.  Nobody has to connect, to send, or to
\* take what route writes before the deadline.
Fairness ==
  \A c \in Conns : WF_vars(Handle(c)) /\ WF_vars(\E m \in going[c] : Write(c, m))

Spec == Init /\ [][Next]_vars /\ Fairness

-----------------------------------------------------------------------------
(* Properties.                                                             *)

\* Every connection that lives has the hub's newest clip, or a goroutine or
\* its own handler is about to send it: whatever came between registering,
\* greeting and a clip that another connection brought.
Offered ==
  \A c \in conns \ ended :
    \/ current \in met[c] \cup {NoClip}
    \/ ClipMsg(current) \in going[c]
    \/ stage[c] = "joined" /\ held[c] = current

\* Both ends of a transfer in flight are connected, so that whoever leaves
\* finds it, and it goes to the device it is addressed to.
InflightConnected ==
  \A t \in Transfers : inflight[t] # None =>
    /\ {inflight[t], via[t]} \subseteq conns
    /\ DeviceOf[inflight[t]] = To[t]

\* A transfer is in flight, was answered, or its sender has been told that it
\* failed, is about to be, or is gone.
Accounted(t) ==
  \/ inflight[t] # None \/ t \in answered
  \/ via[t] \in ended
  \/ \E c \in Conns : via[t] = c /\ AckMsg(t) \in written[c] \cup going[c]

\* No transfer is forgotten: one whose start was passed on is accounted for,
\* whichever of its two connections ends when.
NoneForgotten ==
  \A t \in Transfers :
    (\E c \in Conns : \E i \in DOMAIN files[c] : files[c][i] = FileMsg(t, 0)) => Accounted(t)

\* On each connection the messages of a file keep their order.
InOrder ==
  \A c \in Conns : \A i, j \in DOMAIN files[c] :
    i < j /\ files[c][i].t = files[c][j].t => files[c][i].n < files[c][j].n

\* When no handler is about to announce a change, every connection that lives
\* has been sent the list of the devices that are connected now, or will be.
ListOffered ==
  load.lists /\ (\A c \in Conns : stage[c] \notin {"joined", "left"}) =>
    \A c \in conns \ ended : DevicesMsg(online) \in written[c] \cup going[c]

\* The message that the handler of c is about to pass on follows all others of
\* its file, and a start is accounted for before it goes out.
InTurn(c) ==
  LET m == job[c].m IN
  /\ via[m.t] = c /\ sent[m.t] = m.n + 1
  /\ \A o \in Conns : \A i \in DOMAIN files[o] : files[o][i].t = m.t => files[o][i].n < m.n
  /\ m.n = 0 => Accounted(m.t)

\* Why NoneForgotten and InOrder hold: a handler passes on one message of a
\* file at a time, the last of those its sender has sent.
OneAtATime ==
  /\ \A c \in Conns : \A i \in DOMAIN files[c] : files[c][i].n < sent[files[c][i].t]
  /\ \A c \in Conns : stage[c] = "routing" /\ job[c].m \in FileMessage => InTurn(c)

\* What the proofs carry through every step.
Inductive ==
  Offered /\ ListOffered /\ InflightConnected /\ NoneForgotten /\ InOrder /\ OneAtATime

\* A sender whose receiver's connection ends before the answer is told so,
\* unless its own connection ends too or the answer arrives on another.
SenderTold ==
  \A t \in Transfers :
    (inflight[t] # None /\ inflight[t] \in ended) ~>
      (t \in answered \/ via[t] \in ended \/ \E c \in Conns : AckMsg(t) \in written[c])

-----------------------------------------------------------------------------
(* What no step takes back, and SenderTold rests on.                       *)

\* The sender of t need not wait: its receiver has answered, its own connection
\* has ended, or the notice that t failed is written or about to be.
Told(t) ==
  \/ t \in answered \/ via[t] \in ended
  \/ \E c \in Conns : via[t] = c /\ AckMsg(t) \in written[c] \cup going[c]

\* A step that ends a transfer in flight tells its sender; and what it has been
\* told no write, failed or not, and no later message loses.
LeftTold == \A t \in Transfers : inflight[t] # None => inflight'[t] = inflight[t] \/ Told(t)'

ToldStays == \A t \in Transfers : sent[t] > 0 /\ Told(t) => Told(t)'

NoneLeftWaiting == [][LeftTold /\ ToldStays]_vars

\* Only a transfer whose start was read is in flight.
Begun == \A t \in Transfers : inflight[t] # None => sent[t] > 0
=============================================================================
