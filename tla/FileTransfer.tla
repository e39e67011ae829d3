---------------------------- MODULE FileTransfer ----------------------------
(***************************************************************************)
(* Files sent to one device: Node.SendFile at the senders, the receiving   *)
(* node's readers and its expiry, the writers of files.DirReceiver, the    *)
(* folder they share, and the app's list of transfers.                     *)
(*                                                                         *)
(* A link carries file messages to the receiver in order; its              *)
(* acknowledgements are each sent by a goroutine of its own, so those in   *)
(* flight are a set.  What happens under one hold of a lock, or in one     *)
(* call of the file system, is one action.  The receiver's app may replace *)
(* its node (Service.Restart); a link belongs to one node for good.        *)
(***************************************************************************)
EXTENDS Naturals, Sequences, FiniteSets

CONSTANTS
  Transfers,     \* files to send, each once
  Links,         \* links to the receiver; one that breaks never returns
  Senders,       \* the devices that send
  From,          \* From[l]: the device at the other end of l
  Sender,        \* Sender[t]: the device that sends t
  Names, Name,   \* Name[t]: the safe form of the file's name
  Labels, Label, \* Label[t]: the announced names of the file and its device
  Chunks,        \* Chunks[t]: the number of chunks announced (meta.Size)
  Nodes,         \* successive nodes of the receiver: 1, 2, ...
  NodeOf,        \* NodeOf[l]: the node that l belongs to
  Relayed,       \* links that lead over the server
  None,          \* no transfer
  MayRefuse,     \* whether a file header may be refused
  DiskMayFail,   \* whether writing, closing or renaming may fail
  MayExpire,     \* whether a transfer may go quiet for FileIdleTimeout
  ListLimit,     \* the list of transfers shows this many
  Budget         \* bounds: link breaks, connections the receiver loses to the
                 \* server, cancelled sends, files that change

ASSUME FileTransferAssumption ==
  /\ From \in [Links -> Senders] /\ Sender \in [Transfers -> Senders]
  /\ Name \in [Transfers -> Names] /\ Label \in [Transfers -> Labels]
  /\ Chunks \in [Transfers -> Nat]
  /\ IsFiniteSet(Transfers)
  /\ Nodes \subseteq Nat /\ 1 \in Nodes /\ NodeOf \in [Links -> Nodes]
  /\ Relayed \subseteq Links
  /\ Links \cap Nodes = {} /\ None \notin Transfers
  /\ MayRefuse \in BOOLEAN /\ DiskMayFail \in BOOLEAN /\ MayExpire \in BOOLEAN
  /\ ListLimit \in Nat \ {0}
  /\ Budget \in [{"breaks", "drops", "cancels", "changes"} -> Nat]

VARIABLES
  snd,       \* snd[t]: SendFile's place, link, next sequence number, result
  fileAcks,  \* fileAcks[t]: what is in the acknowledgement channel
  up,        \* up[l]: both ends still have the link
  net,       \* net[l]: file messages on their way, in order
  acks,      \* acks[l]: acknowledgements on their way
  incoming,  \* Node.incoming
  next,      \* next[t], got[t]: fields of t's entry in Node.incoming
  got,
  disk,      \* disk[t]: chunks in t's file
  writer,    \* writer[t]: t's writer; "closing" holds its lock
  at,        \* at[r]: reader or Run loop r inside handleFile or expireFiles
  dead,      \* dead[n]: what expireFiles of node n still has to abort
  folder,    \* folder[f]: the transfer whose file has the path f
  list,      \* transfers.list in the order of creation
  live,      \* the node Service.node points to
  spent

sender == <<snd, fileAcks>>
link == <<up, net, acks>>
files == <<incoming, next, got, disk, writer, folder>>
vars == <<sender, link, files, at, dead, list, live, spent>>

-----------------------------------------------------------------------------
(* Values.                                                                 *)

Threads == Links \cup Nodes

Paths == Names \X (1..Cardinality(Transfers))

Message == [kind : {"start", "chunk", "end"}, t : Transfers, seq : Nat]

Ack == [t : Transfers, ok : BOOLEAN]

Sending == [pc : {"idle", "start", "chunk", "wait", "done"}, link : Links \cup {None},
            seq : Nat, result : {"none", "ok", "failed"}]

SendAt(pc, l, seq, result) == [pc |-> pc, link |-> l, seq |-> seq, result |-> result]

Place == [pc : {"idle", "start", "chunk", "progress", "abort", "forget", "end",
                "discard", "commit", "rename", "match", "add", "mark", "ack"},
          t : Transfers \cup {None}, n : Nat, ok : BOOLEAN]

In(pc, t, n, ok) == [pc |-> pc, t |-> t, n |-> n, ok |-> ok]

Idle == In("idle", None, 0, FALSE)

Entry == [of : Transfers, progress : BOOLEAN, state : {"active", "done", "failed"}]

TypeOK ==
  /\ snd \in [Transfers -> Sending]
  /\ fileAcks \in [Transfers -> SUBSET BOOLEAN]
  /\ up \in [Links -> BOOLEAN]
  /\ net \in [Links -> Seq(Message)]
  /\ acks \in [Links -> SUBSET Ack]
  /\ incoming \subseteq Transfers
  /\ next \in [Transfers -> Nat] /\ got \in [Transfers -> Nat] /\ disk \in [Transfers -> Nat]
  /\ writer \in [Transfers -> {"none", "open", "closing", "gone", "stored"}]
  /\ at \in [Threads -> Place]
  /\ dead \in [Nodes -> SUBSET Transfers]
  /\ folder \in [Paths -> Transfers \cup {None}]
  /\ list \in Seq(Entry)
  /\ live \in Nodes
  /\ spent \in [DOMAIN Budget -> Nat]

Init ==
  /\ snd = [t \in Transfers |-> SendAt("idle", None, 0, "none")]
  /\ fileAcks = [t \in Transfers |-> {}]
  /\ up = [l \in Links |-> NodeOf[l] = 1]
  /\ net = [l \in Links |-> <<>>]
  /\ acks = [l \in Links |-> {}]
  /\ incoming = {}
  /\ next = [t \in Transfers |-> 0]
  /\ got = [t \in Transfers |-> 0]
  /\ disk = [t \in Transfers |-> 0]
  /\ writer = [t \in Transfers |-> "none"]
  /\ at = [r \in Threads |-> Idle]
  /\ dead = [n \in Nodes |-> {}]
  /\ folder = [f \in Paths |-> None]
  /\ list = <<>>
  /\ live = 1
  /\ spent = [k \in DOMAIN Budget |-> 0]

Spend(k) ==
  /\ spent[k] < Budget[k]
  /\ spent' = [spent EXCEPT ![k] = @ + 1]

-----------------------------------------------------------------------------
(* Node.SendFile.                                                          *)

\* SendFile returns; its channel is forgotten.
Return(t, result) ==
  /\ snd' = [snd EXCEPT ![t] = SendAt("done", @.link, @.seq, result)]
  /\ fileAcks' = [fileAcks EXCEPT ![t] = {}]

\* linkTo, and the channel for the acknowledgement.
Begin(t) ==
  /\ snd[t].pc = "idle"
  /\ \/ \E l \in Links :
          /\ up[l] /\ From[l] = Sender[t]
          /\ snd' = [snd EXCEPT ![t] = SendAt("start", l, 0, "none")]
          /\ UNCHANGED fileAcks
     \/ /\ \A l \in Links : From[l] = Sender[t] => ~up[l]
        /\ Return(t, "failed")
  /\ UNCHANGED <<link, files, at, dead, list, live, spent>>

\* Mutant: sequence numbers lag by one.
EmitShifted(t, kind, pc, seq) ==
  LET l == snd[t].link IN
  /\ fileAcks[t] = {} /\ up[l]
  /\ net' = [net EXCEPT ![l] = Append(@, [kind |-> kind, t |-> t, seq |-> snd[t].seq - 1])]
  /\ snd' = [snd EXCEPT ![t] = SendAt(pc, l, seq, "none")]
  /\ UNCHANGED <<fileAcks, up, acks, files, at, dead, list, live>>

\* msg: the message goes out unless an acknowledgement came or the link is
\* down.
Emit(t, kind, pc, seq) ==
  LET l == snd[t].link IN
  /\ fileAcks[t] = {} /\ up[l]
  /\ net' = [net EXCEPT ![l] = Append(@, [kind |-> kind, t |-> t, seq |-> snd[t].seq])]
  /\ snd' = [snd EXCEPT ![t] = SendAt(pc, l, seq, "none")]
  /\ UNCHANGED <<fileAcks, up, acks, files, at, dead, list, live>>

SendStart(t) ==
  /\ snd[t].pc = "start"
  /\ Emit(t, "start", "chunk", 0)
  /\ UNCHANGED spent

\* One more chunk; past the announced size only if the file has grown.
SendChunk(t) ==
  /\ snd[t].pc = "chunk"
  /\ Emit(t, "chunk", "chunk", snd[t].seq + 1)
  /\ \/ snd[t].seq < Chunks[t] /\ UNCHANGED spent
     \/ snd[t].seq = Chunks[t] /\ Spend("changes")

SendEnd(t) ==
  /\ snd[t].pc = "chunk" /\ snd[t].seq = Chunks[t]
  /\ Emit(t, "end", "wait", snd[t].seq)
  /\ UNCHANGED spent

\* The receiver gave up, the link failed, what was sent is more than was
\* announced; or the wait timed out, which may be when the answer comes.
SendFails(t) ==
  /\ \/ snd[t].pc \in {"start", "chunk"} /\ (fileAcks[t] # {} \/ ~up[snd[t].link])
     \/ snd[t].pc = "chunk" /\ snd[t].seq > Chunks[t]
     \/ snd[t].pc = "wait"
  /\ Return(t, "failed")
  /\ UNCHANGED <<link, files, at, dead, list, live, spent>>

\* The file ends early or cannot be read, or the caller's context ends.
SendStops(t) ==
  /\ \/ snd[t].pc = "chunk" /\ snd[t].seq < Chunks[t] /\ Spend("changes")
     \/ snd[t].pc \in {"chunk", "wait"} /\ Spend("cancels")
  /\ Return(t, "failed")
  /\ UNCHANGED <<link, files, at, dead, list, live>>

\* Mutant: any answer is taken for a confirmation.
SendAnswered(t) ==
  /\ snd[t].pc = "wait" /\ fileAcks[t] # {}
  /\ Return(t, "ok")
  /\ UNCHANGED <<link, files, at, dead, list, live, spent>>

SendConfirmed(t) ==
  /\ snd[t].pc = "wait" /\ TRUE \in fileAcks[t]
  /\ Return(t, "ok")
  /\ UNCHANGED <<link, files, at, dead, list, live, spent>>

\* The sender's reader: the channel holds one acknowledgement, the first.
AckArrives(l, a) ==
  /\ a \in acks[l]
  /\ acks' = [acks EXCEPT ![l] = @ \ {a}]
  /\ fileAcks' =
       IF snd[a.t].pc \in {"start", "chunk", "wait"} /\ fileAcks[a.t] = {}
       THEN [fileAcks EXCEPT ![a.t] = {a.ok}] ELSE fileAcks
  /\ UNCHANGED <<snd, up, net, files, at, dead, list, live, spent>>

-----------------------------------------------------------------------------
(* Node.handleFile, in the reader of link l.                               *)

Move(r, pc, t, n, ok) == at' = [at EXCEPT ![r] = In(pc, t, n, ok)]

\* The first hold of the lock finds the transfer; a message of one that is
\* not there is ignored.  (So is one that OpenFile cannot read, but a sender
\* in the group writes none.)
Take(l) ==
  LET m == Head(net[l]) IN
  /\ at[l] = Idle /\ net[l] # <<>>
  /\ net' = [net EXCEPT ![l] = Tail(@)]
  /\ IF m.kind = "start" \/ m.t \in incoming
     THEN Move(l, m.kind, m.t, m.seq, FALSE) ELSE UNCHANGED at
  /\ UNCHANGED <<sender, up, acks, files, dead, list, live, spent>>

\* sendAck, on a goroutine of its own; nothing is sent on a closed link.
Answer(l, t, ok) ==
  acks' = IF up[l] THEN [acks EXCEPT ![l] = @ \cup {[t |-> t, ok |-> ok]}] ELSE acks

StartRefused(l) ==
  /\ MayRefuse /\ at[l].pc = "start"
  /\ Answer(l, at[l].t, FALSE)
  /\ at' = [at EXCEPT ![l] = Idle]
  /\ UNCHANGED <<sender, up, net, files, dead, list, live, spent>>

\* Begin makes a temporary file; the second hold of the lock registers it.
StartAccepted(l) ==
  LET t == at[l].t IN
  /\ at[l].pc = "start"
  /\ writer' = [writer EXCEPT ![t] = "open"]
  /\ incoming' = incoming \cup {t}
  /\ at' = [at EXCEPT ![l] = Idle]
  /\ UNCHANGED <<sender, link, next, got, disk, folder, dead, list, live, spent>>

\* A chunk out of order, or more data than announced.  What has been counted
\* of it no longer matters: nothing reads the counters of an aborted writer.
ChunkRefused(l) ==
  LET t == at[l].t IN
  /\ at[l].pc = "chunk"
  /\ at[l].n # next[t] \/ got[t] >= Chunks[t]
  /\ Move(l, "abort", t, 0, FALSE)
  /\ UNCHANGED <<sender, link, files, dead, list, live, spent>>

\* Mutant: the error of Write is not looked at.
ChunkCounted(l) ==
  LET t == at[l].t IN
  /\ at[l].pc = "chunk"
  /\ at[l].n = next[t] /\ got[t] < Chunks[t]
  /\ next' = [next EXCEPT ![t] = @ + 1]
  /\ got' = [got EXCEPT ![t] = @ + 1]
  /\ Move(l, "progress", t, 0, FALSE)
  /\ \/ writer[t] = "open" /\ disk' = [disk EXCEPT ![t] = @ + 1]
     \/ (writer[t] # "open" \/ DiskMayFail) /\ UNCHANGED disk
  /\ UNCHANGED <<sender, link, incoming, writer, folder, dead, list, live, spent>>

ChunkTaken(l) ==
  LET t == at[l].t IN
  /\ at[l].pc = "chunk"
  /\ at[l].n = next[t] /\ got[t] < Chunks[t]
  /\ next' = [next EXCEPT ![t] = @ + 1]
  /\ got' = [got EXCEPT ![t] = @ + 1]
  /\ \/ /\ writer[t] = "open"
        /\ disk' = [disk EXCEPT ![t] = @ + 1]
        /\ Move(l, "progress", t, 0, FALSE)
     \/ /\ writer[t] # "open" \/ DiskMayFail
        /\ UNCHANGED disk
        /\ Move(l, "abort", t, 0, FALSE)
  /\ UNCHANGED <<sender, link, incoming, writer, folder, dead, list, live, spent>>

\* writer.Abort waits for the writer's lock.
Abort(t) ==
  /\ writer[t] # "closing"
  /\ writer' = IF writer[t] = "open" THEN [writer EXCEPT ![t] = "gone"] ELSE writer

\* fail: the writer is aborted, the transfer forgotten, the receiver told.
FailAbort(l) ==
  /\ at[l].pc = "abort"
  /\ Abort(at[l].t)
  /\ Move(l, "forget", at[l].t, 0, FALSE)
  /\ UNCHANGED <<sender, link, incoming, next, got, disk, folder, dead, list, live, spent>>

FailForget(l) ==
  /\ at[l].pc = "forget"
  /\ incoming' = incoming \ {at[l].t}
  /\ Move(l, "match", at[l].t, 0, FALSE)
  /\ UNCHANGED <<sender, link, next, got, disk, writer, folder, dead, list, live, spent>>

\* file_end: forgotten first, then checked.
EndTaken(l) ==
  LET t == at[l].t
      whole == at[l].n = next[t] /\ got[t] = Chunks[t]
  IN
  /\ at[l].pc = "end"
  /\ incoming' = incoming \ {t}
  /\ Move(l, IF whole THEN "commit" ELSE "discard", t, 0, FALSE)
  /\ UNCHANGED <<sender, link, next, got, disk, writer, folder, dead, list, live, spent>>

\* Received(err) follows: at[l] is where its callback starts.
EndDiscard(l) ==
  LET t == at[l].t IN
  /\ at[l].pc = "discard"
  /\ Abort(t)
  /\ Move(l, "match", t, 0, FALSE)
  /\ UNCHANGED <<sender, link, incoming, next, got, disk, folder, dead, list, live, spent>>

\* uniquePath: the first path of that name that is free when it looks.
FreePath(t) ==
  {n \in 1..Cardinality(Transfers) :
    /\ folder[<<Name[t], n>>] = None
    /\ \A k \in 1..(n - 1) : folder[<<Name[t], k>>] # None}

\* Commit, up to the path: it fails if the writer was aborted.
EndCommit(l) ==
  LET t == at[l].t IN
  /\ at[l].pc = "commit"
  /\ \/ /\ writer[t] = "open"
        /\ writer' = [writer EXCEPT ![t] = "closing"]
        /\ \E n \in FreePath(t) : Move(l, "rename", t, n, FALSE)
     \/ /\ writer[t] # "open" \/ DiskMayFail
        /\ writer' = IF writer[t] = "open" THEN [writer EXCEPT ![t] = "gone"] ELSE writer
        /\ Move(l, "match", t, 0, FALSE)
  /\ UNCHANGED <<sender, link, incoming, next, got, disk, folder, dead, list, live, spent>>

\* Rename replaces what has taken the path in the meantime.
EndRename(l) ==
  LET t == at[l].t IN
  /\ at[l].pc = "rename"
  /\ \E ok \in {TRUE} \cup {~DiskMayFail} :
       /\ writer' = [writer EXCEPT ![t] = IF ok THEN "stored" ELSE "gone"]
       /\ folder' = IF ok THEN [folder EXCEPT ![<<Name[t], at[l].n>>] = t] ELSE folder
       /\ Move(l, "match", t, 0, ok)
  /\ UNCHANGED <<sender, link, incoming, next, got, disk, dead, list, live, spent>>

Acknowledge(l) ==
  /\ at[l].pc = "ack"
  /\ Answer(l, at[l].t, at[l].ok)
  /\ at' = [at EXCEPT ![l] = Idle]
  /\ UNCHANGED <<sender, up, net, files, dead, list, live, spent>>

-----------------------------------------------------------------------------
(* Node.expireFiles, in the Run loop of the live node.                     *)

\* Transfers that have been quiet for FileIdleTimeout leave the table.
Expire ==
  /\ MayExpire /\ at[live] = Idle /\ dead[live] = {}
  /\ \E quiet \in SUBSET {t \in incoming : NodeOf[snd[t].link] = live} :
       /\ quiet # {}
       /\ incoming' = incoming \ quiet
       /\ dead' = [dead EXCEPT ![live] = quiet]
  /\ UNCHANGED <<sender, link, next, got, disk, writer, folder, at, list, live, spent>>

\* Mutant: the writer is not aborted.
ExpireForget(n, t) ==
  /\ at[n] = Idle /\ t \in dead[n]
  /\ dead' = [dead EXCEPT ![n] = @ \ {t}]
  /\ Move(n, "match", t, 0, FALSE)
  /\ UNCHANGED <<sender, link, files, list, live, spent>>

ExpireAbort(n, t) ==
  /\ at[n] = Idle /\ t \in dead[n]
  /\ Abort(t)
  /\ dead' = [dead EXCEPT ![n] = @ \ {t}]
  /\ Move(n, "match", t, 0, FALSE)
  /\ UNCHANGED <<sender, link, incoming, next, got, disk, folder, list, live, spent>>

-----------------------------------------------------------------------------
(* The list of transfers (Service.receiver): the callbacks of the node.    *)

\* The places in list that the list still shows.
Shown == {i \in 1..Len(list) : i > Len(list) - ListLimit}

Newest(S) == {i \in S : \A j \in S : j <= i}

\* OnProgress; nothing between its two holds of the lock can change its choice.
Progress(l) ==
  LET t == at[l].t IN
  /\ at[l].pc = "progress"
  /\ list' = IF \E i \in Shown : list[i].of = t /\ list[i].progress THEN list
             ELSE Append(list, [of |-> t, progress |-> TRUE, state |-> "active"])
  /\ at' = [at EXCEPT ![l] = Idle]
  /\ UNCHANGED <<sender, link, files, dead, live, spent>>

\* Mutant: the names are not compared.
AnyName(t) == {i \in Shown : list[i].state = "active"}

\* OnReceived: the newest active entry of the names announced, if there is one.
SameName(t) == {i \in Shown : list[i].state = "active" /\ Label[list[i].of] = Label[t]}

Match(r) ==
  LET t == at[r].t IN
  /\ at[r].pc = "match"
  /\ \/ SameName(t) = {} /\ Move(r, "add", t, 0, at[r].ok)
     \/ \E i \in Newest(SameName(t)) : Move(r, "mark", t, i, at[r].ok)
  /\ UNCHANGED <<sender, link, files, dead, list, live, spent>>

Add(r) ==
  LET t == at[r].t IN
  /\ at[r].pc = "add"
  /\ list' = Append(list, [of |-> t, progress |-> FALSE, state |-> "active"])
  /\ Move(r, "mark", t, Len(list) + 1, at[r].ok)
  /\ UNCHANGED <<sender, link, files, dead, live, spent>>

Mark(r) ==
  /\ at[r].pc = "mark"
  /\ list' = [list EXCEPT ![at[r].n].state = IF at[r].ok THEN "done" ELSE "failed"]
  /\ IF r \in Links THEN Move(r, "ack", at[r].t, 0, at[r].ok) ELSE at' = [at EXCEPT ![r] = Idle]
  /\ UNCHANGED <<sender, link, files, dead, live, spent>>

-----------------------------------------------------------------------------
(* Links and nodes.                                                        *)

Break(l) ==
  /\ up[l]
  /\ Spend("breaks")
  /\ up' = [up EXCEPT ![l] = FALSE]
  /\ UNCHANGED <<sender, net, acks, files, at, dead, list, live>>

\* What has not been read when a broken link fails at the receiver.
Lost(l) ==
  /\ ~up[l] /\ net[l] # <<>>
  /\ net' = [net EXCEPT ![l] = <<>>]
  /\ UNCHANGED <<sender, up, acks, files, at, dead, list, live, spent>>

\* The receiver's connection to the server is replaced while the sender's
\* stays: what was on its way over the old one is lost, and the server tells
\* the senders of transfers it knows of, or of none.
Reconnect(l) ==
  /\ l \in Relayed /\ up[l]
  /\ Spend("drops")
  /\ \E k \in 0..Len(net[l]) : net' = [net EXCEPT ![l] = SubSeq(@, k + 1, Len(@))]
  /\ \E orphaned \in SUBSET {t \in Transfers : snd[t].link = l /\ snd[t].pc # "start"} :
       acks' = [acks EXCEPT ![l] = @ \cup {[t |-> t, ok |-> FALSE] : t \in orphaned}]
  /\ UNCHANGED <<sender, up, files, at, dead, list, live>>

\* Service.Restart: Stop ends the Run loop and closes the links of the node,
\* whose readers finish what they are doing; the next node starts with an
\* empty table.  The list and the folder stay.
Restart ==
  /\ live + 1 \in Nodes
  /\ live' = live + 1
  /\ up' = [l \in Links |-> NodeOf[l] = live + 1]
  /\ net' = [l \in Links |-> <<>>]
  /\ UNCHANGED <<sender, acks, files, at, dead, list, spent>>

-----------------------------------------------------------------------------
SendFile(t) ==
  \/ SendStart(t) \/ SendChunk(t) \/ SendEnd(t)
  \/ SendFails(t) \/ SendStops(t) \/ SendConfirmed(t)

HandleFile(l) ==
  \/ Take(l) \/ StartRefused(l) \/ StartAccepted(l)
  \/ ChunkRefused(l) \/ ChunkTaken(l) \/ Progress(l) \/ FailAbort(l) \/ FailForget(l)
  \/ EndTaken(l) \/ EndDiscard(l) \/ EndCommit(l) \/ EndRename(l) \/ Acknowledge(l)

Received(r) == Match(r) \/ Add(r) \/ Mark(r)

Next ==
  \/ \E t \in Transfers : Begin(t) \/ SendFile(t)
  \/ \E l \in Links : HandleFile(l) \/ Break(l) \/ Lost(l) \/ Reconnect(l)
  \/ \E l \in Links : \E a \in acks[l] : AckArrives(l, a)
  \/ \E r \in Threads : Received(r)
  \/ \E n \in Nodes : \E t \in dead[n] : ExpireAbort(n, t)
  \/ Expire \/ Restart

Spec == Init /\ [][Next]_vars

\* A send goes on once begun: it has a timeout.  Readers and Run loops go on,
\* and the loop's ticker finds what has gone quiet.
Fairness ==
  /\ \A t \in Transfers : WF_vars(SendFile(t))
  /\ \A l \in Links : WF_vars(HandleFile(l))
  /\ \A r \in Threads : WF_vars(Received(r))
  /\ \A n \in Nodes : WF_vars(\E t \in dead[n] : ExpireAbort(n, t))
  /\ WF_vars(Expire)

FairSpec == Spec /\ Fairness

-----------------------------------------------------------------------------
(* Properties.                                                             *)

Stored == {t \in Transfers : writer[t] = "stored"}

\* A file that has its final name holds every chunk, whatever failed, expired
\* or was cut off on the way (handleFile's checks, writer.done).
WholeFiles ==
  \A f \in Paths : folder[f] # None => disk[folder[f]] = Chunks[folder[f]]

\* A file that was stored is not shown as under way for ever, which would hold
\* up automatic updates (Service.busy), if no other file of its name is on its
\* way: whoever reported progress or an end before, OnReceived finds the entry.
Calm ==
  /\ \A l \in Links : net[l] = <<>>
  /\ \A r \in Threads : at[r] = Idle
  /\ \A n \in Nodes : dead[n] = {}

StoredNotBusy ==
  Calm => \A i \in Shown : list[i].of \in Stored => list[i].state # "active"

\* Senders and folder implement Delivery: a transfer is stored at most once,
\* and a sender that is told "ok" has its file stored.
Promise == INSTANCE Delivery
  WITH stored <- Stored, outcome <- [t \in Transfers |-> snd[t].result]

Implements == Promise!DeliverySpec

\* Every transfer ends: the sender returns, and the receiver keeps neither an
\* entry in its table nor an unfinished temporary file.
Over(t) == snd[t].pc \in {"idle", "done"} /\ t \notin incoming /\ writer[t] \notin {"open", "closing"}

EveryTransferEnds == \A t \in Transfers : []<>Over(t)

-----------------------------------------------------------------------------
(* Why Implements and WholeFiles hold: the invariant that is inductive.    *)

\* Whatever is about t travels on the link its sender chose, after its start.
Routed ==
  /\ \A l \in Links : \A i \in 1..Len(net[l]) : snd[net[l][i].t].link = l
  /\ \A l \in Links : at[l].pc # "idle" => snd[at[l].t].link = l

\* The place of a start that has not been answered; there is one at most, and
\* until then t has no writer.
IsStart(l, i, t) == net[l][i].kind = "start" /\ net[l][i].t = t

StartOnce ==
  \A t \in Transfers :
    /\ snd[t].pc \in {"idle", "start"} =>
         /\ writer[t] = "none"
         /\ \A l \in Links : ~(at[l].pc # "idle" /\ at[l].t = t)
         /\ \A l \in Links : \A i \in 1..Len(net[l]) : net[l][i].t # t
    /\ \A l \in Links :
         /\ at[l].pc = "start" /\ at[l].t = t => writer[t] = "none"
         /\ \A i \in 1..Len(net[l]) : IsStart(l, i, t) =>
              /\ writer[t] = "none" /\ ~(at[l].pc = "start" /\ at[l].t = t)
              /\ \A j \in 1..Len(net[l]) : IsStart(l, j, t) => j = i

\* The file holds what was counted, but for a chunk that has failed and whose
\* reader is about to forget the transfer.
Failing(t) == \E l \in Links : at[l].t = t /\ at[l].pc \in {"abort", "forget"}

FileCounted ==
  /\ \A t \in Transfers :
       /\ writer[t] = "none" => disk[t] = got[t]
       /\ t \in incoming => writer[t] # "none"
       /\ t \in incoming /\ ~Failing(t) => disk[t] = got[t]
  /\ \A l \in Links :
       /\ at[l].pc \notin {"idle", "start"} => writer[at[l].t] # "none"
       /\ at[l].pc \in {"chunk", "end"} => disk[at[l].t] = got[at[l].t]
       /\ at[l].pc \in {"commit", "rename"} => disk[at[l].t] = Chunks[at[l].t]
       /\ at[l].pc = "rename" => writer[at[l].t] = "closing"
  /\ \A f \in Paths : folder[f] # None => writer[folder[f]] = "stored"

\* An "ok" anywhere is about a stored file.
OkIsStored ==
  /\ \A r \in Threads : at[r].ok => at[r].t \in Stored
  /\ \A l \in Links : \A a \in acks[l] : a.ok => a.t \in Stored
  /\ \A t \in Transfers :
       /\ TRUE \in fileAcks[t] => t \in Stored
       /\ snd[t].pc # "done" => snd[t].result = "none"

\* Holds in every reachable state, and carries WholeFiles and the steps of
\* Delivery through every step.
Inductive == Routed /\ StartOnce /\ FileCounted /\ OkIsStored /\ WholeFiles

-----------------------------------------------------------------------------
(* Why StoredNotBusy holds for a file that shares its name with no other.  *)

SameFile(t, u) == Label[t] = Label[u]

Alone(t) == \A u \in Transfers : SameFile(u, t) => u = t

\* Run loop n has taken t out of the table and has not finished with it.
Expired(n, t) == t \in dead[n] \/ (at[n].pc # "idle" /\ at[n].t = t)

\* A transfer that has not left the table has not expired; it expires once; and
\* one whose file is being committed has left the table and gets no more chunks.
LeavesOnce ==
  /\ \A t \in Transfers :
       /\ t \in incoming \/ writer[t] = "none" => \A n \in Nodes : ~Expired(n, t)
       /\ \A n, o \in Nodes : Expired(n, t) /\ Expired(o, t) => n = o
       /\ t \in incoming => writer[t] \notin {"closing", "stored"}
  /\ \A l \in Links :
       /\ at[l].pc \in {"commit", "rename"} => at[l].t \notin incoming
       /\ at[l].pc \in {"chunk", "progress"} => writer[at[l].t] \notin {"closing", "stored"}

\* OnReceived has chosen entry i and is about to mark it.
Claimed(i) == \E r \in Threads : at[r].pc = "mark" /\ at[r].n = i

\* The list shows one entry of OnProgress per transfer; an entry that OnReceived
\* has added is active until that call marks it; and OnReceived marks an entry
\* of its own file's name and device.
ListKept ==
  /\ \A i, j \in Shown :
       list[i].progress /\ list[j].progress /\ list[i].of = list[j].of => i = j
  /\ \A i \in Shown : list[i].state = "active" /\ ~list[i].progress => Claimed(i)
  /\ \A r \in Threads : at[r].pc = "mark" =>
       at[r].n \in 1..Len(list) /\ SameFile(list[at[r].n].of, at[r].t)

\* Entries of t that nobody is about to mark: none is left when a Run loop and a
\* reader have both got hold of t and the Run loop was first, nor when t is
\* stored and its reader has been through OnReceived's search.
Busy(t) == {i \in Shown : list[i].of = t /\ list[i].state = "active" /\ ~Claimed(i)}

Late == {"chunk", "abort", "forget", "end", "discard", "commit", "rename", "match"}

Racing(t) ==
  \E l \in Links, n \in Nodes :
    /\ at[l].t = t /\ at[l].pc \in Late
    /\ at[n].t = t /\ at[n].pc \in {"add", "mark"}

Reported(t) == t \in Stored /\ \A l \in Links : ~(at[l].pc = "match" /\ at[l].t = t)

BusyFound ==
  \A t \in Transfers : Alone(t) /\ (Racing(t) \/ Reported(t)) => Busy(t) = {}

\* StoredNotBusy for the files whose name no other file of their device has.
AloneNotBusy ==
  Calm => \A i \in Shown :
            list[i].of \in Stored /\ Alone(list[i].of) => list[i].state # "active"

-----------------------------------------------------------------------------
(* What becomes of temporary files, and of stored ones.                    *)

\* Somebody has t in hand who will move or remove its temporary file.
Owner(t) ==
  \/ t \in incoming \/ \E n \in Nodes : t \in dead[n]
  \/ \E l \in Links : at[l].t = t /\ at[l].pc \in {"commit", "discard", "rename"}

\* The inductive form: no step, of a reader or of a Run loop, lets go of an
\* unfinished file before it is moved or removed; and a transfer in the table has
\* its file, until a reader that gives it up is about to forget it.
Owned ==
  /\ \A t \in Transfers :
       /\ writer[t] \in {"open", "closing"} => Owner(t)
       /\ writer[t] = "closing" => \E l \in Links : at[l].t = t /\ at[l].pc = "rename"
       /\ t \in incoming /\ ~Failing(t) => writer[t] = "open"
  /\ \A l \in Links :
       /\ at[l].pc = "forget" => writer[at[l].t] \notin {"open", "closing"}
       /\ at[l].pc = "discard" => at[l].t \notin incoming

\* Between messages the temporary files are those of the transfers in the table,
\* where the expiry finds them.
TempFilesListed ==
  Calm => \A t \in Transfers : writer[t] \in {"open", "closing"} <=> t \in incoming

\* uniquePath looks for a free path and Rename takes it later: no two readers are
\* between the two for files of one name.
RenamesApart ==
  \A k, l \in Links :
    at[k].pc = "rename" /\ at[l].pc = "rename" /\ Name[at[k].t] = Name[at[l].t] => k = l

InFolder(t) == \E n \in 1..Cardinality(Transfers) : folder[<<Name[t], n>>] = t

\* The path a reader has chosen is free until it moves its file there, and what
\* is stored keeps its path.
Kept ==
  /\ \A t \in Stored : InFolder(t)
  /\ \A l \in Links : at[l].pc = "rename" => folder[<<Name[at[l].t], at[l].n>>] = None
  /\ \A t \in Transfers : snd[t].result = "ok" => t \in Stored

\* A file whose sender was told "ok" is in the folder, whole, and stays there.
SentIsThere ==
  \A t \in Transfers : snd[t].result = "ok" => InFolder(t) /\ disk[t] = Chunks[t]
=============================================================================
