------------------------------ MODULE ClipSync ------------------------------
(***************************************************************************)
(* Clip synchronisation between the devices of one group: node.Node with   *)
(* the threads that call it, the local clipboard it watches and writes,    *)
(* and the links the peer manager gives it and takes away.                 *)
(*                                                                         *)
(* A connection c joins two ports, one at each device.  What the program   *)
(* does under one hold of Node.mu is one action; between two holds, and    *)
(* around every clipboard call, any other thread of the device may run.    *)
(* A message is sent by a goroutine of its own, so the messages in flight  *)
(* to a port are a set and arrive in any order.                            *)
(***************************************************************************)
EXTENDS History

CONSTANTS
  Conns,              \* connections that can exist at one time
  Dialer, Acceptor,   \* the device at either end of a connection
  NoContent,          \* an empty clipboard, or one no backend can read
  StartContents,      \* what a clipboard may hold when a device starts
  ColdStart,          \* devices that begin at the top of Run; the others are
                      \* past it, which any device is before its first copy
  Linked,             \* connections up from the start, which any connection is
                      \* before the first copy if it comes early enough
  Watching,           \* devices that run Node.Run (others only handle clips)
  Users,              \* devices somebody copies on
  Marks,              \* whether source apps mark copies as sensitive
  Oversized,          \* contents valid() refuses
  Readable,           \* Readable[d]: contents d can open and has a type for
  Clock,              \* the readings of the devices' unsynchronised clocks
  SeenLimit,          \* markSeen forgets the oldest id beyond this many
  WithHistory,        \* whether New was given a History
  ClipboardMayFail,   \* whether clipboard calls may return an error
  Budget              \* bounds: how often the environment may act, and how
                      \* many clips the group may stamp

ASSUME ClipSyncAssumption ==
  /\ Dialer \in [Conns -> Devices]
  /\ Acceptor \in [Conns -> Devices]
  /\ \A c \in Conns : Dialer[c] # Acceptor[c]
  /\ NoContent \notin Contents
  /\ StartContents \subseteq Contents \cup {NoContent}
  /\ ColdStart \subseteq Devices
  /\ Linked \subseteq Conns
  /\ Watching \subseteq Devices
  /\ Users \subseteq Devices
  /\ Marks \subseteq BOOLEAN
  /\ Oversized \subseteq Contents
  /\ Readable \in [Devices -> SUBSET Contents]
  /\ Clock \subseteq Nat
  /\ SeenLimit \in Nat \ {0}
  /\ WithHistory \in BOOLEAN /\ ClipboardMayFail \in BOOLEAN
  /\ Budget \in [{"copies", "clips", "connects", "breaks", "restarts", "settings"} -> Nat]

Port == Conns \X {"dial", "accept"}

Dev(p) == IF p[2] = "dial" THEN Dialer[p[1]] ELSE Acceptor[p[1]]

Peer(p) == <<p[1], IF p[2] = "dial" THEN "accept" ELSE "dial">>

\* The threads that run LocalCopy: the poll loop, and the UI through Recopy.
Threads == {"run", "ui"}

VARIABLES
  current,    \* current[d]: Node.current
  seen,       \* seen[d]: Node.seenOrder (Node.seen is its range)
  lastHash,   \* lastHash[d]: content last seen on or written to the clipboard
  lastSeq,    \* lastSeq[d]: change counter last acted upon
  settings,   \* settings[d]: Node.settings
  hist,       \* hist[d]: History.items
  cb,         \* cb[d]: what is on d's clipboard, and who put it there
  cbSeq,      \* cbSeq[d]: the clipboard's change counter
  st,         \* st[p]: "off", "ready" (connected), "up" (AddLink done)
  open,       \* open[c]: both ends still have the connection
  wire,       \* wire[p]: clips in flight to p, unsent goroutines included
  rd,         \* rd[p]: the reader of p inside Node.Handle
  loc,        \* loc[d][t]: thread t of d inside Run, poll or LocalCopy
  issued,     \* history: clips stamped in a process life that reached its end
  held,       \* history: clips that have been current in this life of d
  got,        \* history: clips made or received in this life of d
  dropped,    \* history: clips d refused: paused, unreadable, unknown type
  spent       \* how much of Budget is used

node == <<current, seen, lastHash, lastSeq, settings, hist>>
clipboard == <<cb, cbSeq>>
net == <<st, open, wire>>
history == <<issued, held, got, dropped>>
vars == <<node, clipboard, net, rd, loc, history, spent>>

-----------------------------------------------------------------------------
(* Values.                                                                 *)

Copied == [content : Contents \cup {NoContent}, sensitive : BOOLEAN]

Board(content, sensitive) == [content |-> content, sensitive |-> sensitive]

NoCopy == Board(NoContent, FALSE)

Handler == [pc : {"idle", "open", "write", "seq", "store", "hist"},
            m : MaybeClip, seq : Nat]

Handling(pc, m, seq) == [pc |-> pc, m |-> m, seq |-> seq]

Idle == Handling("idle", NoClip, 0)

Watcher == [pc : {"boot", "bootread", "boothash", "idle", "poll", "compare",
                  "read", "copy", "seal", "hist"},
            m : MaybeClip, seq : Nat, c : Copied]

Doing(pc, m, seq, c) == [pc |-> pc, m |-> m, seq |-> seq, c |-> c]

Resting == Doing("idle", NoClip, 0, NoCopy)

Starting == Doing("boot", NoClip, 0, NoCopy)

Hash(c) == c.content

TypeOK ==
  /\ current \in [Devices -> MaybeClip]
  /\ seen \in [Devices -> Seq(Ids)]
  /\ lastHash \in [Devices -> Contents \cup {NoContent}]
  /\ lastSeq \in [Devices -> Nat]
  /\ settings \in [Devices -> [paused : BOOLEAN, skipSensitive : BOOLEAN]]
  /\ hist \in [Devices -> Seq(HistoryItem)]
  /\ cb \in [Devices -> Copied]
  /\ cbSeq \in [Devices -> Nat]
  /\ st \in [Port -> {"off", "ready", "up"}]
  /\ open \in [Conns -> BOOLEAN]
  /\ wire \in [Port -> SUBSET Clip]
  /\ rd \in [Port -> Handler]
  /\ loc \in [Devices -> [Threads -> Watcher]]
  /\ issued \subseteq Clip
  /\ held \in [Devices -> SUBSET Clip]
  /\ got \in [Devices -> SUBSET Clip]
  /\ dropped \in [Devices -> SUBSET Clip]
  /\ spent \in [DOMAIN Budget -> Nat]

Init ==
  /\ current = [d \in Devices |-> NoClip]
  /\ seen = [d \in Devices |-> <<>>]
  /\ lastSeq = [d \in Devices |-> IF d \in ColdStart THEN 0 ELSE 1]
  /\ settings = [d \in Devices |-> [paused |-> FALSE, skipSensitive |-> TRUE]]
  /\ hist = [d \in Devices |-> <<>>]
  /\ \E c \in [Devices -> StartContents] :
       /\ cb = [d \in Devices |-> Board(c[d], FALSE)]
       /\ lastHash = [d \in Devices |-> IF d \in ColdStart THEN NoContent ELSE c[d]]
  /\ cbSeq = [d \in Devices |-> 1]
  /\ st = [p \in Port |-> IF p[1] \in Linked THEN "up" ELSE "off"]
  /\ open = [c \in Conns |-> c \in Linked]
  /\ wire = [p \in Port |-> {}]
  /\ rd = [p \in Port |-> Idle]
  /\ loc = [d \in Devices |-> [t \in Threads |->
              IF t = "run" /\ d \in ColdStart THEN Starting ELSE Resting]]
  /\ issued = {}
  /\ held = [d \in Devices |-> {}]
  /\ got = [d \in Devices |-> {}]
  /\ dropped = [d \in Devices |-> {}]
  /\ spent = [k \in DOMAIN Budget |-> 0]

Spend(k) ==
  /\ spent[k] < Budget[k]
  /\ spent' = [spent EXCEPT ![k] = @ + 1]

-----------------------------------------------------------------------------
(* Links come and go.                                                      *)

\* Node.links: the ports AddLink has registered.
Links(d) == {p \in Port : Dev(p) = d /\ st[p] = "up"}

\* What Node.send puts on the way; on a closed connection it only fails.
Sent(from, m) ==
  [p \in Port |-> IF Peer(p) \in from /\ open[p[1]] THEN wire[p] \cup {m} ELSE wire[p]]

Connect(c) ==
  /\ \A p \in Port : p[1] = c => st[p] = "off"
  /\ Spend("connects")
  /\ st' = [p \in Port |-> IF p[1] = c THEN "ready" ELSE st[p]]
  /\ open' = [open EXCEPT ![c] = TRUE]
  /\ UNCHANGED <<node, clipboard, wire, rd, loc, history>>

\* Mutant: no nil check on the clip sent to a new link.
AddLinkBlind(p) ==
  /\ st[p] = "ready"
  /\ st' = [st EXCEPT ![p] = "up"]
  /\ wire' = Sent({p}, current[Dev(p)])
  /\ UNCHANGED <<node, clipboard, open, rd, loc, history, spent>>

\* Mutant: a new link is not sent the current clip.
AddLinkSilent(p) ==
  /\ st[p] = "ready"
  /\ st' = [st EXCEPT ![p] = "up"]
  /\ UNCHANGED <<node, clipboard, open, wire, rd, loc, history, spent>>

AddLink(p) ==
  /\ st[p] = "ready"
  /\ st' = [st EXCEPT ![p] = "up"]
  /\ wire' = IF current[Dev(p)] = NoClip THEN wire ELSE Sent({p}, current[Dev(p)])
  /\ UNCHANGED <<node, clipboard, open, rd, loc, history, spent>>

\* Either end, or the network, closes the connection.
Break(c) ==
  /\ open[c]
  /\ Spend("breaks")
  /\ open' = [open EXCEPT ![c] = FALSE]
  /\ UNCHANGED <<node, clipboard, st, wire, rd, loc, history>>

\* The reader fails, outside Handle; what is still in flight is lost.
RemoveLink(p) ==
  /\ st[p] = "up" /\ ~open[p[1]] /\ rd[p] = Idle
  /\ st' = [st EXCEPT ![p] = "off"]
  /\ wire' = [wire EXCEPT ![p] = {}]
  /\ UNCHANGED <<node, clipboard, open, rd, loc, history, spent>>

-----------------------------------------------------------------------------
(* Node.Handle, in the reader of port p.                                   *)

MarkSeen(s, id) ==
  IF id \in Range(s) THEN s
  ELSE LET longer == Append(s, id)
       IN  IF Len(longer) > SeenLimit THEN Tail(longer) ELSE longer

\* The clip m is taken from the connection; what follows is done with it.
Arrive(p, m) ==
  /\ st[p] = "up" /\ rd[p] = Idle /\ m \in wire[p]
  /\ wire' = [wire EXCEPT ![p] = @ \ {m}]
  /\ got' = [got EXCEPT ![Dev(p)] = @ \cup {m}]
  /\ UNCHANGED <<current, lastHash, lastSeq, settings, hist, clipboard, st, open,
                 loc, issued, held, spent>>

\* Mutants: the id is not looked up; stamps alone are compared.
KnownByAge(d, m) == ~Newer(m, current[d])

KnownByTime(d, m) ==
  m.id \in Range(seen[d]) \/ (current[d] # NoClip /\ m.time <= current[d].time)

\* The early return on dup, or on a clip that is not newer.
Known(d, m) == m.id \in Range(seen[d]) \/ ~Newer(m, current[d])

ReceivePaused(p, m) ==
  LET d == Dev(p) IN
  /\ Arrive(p, m)
  /\ settings[d].paused
  /\ dropped' = [dropped EXCEPT ![d] = @ \cup {m}]
  /\ UNCHANGED <<seen, rd>>

ReceiveKnown(p, m) ==
  LET d == Dev(p) IN
  /\ Arrive(p, m)
  /\ ~settings[d].paused /\ Known(d, m)
  /\ seen' = [seen EXCEPT ![d] = MarkSeen(@, m.id)]
  /\ UNCHANGED <<dropped, rd>>

ReceiveNew(p, m) ==
  LET d == Dev(p) IN
  /\ Arrive(p, m)
  /\ ~settings[d].paused /\ ~Known(d, m)
  /\ seen' = [seen EXCEPT ![d] = MarkSeen(@, m.id)]
  /\ rd' = [rd EXCEPT ![p] = Handling("open", m, 0)]
  /\ UNCHANGED dropped

At(p, pc) == rd[p].pc = pc

\* The clip between Handle's two holds of the lock.
Opening(p) == IF At(p, "open") THEN {rd[p].m} ELSE {}

Goto(p, pc) == rd' = [rd EXCEPT ![p] = Handling(pc, rd[p].m, 0)]

\* OpenClip fails, or contentFrom does not know the type or size.
HandleUnreadable(p) ==
  LET d == Dev(p) IN
  /\ At(p, "open")
  /\ rd[p].m.content \notin Readable[d] \ Oversized
  /\ dropped' = [dropped EXCEPT ![d] = @ \cup {rd[p].m}]
  /\ rd' = [rd EXCEPT ![p] = Idle]
  /\ UNCHANGED <<node, clipboard, net, loc, issued, held, got, spent>>

\* Mutants: no second look at current; a second look at seen instead.
OvertakenNever(p) == FALSE

\* Something newer arrived while decrypting.
Overtaken(p) == ~Newer(rd[p].m, current[Dev(p)])

HandleStale(p) ==
  /\ At(p, "open")
  /\ rd[p].m.content \in Readable[Dev(p)] \ Oversized
  /\ Overtaken(p)
  /\ rd' = [rd EXCEPT ![p] = Idle]
  /\ UNCHANGED <<node, clipboard, net, loc, history, spent>>

\* Where Handle goes when it is done with the clipboard.
Finish(p) ==
  rd' = [rd EXCEPT ![p] = IF WithHistory THEN Handling("hist", rd[p].m, 0) ELSE Idle]

HandleApply(p) ==
  LET d == Dev(p)
      m == rd[p].m
  IN
  /\ At(p, "open")
  /\ m.content \in Readable[d] \ Oversized
  /\ ~Overtaken(p)
  /\ current' = [current EXCEPT ![d] = m]
  /\ held' = [held EXCEPT ![d] = @ \cup {m}]
  /\ lastHash' = [lastHash EXCEPT ![d] = m.content]
  /\ wire' = Sent(Links(d) \ {p}, m)
  /\ IF m.content = lastHash[d] THEN Finish(p) ELSE Goto(p, "write")
  /\ UNCHANGED <<seen, lastSeq, settings, hist, clipboard, st, open, loc,
                 issued, got, dropped, spent>>

HandleWrite(p) ==
  LET d == Dev(p) IN
  /\ At(p, "write")
  /\ cb' = [cb EXCEPT ![d] = Board(rd[p].m.content, FALSE)]
  /\ cbSeq' = [cbSeq EXCEPT ![d] = @ + 1]
  /\ Goto(p, "seq")
  /\ UNCHANGED <<node, net, loc, history, spent>>

HandleSeq(p) ==
  /\ At(p, "seq")
  /\ rd' = [rd EXCEPT ![p] = Handling("store", rd[p].m, cbSeq[Dev(p)])]
  /\ UNCHANGED <<node, clipboard, net, loc, history, spent>>

HandleStore(p) ==
  /\ At(p, "store")
  /\ lastSeq' = [lastSeq EXCEPT ![Dev(p)] = rd[p].seq]
  /\ Finish(p)
  /\ UNCHANGED <<current, seen, lastHash, settings, hist, clipboard, net, loc, history, spent>>

\* cb.Write or cb.Seq returns an error: the rest of the clipboard part is skipped.
HandleFails(p) ==
  /\ ClipboardMayFail
  /\ At(p, "write") \/ At(p, "seq")
  /\ Finish(p)
  /\ UNCHANGED <<node, clipboard, net, loc, history, spent>>

HandleHistory(p) ==
  LET d == Dev(p) IN
  /\ At(p, "hist")
  /\ hist' = [hist EXCEPT ![d] = HistoryAdd(@, rd[p].m, FALSE)]
  /\ rd' = [rd EXCEPT ![p] = Idle]
  /\ UNCHANGED <<current, seen, lastHash, lastSeq, settings, clipboard, net, loc, history, spent>>

-----------------------------------------------------------------------------
(* Node.Run, Node.poll and Node.LocalCopy, in thread t of device d.        *)

In(d, t, pc) == loc[d][t].pc = pc

\* The clip between LocalCopy's two holds of the lock.
Sealing(d, t) == IF In(d, t, "seal") THEN {loc[d][t].m} ELSE {}

Step(d, t, w) == loc' = [loc EXCEPT ![d][t] = w]

\* Run before its loop: three steps, none under the lock.
BootSeq(d) ==
  /\ In(d, "run", "boot")
  /\ \/ lastSeq' = [lastSeq EXCEPT ![d] = cbSeq[d]]
     \/ ClipboardMayFail /\ UNCHANGED lastSeq
  /\ Step(d, "run", Doing("bootread", NoClip, 0, NoCopy))
  /\ UNCHANGED <<current, seen, lastHash, settings, hist, clipboard, net, rd, history, spent>>

BootRead(d) ==
  /\ In(d, "run", "bootread")
  /\ \/ /\ cb[d].content # NoContent
        /\ Step(d, "run", Doing("boothash", NoClip, 0, cb[d]))
     \/ /\ cb[d].content = NoContent \/ ClipboardMayFail
        /\ Step(d, "run", Resting)
  /\ UNCHANGED <<node, clipboard, net, rd, history, spent>>

BootHash(d) ==
  /\ In(d, "run", "boothash")
  /\ lastHash' = [lastHash EXCEPT ![d] = Hash(loc[d]["run"].c)]
  /\ Step(d, "run", Resting)
  /\ UNCHANGED <<current, seen, lastSeq, settings, hist, clipboard, net, rd, history, spent>>

\* poll: the ticker starts one in "run", Recopy one in "ui".
PollSeq(d, t) ==
  /\ IF t = "run" THEN d \in Watching /\ In(d, t, "idle") ELSE In(d, t, "poll")
  /\ Step(d, t, Doing("compare", NoClip, cbSeq[d], NoCopy))
  /\ UNCHANGED <<node, clipboard, net, rd, history, spent>>

PollUnchanged(d, t) ==
  /\ In(d, t, "compare")
  /\ loc[d][t].seq = lastSeq[d]
  /\ Step(d, t, Resting)
  /\ UNCHANGED <<node, clipboard, net, rd, history, spent>>

PollChanged(d, t) ==
  /\ In(d, t, "compare")
  /\ loc[d][t].seq # lastSeq[d]
  /\ lastSeq' = [lastSeq EXCEPT ![d] = loc[d][t].seq]
  /\ Step(d, t, Doing("read", NoClip, 0, NoCopy))
  /\ UNCHANGED <<current, seen, lastHash, settings, hist, clipboard, net, rd, history, spent>>

\* Bound: past Budget.clips the clipboard reads as if it held nothing to sync.
Room ==
  Cardinality(issued)
    + Cardinality({w \in Devices \X Threads : In(w[1], w[2], "copy")}) < Budget["clips"]

PollRead(d, t) ==
  /\ In(d, t, "read")
  /\ cb[d].content # NoContent /\ Room
  /\ Step(d, t, Doing("copy", NoClip, 0, cb[d]))
  /\ UNCHANGED <<node, clipboard, net, rd, history, spent>>

\* Seq or Read returns an error, or there is nothing to read.
PollFails(d, t) ==
  /\ \/ ClipboardMayFail /\ (In(d, t, "read") \/ In(d, t, "poll"))
     \/ In(d, t, "read") /\ (cb[d].content = NoContent \/ ~Room)
  /\ Step(d, t, Resting)
  /\ UNCHANGED <<node, clipboard, net, rd, history, spent>>

\* LocalCopy's first hold of the lock, and the check before it.
Echo(d, c) == Hash(c) = lastHash[d]

Withheld(d, c) == settings[d].paused \/ (c.sensitive /\ settings[d].skipSensitive)

CopyIgnored(d, t) ==
  LET c == loc[d][t].c IN
  /\ In(d, t, "copy")
  /\ c.content \in Oversized \/ Echo(d, c)
  /\ Step(d, t, Resting)
  /\ UNCHANGED <<node, clipboard, net, rd, history, spent>>

CopyWithheld(d, t) ==
  LET c == loc[d][t].c IN
  /\ In(d, t, "copy")
  /\ c.content \notin Oversized /\ ~Echo(d, c) /\ Withheld(d, c)
  /\ lastHash' = [lastHash EXCEPT ![d] = Hash(c)]
  /\ Step(d, t, Resting)
  /\ UNCHANGED <<current, seen, lastSeq, settings, hist, clipboard, net, rd, history, spent>>

Stamped(d, t, m) ==
  LET c == loc[d][t].c IN
  /\ In(d, t, "copy")
  /\ c.content \notin Oversized /\ ~Echo(d, c) /\ ~Withheld(d, c)
  /\ lastHash' = [lastHash EXCEPT ![d] = Hash(c)]
  /\ issued' = issued \cup {m}
  /\ Step(d, t, Doing("seal", m, 0, c))
  /\ UNCHANGED <<current, seen, lastSeq, settings, hist, clipboard, net, rd,
                 held, got, dropped, spent>>

LocalStamp(d, t) ==
  \E now \in Clock, id \in Ids \ {m.id : m \in issued} :
    Stamped(d, t, [id |-> id, origin |-> d, time |-> Stamp(now, current[d]),
                   content |-> loc[d][t].c.content])

\* LocalCopy's second hold of the lock: the sealed clip becomes current.
LocalSeal(d, t) ==
  LET m == loc[d][t].m IN
  /\ In(d, t, "seal")
  /\ current' = [current EXCEPT ![d] = m]
  /\ seen' = [seen EXCEPT ![d] = MarkSeen(@, m.id)]
  /\ held' = [held EXCEPT ![d] = @ \cup {m}]
  /\ got' = [got EXCEPT ![d] = @ \cup {m}]
  /\ wire' = Sent(Links(d), m)
  /\ Step(d, t, IF WithHistory THEN Doing("hist", m, 0, NoCopy) ELSE Resting)
  /\ UNCHANGED <<lastHash, lastSeq, settings, hist, clipboard, st, open, rd,
                 issued, dropped, spent>>

LocalHistory(d, t) ==
  /\ In(d, t, "hist")
  /\ hist' = [hist EXCEPT ![d] = HistoryAdd(@, loc[d][t].m, TRUE)]
  /\ Step(d, t, Resting)
  /\ UNCHANGED <<current, seen, lastHash, lastSeq, settings, clipboard, net, rd, history, spent>>

-----------------------------------------------------------------------------
(* The user, and the process.                                              *)

UserCopy(d) ==
  /\ Spend("copies")
  /\ \E c \in Contents, sensitive \in Marks :
       cb' = [cb EXCEPT ![d] = Board(c, sensitive)]
  /\ cbSeq' = [cbSeq EXCEPT ![d] = @ + 1]
  /\ UNCHANGED <<node, net, rd, loc, history>>

\* Recopy: a history item goes back on the clipboard, then poll runs.
Recopy(d) ==
  /\ In(d, "ui", "idle")
  /\ Spend("copies")
  /\ \E i \in 1..Len(hist[d]) :
       cb' = [cb EXCEPT ![d] = Board(hist[d][i].clip.content, FALSE)]
  /\ cbSeq' = [cbSeq EXCEPT ![d] = @ + 1]
  /\ Step(d, "ui", Doing("poll", NoClip, 0, NoCopy))
  /\ UNCHANGED <<node, net, rd, history>>

SetSettings(d) ==
  /\ Spend("settings")
  /\ \E paused, skip \in BOOLEAN :
       settings' = [settings EXCEPT ![d] = [paused |-> paused, skipSensitive |-> skip]]
  /\ UNCHANGED <<current, seen, lastHash, lastSeq, hist, clipboard, net, rd, loc, history>>

\* Mutant: the seen ids outlive the process, the current clip does not.
NewNodeKeepsSeen(d) ==
  /\ current' = [current EXCEPT ![d] = NoClip]
  /\ lastHash' = [lastHash EXCEPT ![d] = NoContent]
  /\ lastSeq' = [lastSeq EXCEPT ![d] = 0]
  /\ hist' = [hist EXCEPT ![d] = <<>>]
  /\ UNCHANGED seen

NewNode(d) ==
  /\ current' = [current EXCEPT ![d] = NoClip]
  /\ seen' = [seen EXCEPT ![d] = <<>>]
  /\ lastHash' = [lastHash EXCEPT ![d] = NoContent]
  /\ lastSeq' = [lastSeq EXCEPT ![d] = 0]
  /\ hist' = [hist EXCEPT ![d] = <<>>]

\* The process ends and another one starts: New, SetSettings from the config,
\* then Run.  The settings and the system clipboard survive; what was already
\* sent may still arrive elsewhere.
Restart(d) ==
  LET mine == {p \in Port : Dev(p) = d} IN
  /\ Spend("restarts")
  /\ NewNode(d)
  /\ st' = [p \in Port |-> IF p \in mine THEN "off" ELSE st[p]]
  /\ open' = [c \in Conns |-> open[c] /\ d \notin {Dialer[c], Acceptor[c]}]
  /\ wire' = [p \in Port |-> IF p \in mine THEN {} ELSE wire[p]]
  /\ rd' = [p \in Port |-> IF p \in mine THEN Idle ELSE rd[p]]
  /\ loc' = [loc EXCEPT ![d] = [t \in Threads |-> IF t = "run" THEN Starting ELSE Resting]]
  /\ issued' = issued \ UNION {Sealing(d, t) : t \in Threads}
  /\ held' = [held EXCEPT ![d] = {}]
  /\ got' = [got EXCEPT ![d] = {}]
  /\ dropped' = [dropped EXCEPT ![d] = {}]
  /\ UNCHANGED <<settings, clipboard>>

-----------------------------------------------------------------------------
Receive(p) ==
  \E m \in wire[p] : ReceivePaused(p, m) \/ ReceiveKnown(p, m) \/ ReceiveNew(p, m)

Handle(p) ==
  \/ HandleUnreadable(p) \/ HandleStale(p) \/ HandleApply(p)
  \/ HandleWrite(p) \/ HandleSeq(p) \/ HandleStore(p) \/ HandleFails(p)
  \/ HandleHistory(p)

Run(d) == BootSeq(d) \/ BootRead(d) \/ BootHash(d)

Poll(d, t) ==
  PollSeq(d, t) \/ PollUnchanged(d, t) \/ PollChanged(d, t) \/ PollRead(d, t) \/ PollFails(d, t)

LocalCopy(d, t) ==
  \/ CopyIgnored(d, t) \/ CopyWithheld(d, t) \/ LocalStamp(d, t)
  \/ LocalSeal(d, t) \/ LocalHistory(d, t)

Next ==
  \/ \E c \in Conns : Connect(c) \/ Break(c)
  \/ \E p \in Port : AddLink(p) \/ RemoveLink(p) \/ Receive(p) \/ Handle(p)
  \/ \E d \in Devices : Run(d) \/ Recopy(d) \/ SetSettings(d) \/ Restart(d)
  \/ \E d \in Users : UserCopy(d)
  \/ \E d \in Devices, t \in Threads : Poll(d, t) \/ LocalCopy(d, t)

Spec == Init /\ [][Next]_vars

\* The reader, the goroutines that send and the scheduler keep going; nobody
\* promises that connections come, that users copy or that the poll succeeds.
Fairness ==
  \A p \in Port : WF_vars(AddLink(p)) /\ WF_vars(Receive(p)) /\ WF_vars(Handle(p))

FairSpec == Spec /\ Fairness

-----------------------------------------------------------------------------
(* Properties.                                                             *)

\* Over an open link the peer is always offered our current clip: it is on its
\* way or has arrived (AddLink, and the sends of LocalCopy and Handle, leave
\* no window between them).
Offered ==
  \A p \in Port :
    LET a == Dev(p)
        b == Dev(Peer(p))
    IN  open[p[1]] /\ st[p] = "up" /\ current[a] # NoClip
          => current[a] \in wire[Peer(p)] \cup got[b]

\* No clip that arrives is forgotten: it is being handled, was refused, or the
\* device has held a clip at least as new (Handle's early returns, whatever
\* other readers and copies did between its two holds of the lock).
Accounted(d, m) ==
  \/ m \in dropped[d]
  \/ \E p \in Port : Dev(p) = d /\ m \in Opening(p)
  \/ \E w \in held[d] : AtLeastAsNew(w, m)

Accepted == \A d \in Devices : \A m \in got[d] : Accounted(d, m)

\* Convergence, where the code can promise it: two devices at the ends of a
\* quiet open link hold the same clip, unless one refused the other's clip or
\* fell back behind a clip it had held (LocalSeal).
Regressed(d) == \E w \in held[d] : Newer(w, current[d])

Quiet(p) == open[p[1]] /\ st[p] = "up" /\ wire[p] = {}

NoHandler(d) == \A p \in Port : Dev(p) = d => Opening(p) = {}

NeighboursAgree ==
  \A p \in Port :
    LET a == Dev(p)
        b == Dev(Peer(p))
    IN  /\ Quiet(p) /\ Quiet(Peer(p)) /\ NoHandler(a) /\ NoHandler(b)
        /\ ~Regressed(a) /\ ~Regressed(b)
        /\ current[a] \notin dropped[b] /\ current[b] \notin dropped[a]
        => current[a] = current[b]

\* A clip becomes current at most once in the life of a device: floods over
\* several paths, reconnects and late copies never bring one back (Node.seen).
AppliedOnce ==
  [][\A d \in Devices :
       current'[d] # current[d] /\ current'[d] # NoClip => current'[d] \notin held[d]]_vars

\* The history never shows the same content twice, and never loses a clip
\* that was current for anything but the limits or a newer copy of the same
\* content, however the threads that add to it interleave.
Adding(d) ==
  \/ \E p \in Port : Dev(p) = d /\ rd[p].pc \in {"write", "seq", "store", "hist"}
  \/ \E t \in Threads : In(d, t, "hist")

HistoryComplete ==
  \A d \in Devices :
    /\ \A i, j \in 1..Len(hist[d]) :
         hist[d][i].clip.content = hist[d][j].clip.content => i = j
    /\ WithHistory /\ ~Adding(d) /\ Len(hist[d]) < MaxItems =>
         {m.content : m \in held[d]} = {hist[d][i].clip.content : i \in 1..Len(hist[d])}

\* The devices implement the registers of NewestWins.
Published == {m \in issued : \A d \in Devices, t \in Threads : m \notin Sealing(d, t)}

Registers == INSTANCE NewestWins WITH register <- current, published <- Published

Implements == Registers!LooseSpec

\* Every open link catches up: again and again, the device at p has held a
\* clip at least as new as its peer's, unless it refused that clip.
Behind(p) ==
  LET theirs == current[Dev(Peer(p))]
      d == Dev(p)
  IN  /\ open[p[1]] /\ theirs # NoClip
      /\ theirs \notin dropped[d]
      /\ \A w \in held[d] : ~AtLeastAsNew(w, theirs)

CaughtUp == \A p \in Port : []<>~Behind(p)

-----------------------------------------------------------------------------
(* Why Offered and Accepted hold: the invariant that is inductive.         *)

\* A stamped clip belongs to the thread that seals it until LocalSeal; ids are
\* drawn once, and only published clips travel.
ClipsOwned ==
  /\ \A m, n \in issued : m.id = n.id => m = n
  /\ \A d \in Devices, t \in Threads : \A m \in Sealing(d, t) :
       /\ m \in issued /\ m.origin = d
       /\ \A e \in Devices, u \in Threads : m \in Sealing(e, u) => e = d /\ u = t
  /\ \A p \in Port : wire[p] \subseteq Published
  /\ \A d \in Devices : got[d] \subseteq Published

\* A device has what it holds, opens, sends and remembers the id of, and has
\* held what is current; a link that is gone leaves nothing behind.
ClipsKnown ==
  /\ \A d \in Devices :
       /\ held[d] \subseteq got[d]
       /\ current[d] # NoClip => current[d] \in held[d]
       /\ \A id \in Range(seen[d]) : \E m \in got[d] : m.id = id
  /\ \A p \in Port :
       /\ Opening(p) \subseteq got[Dev(p)]
       /\ open[p[1]] => wire[p] \cup Opening(p) \subseteq got[Dev(Peer(p))]
       /\ st[p] = "off" => ~open[p[1]] /\ wire[p] = {}
       /\ st[p] # "up" => Opening(p) = {}

\* Holds in every reachable state, and carries Offered and Accepted through
\* every step.
Inductive == ClipsOwned /\ ClipsKnown /\ Offered /\ Accepted

-----------------------------------------------------------------------------
(* Why HistoryComplete and AppliedOnce hold.                               *)

\* The clip a reader has yet to add to the history, and that of a local copy.
Reading(p) == IF rd[p].pc \in {"write", "seq", "store", "hist"} THEN {rd[p].m} ELSE {}

Recording(d, t) == IF In(d, t, "hist") THEN {loc[d][t].m} ELSE {}

Shown(h) == {h[i].clip.content : i \in 1..Len(h)}

\* The history shows clips that were current, each content once; what is
\* still to be added was current too.
HistoryHeld ==
  \A d \in Devices :
    /\ \A i, j \in 1..Len(hist[d]) :
         hist[d][i].clip.content = hist[d][j].clip.content => i = j
    /\ Shown(hist[d]) \subseteq {m.content : m \in held[d]}
    /\ \A p \in Port : Dev(p) = d => Reading(p) \subseteq held[d]
    /\ \A t \in Threads : Recording(d, t) \subseteq held[d]

\* What was current is in a history with room left, or a thread is about to
\* add it.
Remembered(d, c) ==
  \/ c \in Shown(hist[d])
  \/ \E p \in Port : Dev(p) = d /\ \E n \in Reading(p) : n.content = c
  \/ \E t \in Threads : \E n \in Recording(d, t) : n.content = c

HistoryOrSoon ==
  WithHistory =>
    \A d \in Devices : Len(hist[d]) < MaxItems => \A m \in held[d] : Remembered(d, m.content)

\* The byte limit leaves room for MaxItems clips of any size.
Ample == \E most \in Nat : (\A c \in Contents : Size[c] <= most) /\ most * MaxItems <= MaxBytes

\* A device knows the id of every clip that was current, and of every clip it
\* opens, which was not current before and which no other reader opens.
SeenOnce ==
  \A d \in Devices :
    /\ \A i, j \in 1..Len(seen[d]) : seen[d][i] = seen[d][j] => i = j
    /\ \A m \in held[d] : m.id \in Range(seen[d])
    /\ \A p \in Port : Dev(p) = d =>
         \A m \in Opening(p) :
           /\ m.id \in Range(seen[d]) /\ m \notin held[d]
           /\ \A q \in Port : Dev(q) = d /\ m \in Opening(q) => q = p

\* A device has met no more clips in its life than markSeen can remember.
Roomy == \A d \in Devices : Cardinality(got[d]) <= SeenLimit

-----------------------------------------------------------------------------
(* What the documentation says and the code does not keep.                 *)

\* "the newest clip wins everywhere": the registers without LateCopy, which
\* LocalCopy takes when a newer clip lands between its two holds of the lock.
NewestWinsEverywhere == Registers!Spec
=============================================================================
