----------------------------- MODULE PeerLinks -----------------------------
(***************************************************************************)
(* Direct links: peer.Manager on every device.  Addresses are learnt from  *)
(* beacons, from the user and from linked peers; candidates are dialled,   *)
(* both ends of a connection shake hands, and each end registers the link  *)
(* on its own, keeps it until it breaks, and removes it.                   *)
(*                                                                         *)
(* One hold of a manager's lock is one action.  A connection is known by   *)
(* who dials which address; the handshake is what comes of it.  Times are  *)
(* left out: what is due at some time (the next attempt at an address, the *)
(* end of a silent link) may happen at any.                                *)
(***************************************************************************)
EXTENDS Naturals, FiniteSets

CONSTANTS
  Devices,
  Addrs,
  Owner,       \* Owner[a]: the device that listens at a; no address changes
               \* hands
  MaxConns,    \* connections from one device to one address at a time
  None,
  Loads        \* what may happen: who can reach which address, what users
               \* have typed in and will, who hears whose beacons, and
               \* bounds: connections at a time (at most MaxConns), cuts,
               \* managers stopped, addresses forgotten

World == [reach : [Devices -> SUBSET Addrs], manual : [Devices -> SUBSET Addrs],
          types : [Devices -> SUBSET SUBSET Addrs], hears : [Devices -> SUBSET Addrs],
          conns : 1..MaxConns, cuts : Nat, stops : Nat, forgets : Nat]

ASSUME PeerLinksAssumption ==
  /\ Owner \in [Addrs -> Devices]
  /\ MaxConns \in Nat \ {0} /\ None \notin Devices
  /\ Loads \subseteq World

VARIABLES
  conn,      \* conn[s]: the connection s, as long as an end of it is left
  known,     \* Manager.known: known[d][p] is the set of addresses of p
  target,    \* Manager.targets
  stopped,   \* managers whose stop channel is closed
  swept,     \* managers whose links the goroutine of Run has closed
  load       \* what is left to happen

vars == <<conn, known, target, stopped, swept, load>>

-----------------------------------------------------------------------------
Slots == [by : Devices, at : Addrs, n : 1..MaxConns]

Ends == {"dial", "accept"}

\* The end that dials is "tcp" before there is a connection; a "linked" end is
\* in Manager.links and in the node.
Stage == {"none", "tcp", "shaking", "shaken", "checked", "linked", "closed"}

Conn == [end : [Ends -> Stage], open : BOOLEAN]

Target == [dialing : BOOLEAN, manual : BOOLEAN, last : Devices \cup {None}]

TypeOK ==
  /\ load \in World
  /\ DOMAIN conn \subseteq Slots /\ \A s \in DOMAIN conn : conn[s] \in Conn
  /\ known \in [Devices -> [Devices -> SUBSET Addrs]]
  /\ target \in [Devices -> [Addrs -> Target]]
  /\ stopped \subseteq Devices /\ swept \subseteq stopped

Init ==
  /\ load \in Loads
  /\ conn = << >>
  /\ known = [d \in Devices |-> [p \in Devices |-> {}]]
  /\ target = [d \in Devices |-> [a \in Addrs |->
       [dialing |-> FALSE, manual |-> a \in load.manual[d], last |-> None]]]
  /\ stopped = {} /\ swept = {}

Spend(b) == load[b] > 0 /\ load' = [load EXCEPT ![b] = @ - 1]

\* The device an end of s belongs to, and the one it is linked with.
Here(s, e) == IF e = "dial" THEN s.by ELSE Owner[s.at]
There(s, e) == IF e = "dial" THEN Owner[s.at] ELSE s.by
Other(e) == IF e = "dial" THEN "accept" ELSE "dial"

\* Manager.links of d, for peer p.
links(d, p) ==
  {l \in (DOMAIN conn) \X Ends :
     conn[l[1]].end[l[2]] = "linked" /\ Here(l[1], l[2]) = d /\ There(l[1], l[2]) = p}

AddrsOf(d) == {a \in Addrs : Owner[a] = d}

\* One end moves on; a connection closed at both ends is gone.
Move(s, e, stage, open) ==
  conn' = IF stage = "closed" /\ conn[s].end[Other(e)] = "closed"
          THEN [t \in DOMAIN conn \ {s} |-> conn[t]]
          ELSE [conn EXCEPT ![s] = [end |-> [@.end EXCEPT ![e] = stage], open |-> open]]

-----------------------------------------------------------------------------
(* Addresses.                                                              *)

\* heard: a beacon.
Heard(d, a) ==
  /\ a \in load.hears[d] /\ Owner[a] # d /\ {d, Owner[a]} \cap stopped = {}
  /\ a \notin known[d][Owner[a]]
  /\ known' = [known EXCEPT ![d][Owner[a]] = @ \cup {a}]
  /\ UNCHANGED <<conn, target, stopped, swept, load>>

\* What peerList of q says about p.
Says(q, p) == IF p = q THEN AddrsOf(q) ELSE known[q][p]

\* learn: what a linked peer knows, itself included, read and delivered in one
\* step.  An older list would add less, and lists are sent again and again.
\* The code takes 8 addresses of a peer from a list; a peer has fewer here.
Learn(s, e) ==
  LET d == Here(s, e)
      q == There(s, e)
      told == [p \in Devices |-> known[d][p] \cup IF p = d THEN {} ELSE Says(q, p)]
  IN /\ \A f \in Ends : conn[s].end[f] = "linked"
     /\ conn[s].open
     /\ told # known[d]
     /\ known' = [known EXCEPT ![d] = told]
     /\ UNCHANGED <<conn, target, stopped, swept, load>>

Types(d, A) == A \in load.types[d] /\ load' = [load EXCEPT !.types[d] = @ \ {A}]

\* SetManual: the addresses the user typed in.
SetManual(d, A) ==
  /\ Types(d, A)
  /\ target' = [target EXCEPT ![d] = [a \in Addrs |-> [@[a] EXCEPT !.manual = (a \in A)]]]
  /\ UNCHANGED <<conn, known, stopped, swept>>

\* addTargets: the addresses Tailscale lists, kept for good.
AddTargets(d, A) ==
  /\ Types(d, A)
  /\ target' = [target EXCEPT ![d] =
       [a \in Addrs |-> [@[a] EXCEPT !.manual = target[d][a].manual \/ a \in A]]]
  /\ UNCHANGED <<conn, known, stopped, swept>>

\* dialCandidates drops what was not heard of for ForgetAfter.
Forget(d, p, a) ==
  /\ Spend("forgets")
  /\ a \in known[d][p] /\ links(d, p) = {}
  /\ known' = [known EXCEPT ![d][p] = @ \ {a}]
  /\ UNCHANGED <<conn, target, stopped, swept>>

-----------------------------------------------------------------------------
(* Dialling.                                                               *)

\* Mutant: an address that is being dialled is tried again.
ConsideredAgain(d, a) == target[d][a].last = None \/ links(d, target[d][a].last) = {}

\* An attempt is not made twice at a time, nor at the address of a link.
Considered(d, a) ==
  /\ ~target[d][a].dialing
  /\ target[d][a].last = None \/ links(d, target[d][a].last) = {}

\* Addresses worth trying: of known peers without a link, and manual ones.
dialCandidates(d) ==
  {a \in Addrs : Considered(d, a) /\
     \/ target[d][a].manual
     \/ \E p \in Devices : links(d, p) = {} /\ a \in known[d][p]}

\* dialLoop: a candidate gets a goroutine that dials; of a tick and a stop
\* that are both there, select may take the tick.
DialLoop(d, a) ==
  /\ d \notin swept /\ a \in dialCandidates(d)
  /\ target' = [target EXCEPT ![d][a].dialing = TRUE]
  /\ \E n \in 1..load.conns :
       LET s == [by |-> d, at |-> a, n |-> n] IN
       /\ s \notin DOMAIN conn
       /\ \A m \in 1..(n - 1) : [s EXCEPT !.n = m] \in DOMAIN conn
       /\ conn' = [t \in DOMAIN conn \cup {s} |->
            IF t = s THEN [end |-> [dial |-> "tcp", accept |-> "none"], open |-> FALSE] ELSE conn[t]]
  /\ UNCHANGED <<known, stopped, swept, load>>

\* A listener is closed after the stop, and before Run closes the links.
Reaches(d, a) == a \in load.reach[d] /\ Owner[a] \notin swept

\* The dialled device accepts: both ends shake hands.
Accepted(s) ==
  /\ conn[s].end["dial"] = "tcp" /\ Reaches(s.by, s.at)
  /\ conn' = [conn EXCEPT ![s] = [end |-> [dial |-> "shaking", accept |-> "shaking"], open |-> TRUE]]
  /\ UNCHANGED <<known, target, stopped, swept, load>>

\* Mutant: an attempt that failed leaves its address taken.
FailedHeld(s) == UNCHANGED target

\* The end of an attempt that failed.
Failed(s) == target' = [target EXCEPT ![s.by][s.at].dialing = FALSE]

DialFails(s) ==
  /\ conn[s].end["dial"] = "tcp" /\ (~Reaches(s.by, s.at) \/ Owner[s.at] \in stopped)
  /\ Failed(s)
  /\ conn' = [t \in DOMAIN conn \ {s} |-> conn[t]]
  /\ UNCHANGED <<known, stopped, swept, load>>

\* Handshake succeeds as long as the other end does its part, also when that
\* closes the connection right after, but never with the device itself.
Shaken(s, e) ==
  /\ conn[s].end[e] = "shaking" /\ Here(s, e) # There(s, e)
  /\ conn[s].open \/ conn[s].end[Other(e)] \notin {"shaking", "closed"}
  /\ Move(s, e, "shaken", conn[s].open)
  /\ UNCHANGED <<known, target, stopped, swept, load>>

ShakeFails(s, e) ==
  /\ conn[s].end[e] = "shaking" /\ (~conn[s].open \/ Here(s, e) = There(s, e))
  /\ Move(s, e, "closed", FALSE)
  /\ IF e = "dial" THEN Failed(s) ELSE UNCHANGED target
  /\ UNCHANGED <<known, stopped, swept, load>>

\* dial: the attempt is over, and the address is remembered as this peer's;
\* a manager that has stopped closes the connection.
Note(s) ==
  /\ conn[s].end["dial"] = "shaken"
  /\ target' = [target EXCEPT ![s.by][s.at] =
       [@ EXCEPT !.dialing = FALSE, !.last = Owner[s.at]]]
  /\ IF s.by \in stopped THEN Move(s, "dial", "closed", FALSE)
     ELSE Move(s, "dial", "checked", conn[s].open)
  /\ UNCHANGED <<known, stopped, swept, load>>

-----------------------------------------------------------------------------
(* Links.                                                                  *)

Ready(s, e) == conn[s].end[e] = IF e = "dial" THEN "checked" ELSE "shaken"

\* Mutant: a dialled connection is linked beside the links there are.
LinkAlways(s, e) ==
  LET d == Here(s, e)
      p == There(s, e)
  IN /\ Ready(s, e)
     /\ Move(s, e, "linked", conn[s].open)
     /\ known' = [known EXCEPT ![d][p] = @ \cup AddrsOf(p)]
     /\ UNCHANGED <<target, stopped, swept, load>>

\* addLink: a dialled connection is closed when there is a link already; an
\* accepted one is always kept, even by a manager that has stopped.
Link(s, e) ==
  LET d == Here(s, e)
      p == There(s, e)
  IN /\ Ready(s, e)
     /\ IF e = "dial" /\ links(d, p) # {}
        THEN Move(s, e, "closed", FALSE) /\ UNCHANGED known
        ELSE /\ Move(s, e, "linked", conn[s].open)
             /\ known' = [known EXCEPT ![d][p] = @ \cup AddrsOf(p)]
     /\ UNCHANGED <<target, stopped, swept, load>>

\* readLoop fails, because the other end is closed or nothing came for
\* IdleTimeout, and the rest of addLink removes the link.
Unlink(s, e) ==
  /\ conn[s].end[e] = "linked" /\ ~conn[s].open
  /\ Move(s, e, "closed", FALSE)
  /\ UNCHANGED <<known, target, stopped, swept, load>>

\* The network loses a connection.
Cut(s) ==
  /\ conn[s].open /\ Spend("cuts")
  /\ conn' = [conn EXCEPT ![s].open = FALSE]
  /\ UNCHANGED <<known, target, stopped, swept>>

-----------------------------------------------------------------------------
(* Stopping.                                                               *)

\* stop is closed.
Stop(d) ==
  /\ d \notin stopped /\ Spend("stops")
  /\ stopped' = stopped \cup {d}
  /\ UNCHANGED <<conn, known, target, swept>>

\* Mutant: the links are closed by a manager that still runs.
SweepEarly(d) ==
  /\ d \notin swept
  /\ swept' = swept \cup {d}
  /\ UNCHANGED <<conn, known, target, stopped, load>>

\* Run's goroutine closes every link the manager has at that moment.
Sweep(d) ==
  /\ d \in stopped \ swept
  /\ swept' = swept \cup {d}
  /\ conn' = [s \in DOMAIN conn |-> [conn[s] EXCEPT !.open =
       @ /\ \A e \in Ends : ~(Here(s, e) = d /\ conn[s].end[e] = "linked")]]
  /\ UNCHANGED <<known, target, stopped, load>>

-----------------------------------------------------------------------------
Step(s) ==
  \/ Accepted(s) \/ DialFails(s) \/ Note(s)
  \/ \E e \in Ends : Shaken(s, e) \/ ShakeFails(s, e) \/ Link(s, e)
                     \/ Unlink(s, e) \/ Learn(s, e)

Next ==
  \/ \E s \in DOMAIN conn : Step(s) \/ Cut(s)
  \/ \E d \in Devices :
       \/ Stop(d) \/ Sweep(d)
       \/ \E a \in Addrs : DialLoop(d, a) \/ Heard(d, a) \/ \E p \in Devices : Forget(d, p, a)
       \/ \E A \in load.types[d] : SetManual(d, A) \/ AddTargets(d, A)

\* Timers fire, goroutines run, attempts have deadlines, a dead connection is
\* noticed after IdleTimeout, beacons and peer lists are sent again and again.
Fairness ==
  /\ \A s \in Slots : WF_vars(s \in DOMAIN conn /\ Step(s))
  /\ \A d \in Devices :
       /\ WF_vars(Sweep(d))
       /\ \A a \in Addrs : WF_vars(Heard(d, a)) /\ WF_vars(DialLoop(d, a))

Spec == Init /\ [][Next]_vars /\ Fairness

-----------------------------------------------------------------------------
(* Properties.                                                             *)

\* A goroutine is at work in dial.
Attempt(s) == conn[s].end["dial"] \in {"tcp", "shaking", "shaken"}

\* An address is dialled by one goroutine of a device at a time, whatever
\* beacons, peers and the user say about it meanwhile.
OneAttempt ==
  \A s, t \in DOMAIN conn :
    Attempt(s) /\ Attempt(t) /\ s.by = t.by /\ s.at = t.at => s = t

\* A manager has at most one link to a peer that it dialled itself: dialling
\* several addresses of the peer at once ends with one of them.
OneDialled ==
  \A s, t \in DOMAIN conn :
    (/\ s.by = t.by /\ Owner[s.at] = Owner[t.at]
     /\ conn[s].end["dial"] = "linked" /\ conn[t].end["dial"] = "linked")
      => s = t

\* The flag of a target and the goroutine that dials it come and go together:
\* no way out of dial leaves the flag behind, where it would keep the address
\* from ever being tried again.
Flagged ==
  \A d \in Devices, a \in Addrs :
    target[d][a].dialing <=> \E s \in DOMAIN conn : s.by = d /\ s.at = a /\ Attempt(s)

Inductive == Flagged /\ OneAttempt /\ OneDialled

Linked(d, p) ==
  \E s \in DOMAIN conn : conn[s].open
    /\ {s.by, Owner[s.at]} = {d, p} /\ \A e \in Ends : conn[s].end[e] = "linked"

\* Of two devices one can dial the other and not both: with both, two
\* connections may close each other as spares, again and again.
OneWay == \A d, p \in Devices : d # p =>
  (AddrsOf(p) \cap load.reach[d] # {}) # (AddrsOf(d) \cap load.reach[p] # {})

\* No part of the group is cut off from what users typed in and beacons say.
Joined == \A D \in (SUBSET Devices) \ {{}, Devices} :
  \E d, p \in Devices : (d \in D) # (p \in D)
    /\ AddrsOf(p) \cap load.reach[d] \cap (load.manual[d] \cup load.hears[d]) # {}

Calm == load.stops = 0 /\ stopped = {} /\ load.forgets = 0 /\ \A d \in Devices : load.types[d] = {}

\* Where one device of each pair can dial the other, all of them end up
\* linked for good: one working link is enough to find the rest, and one lost
\* is made again.
AllLinked ==
  OneWay /\ Joined /\ Calm =>
    <>[](\A d, p \in Devices : d # p => Linked(d, p))
=============================================================================
