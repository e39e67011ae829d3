-------------------------- MODULE PeerLinksProofs --------------------------
(***************************************************************************)
(* Proofs about PeerLinks, for any devices, addresses and connections, and *)
(* whatever breaks, stops or is forgotten: an address is dialled by one    *)
(* goroutine of a device, the flag of its target is there for that one and *)
(* goes with it, and a manager keeps one link that it dialled to a peer.   *)
(***************************************************************************)
EXTENDS PeerLinks, TLAPS

Held == TypeOK /\ Inductive

LEMMA SlotFacts ==
  ASSUME NEW s \in Slots
  PROVE  s.by \in Devices /\ s.at \in Addrs /\ Owner[s.at] \in Devices
BY PeerLinksAssumption DEF Slots

LEMMA EndFacts ==
  ASSUME NEW s \in Slots, NEW e \in Ends
  PROVE  Here(s, e) \in Devices /\ There(s, e) \in Devices /\ Other(e) \in Ends /\ Other(e) # e
BY SlotFacts DEF Here, There, Other, Ends

LEMMA SpendKeeps ==
  ASSUME load \in World, NEW b \in {"cuts", "stops", "forgets"}, Spend(b)
  PROVE  load' \in World
<1>1. load[b] \in Nat /\ load[b] > 0 /\ load' = [load EXCEPT ![b] = @ - 1]
  BY DEF World, Spend
<1>2. load[b] - 1 \in Nat
  BY <1>1
<1> QED
  BY <1>1, <1>2 DEF World

\* What is left of a connection when one end of it moves on.
LEMMA MoveMoves ==
  ASSUME TypeOK, NEW s \in DOMAIN conn, NEW e \in Ends, NEW stage \in Stage,
         NEW up \in BOOLEAN, Move(s, e, stage, up)
  PROVE  /\ DOMAIN conn \ {s} \subseteq DOMAIN conn' /\ DOMAIN conn' \subseteq DOMAIN conn
         /\ s \notin DOMAIN conn' => stage = "closed"
         /\ \A t \in DOMAIN conn' : conn'[t] \in Conn /\ (t # s => conn'[t] = conn[t])
         /\ s \in DOMAIN conn' => /\ conn'[s].end[e] = stage
                                  /\ conn'[s].end[Other(e)] = conn[s].end[Other(e)]
<1>1. s \in Slots /\ conn[s] \in Conn /\ Other(e) \in Ends /\ Other(e) # e
  BY EndFacts DEF TypeOK
<1>2. CASE stage = "closed" /\ conn[s].end[Other(e)] = "closed"
  BY <1>2 DEF Move, TypeOK
<1>3. CASE ~(stage = "closed" /\ conn[s].end[Other(e)] = "closed")
  <2> DEFINE c == [end |-> [conn[s].end EXCEPT ![e] = stage], open |-> up]
  <2>1. conn' = [conn EXCEPT ![s] = c]
    BY <1>3 DEF Move
  <2>2. c \in Conn /\ c.end[e] = stage /\ c.end[Other(e)] = conn[s].end[Other(e)]
    BY <1>1 DEF Conn
  <2> QED
    BY <2>1, <2>2, <1>3 DEF TypeOK
<1> QED
  BY <1>2, <1>3

\* A target of which one field changes.
LEMMA TargetDialing ==
  ASSUME NEW t \in Target, NEW b \in BOOLEAN
  PROVE  [t EXCEPT !.dialing = b] \in Target /\ [t EXCEPT !.dialing = b].dialing = b
BY DEF Target

LEMMA TargetManual ==
  ASSUME NEW t \in Target, NEW b \in BOOLEAN
  PROVE  [t EXCEPT !.manual = b] \in Target /\ [t EXCEPT !.manual = b].dialing = t.dialing
BY DEF Target

LEMMA TargetNoted ==
  ASSUME NEW t \in Target, NEW p \in Devices
  PROVE  /\ [t EXCEPT !.dialing = FALSE, !.last = p] \in Target
         /\ [t EXCEPT !.dialing = FALSE, !.last = p].dialing = FALSE
BY DEF Target

\* One target of one device is replaced.
LEMMA TargetSet ==
  ASSUME TypeOK, NEW d \in Devices, NEW a \in Addrs, NEW t \in Target,
         target' = [target EXCEPT ![d][a] = t]
  PROVE  /\ target' \in [Devices -> [Addrs -> Target]]
         /\ \A b \in Devices, x \in Addrs :
              target'[b][x] = IF b = d /\ x = a THEN t ELSE target[b][x]
BY DEF TypeOK

\* All targets of one device are replaced.
LEMMA TargetsSet ==
  ASSUME TypeOK, NEW d \in Devices, NEW f \in [Addrs -> Target], target' = [target EXCEPT ![d] = f]
  PROVE  /\ target' \in [Devices -> [Addrs -> Target]]
         /\ \A b \in Devices, x \in Addrs :
              target'[b][x] = IF b = d THEN f[x] ELSE target[b][x]
BY DEF TypeOK

-----------------------------------------------------------------------------
(* What keeps the invariant.                                               *)

\* Attempts that stay, under flags that stay, and no new links.
LEMMA NothingDialled ==
  ASSUME Inductive, DOMAIN conn' \subseteq DOMAIN conn,
         \A d \in Devices, a \in Addrs : target'[d][a].dialing = target[d][a].dialing,
         \A t \in DOMAIN conn : Attempt(t) => t \in DOMAIN conn',
         \A t \in DOMAIN conn' :
           /\ conn'[t].end["dial"] \in {"tcp", "shaking", "shaken"} <=> Attempt(t)
           /\ conn'[t].end["dial"] = "linked" => conn[t].end["dial"] = "linked"
  PROVE  Inductive'
<1>1. \A t \in DOMAIN conn' : Attempt(t)' <=> Attempt(t)
  BY DEF Attempt
<1>2. Flagged'
  <2> SUFFICES ASSUME NEW d \in Devices, NEW a \in Addrs
               PROVE  target'[d][a].dialing <=>
                        \E s \in DOMAIN conn' : s.by = d /\ s.at = a /\ Attempt(s)'
    BY DEF Flagged
  <2>1. target[d][a].dialing <=> \E s \in DOMAIN conn : s.by = d /\ s.at = a /\ Attempt(s)
    BY DEF Inductive, Flagged
  <2>2. (\E s \in DOMAIN conn : s.by = d /\ s.at = a /\ Attempt(s))
          <=> \E s \in DOMAIN conn' : s.by = d /\ s.at = a /\ Attempt(s)'
    BY <1>1
  <2> QED
    BY <2>1, <2>2
<1>3. OneAttempt'
  BY <1>1 DEF Inductive, OneAttempt
<1>4. OneDialled'
  BY DEF Inductive, OneDialled
<1> QED
  BY <1>2, <1>3, <1>4 DEF Inductive

\* The end of the attempt that has the flag of s, and no new links.
LEMMA AttemptEnds ==
  ASSUME TypeOK, Inductive, DOMAIN conn' \subseteq DOMAIN conn, NEW s \in DOMAIN conn, Attempt(s),
         s \in DOMAIN conn' => conn'[s].end["dial"] \in {"checked", "closed"},
         DOMAIN conn \ {s} \subseteq DOMAIN conn',
         \A t \in DOMAIN conn' : t # s => conn'[t] = conn[t],
         \A d \in Devices, a \in Addrs : target'[d][a].dialing =
            IF d = s.by /\ a = s.at THEN FALSE ELSE target[d][a].dialing
  PROVE  Inductive'
<1>1. \A t \in DOMAIN conn' : Attempt(t)' <=> t # s /\ Attempt(t)
  BY DEF Attempt
<1>2. Flagged'
  <2> SUFFICES ASSUME NEW d \in Devices, NEW a \in Addrs
               PROVE  target'[d][a].dialing <=>
                        \E t \in DOMAIN conn' : t.by = d /\ t.at = a /\ Attempt(t)'
    BY DEF Flagged
  <2>1. CASE d = s.by /\ a = s.at
    <3>1. ~\E t \in DOMAIN conn' : t.by = d /\ t.at = a /\ Attempt(t)'
      BY <1>1, <2>1 DEF Inductive, OneAttempt
    <3> QED
      BY <3>1, <2>1
  <2>2. CASE ~(d = s.by /\ a = s.at)
    <3>1. target[d][a].dialing <=> \E t \in DOMAIN conn : t.by = d /\ t.at = a /\ Attempt(t)
      BY DEF Inductive, Flagged
    <3>2. (\E t \in DOMAIN conn : t.by = d /\ t.at = a /\ Attempt(t))
            <=> \E t \in DOMAIN conn' : t.by = d /\ t.at = a /\ Attempt(t)'
      BY <1>1, <2>2
    <3>3. target'[d][a].dialing = target[d][a].dialing
      BY <2>2
    <3> QED
      BY <3>1, <3>2, <3>3
  <2> QED
    BY <2>1, <2>2
<1>3. OneAttempt'
  BY <1>1 DEF Inductive, OneAttempt
<1>4. OneDialled'
  BY DEF Inductive, OneDialled
<1> QED
  BY <1>2, <1>3, <1>4 DEF Inductive

\* Steps that leave the connections and the flags alone.
LEMMA OnlyNames ==
  ASSUME Inductive, conn' = conn,
         \A d \in Devices, a \in Addrs : target'[d][a].dialing = target[d][a].dialing
  PROVE  Inductive'
BY NothingDialled DEF Attempt

LEMMA TypedTarget ==
  ASSUME TypeOK, UNCHANGED target
  PROVE  /\ target' \in [Devices -> [Addrs -> Target]]
         /\ \A d \in Devices, a \in Addrs : target'[d][a].dialing = target[d][a].dialing
BY DEF TypeOK

\* The flag of a failed attempt, and no other.
LEMMA FailedClears ==
  ASSUME TypeOK, NEW s \in DOMAIN conn, Failed(s)
  PROVE  /\ target' \in [Devices -> [Addrs -> Target]]
         /\ \A d \in Devices, a \in Addrs : target'[d][a].dialing =
              IF d = s.by /\ a = s.at THEN FALSE ELSE target[d][a].dialing
<1>1. s.by \in Devices /\ s.at \in Addrs
  BY SlotFacts DEF TypeOK
<1> DEFINE t == [target[s.by][s.at] EXCEPT !.dialing = FALSE]
<1>2. t \in Target /\ t.dialing = FALSE
  <2>1. target[s.by][s.at] \in Target
    BY <1>1 DEF TypeOK
  <2> QED
    BY <2>1, TargetDialing
<1>3. target' = [target EXCEPT ![s.by][s.at] = t]
  BY <1>1 DEF TypeOK, Failed
<1> HIDE DEF t
<1> QED
  BY <1>1, <1>2, <1>3, TargetSet

-----------------------------------------------------------------------------
LEMMA InitHeld == Init => Held
<1> SUFFICES ASSUME Init PROVE Held
  OBVIOUS
<1>1. load \in World
  BY PeerLinksAssumption DEF Init
<1>2. DOMAIN conn = {}
  BY DEF Init
<1>3. target \in [Devices -> [Addrs -> Target]] /\ \A d \in Devices, a \in Addrs : ~target[d][a].dialing
  BY DEF Init, Target
<1>4. TypeOK
  BY <1>1, <1>2, <1>3 DEF Init, TypeOK
<1>5. Inductive
  BY <1>2, <1>3 DEF Inductive, Flagged, OneAttempt, OneDialled
<1> QED
  BY <1>4, <1>5 DEF Held

LEMMA HeardKeeps ==
  ASSUME Held, NEW d \in Devices, NEW a \in Addrs, Heard(d, a)
  PROVE  Held'
<1>1. Owner[a] \in Devices
  BY PeerLinksAssumption
<1>2. TypeOK'
  BY <1>1 DEF Held, TypeOK, Heard
<1>3. Inductive'
  BY OnlyNames DEF Held, Heard
<1> QED
  BY <1>2, <1>3 DEF Held

LEMMA LearnKeeps ==
  ASSUME Held, NEW s \in DOMAIN conn, NEW e \in Ends, Learn(s, e)
  PROVE  Held'
<1> DEFINE d == Here(s, e)
           q == There(s, e)
           told == [p \in Devices |-> known[d][p] \cup IF p = d THEN {} ELSE Says(q, p)]
<1>1. d \in Devices /\ q \in Devices
  BY EndFacts DEF Held, TypeOK
<1>2. \A p \in Devices : Says(q, p) \subseteq Addrs /\ known[d][p] \subseteq Addrs
  BY <1>1 DEF Held, TypeOK, Says, AddrsOf
<1>3. told \in [Devices -> SUBSET Addrs]
  BY <1>2
<1>4. known' = [known EXCEPT ![d] = told] /\ UNCHANGED <<conn, target, stopped, swept, load>>
  BY DEF Learn
<1>5. known' \in [Devices -> [Devices -> SUBSET Addrs]]
  BY <1>1, <1>3, <1>4 DEF Held, TypeOK
<1>6. TypeOK'
  BY <1>4, <1>5 DEF Held, TypeOK
<1>7. Inductive'
  BY <1>4, OnlyNames DEF Held
<1> QED
  BY <1>6, <1>7 DEF Held

LEMMA TypesKeeps ==
  ASSUME load \in World, NEW d \in Devices, NEW A, Types(d, A)
  PROVE  load' \in World /\ A \subseteq Addrs
BY DEF Types, World

LEMMA SetManualKeeps ==
  ASSUME Held, NEW d \in Devices, NEW A, SetManual(d, A)
  PROVE  Held'
<1> DEFINE f == [a \in Addrs |-> [target[d][a] EXCEPT !.manual = a \in A]]
<1>1. load' \in World /\ UNCHANGED <<conn, known, stopped, swept>>
  BY TypesKeeps DEF Held, TypeOK, SetManual
<1>2. target' = [target EXCEPT ![d] = f]
  BY DEF SetManual, Held, TypeOK
<1>3. f \in [Addrs -> Target] /\ \A a \in Addrs : f[a].dialing = target[d][a].dialing
  <2> SUFFICES ASSUME NEW a \in Addrs
               PROVE  f[a] \in Target /\ f[a].dialing = target[d][a].dialing
    OBVIOUS
  <2>1. target[d][a] \in Target /\ (a \in A) \in BOOLEAN
    BY DEF Held, TypeOK
  <2> QED
    BY <2>1, TargetManual
<1> HIDE DEF f
<1>4. /\ target' \in [Devices -> [Addrs -> Target]]
      /\ \A c \in Devices, a \in Addrs : target'[c][a].dialing = target[c][a].dialing
  BY <1>2, <1>3, TargetsSet DEF Held
<1>5. TypeOK'
  BY <1>1, <1>4 DEF Held, TypeOK
<1>6. Inductive'
  BY <1>1, <1>4, OnlyNames DEF Held
<1> QED
  BY <1>5, <1>6 DEF Held

LEMMA AddTargetsKeeps ==
  ASSUME Held, NEW d \in Devices, NEW A, AddTargets(d, A)
  PROVE  Held'
<1> DEFINE f == [a \in Addrs |-> [target[d][a] EXCEPT !.manual = target[d][a].manual \/ a \in A]]
<1>1. load' \in World /\ UNCHANGED <<conn, known, stopped, swept>>
  BY TypesKeeps DEF Held, TypeOK, AddTargets
<1>2. target' = [target EXCEPT ![d] = f]
  BY DEF AddTargets, Held, TypeOK
<1>3. f \in [Addrs -> Target] /\ \A a \in Addrs : f[a].dialing = target[d][a].dialing
  <2> SUFFICES ASSUME NEW a \in Addrs
               PROVE  f[a] \in Target /\ f[a].dialing = target[d][a].dialing
    OBVIOUS
  <2>1. target[d][a] \in Target /\ (target[d][a].manual \/ a \in A) \in BOOLEAN
    BY DEF Held, TypeOK
  <2> QED
    BY <2>1, TargetManual
<1> HIDE DEF f
<1>4. /\ target' \in [Devices -> [Addrs -> Target]]
      /\ \A c \in Devices, a \in Addrs : target'[c][a].dialing = target[c][a].dialing
  BY <1>2, <1>3, TargetsSet DEF Held
<1>5. TypeOK'
  BY <1>1, <1>4 DEF Held, TypeOK
<1>6. Inductive'
  BY <1>1, <1>4, OnlyNames DEF Held
<1> QED
  BY <1>5, <1>6 DEF Held

LEMMA ForgetKeeps ==
  ASSUME Held, NEW d \in Devices, NEW p \in Devices, NEW a \in Addrs, Forget(d, p, a)
  PROVE  Held'
<1>1. load' \in World
  BY SpendKeeps DEF Held, TypeOK, Forget
<1>2. TypeOK'
  BY <1>1 DEF Held, TypeOK, Forget
<1>3. Inductive'
  BY OnlyNames DEF Held, Forget
<1> QED
  BY <1>2, <1>3 DEF Held

-----------------------------------------------------------------------------
LEMMA DialLoopKeeps ==
  ASSUME Held, NEW d \in Devices, NEW a \in Addrs, DialLoop(d, a)
  PROVE  Held'
<1>1. PICK n \in 1..load.conns :
        LET s == [by |-> d, at |-> a, n |-> n]
        IN /\ s \notin DOMAIN conn
           /\ conn' = [t \in DOMAIN conn \cup {s} |->
                IF t = s THEN [end |-> [dial |-> "tcp", accept |-> "none"], open |-> FALSE] ELSE conn[t]]
  BY DEF DialLoop
<1> DEFINE s == [by |-> d, at |-> a, n |-> n]
           c == [end |-> [dial |-> "tcp", accept |-> "none"], open |-> FALSE]
<1>2. s \in Slots /\ s \notin DOMAIN conn /\ s.by = d /\ s.at = a
  <2>1. load.conns \in 1..MaxConns /\ MaxConns \in Nat
    BY PeerLinksAssumption DEF Held, TypeOK, World
  <2>2. n \in 1..MaxConns
    BY <2>1
  <2> QED
    BY <1>1, <2>2 DEF Slots
<1>3. c \in Conn /\ c.end["dial"] = "tcp"
  <2>1. [dial |-> "tcp", accept |-> "none"] \in [Ends -> Stage]
    BY DEF Ends, Stage
  <2> QED
    BY <2>1 DEF Conn
<1>4. /\ DOMAIN conn' = DOMAIN conn \cup {s}
      /\ conn'[s] = c
      /\ \A t \in DOMAIN conn : conn'[t] = conn[t]
  BY <1>1, <1>2
<1> HIDE DEF s, c
<1>5. ~target[d][a].dialing /\ UNCHANGED <<known, stopped, swept, load>>
      /\ target' = [target EXCEPT ![d][a].dialing = TRUE]
  BY DEF DialLoop, dialCandidates, Considered
<1>6. /\ target' \in [Devices -> [Addrs -> Target]]
      /\ \A b \in Devices, x \in Addrs : target'[b][x].dialing =
           IF b = d /\ x = a THEN TRUE ELSE target[b][x].dialing
  <2> DEFINE g == [target[d][a] EXCEPT !.dialing = TRUE]
  <2>1. g \in Target /\ g.dialing = TRUE
    <3>1. target[d][a] \in Target
      BY DEF Held, TypeOK
    <3> QED
      BY <3>1, TargetDialing
  <2>2. target' = [target EXCEPT ![d][a] = g]
    BY <1>5 DEF Held, TypeOK
  <2> HIDE DEF g
  <2> QED
    BY <2>1, <2>2, TargetSet DEF Held
<1>7. TypeOK'
  BY <1>2, <1>3, <1>4, <1>5, <1>6 DEF Held, TypeOK
<1>8. \A t \in DOMAIN conn' : Attempt(t)' <=> t = s \/ Attempt(t)
  BY <1>3, <1>4 DEF Attempt
<1>9. \A t \in DOMAIN conn : t.by = d /\ t.at = a => ~Attempt(t)
  BY <1>5 DEF Held, Inductive, Flagged
<1>10. Flagged'
  <2> SUFFICES ASSUME NEW b \in Devices, NEW x \in Addrs
               PROVE  target'[b][x].dialing <=>
                        \E t \in DOMAIN conn' : t.by = b /\ t.at = x /\ Attempt(t)'
    BY DEF Flagged
  <2>1. CASE b = d /\ x = a
    BY <2>1, <1>2, <1>4, <1>6, <1>8
  <2>2. CASE ~(b = d /\ x = a)
    <3>1. target[b][x].dialing <=> \E t \in DOMAIN conn : t.by = b /\ t.at = x /\ Attempt(t)
      BY DEF Held, Inductive, Flagged
    <3>2. (\E t \in DOMAIN conn : t.by = b /\ t.at = x /\ Attempt(t))
            <=> \E t \in DOMAIN conn' : t.by = b /\ t.at = x /\ Attempt(t)'
      BY <1>2, <1>4, <1>8, <2>2
    <3>3. target'[b][x].dialing = target[b][x].dialing
      BY <1>6, <2>2
    <3> QED
      BY <3>1, <3>2, <3>3
  <2> QED
    BY <2>1, <2>2
<1>11. OneAttempt'
  BY <1>2, <1>4, <1>8, <1>9 DEF Held, Inductive, OneAttempt
<1>12. OneDialled'
  BY <1>3, <1>4 DEF Held, Inductive, OneDialled
<1> QED
  BY <1>7, <1>10, <1>11, <1>12 DEF Held, Inductive

LEMMA AcceptedKeeps ==
  ASSUME Held, NEW s \in DOMAIN conn, Accepted(s)
  PROVE  Held'
<1> DEFINE c == [end |-> [dial |-> "shaking", accept |-> "shaking"], open |-> TRUE]
<1>1. conn' = [conn EXCEPT ![s] = c] /\ UNCHANGED <<known, target, stopped, swept, load>>
      /\ conn[s].end["dial"] = "tcp"
  BY DEF Accepted
<1>2. c \in Conn /\ c.end["dial"] = "shaking"
  <2>1. [dial |-> "shaking", accept |-> "shaking"] \in [Ends -> Stage]
    BY DEF Ends, Stage
  <2> QED
    BY <2>1 DEF Conn
<1>3. DOMAIN conn' = DOMAIN conn /\ conn'[s] = c /\ \A t \in DOMAIN conn : t # s => conn'[t] = conn[t]
  BY <1>1
<1> HIDE DEF c
<1>4. TypeOK'
  BY <1>1, <1>2, <1>3 DEF Held, TypeOK
<1>5. Inductive'
  BY <1>1, <1>2, <1>3, TypedTarget, NothingDialled DEF Held, Attempt
<1> QED
  BY <1>4, <1>5 DEF Held

LEMMA DialFailsKeeps ==
  ASSUME Held, NEW s \in DOMAIN conn, DialFails(s)
  PROVE  Held'
<1>1. /\ DOMAIN conn' = DOMAIN conn \ {s} /\ \A t \in DOMAIN conn' : conn'[t] = conn[t]
      /\ UNCHANGED <<known, stopped, swept, load>> /\ Failed(s) /\ Attempt(s)
  BY DEF DialFails, Attempt
<1>2. TypeOK'
  BY <1>1, FailedClears DEF Held, TypeOK
<1>3. Inductive'
  BY <1>1, FailedClears, AttemptEnds DEF Held
<1> QED
  BY <1>2, <1>3 DEF Held

LEMMA ShakenKeeps ==
  ASSUME Held, NEW s \in DOMAIN conn, NEW e \in Ends, Shaken(s, e)
  PROVE  Held'
<1>1. /\ Move(s, e, "shaken", conn[s].open) /\ conn[s].end[e] = "shaking"
      /\ UNCHANGED <<known, target, stopped, swept, load>>
  BY DEF Shaken
<1>2. "shaken" \in Stage /\ conn[s].open \in BOOLEAN
  BY DEF Stage, Held, TypeOK, Conn
<1>3. /\ DOMAIN conn' = DOMAIN conn
      /\ \A t \in DOMAIN conn' : conn'[t] \in Conn /\ (t # s => conn'[t] = conn[t])
      /\ conn'[s].end[e] = "shaken" /\ conn'[s].end[Other(e)] = conn[s].end[Other(e)]
  BY <1>1, <1>2, MoveMoves DEF Held
<1>4. TypeOK'
  BY <1>1, <1>3 DEF Held, TypeOK
<1>5. Inductive'
  BY <1>1, <1>3, TypedTarget, NothingDialled DEF Held, Attempt, Ends, Other
<1> QED
  BY <1>4, <1>5 DEF Held

LEMMA ShakeFailsKeeps ==
  ASSUME Held, NEW s \in DOMAIN conn, NEW e \in Ends, ShakeFails(s, e)
  PROVE  Held'
<1>1. /\ Move(s, e, "closed", FALSE) /\ conn[s].end[e] = "shaking"
      /\ UNCHANGED <<known, stopped, swept, load>>
  BY DEF ShakeFails
<1>2. "closed" \in Stage
  BY DEF Stage
<1>3. /\ DOMAIN conn \ {s} \subseteq DOMAIN conn' /\ DOMAIN conn' \subseteq DOMAIN conn
      /\ \A t \in DOMAIN conn' : conn'[t] \in Conn /\ (t # s => conn'[t] = conn[t])
      /\ s \in DOMAIN conn' => conn'[s].end[e] = "closed"
                               /\ conn'[s].end[Other(e)] = conn[s].end[Other(e)]
  BY <1>1, <1>2, MoveMoves DEF Held
<1>4. CASE e = "dial"
  <2>1. Failed(s) /\ Attempt(s)
    BY <1>1, <1>4 DEF ShakeFails, Attempt
  <2>2. TypeOK'
    BY <1>1, <1>3, <2>1, FailedClears DEF Held, TypeOK
  <2>3. Inductive'
    BY <1>3, <1>4, <2>1, FailedClears, AttemptEnds DEF Held
  <2> QED
    BY <2>2, <2>3 DEF Held
<1>5. CASE e = "accept"
  <2>1. UNCHANGED target /\ Other(e) = "dial"
    BY <1>5 DEF ShakeFails, Other
  <2>2. TypeOK'
    BY <1>1, <1>3, <2>1 DEF Held, TypeOK
  <2>3. Attempt(s) => s \in DOMAIN conn'
    BY <1>1, <1>5, <2>1 DEF Move, Attempt
  <2>4. Inductive'
    BY <1>3, <2>1, <2>3, TypedTarget, NothingDialled DEF Held, Attempt
  <2> QED
    BY <2>2, <2>4 DEF Held
<1> QED
  BY <1>4, <1>5 DEF Ends

LEMMA NoteKeeps ==
  ASSUME Held, NEW s \in DOMAIN conn, Note(s)
  PROVE  Held'
<1>1. PICK stage \in {"closed", "checked"}, up \in BOOLEAN : Move(s, "dial", stage, up)
  BY DEF Note, Held, TypeOK, Conn
<1>2. stage \in Stage /\ "dial" \in Ends /\ Attempt(s) /\ UNCHANGED <<known, stopped, swept, load>>
  BY DEF Stage, Ends, Attempt, Note
<1>3. /\ DOMAIN conn \ {s} \subseteq DOMAIN conn' /\ DOMAIN conn' \subseteq DOMAIN conn
      /\ \A t \in DOMAIN conn' : conn'[t] \in Conn /\ (t # s => conn'[t] = conn[t])
      /\ s \in DOMAIN conn' => conn'[s].end["dial"] \in {"checked", "closed"}
  BY <1>1, <1>2, MoveMoves DEF Held
<1>4. s.by \in Devices /\ s.at \in Addrs /\ Owner[s.at] \in Devices
  BY SlotFacts DEF Held, TypeOK
<1>5. /\ target' \in [Devices -> [Addrs -> Target]]
      /\ \A d \in Devices, a \in Addrs : target'[d][a].dialing =
           IF d = s.by /\ a = s.at THEN FALSE ELSE target[d][a].dialing
  <2> DEFINE g == [target[s.by][s.at] EXCEPT !.dialing = FALSE, !.last = Owner[s.at]]
  <2>1. target[s.by][s.at] \in Target
    BY <1>4 DEF Held, TypeOK
  <2>2. g \in Target /\ g.dialing = FALSE
    BY <1>4, <2>1, TargetNoted
  <2>3. target' = [target EXCEPT ![s.by][s.at] = g]
    BY <1>4 DEF Held, TypeOK, Note
  <2> HIDE DEF g
  <2>4. TypeOK
    BY DEF Held
  <2>5. /\ target' \in [Devices -> [Addrs -> Target]]
        /\ \A d \in Devices, a \in Addrs :
             target'[d][a] = IF d = s.by /\ a = s.at THEN g ELSE target[d][a]
    BY <1>4, <2>2, <2>3, <2>4, TargetSet
  <2> QED
    BY <2>2, <2>5
<1>6. TypeOK'
  BY <1>2, <1>3, <1>5 DEF Held, TypeOK
<1>7. Inductive'
  BY <1>2, <1>3, <1>5, AttemptEnds DEF Held
<1> QED
  BY <1>6, <1>7 DEF Held

-----------------------------------------------------------------------------
LEMMA LinkKeeps ==
  ASSUME Held, NEW s \in DOMAIN conn, NEW e \in Ends, Link(s, e)
  PROVE  Held'
<1>1. PICK stage \in {"closed", "linked"}, up \in BOOLEAN :
        /\ Move(s, e, stage, up)
        /\ e = "dial" /\ stage = "linked" => links(Here(s, e), There(s, e)) = {}
  BY DEF Link, Held, TypeOK, Conn
<1>2. stage \in Stage /\ Ready(s, e) /\ UNCHANGED <<target, stopped, swept, load>>
  BY DEF Stage, Link
<1>3. /\ DOMAIN conn \ {s} \subseteq DOMAIN conn' /\ DOMAIN conn' \subseteq DOMAIN conn
      /\ s \notin DOMAIN conn' => stage = "closed"
      /\ \A t \in DOMAIN conn' : conn'[t] \in Conn /\ (t # s => conn'[t] = conn[t])
      /\ s \in DOMAIN conn' => conn'[s].end[e] = stage
                               /\ conn'[s].end[Other(e)] = conn[s].end[Other(e)]
  BY <1>1, <1>2, MoveMoves DEF Held
<1>4. Here(s, e) \in Devices /\ There(s, e) \in Devices
  BY EndFacts DEF Held, TypeOK
<1>5. known' \in [Devices -> [Devices -> SUBSET Addrs]]
  <2>1. CASE UNCHANGED known
    BY <2>1 DEF Held, TypeOK
  <2>2. CASE known' = [known EXCEPT ![Here(s, e)][There(s, e)] = @ \cup AddrsOf(There(s, e))]
    BY <1>4, <2>2 DEF AddrsOf, Held, TypeOK
  <2> QED
    BY <2>1, <2>2 DEF Link
<1>6. TypeOK'
  BY <1>2, <1>3, <1>5 DEF Held, TypeOK
<1>7. CASE e = "accept"
  <2>1. Other(e) = "dial"
    BY <1>7 DEF Other
  <2>2. Attempt(s) => s \in DOMAIN conn'
    BY <1>1, <1>3, <2>1 DEF Move, Attempt
  <2>3. Inductive'
    BY <1>2, <1>3, <2>1, <2>2, TypedTarget, NothingDialled DEF Held, Attempt
  <2> QED
    BY <1>6, <2>3 DEF Held
<1>8. CASE e = "dial" /\ stage = "closed"
  <2>1. ~Attempt(s)
    BY <1>2, <1>8 DEF Ready, Attempt
  <2>2. Inductive'
    BY <1>2, <1>3, <1>8, <2>1, TypedTarget, NothingDialled DEF Held, Attempt
  <2> QED
    BY <1>6, <2>2 DEF Held
<1>9. CASE e = "dial" /\ stage = "linked"
  <2>1. ~Attempt(s) /\ \A t \in DOMAIN conn' : Attempt(t)' <=> Attempt(t)
    BY <1>2, <1>3, <1>9 DEF Ready, Attempt
  <2>2. DOMAIN conn' = DOMAIN conn
    BY <1>3, <1>9
  <2>3. Flagged'
    BY <1>2, <2>1, <2>2 DEF Held, Inductive, Flagged
  <2>4. OneAttempt'
    BY <2>1, <2>2 DEF Held, Inductive, OneAttempt
  <2>5. \A t \in DOMAIN conn : t.by = s.by /\ Owner[t.at] = Owner[s.at] => conn[t].end["dial"] # "linked"
    <3> SUFFICES ASSUME NEW t \in DOMAIN conn, t.by = s.by, Owner[t.at] = Owner[s.at],
                        conn[t].end["dial"] = "linked"
                 PROVE  FALSE
      OBVIOUS
    <3> DEFINE l == <<t, "dial">>
    <3>1. l \in (DOMAIN conn) \X Ends /\ l[1] = t /\ l[2] = "dial"
      BY DEF Ends
    <3>2. Here(l[1], l[2]) = Here(s, e) /\ There(l[1], l[2]) = There(s, e)
      BY <1>9, <3>1 DEF Here, There
    <3>3. l \in links(Here(s, e), There(s, e))
      BY <3>1, <3>2 DEF links
    <3> QED
      BY <1>1, <1>9, <3>3
  <2>6. OneDialled'
    BY <1>3, <2>2, <2>5 DEF Held, Inductive, OneDialled
  <2> QED
    BY <1>6, <2>3, <2>4, <2>6 DEF Held, Inductive
<1> QED
  BY <1>7, <1>8, <1>9 DEF Ends

LEMMA UnlinkKeeps ==
  ASSUME Held, NEW s \in DOMAIN conn, NEW e \in Ends, Unlink(s, e)
  PROVE  Held'
<1>1. /\ Move(s, e, "closed", FALSE) /\ conn[s].end[e] = "linked"
      /\ UNCHANGED <<known, target, stopped, swept, load>>
  BY DEF Unlink
<1>2. "closed" \in Stage
  BY DEF Stage
<1>3. /\ DOMAIN conn \ {s} \subseteq DOMAIN conn' /\ DOMAIN conn' \subseteq DOMAIN conn
      /\ \A t \in DOMAIN conn' : conn'[t] \in Conn /\ (t # s => conn'[t] = conn[t])
      /\ s \in DOMAIN conn' => conn'[s].end[e] = "closed"
                               /\ conn'[s].end[Other(e)] = conn[s].end[Other(e)]
  BY <1>1, <1>2, MoveMoves DEF Held
<1>4. TypeOK'
  BY <1>1, <1>3 DEF Held, TypeOK
<1>5. Attempt(s) => s \in DOMAIN conn'
  BY <1>1 DEF Move, Attempt, Ends, Other
<1>6. Inductive'
  BY <1>1, <1>3, <1>5, TypedTarget, NothingDialled DEF Held, Attempt, Ends, Other
<1> QED
  BY <1>4, <1>6 DEF Held

LEMMA CutKeeps ==
  ASSUME Held, NEW s \in DOMAIN conn, Cut(s)
  PROVE  Held'
<1>1. load' \in World
  BY SpendKeeps DEF Held, TypeOK, Cut
<1>2. /\ DOMAIN conn' = DOMAIN conn
      /\ \A t \in DOMAIN conn : conn'[t] \in Conn /\ conn'[t].end = conn[t].end
  BY DEF Cut, Held, TypeOK, Conn
<1>3. UNCHANGED <<known, target, stopped, swept>>
  BY DEF Cut
<1>4. TypeOK'
  BY <1>1, <1>2, <1>3 DEF Held, TypeOK
<1>5. Inductive'
  BY <1>2, <1>3, TypedTarget, NothingDialled DEF Held, Attempt
<1> QED
  BY <1>4, <1>5 DEF Held

LEMMA StopKeeps ==
  ASSUME Held, NEW d \in Devices, Stop(d)
  PROVE  Held'
<1>1. load' \in World
  BY SpendKeeps DEF Held, TypeOK, Stop
<1>2. TypeOK'
  BY <1>1 DEF Held, TypeOK, Stop
<1>3. Inductive'
  BY OnlyNames DEF Held, Stop
<1> QED
  BY <1>2, <1>3 DEF Held

LEMMA SweepKeeps ==
  ASSUME Held, NEW d \in Devices, Sweep(d)
  PROVE  Held'
<1>1. /\ DOMAIN conn' = DOMAIN conn
      /\ \A t \in DOMAIN conn : conn'[t] \in Conn /\ conn'[t].end = conn[t].end
  BY DEF Sweep, Held, TypeOK, Conn
<1>2. UNCHANGED <<known, target, stopped, load>> /\ swept' \subseteq stopped
  BY DEF Sweep, Held, TypeOK
<1>3. TypeOK'
  BY <1>1, <1>2 DEF Held, TypeOK
<1>4. Inductive'
  BY <1>1, <1>2, TypedTarget, NothingDialled DEF Held, Attempt
<1> QED
  BY <1>3, <1>4 DEF Held

-----------------------------------------------------------------------------
LEMMA NextHeld == Held /\ [Next]_vars => Held'
<1> SUFFICES ASSUME Held, [Next]_vars PROVE Held'
  OBVIOUS
<1>1. CASE \E s \in DOMAIN conn : Step(s) \/ Cut(s)
  <2> PICK s \in DOMAIN conn : Step(s) \/ Cut(s)
    BY <1>1
  <2>1. CASE Accepted(s) \/ DialFails(s) \/ Note(s) \/ Cut(s)
    BY <2>1, AcceptedKeeps, DialFailsKeeps, NoteKeeps, CutKeeps
  <2>2. CASE \E e \in Ends : Shaken(s, e) \/ ShakeFails(s, e) \/ Link(s, e)
                             \/ Unlink(s, e) \/ Learn(s, e)
    BY <2>2, ShakenKeeps, ShakeFailsKeeps, LinkKeeps, UnlinkKeeps, LearnKeeps
  <2> QED
    BY <2>1, <2>2 DEF Step
<1>2. CASE \E d \in Devices :
       \/ Stop(d) \/ Sweep(d)
       \/ \E a \in Addrs : DialLoop(d, a) \/ Heard(d, a) \/ \E p \in Devices : Forget(d, p, a)
       \/ \E A \in load.types[d] : SetManual(d, A) \/ AddTargets(d, A)
  BY <1>2, StopKeeps, SweepKeeps, DialLoopKeeps, HeardKeeps, ForgetKeeps, SetManualKeeps, AddTargetsKeeps
<1>3. CASE UNCHANGED vars
  <2>1. TypeOK'
    BY <1>3 DEF vars, Held, TypeOK
  <2>2. Inductive'
    BY <1>3, OnlyNames DEF vars, Held
  <2> QED
    BY <2>1, <2>2 DEF Held
<1> QED
  BY <1>1, <1>2, <1>3 DEF Next

\* Every variable of every manager stays in its type.
THEOREM TypeCorrect == Spec => []TypeOK
<1>1. Held => TypeOK
  BY DEF Held
<1> QED
  BY InitHeld, NextHeld, <1>1, PTL DEF Spec

\* An attempt and the flag of its target come and go together, whichever way
\* out of dial is taken.
THEOREM InductiveHolds == Spec => []Inductive
<1>1. Held => Inductive
  BY DEF Held
<1> QED
  BY InitHeld, NextHeld, <1>1, PTL DEF Spec

\* No address is dialled by two goroutines of a device at once.
THEOREM OneAttemptHolds == Spec => []OneAttempt
<1>1. Held => OneAttempt
  BY DEF Held, Inductive
<1> QED
  BY InitHeld, NextHeld, <1>1, PTL DEF Spec

\* A manager has at most one link to a peer that it dialled itself.
THEOREM OneDialledHolds == Spec => []OneDialled
<1>1. Held => OneDialled
  BY DEF Held, Inductive
<1> QED
  BY InitHeld, NextHeld, <1>1, PTL DEF Spec
=============================================================================
