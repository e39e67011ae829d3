--------------------------- MODULE ClipSyncSafety ---------------------------
(***************************************************************************)
(* Proofs that ClipSync keeps Offered, Accepted and NeighboursAgree, by    *)
(* way of the invariant Inductive; HistoryComplete, by way of HistoryHeld  *)
(* and HistoryOrSoon; and AppliedOnce, by way of SeenOnce.                 *)
(***************************************************************************)
EXTENDS ClipSyncProofs, FiniteSetTheorems

-----------------------------------------------------------------------------
(* What a step must do to keep each part of the invariant.                 *)

LEMMA SentSends ==
  ASSUME NEW from, NEW m, NEW p \in Port, p \in from, open[p[1]]
  PROVE  m \in Sent(from, m)[Peer(p)]
BY PortFacts DEF Sent

\* No clip is stamped or sealed, and only published clips move.
LEMMA OwnedKept ==
  ASSUME ClipsOwned, issued' = issued,
         \A d \in Devices, t \in Threads : Sealing(d, t)' = Sealing(d, t),
         \A p \in Port : wire'[p] \subseteq Published,
         \A d \in Devices : got'[d] \subseteq Published
  PROVE  ClipsOwned'
<1>1. Published' = Published
  BY DEF Published
<1> QED
  BY <1>1 DEF ClipsOwned

\* What was accounted for stays so, and what is new is accounted for.
LEMMA AcceptedKept ==
  ASSUME Accepted,
         \A d \in Devices : \A m \in got'[d] \ got[d] : Accounted(d, m)',
         \A d \in Devices : \/ got'[d] = {}
                            \/ /\ dropped[d] \subseteq dropped'[d]
                               /\ held[d] \subseteq held'[d],
         \A p \in Port : \A m \in Opening(p) :
           \/ m \in Opening(p)'
           \/ Accounted(Dev(p), m)'
           \/ got'[Dev(p)] = {}
  PROVE  Accepted'
<1> SUFFICES ASSUME NEW d \in Devices, NEW m \in got'[d]
             PROVE  Accounted(d, m)'
  BY DEF Accepted
<1>1. CASE m \notin got[d]
  BY <1>1
<1>2. CASE m \in got[d]
  <2>1. Accounted(d, m)
    BY <1>2 DEF Accepted
  <2>2. CASE m \in dropped[d]
    BY <2>2 DEF Accounted
  <2>3. CASE \E p \in Port : Dev(p) = d /\ m \in Opening(p)
    BY <2>3 DEF Accounted
  <2>4. CASE \E w \in held[d] : AtLeastAsNew(w, m)
    BY <2>4 DEF Accounted
  <2> QED
    BY <2>1, <2>2, <2>3, <2>4 DEF Accounted
<1> QED
  BY <1>1, <1>2

LEMMA OfferedKept ==
  ASSUME Offered,
         \A p \in Port :
           open'[p[1]] /\ st'[p] = "up" /\ current'[Dev(p)] # NoClip =>
             \/ current'[Dev(p)] \in wire'[Peer(p)] \cup got'[Dev(Peer(p))]
             \/ /\ open[p[1]] /\ st[p] = "up" /\ current'[Dev(p)] = current[Dev(p)]
                /\ wire[Peer(p)] \cup got[Dev(Peer(p))]
                     \subseteq wire'[Peer(p)] \cup got'[Dev(Peer(p))]
  PROVE  Offered'
BY DEF Offered

\* Steps that concern neither clips nor links.
Still ==
  /\ UNCHANGED <<current, seen, st, open, wire, issued, held, got, dropped>>
  /\ \A p \in Port : Opening(p)' = Opening(p)
  /\ \A d \in Devices, t \in Threads : Sealing(d, t)' = Sealing(d, t)

LEMMA StillInductive == Inductive /\ Still => Inductive'
<1> SUFFICES ASSUME Inductive, Still PROVE Inductive'
  OBVIOUS
<1> USE DEF Inductive, Still
<1>1. ClipsOwned'
  BY OwnedKept DEF ClipsOwned
<1>2. ClipsKnown'
  BY DEF ClipsKnown
<1>3. Offered'
  BY DEF Offered
<1>4. Accepted'
  BY DEF Accepted, Accounted
<1> QED
  BY <1>1, <1>2, <1>3, <1>4

LEMMA SameSealing ==
  ASSUME loc' = loc
  PROVE  \A d \in Devices, t \in Threads : Sealing(d, t)' = Sealing(d, t)
BY DEF Sealing, In

LEMMA SameOpening ==
  ASSUME rd' = rd
  PROVE  \A p \in Port : Opening(p)' = Opening(p)
BY DEF Opening, At

LEMMA MoveSealing ==
  ASSUME TypeOK, NEW d \in Devices, NEW t \in Threads, NEW w, Step(d, t, w)
  PROVE  \A e \in Devices, u \in Threads :
           Sealing(e, u)' = IF e = d /\ u = t
                              THEN IF w.pc = "seal" THEN {w.m} ELSE {}
                              ELSE Sealing(e, u)
BY DEF TypeOK, Step, Sealing, In

LEMMA MoveOpening ==
  ASSUME TypeOK, NEW p \in Port, NEW h, rd' = [rd EXCEPT ![p] = h]
  PROVE  \A q \in Port : Opening(q)' = IF q = p
                                         THEN IF h.pc = "open" THEN {h.m} ELSE {}
                                         ELSE Opening(q)
BY DEF TypeOK, Opening, At

LEMMA OpeningIdle ==
  ASSUME TypeOK, NEW p \in Port, rd' = [rd EXCEPT ![p] = Idle]
  PROVE  /\ Opening(p)' = {}
         /\ \A q \in Port : q # p => Opening(q)' = Opening(q)
BY DEF TypeOK, Opening, At, Idle, Handling

LEMMA OpeningDone ==
  ASSUME TypeOK, NEW p \in Port, NEW pc \in {"write", "seq", "store", "hist"}, NEW m, NEW seq,
         rd' = [rd EXCEPT ![p] = Handling(pc, m, seq)]
  PROVE  /\ Opening(p)' = {}
         /\ \A q \in Port : q # p => Opening(q)' = Opening(q)
BY DEF TypeOK, Opening, At, Handling

LEMMA OpeningStarts ==
  ASSUME TypeOK, NEW p \in Port, NEW m, rd' = [rd EXCEPT ![p] = Handling("open", m, 0)]
  PROVE  /\ Opening(p)' = {m}
         /\ \A q \in Port : q # p => Opening(q)' = Opening(q)
BY DEF TypeOK, Opening, At, Handling

LEMMA SealingKept ==
  ASSUME TypeOK, NEW d \in Devices, NEW t \in Threads, NEW w, Step(d, t, w),
         loc[d][t].pc # "seal", w.pc # "seal"
  PROVE  \A e \in Devices, u \in Threads : Sealing(e, u)' = Sealing(e, u)
BY DEF TypeOK, Step, Sealing, In

LEMMA RunStill ==
  ASSUME TypeOK, NEW d \in Devices, Run(d)
  PROVE  Still
<1> USE DEF node, clipboard, net, history, Still
<1>1. "run" \in Threads
  BY DEF Threads
<1>2. CASE BootSeq(d)
  BY <1>1, <1>2, SealingKept, SameOpening DEF BootSeq, Doing, In
<1>3. CASE BootRead(d)
  BY <1>1, <1>3, SealingKept, SameOpening DEF BootRead, Doing, Resting, In
<1>4. CASE BootHash(d)
  BY <1>1, <1>4, SealingKept, SameOpening DEF BootHash, Doing, Resting, In
<1> QED
  BY <1>2, <1>3, <1>4 DEF Run

LEMMA PollStill ==
  ASSUME TypeOK, NEW d \in Devices, NEW t \in Threads, Poll(d, t)
  PROVE  Still
<1> USE DEF node, clipboard, net, history, Still
<1>1. CASE PollSeq(d, t)
  BY <1>1, SealingKept, SameOpening DEF PollSeq, Doing, In
<1>2. CASE PollUnchanged(d, t)
  BY <1>2, SealingKept, SameOpening DEF PollUnchanged, Doing, Resting, In
<1>3. CASE PollChanged(d, t)
  BY <1>3, SealingKept, SameOpening DEF PollChanged, Doing, In
<1>4. CASE PollRead(d, t)
  BY <1>4, SealingKept, SameOpening DEF PollRead, Doing, In
<1>5. CASE PollFails(d, t)
  BY <1>5, SealingKept, SameOpening DEF PollFails, Doing, Resting, In
<1> QED
  BY <1>1, <1>2, <1>3, <1>4, <1>5 DEF Poll

LEMMA CopyStill ==
  ASSUME TypeOK, NEW d \in Devices, NEW t \in Threads,
         CopyIgnored(d, t) \/ CopyWithheld(d, t) \/ LocalHistory(d, t)
  PROVE  Still
<1> USE DEF node, clipboard, net, history, Still
<1>1. CASE CopyIgnored(d, t)
  BY <1>1, SealingKept, SameOpening DEF CopyIgnored, Doing, Resting, In
<1>2. CASE CopyWithheld(d, t)
  BY <1>2, SealingKept, SameOpening DEF CopyWithheld, Doing, Resting, In
<1>3. CASE LocalHistory(d, t)
  BY <1>3, SealingKept, SameOpening DEF LocalHistory, Doing, Resting, In
<1> QED
  BY <1>1, <1>2, <1>3

LEMMA ClipboardStill ==
  ASSUME TypeOK, NEW p \in Port,
         HandleWrite(p) \/ HandleSeq(p) \/ HandleStore(p) \/ HandleFails(p) \/ HandleHistory(p)
  PROVE  Still
<1> USE DEF node, clipboard, net, history, Still
<1>1. CASE HandleWrite(p)
  BY <1>1, MoveOpening, SameSealing DEF HandleWrite, Goto, Handling, Opening, At
<1>2. CASE HandleSeq(p)
  BY <1>2, MoveOpening, SameSealing DEF HandleSeq, Handling, Opening, At
<1>3. CASE HandleStore(p)
  BY <1>3, MoveOpening, SameSealing DEF HandleStore, Finish, Handling, Idle, Opening, At
<1>4. CASE HandleFails(p)
  BY <1>4, MoveOpening, SameSealing DEF HandleFails, Finish, Handling, Idle, Opening, At
<1>5. CASE HandleHistory(p)
  BY <1>5, MoveOpening, SameSealing DEF HandleHistory, Handling, Idle, Opening, At
<1> QED
  BY <1>1, <1>2, <1>3, <1>4, <1>5

LEMMA UserStill ==
  ASSUME TypeOK, NEW d \in Devices, UserCopy(d) \/ Recopy(d) \/ SetSettings(d)
  PROVE  Still
<1> USE DEF node, clipboard, net, history, Still
<1>1. CASE UserCopy(d)
  BY <1>1, SameSealing, SameOpening DEF UserCopy
<1>2. CASE Recopy(d)
  <2>1. Step(d, "ui", Doing("poll", NoClip, 0, NoCopy)) /\ In(d, "ui", "idle") /\ "ui" \in Threads
    BY <1>2 DEF Recopy, Threads
  <2>2. UNCHANGED <<node, net, rd, history>>
    BY <1>2 DEF Recopy
  <2> QED
    BY <2>1, <2>2, SealingKept, SameOpening DEF Doing, In
<1>3. CASE SetSettings(d)
  BY <1>3, SameSealing, SameOpening DEF SetSettings
<1> QED
  BY <1>1, <1>2, <1>3

-----------------------------------------------------------------------------
(* The steps that matter: links.                                           *)

LEMMA ConnectInductive ==
  ASSUME Typed, Inductive, NEW c \in Conns, Connect(c)
  PROVE  Inductive'
<1> USE DEF Inductive, Typed, node, history
<1>1. /\ UNCHANGED <<current, seen, wire, rd, loc, issued, held, got, dropped>>
      /\ \A p \in Port : p[1] = c => st[p] = "off" /\ st'[p] = "ready"
      /\ \A p \in Port : p[1] # c => st'[p] = st[p] /\ open'[p[1]] = open[p[1]]
  BY PortFacts DEF Connect, TypeOK
<1>2. \A p \in Port : Opening(p)' = Opening(p)
  BY <1>1, SameOpening
<1>3. ClipsOwned'
  BY <1>1, SameSealing, OwnedKept DEF ClipsOwned
<1>4. ClipsKnown'
  BY <1>1, <1>2 DEF ClipsKnown
<1>5. Offered'
  BY <1>1, OfferedKept
<1>6. Accepted'
  BY <1>1, <1>2, AcceptedKept
<1> QED
  BY <1>3, <1>4, <1>5, <1>6

LEMMA BreakInductive ==
  ASSUME Typed, Inductive, NEW c \in Conns, Break(c)
  PROVE  Inductive'
<1> USE DEF Inductive, Typed, node, history
<1>1. /\ UNCHANGED <<current, seen, st, wire, rd, loc, issued, held, got, dropped>>
      /\ \A p \in Port : open'[p[1]] => open[p[1]]
  BY PortFacts DEF Break, TypeOK
<1>2. \A p \in Port : Opening(p)' = Opening(p)
  BY <1>1, SameOpening
<1>3. ClipsOwned'
  BY <1>1, SameSealing, OwnedKept DEF ClipsOwned
<1>4. ClipsKnown'
  BY <1>1, <1>2 DEF ClipsKnown
<1>5. Offered'
  BY <1>1, OfferedKept
<1>6. Accepted'
  BY <1>1, <1>2, AcceptedKept
<1> QED
  BY <1>3, <1>4, <1>5, <1>6

\* AddLink leaves no window: the clip that is current is on its way at once.
LEMMA AddLinkInductive ==
  ASSUME Typed, Inductive, NEW p \in Port, AddLink(p)
  PROVE  Inductive'
<1> DEFINE a == Dev(p)
<1> USE DEF Inductive, Typed, node, history
<1>1. /\ UNCHANGED <<current, seen, open, rd, loc, issued, held, got, dropped>>
      /\ st[p] = "ready" /\ st'[p] = "up"
      /\ \A q \in Port : q # p => st'[q] = st[q]
  BY DEF AddLink, TypeOK
<1>2. wire' = wire \/ (current[a] # NoClip /\ wire' = Sent({p}, current[a]))
  BY DEF AddLink
<1>3. current[a] # NoClip => current[a] \in Clip /\ current[a] \in got[a]
  BY PortFacts DEF TypeOK, MaybeClip, ClipsKnown
<1>4. /\ \A q \in Port : wire[q] \subseteq wire'[q]
      /\ \A q \in Port : q # Peer(p) => wire'[q] = wire[q]
      /\ wire'[Peer(p)] \subseteq wire[Peer(p)] \cup got[a]
      /\ ~open[p[1]] => wire'[Peer(p)] = wire[Peer(p)]
  <2>1. CASE wire' = wire
    BY <2>1
  <2>2. CASE current[a] # NoClip /\ wire' = Sent({p}, current[a])
    <3>1. \A q \in Port : Peer(q) = p => q = Peer(p)
      BY PortFacts
    <3> QED
      BY <1>3, <2>2, <3>1, PortFacts DEF Sent
  <2> QED
    BY <1>2, <2>1, <2>2
<1>5. open[p[1]] /\ current[a] # NoClip => current[a] \in wire'[Peer(p)]
  BY <1>3, SentSends DEF AddLink
<1>6. \A q \in Port : Opening(q)' = Opening(q)
  BY <1>1, SameOpening
<1>7. ClipsOwned'
  <2>1. got[a] \subseteq Published
    BY PortFacts DEF ClipsOwned
  <2>2. \A q \in Port : wire'[q] \subseteq Published
    BY <1>4, <2>1, PortFacts DEF ClipsOwned
  <2> QED
    BY <1>1, <2>2, SameSealing, OwnedKept DEF ClipsOwned
<1>8. ClipsKnown'
  <2>1. st'[Peer(p)] = st[Peer(p)] /\ Dev(Peer(Peer(p))) = a /\ Peer(p)[1] = p[1]
    BY <1>1, PortFacts
  <2>2. st[Peer(p)] = "off" => ~open[p[1]]
    BY PortFacts DEF ClipsKnown
  <2>3. \A d \in Devices :
          /\ held'[d] \subseteq got'[d]
          /\ current'[d] # NoClip => current'[d] \in held'[d]
          /\ \A id \in Range(seen'[d]) : \E m \in got'[d] : m.id = id
    BY <1>1 DEF ClipsKnown
  <2>4. \A q \in Port :
          /\ Opening(q)' \subseteq got'[Dev(q)]
          /\ open'[q[1]] => wire'[q] \cup Opening(q)' \subseteq got'[Dev(Peer(q))]
          /\ st'[q] = "off" => ~open'[q[1]] /\ wire'[q] = {}
          /\ st'[q] # "up" => Opening(q)' = {}
    BY <1>1, <1>4, <1>6, <2>1, <2>2 DEF ClipsKnown
  <2> QED
    BY <2>3, <2>4 DEF ClipsKnown
<1>9. Offered'
  <2>1. \A q \in Port : wire[Peer(q)] \subseteq wire'[Peer(q)]
    BY <1>4, PortFacts
  <2> QED
    BY <1>1, <1>5, <2>1, OfferedKept
<1>10. Accepted'
  BY <1>1, <1>6, AcceptedKept
<1> QED
  BY <1>7, <1>8, <1>9, <1>10

LEMMA RemoveLinkInductive ==
  ASSUME Typed, Inductive, NEW p \in Port, RemoveLink(p)
  PROVE  Inductive'
<1> USE DEF Inductive, Typed, node, history
<1>1. /\ UNCHANGED <<current, seen, open, rd, loc, issued, held, got, dropped>>
      /\ ~open[p[1]] /\ rd[p] = Idle /\ wire'[p] = {}
      /\ \A q \in Port : q # p => st'[q] = st[q] /\ wire'[q] = wire[q]
  BY DEF RemoveLink, TypeOK
<1>2. /\ \A q \in Port : Opening(q)' = Opening(q)
      /\ Opening(p) = {}
  BY <1>1, SameOpening DEF Opening, At, Idle, Handling
<1>3. ClipsOwned'
  <2>1. \A q \in Port : wire'[q] \subseteq Published
    BY <1>1 DEF ClipsOwned
  <2> QED
    BY <1>1, <2>1, SameSealing, OwnedKept DEF ClipsOwned
<1>4. ClipsKnown'
  BY <1>1, <1>2 DEF ClipsKnown
<1>5. Offered'
  <2>1. \A q \in Port : q # Peer(p) => Peer(q) # p
    BY PortFacts
  <2>2. \A q \in Port : open[q[1]] => q # p /\ q # Peer(p)
    BY <1>1, PortFacts
  <2>3. \A q \in Port : open[q[1]] => wire'[Peer(q)] = wire[Peer(q)] /\ st'[q] = st[q]
    BY <1>1, <2>1, <2>2, PortFacts
  <2> QED
    BY <1>1, <2>3, OfferedKept
<1>6. Accepted'
  BY <1>1, <1>2, AcceptedKept
<1> QED
  BY <1>3, <1>4, <1>5, <1>6

-----------------------------------------------------------------------------
(* Handle's two holds of the lock.                                         *)

\* A published clip that the early return takes for known is accounted for:
\* its id is that of a clip the device has, or current is newer.
LEMMA KnownAccounted ==
  ASSUME Typed, Inductive, NEW d \in Devices, NEW m \in Clip, m \in Published, Known(d, m)
  PROVE  Accounted(d, m)
<1> USE DEF Inductive, Typed
<1>1. CASE m.id \in Range(seen[d])
  <2>1. PICK n \in got[d] : n.id = m.id
    BY <1>1 DEF ClipsKnown
  <2>2. n \in issued /\ m \in issued
    BY <2>1 DEF ClipsOwned, Published
  <2>3. n = m
    BY <2>1, <2>2 DEF ClipsOwned
  <2> QED
    BY <2>1, <2>3 DEF Accepted
<1>2. CASE ~Newer(m, current[d])
  <2>1. current[d] # NoClip /\ current[d] \in held[d]
    BY <1>2 DEF Newer, ClipsKnown
  <2>2. current[d] \in Clip /\ current[d] \in issued /\ m \in issued
    BY <2>1 DEF TypeOK, MaybeClip, ClipsKnown, ClipsOwned, Published
  <2>3. AtLeastAsNew(current[d], m)
    <3>1. CASE m.id = current[d].id
      BY <2>2, <3>1 DEF ClipsOwned, AtLeastAsNew
    <3>2. CASE m.id # current[d].id
      BY <1>2, <2>2, <3>2, NewerTotal DEF AtLeastAsNew
    <3> QED
      BY <3>1, <3>2
  <2> QED
    BY <2>1, <2>3 DEF Accounted
<1> QED
  BY <1>1, <1>2 DEF Known

LEMMA ReceiveInductive ==
  ASSUME Typed, Inductive, NEW p \in Port, Receive(p)
  PROVE  Inductive'
<1> DEFINE d == Dev(p)
<1> USE DEF Inductive, Typed
<1>1. PICK m \in wire[p] : ReceivePaused(p, m) \/ ReceiveKnown(p, m) \/ ReceiveNew(p, m)
  BY DEF Receive
<1>2. Arrive(p, m) /\ d \in Devices /\ m \in Clip /\ m \in Published
  BY <1>1, PortFacts DEF ReceivePaused, ReceiveKnown, ReceiveNew, TypeOK, ClipsOwned
<1>3. /\ UNCHANGED <<current, st, open, loc, issued, held>>
      /\ st[p] = "up" /\ Opening(p) = {}
      /\ wire'[p] = wire[p] \ {m} /\ \A q \in Port : q # p => wire'[q] = wire[q]
      /\ got'[d] = got[d] \cup {m} /\ \A e \in Devices : e # d => got'[e] = got[e]
  BY <1>2 DEF Arrive, TypeOK, Opening, At, Idle, Handling
<1>4. /\ \A q \in Port : q # p => Opening(q)' = Opening(q)
      /\ Opening(p)' \subseteq {m}
  <2>1. CASE rd' = rd
    BY <1>3, <2>1, SameOpening
  <2>2. CASE rd' = [rd EXCEPT ![p] = Handling("open", m, 0)]
    BY <2>2, OpeningStarts
  <2> QED
    BY <1>1, <2>1, <2>2 DEF ReceivePaused, ReceiveKnown, ReceiveNew
<1>5. \A e \in Devices :
        /\ dropped[e] \subseteq dropped'[e]
        /\ e # d => seen'[e] = seen[e]
  BY <1>1, <1>2 DEF ReceivePaused, ReceiveKnown, ReceiveNew, TypeOK
<1>6. Range(seen'[d]) \subseteq Range(seen[d]) \cup {m.id}
  <2>1. CASE seen' = seen
    BY <2>1
  <2>2. CASE seen' = [seen EXCEPT ![d] = MarkSeen(seen[d], m.id)]
    <3>1. seen'[d] = MarkSeen(seen[d], m.id) /\ seen[d] \in Seq(Ids) /\ m.id \in Ids
      BY <1>2, <2>2, ClipFields DEF TypeOK
    <3> QED
      BY <3>1, MarkSeenType
  <2> QED
    BY <1>1, <2>1, <2>2 DEF ReceivePaused, ReceiveKnown, ReceiveNew
<1>7. Accounted(d, m)'
  <2>1. CASE ReceivePaused(p, m)
    BY <1>2, <2>1 DEF ReceivePaused, Accounted, TypeOK
  <2>2. CASE ReceiveKnown(p, m)
    <3>1. Accounted(d, m)
      BY <1>2, <2>2, KnownAccounted DEF ReceiveKnown
    <3>2. dropped' = dropped /\ rd' = rd
      BY <2>2 DEF ReceiveKnown
    <3> QED
      BY <1>3, <3>1, <3>2, SameOpening DEF Accounted
  <2>3. CASE ReceiveNew(p, m)
    <3>1. Opening(p)' = {m}
      BY <2>3, OpeningStarts DEF ReceiveNew
    <3> QED
      BY <3>1 DEF Accounted
  <2> QED
    BY <1>1, <2>1, <2>2, <2>3
<1>8. ClipsOwned'
  <2>1. /\ \A q \in Port : wire'[q] \subseteq Published
        /\ \A e \in Devices : got'[e] \subseteq Published
    BY <1>2, <1>3 DEF ClipsOwned
  <2> QED
    BY <1>3, <2>1, SameSealing, OwnedKept
<1>9. ClipsKnown'
  <2>1. \A e \in Devices :
          /\ held'[e] \subseteq got'[e]
          /\ current'[e] # NoClip => current'[e] \in held'[e]
          /\ \A id \in Range(seen'[e]) : \E n \in got'[e] : n.id = id
    <3> SUFFICES ASSUME NEW e \in Devices
                 PROVE  /\ held'[e] \subseteq got'[e]
                        /\ current'[e] # NoClip => current'[e] \in held'[e]
                        /\ \A id \in Range(seen'[e]) : \E n \in got'[e] : n.id = id
      OBVIOUS
    <3>1. /\ held[e] \subseteq got[e]
          /\ current[e] # NoClip => current[e] \in held[e]
          /\ \A id \in Range(seen[e]) : \E n \in got[e] : n.id = id
      BY DEF ClipsKnown
    <3>2. CASE e = d
      BY <1>3, <1>6, <3>1, <3>2
    <3>3. CASE e # d
      BY <1>3, <1>5, <3>1, <3>3
    <3> QED
      BY <3>2, <3>3
  <2>2. open[p[1]] => m \in got[Dev(Peer(p))]
    BY DEF ClipsKnown
  <2>3. \A q \in Port :
          /\ Opening(q)' \subseteq got'[Dev(q)]
          /\ open'[q[1]] => wire'[q] \cup Opening(q)' \subseteq got'[Dev(Peer(q))]
          /\ st'[q] = "off" => ~open'[q[1]] /\ wire'[q] = {}
          /\ st'[q] # "up" => Opening(q)' = {}
    BY <1>3, <1>4, <2>2, PortFacts DEF ClipsKnown
  <2> QED
    BY <2>1, <2>3 DEF ClipsKnown
<1>10. Offered'
  <2>1. \A q \in Port : wire[Peer(q)] \cup got[Dev(Peer(q))]
                          \subseteq wire'[Peer(q)] \cup got'[Dev(Peer(q))]
    BY <1>3, PortFacts
  <2> QED
    BY <1>3, <2>1, OfferedKept
<1>11. Accepted'
  <2>1. \A e \in Devices : \A n \in got'[e] \ got[e] : e = d /\ n = m
    BY <1>3
  <2>2. \A e \in Devices : \A n \in got'[e] \ got[e] : Accounted(e, n)'
    BY <1>7, <2>1
  <2>3. \A q \in Port : \A n \in Opening(q) : n \in Opening(q)'
    BY <1>3, <1>4
  <2>4. \A e \in Devices : dropped[e] \subseteq dropped'[e] /\ held[e] \subseteq held'[e]
    BY <1>3, <1>5
  <2> QED
    BY <2>2, <2>3, <2>4, AcceptedKept
<1> QED
  BY <1>8, <1>9, <1>10, <1>11

\* Handle gives up on a clip that d cannot open, or that current has overtaken.
LEMMA GiveUpInductive ==
  ASSUME Typed, Inductive, NEW p \in Port, HandleUnreadable(p) \/ HandleStale(p),
         NEW m, m = rd[p].m
  PROVE  Inductive'
<1> DEFINE d == Dev(p)
<1> USE DEF Inductive, Typed, node, net, history
<1>1. /\ UNCHANGED <<current, seen, st, open, wire, loc, issued, held, got>>
      /\ rd' = [rd EXCEPT ![p] = Idle] /\ Opening(p) = {m} /\ m \in Clip /\ d \in Devices
  BY PortFacts DEF HandleUnreadable, HandleStale, Opening, At, HandlerHasClip
<1>2. /\ Opening(p)' = {}
      /\ \A q \in Port : q # p => Opening(q)' = Opening(q)
  BY <1>1, OpeningIdle
<1>3. \A e \in Devices : dropped[e] \subseteq dropped'[e]
  <2>1. \/ dropped' = dropped
        \/ dropped' = [dropped EXCEPT ![d] = dropped[d] \cup {m}]
    BY DEF HandleUnreadable, HandleStale
  <2>2. dropped \in [Devices -> SUBSET Clip]
    BY DEF TypeOK
  <2> QED
    BY ONLY <2>1, <2>2
<1>4. Accounted(d, m)'
  <2>1. CASE HandleUnreadable(p)
    BY <1>1, <2>1 DEF HandleUnreadable, Accounted, TypeOK
  <2>2. CASE HandleStale(p)
    <3>1. ~Newer(m, current[d]) /\ m \in got[d]
      BY <1>1, <2>2 DEF HandleStale, Overtaken, ClipsKnown
    <3>2. current[d] # NoClip /\ current[d] \in held[d]
      BY <1>1, <3>1 DEF Newer, ClipsKnown
    <3>3. current[d] \in Clip /\ current[d] \in issued /\ m \in issued
      BY <1>1, <3>1, <3>2 DEF TypeOK, MaybeClip, ClipsKnown, ClipsOwned, Published
    <3>4. AtLeastAsNew(current[d], m)
      <4>1. CASE m.id = current[d].id
        BY <3>3, <4>1 DEF ClipsOwned, AtLeastAsNew
      <4>2. CASE m.id # current[d].id
        BY <1>1, <3>1, <3>3, <4>2, NewerTotal DEF AtLeastAsNew
      <4> QED
        BY <4>1, <4>2
    <3> QED
      BY <1>1, <3>2, <3>4 DEF Accounted
  <2> QED
    BY <2>1, <2>2
<1>5. ClipsOwned'
  BY <1>1, SameSealing, OwnedKept DEF ClipsOwned
<1>6. ClipsKnown'
  BY <1>1, <1>2 DEF ClipsKnown
<1>7. Offered'
  BY <1>1, OfferedKept
<1>8. Accepted'
  <2>1. \A q \in Port : \A n \in Opening(q) : n \in Opening(q)' \/ Accounted(Dev(q), n)'
    BY <1>1, <1>2, <1>4
  <2> QED
    BY <1>1, <1>3, <2>1, AcceptedKept
<1> QED
  BY <1>5, <1>6, <1>7, <1>8

\* Handle's second hold of the lock: current, and the sends to the other links,
\* in one step.
LEMMA HandleApplyInductive ==
  ASSUME Typed, Inductive, NEW p \in Port, HandleApply(p), NEW m, m = rd[p].m
  PROVE  Inductive'
<1> DEFINE d == Dev(p)
           to == Links(d) \ {p}
<1> USE DEF Inductive, Typed
<1>1. /\ UNCHANGED <<seen, st, open, loc, issued, got, dropped>>
      /\ Opening(p) = {m} /\ m \in Clip /\ d \in Devices /\ wire' = Sent(to, m)
  BY PortFacts DEF HandleApply, Opening, At, HandlerHasClip
<1>2. /\ current'[d] = m /\ held'[d] = held[d] \cup {m}
      /\ \A e \in Devices : e # d => current'[e] = current[e] /\ held'[e] = held[e]
  BY <1>1 DEF HandleApply, TypeOK
<1>3. m \in got[d] /\ m \in Published
  BY <1>1 DEF ClipsKnown, ClipsOwned
<1>4. /\ Opening(p)' = {}
      /\ \A q \in Port : q # p => Opening(q)' = Opening(q)
  <2>1. \/ rd' = [rd EXCEPT ![p] = Idle]
        \/ rd' = [rd EXCEPT ![p] = Handling("hist", m, 0)]
        \/ rd' = [rd EXCEPT ![p] = Handling("write", m, 0)]
    BY DEF HandleApply, Finish, Goto
  <2> QED
    BY <2>1, OpeningDone, OpeningIdle
<1>5. \A q \in Port :
        /\ wire[q] \subseteq wire'[q]
        /\ wire'[q] \subseteq wire[q] \cup {m}
        /\ ~open[q[1]] => wire'[q] = wire[q]
        /\ Dev(Peer(q)) # d => wire'[q] = wire[q]
  <2>1. \A q \in Port : Dev(Peer(q)) # d => Peer(q) \notin to
    BY DEF Links
  <2> QED
    BY <1>1, <2>1, SentType DEF Sent, TypeOK
<1>6. ClipsOwned'
  <2>1. \A q \in Port : wire'[q] \subseteq Published
    <3>1. \A q \in Port : wire[q] \subseteq Published
      BY DEF ClipsOwned
    <3> QED
      BY <1>3, <1>5, <3>1
  <2> QED
    BY <1>1, <2>1, SameSealing, OwnedKept DEF ClipsOwned
<1>7. ClipsKnown'
  <2>1. \A e \in Devices :
          /\ held'[e] \subseteq got'[e]
          /\ current'[e] # NoClip => current'[e] \in held'[e]
          /\ \A id \in Range(seen'[e]) : \E n \in got'[e] : n.id = id
    BY <1>1, <1>2, <1>3 DEF ClipsKnown
  <2>2. \A q \in Port :
          /\ Opening(q)' \subseteq got'[Dev(q)]
          /\ open'[q[1]] => wire'[q] \cup Opening(q)' \subseteq got'[Dev(Peer(q))]
          /\ st'[q] = "off" => ~open'[q[1]] /\ wire'[q] = {}
          /\ st'[q] # "up" => Opening(q)' = {}
    <3> SUFFICES ASSUME NEW q \in Port
                 PROVE  /\ Opening(q)' \subseteq got'[Dev(q)]
                        /\ open'[q[1]] => wire'[q] \cup Opening(q)' \subseteq got'[Dev(Peer(q))]
                        /\ st'[q] = "off" => ~open'[q[1]] /\ wire'[q] = {}
                        /\ st'[q] # "up" => Opening(q)' = {}
      OBVIOUS
    <3>1. /\ Opening(q) \subseteq got[Dev(q)]
          /\ open[q[1]] => wire[q] \cup Opening(q) \subseteq got[Dev(Peer(q))]
          /\ st[q] = "off" => ~open[q[1]] /\ wire[q] = {}
          /\ st[q] # "up" => Opening(q) = {}
      BY DEF ClipsKnown
    <3>2. Opening(q)' \subseteq Opening(q)
      BY <1>4
    <3>3. wire'[q] = wire[q] \/ (open[q[1]] /\ Dev(Peer(q)) = d /\ wire'[q] \subseteq wire[q] \cup {m})
      BY <1>5
    <3> QED
      BY <1>1, <1>3, <3>1, <3>2, <3>3
  <2> QED
    BY <2>1, <2>2 DEF ClipsKnown
<1>8. Offered'
  <2>1. ASSUME NEW q \in Port, open'[q[1]], st'[q] = "up", current'[Dev(q)] # NoClip
        PROVE  \/ current'[Dev(q)] \in wire'[Peer(q)] \cup got'[Dev(Peer(q))]
               \/ /\ open[q[1]] /\ st[q] = "up" /\ current'[Dev(q)] = current[Dev(q)]
                  /\ wire[Peer(q)] \cup got[Dev(Peer(q))]
                       \subseteq wire'[Peer(q)] \cup got'[Dev(Peer(q))]
    <3>1. CASE Dev(q) = d /\ q # p
      BY <1>1, <1>2, <2>1, <3>1, SentSends DEF Links
    <3>2. CASE q = p
      BY <1>1, <1>2, <2>1, <3>2 DEF ClipsKnown
    <3>3. CASE Dev(q) # d
      <4>1. Dev(q) \in Devices /\ Peer(q) \in Port
        BY PortFacts
      <4>2. current'[Dev(q)] = current[Dev(q)]
        BY <1>2, <3>3, <4>1
      <4>3. wire[Peer(q)] \subseteq wire'[Peer(q)]
        BY <1>5, <4>1
      <4> QED
        BY <1>1, <2>1, <4>2, <4>3
    <3> QED
      BY <3>1, <3>2, <3>3
  <2> QED
    BY <2>1, OfferedKept
<1>9. Accepted'
  <2>1. Accounted(d, m)'
    BY <1>2 DEF Accounted, AtLeastAsNew
  <2>2. \A q \in Port : \A n \in Opening(q) : n \in Opening(q)' \/ Accounted(Dev(q), n)'
    BY <1>1, <1>4, <2>1
  <2>3. \A e \in Devices : dropped[e] \subseteq dropped'[e] /\ held[e] \subseteq held'[e]
    BY <1>1, <1>2
  <2> QED
    BY <1>1, <2>2, <2>3, AcceptedKept
<1> QED
  BY <1>6, <1>7, <1>8, <1>9

-----------------------------------------------------------------------------
(* LocalCopy's two holds of the lock, and a new process.                   *)

\* The stamped clip is new, and belongs to the thread that stamped it.
LEMMA StampOwns ==
  ASSUME TypeOK, NEW d \in Devices, NEW t \in Threads, NEW m, Stamped(d, t, m), m \notin issued
  PROVE  /\ Sealing(d, t)' = {m}
         /\ Sealing(d, t) = {}
         /\ \A e \in Devices, u \in Threads :
              ~(e = d /\ u = t) => Sealing(e, u)' = Sealing(e, u)
         /\ Published' = Published
<1>1. Step(d, t, Doing("seal", m, 0, loc[d][t].c)) /\ loc[d][t].pc = "copy"
  BY DEF Stamped, In
<1>2. Doing("seal", m, 0, loc[d][t].c).pc = "seal" /\ Doing("seal", m, 0, loc[d][t].c).m = m
  BY DEF Doing
<1>3. Sealing(d, t) = {}
  BY <1>1 DEF Sealing, In
<1>4. /\ Sealing(d, t)' = {m}
      /\ \A e \in Devices, u \in Threads :
           ~(e = d /\ u = t) => Sealing(e, u)' = Sealing(e, u)
  BY <1>1, <1>2, MoveSealing
<1>5. issued' = issued \cup {m}
  BY DEF Stamped
<1> QED
  BY <1>3, <1>4, <1>5 DEF Published

LEMMA LocalStampInductive ==
  ASSUME Typed, Inductive, NEW d \in Devices, NEW t \in Threads, LocalStamp(d, t)
  PROVE  Inductive'
<1> USE DEF Inductive, Typed
<1>1. PICK m : Stamped(d, t, m) /\ m.origin = d /\ \A n \in issued : n.id # m.id
  BY DEF LocalStamp
<1>2. /\ UNCHANGED <<current, seen, st, open, wire, rd, held, got, dropped>>
      /\ issued' = issued \cup {m} /\ m \notin issued
  BY <1>1 DEF Stamped, clipboard, net
<1>3. /\ Sealing(d, t)' = {m}
      /\ Sealing(d, t) = {}
      /\ \A e \in Devices, u \in Threads :
           ~(e = d /\ u = t) => Sealing(e, u)' = Sealing(e, u)
      /\ Published' = Published
  BY <1>1, <1>2, StampOwns
<1>4. \A q \in Port : Opening(q)' = Opening(q)
  BY <1>2, SameOpening
<1>6. ClipsOwned'
  <2>1. \A n, o \in issued' : n.id = o.id => n = o
    BY <1>1, <1>2 DEF ClipsOwned
  <2>2. ASSUME NEW e \in Devices, NEW u \in Threads, NEW n \in Sealing(e, u)'
        PROVE  /\ n \in issued' /\ n.origin = e
               /\ \A f \in Devices, v \in Threads : n \in Sealing(f, v)' => f = e /\ v = u
    <3>1. CASE e = d /\ u = t
      BY <1>1, <1>2, <1>3, <2>2, <3>1 DEF ClipsOwned
    <3>2. CASE ~(e = d /\ u = t)
      BY <1>2, <1>3, <2>2, <3>2 DEF ClipsOwned
    <3> QED
      BY <3>1, <3>2
  <2>3. /\ \A p \in Port : wire'[p] \subseteq Published'
        /\ \A e \in Devices : got'[e] \subseteq Published'
    BY <1>2, <1>3 DEF ClipsOwned
  <2> QED
    BY <2>1, <2>2, <2>3 DEF ClipsOwned
<1>7. ClipsKnown'
  BY <1>2, <1>4 DEF ClipsKnown
<1>8. Offered'
  BY <1>2 DEF Offered
<1>9. Accepted'
  BY <1>2, <1>4 DEF Accepted, Accounted
<1> QED
  BY <1>6, <1>7, <1>8, <1>9

\* Only the owner of a stamped clip publishes it, once.
LEMMA SealPublishes ==
  ASSUME TypeOK, ClipsOwned, NEW d \in Devices, NEW t \in Threads, LocalSeal(d, t),
         NEW m, m = loc[d][t].m
  PROVE  /\ Sealing(d, t) = {m} /\ Sealing(d, t)' = {}
         /\ \A e \in Devices, u \in Threads :
              ~(e = d /\ u = t) => Sealing(e, u)' = Sealing(e, u)
         /\ Published' = Published \cup {m} /\ m \in issued /\ m \notin Published /\ m.origin = d
<1>1. issued' = issued /\ Sealing(d, t) = {m}
  BY DEF LocalSeal, In, Sealing
<1>2. /\ Sealing(d, t)' = {}
      /\ \A e \in Devices, u \in Threads :
           ~(e = d /\ u = t) => Sealing(e, u)' = Sealing(e, u)
  <2>1. \/ Step(d, t, Doing("hist", m, 0, NoCopy))
        \/ Step(d, t, Resting)
    BY DEF LocalSeal
  <2>2. Doing("hist", m, 0, NoCopy).pc = "hist" /\ Resting.pc = "idle"
    BY DEF Doing, Resting
  <2> QED
    BY <2>1, <2>2, MoveSealing
<1>3. /\ m \in issued /\ m.origin = d
      /\ \A e \in Devices, u \in Threads : m \in Sealing(e, u) => e = d /\ u = t
  BY <1>1 DEF ClipsOwned
<1>4. m \in Published' /\ m \notin Published
  BY <1>1, <1>2, <1>3 DEF Published
<1>5. Published \subseteq Published' /\ Published' \subseteq Published \cup {m}
  BY <1>1, <1>2 DEF Published
<1> QED
  BY <1>1, <1>2, <1>3, <1>4, <1>5

LEMMA LocalSealInductive ==
  ASSUME Typed, Inductive, NEW d \in Devices, NEW t \in Threads, LocalSeal(d, t),
         NEW m, m = loc[d][t].m
  PROVE  Inductive'
<1> DEFINE to == Links(d)
<1> USE DEF Inductive, Typed
<1>1. /\ UNCHANGED <<st, open, rd, issued, dropped>>
      /\ m \in Clip /\ m.id \in Ids /\ wire' = Sent(to, m) /\ Sealing(d, t) = {m}
  BY ClipFields DEF LocalSeal, In, CopyHasContent, Sealing
<1>2. /\ current'[d] = m /\ held'[d] = held[d] \cup {m} /\ got'[d] = got[d] \cup {m}
      /\ seen'[d] = MarkSeen(seen[d], m.id)
      /\ \A e \in Devices : e # d => /\ current'[e] = current[e] /\ held'[e] = held[e]
                                    /\ got'[e] = got[e] /\ seen'[e] = seen[e]
  BY <1>1 DEF LocalSeal, TypeOK
<1>3. /\ Sealing(d, t)' = {}
      /\ \A e \in Devices, u \in Threads :
           ~(e = d /\ u = t) => Sealing(e, u)' = Sealing(e, u)
  BY SealPublishes
<1>4. \A q \in Port : Opening(q)' = Opening(q)
  BY <1>1, SameOpening
<1>5. \A q \in Port :
        /\ wire[q] \subseteq wire'[q]
        /\ wire'[q] \subseteq wire[q] \cup {m}
        /\ ~open[q[1]] => wire'[q] = wire[q]
        /\ Dev(Peer(q)) # d => wire'[q] = wire[q]
  <2>1. \A q \in Port : Dev(Peer(q)) # d => Peer(q) \notin to
    BY DEF Links
  <2> QED
    BY <1>1, <2>1, SentType DEF Sent, TypeOK
<1>6. Published' = Published \cup {m}
  BY SealPublishes
<1>7. ClipsOwned'
  <2>1. \A n, o \in issued' : n.id = o.id => n = o
    BY <1>1 DEF ClipsOwned
  <2>2. ASSUME NEW e \in Devices, NEW u \in Threads, NEW n \in Sealing(e, u)'
        PROVE  /\ n \in issued' /\ n.origin = e
               /\ \A f \in Devices, v \in Threads : n \in Sealing(f, v)' => f = e /\ v = u
    <3>1. ~(e = d /\ u = t) /\ n \in Sealing(e, u)
      BY <1>3, <2>2
    <3> QED
      BY <1>1, <1>3, <3>1 DEF ClipsOwned
  <2>3. /\ \A p \in Port : wire'[p] \subseteq Published'
        /\ \A e \in Devices : got'[e] \subseteq Published'
    <3>1. /\ \A p \in Port : wire[p] \subseteq Published
          /\ \A e \in Devices : got[e] \subseteq Published
      BY DEF ClipsOwned
    <3> QED
      BY <1>2, <1>5, <1>6, <3>1
  <2> QED
    BY <2>1, <2>2, <2>3 DEF ClipsOwned
<1>8. ClipsKnown'
  <2>1. ASSUME NEW e \in Devices
        PROVE  /\ held'[e] \subseteq got'[e]
               /\ current'[e] # NoClip => current'[e] \in held'[e]
               /\ \A id \in Range(seen'[e]) : \E n \in got'[e] : n.id = id
    <3>1. /\ held[e] \subseteq got[e]
          /\ current[e] # NoClip => current[e] \in held[e]
          /\ \A id \in Range(seen[e]) : \E n \in got[e] : n.id = id
      BY DEF ClipsKnown
    <3>2. CASE e = d
      <4>1. seen[d] \in Seq(Ids)
        BY DEF TypeOK
      <4>2. Range(seen'[d]) \subseteq Range(seen[d]) \cup {m.id}
        BY <1>1, <1>2, <4>1, MarkSeenType
      <4> QED
        BY <1>2, <3>1, <3>2, <4>2
    <3>3. CASE e # d
      BY <1>2, <3>1, <3>3
    <3> QED
      BY <3>2, <3>3
  <2>2. ASSUME NEW q \in Port
        PROVE  /\ Opening(q)' \subseteq got'[Dev(q)]
               /\ open'[q[1]] => wire'[q] \cup Opening(q)' \subseteq got'[Dev(Peer(q))]
               /\ st'[q] = "off" => ~open'[q[1]] /\ wire'[q] = {}
               /\ st'[q] # "up" => Opening(q)' = {}
    <3>1. /\ Opening(q) \subseteq got[Dev(q)]
          /\ open[q[1]] => wire[q] \cup Opening(q) \subseteq got[Dev(Peer(q))]
          /\ st[q] = "off" => ~open[q[1]] /\ wire[q] = {}
          /\ st[q] # "up" => Opening(q) = {}
      BY DEF ClipsKnown
    <3>2. \A e \in Devices : got[e] \subseteq got'[e]
      BY <1>2
    <3>3. Dev(q) \in Devices /\ Dev(Peer(q)) \in Devices
      BY PortFacts
    <3>4. wire'[q] = wire[q] \/ (open[q[1]] /\ Dev(Peer(q)) = d /\ wire'[q] \subseteq wire[q] \cup {m})
      BY <1>5
    <3> QED
      BY <1>1, <1>2, <1>4, <3>1, <3>2, <3>3, <3>4
  <2> QED
    BY <2>1, <2>2 DEF ClipsKnown
<1>9. Offered'
  <2>1. ASSUME NEW q \in Port, open'[q[1]], st'[q] = "up", current'[Dev(q)] # NoClip
        PROVE  \/ current'[Dev(q)] \in wire'[Peer(q)] \cup got'[Dev(Peer(q))]
               \/ /\ open[q[1]] /\ st[q] = "up" /\ current'[Dev(q)] = current[Dev(q)]
                  /\ wire[Peer(q)] \cup got[Dev(Peer(q))]
                       \subseteq wire'[Peer(q)] \cup got'[Dev(Peer(q))]
    <3>1. CASE Dev(q) = d
      BY <1>1, <1>2, <2>1, <3>1, SentSends DEF Links
    <3>2. CASE Dev(q) # d
      <4>1. Dev(q) \in Devices /\ Peer(q) \in Port /\ Dev(Peer(q)) \in Devices
        BY PortFacts
      <4>2. current'[Dev(q)] = current[Dev(q)]
        BY <1>2, <3>2, <4>1
      <4>3. wire[Peer(q)] \subseteq wire'[Peer(q)] /\ got[Dev(Peer(q))] \subseteq got'[Dev(Peer(q))]
        BY <1>2, <1>5, <4>1
      <4> QED
        BY <1>1, <2>1, <4>2, <4>3
    <3> QED
      BY <3>1, <3>2
  <2> QED
    BY <2>1, OfferedKept
<1>10. Accepted'
  <2>1. Accounted(d, m)'
    BY <1>2 DEF Accounted, AtLeastAsNew
  <2>2. \A e \in Devices : \A n \in got'[e] \ got[e] : e = d /\ n = m
    BY <1>2
  <2>3. \A e \in Devices : dropped[e] \subseteq dropped'[e] /\ held[e] \subseteq held'[e]
    BY <1>1, <1>2
  <2>4. \A e \in Devices : \A n \in got'[e] \ got[e] : Accounted(e, n)'
    BY <2>1, <2>2
  <2> QED
    BY <1>4, <2>3, <2>4, AcceptedKept
<1> QED
  BY <1>7, <1>8, <1>9, <1>10

\* The clips a restarted device had not sealed were never published.
LEMMA RestartPublishes ==
  ASSUME TypeOK, ClipsOwned, NEW d \in Devices, Restart(d)
  PROVE  /\ \A e \in Devices, u \in Threads :
              Sealing(e, u)' = IF e = d THEN {} ELSE Sealing(e, u)
         /\ Published' = Published
<1>1. issued' = issued \ UNION {Sealing(d, t) : t \in Threads}
  BY DEF Restart
<1>2. \A e \in Devices, u \in Threads : Sealing(e, u)' = IF e = d THEN {} ELSE Sealing(e, u)
  <2>1. \A e \in Devices, u \in Threads :
          /\ e = d => loc'[e][u] \in {Starting, Resting}
          /\ e # d => loc'[e][u] = loc[e][u]
    BY DEF Restart, TypeOK
  <2>2. Starting.pc # "seal" /\ Resting.pc # "seal"
    BY DEF Starting, Resting, Doing
  <2> QED
    BY <2>1, <2>2 DEF Sealing, In
<1>3. Published' = Published
  <2>1. \A e \in Devices, u \in Threads, t \in Threads :
          e # d => Sealing(e, u) \cap Sealing(d, t) = {}
    BY DEF ClipsOwned
  <2>2. \A m \in issued : m \in issued' <=> \A t \in Threads : m \notin Sealing(d, t)
    BY <1>1
  <2>3. issued' \subseteq issued
    BY <1>1
  <2>4. \A m : m \in Published' => m \in Published
    BY <1>2, <2>2, <2>3 DEF Published
  <2>5. \A m : m \in Published => m \in Published'
    BY <1>2, <2>2 DEF Published
  <2> QED
    BY <2>4, <2>5
<1> QED
  BY <1>2, <1>3

\* A restarted device has nothing, and takes its links and its unsealed clips
\* down with it.
LEMMA RestartInductive ==
  ASSUME Typed, Inductive, NEW d \in Devices, Restart(d)
  PROVE  Inductive'
<1> USE DEF Inductive, Typed
<1>1. /\ issued' = issued \ UNION {Sealing(d, t) : t \in Threads}
      /\ current'[d] = NoClip /\ seen'[d] = <<>>
      /\ held'[d] = {} /\ got'[d] = {} /\ dropped'[d] = {}
      /\ \A e \in Devices : e # d => /\ current'[e] = current[e] /\ held'[e] = held[e]
                                    /\ got'[e] = got[e] /\ seen'[e] = seen[e]
                                    /\ dropped'[e] = dropped[e]
  BY DEF Restart, NewNode, TypeOK
<1>2. /\ \A p \in Port : Dev(p) = d => st'[p] = "off" /\ wire'[p] = {} /\ rd'[p] = Idle
      /\ \A p \in Port : Dev(p) # d => st'[p] = st[p] /\ wire'[p] = wire[p] /\ rd'[p] = rd[p]
  BY DEF Restart, TypeOK
<1>3. \A p \in Port : open'[p[1]] => open[p[1]] /\ Dev(p) # d /\ Dev(Peer(p)) # d
  <2>1. \A c \in Conns : open'[c] => open[c] /\ Dialer[c] # d /\ Acceptor[c] # d
    BY DEF Restart
  <2> QED
    BY <2>1, PortFacts DEF Dev, Peer
<1>4. \A p \in Port : Opening(p)' = IF Dev(p) = d THEN {} ELSE Opening(p)
  BY <1>2 DEF Opening, At, Idle, Handling
<1>5. /\ \A e \in Devices, u \in Threads : Sealing(e, u)' = IF e = d THEN {} ELSE Sealing(e, u)
      /\ Published' = Published
  BY RestartPublishes
<1>7. ClipsOwned'
  <2>1. \A n, o \in issued' : n.id = o.id => n = o
    BY <1>1 DEF ClipsOwned
  <2>2. ASSUME NEW e \in Devices, NEW u \in Threads, NEW n \in Sealing(e, u)'
        PROVE  /\ n \in issued' /\ n.origin = e
               /\ \A f \in Devices, v \in Threads : n \in Sealing(f, v)' => f = e /\ v = u
    <3>1. e # d /\ n \in Sealing(e, u)
      BY <1>5, <2>2
    <3>2. /\ n \in issued /\ n.origin = e
          /\ \A f \in Devices, v \in Threads : n \in Sealing(f, v) => f = e /\ v = u
      BY <3>1 DEF ClipsOwned
    <3>3. n \in issued'
      BY <1>1, <3>1, <3>2
    <3>4. \A f \in Devices, v \in Threads : Sealing(f, v)' \subseteq Sealing(f, v)
      BY <1>5
    <3> QED
      BY <3>2, <3>3, <3>4
  <2>3. /\ \A p \in Port : wire'[p] \subseteq Published'
        /\ \A e \in Devices : got'[e] \subseteq Published'
    <3>1. /\ \A p \in Port : wire[p] \subseteq Published
          /\ \A e \in Devices : got[e] \subseteq Published
      BY DEF ClipsOwned
    <3>2. \A p \in Port : wire'[p] \subseteq Published'
      BY <1>2, <1>5, <3>1
    <3> QED
      BY <1>1, <1>5, <3>1, <3>2
  <2> QED
    BY <2>1, <2>2, <2>3 DEF ClipsOwned
<1>8. ClipsKnown'
  <2>1. ASSUME NEW e \in Devices
        PROVE  /\ held'[e] \subseteq got'[e]
               /\ current'[e] # NoClip => current'[e] \in held'[e]
               /\ \A id \in Range(seen'[e]) : \E n \in got'[e] : n.id = id
    <3>1. CASE e = d
      BY <1>1, <3>1 DEF Range
    <3>2. CASE e # d
      BY <1>1, <3>2 DEF ClipsKnown
    <3> QED
      BY <3>1, <3>2
  <2>2. ASSUME NEW q \in Port
        PROVE  /\ Opening(q)' \subseteq got'[Dev(q)]
               /\ open'[q[1]] => wire'[q] \cup Opening(q)' \subseteq got'[Dev(Peer(q))]
               /\ st'[q] = "off" => ~open'[q[1]] /\ wire'[q] = {}
               /\ st'[q] # "up" => Opening(q)' = {}
    <3>1. /\ Opening(q) \subseteq got[Dev(q)]
          /\ open[q[1]] => wire[q] \cup Opening(q) \subseteq got[Dev(Peer(q))]
          /\ st[q] = "off" => ~open[q[1]] /\ wire[q] = {}
          /\ st[q] # "up" => Opening(q) = {}
      BY DEF ClipsKnown
    <3>2. Dev(q) \in Devices /\ Dev(Peer(q)) \in Devices
      BY PortFacts
    <3>3. CASE Dev(q) = d
      BY <1>2, <1>3, <1>4, <3>3
    <3>4. CASE Dev(q) # d
      BY <1>1, <1>2, <1>3, <1>4, <3>1, <3>2, <3>4
    <3> QED
      BY <3>3, <3>4
  <2> QED
    BY <2>1, <2>2 DEF ClipsKnown
<1>9. Offered'
  <2>1. ASSUME NEW q \in Port, open'[q[1]]
        PROVE  /\ open[q[1]] /\ current'[Dev(q)] = current[Dev(q)] /\ st'[q] = st[q]
               /\ wire'[Peer(q)] = wire[Peer(q)] /\ got'[Dev(Peer(q))] = got[Dev(Peer(q))]
    BY <1>1, <1>2, <1>3, <2>1, PortFacts
  <2> QED
    BY <2>1, OfferedKept
<1>10. Accepted'
  <2>1. ASSUME NEW e \in Devices, NEW m \in got'[e]
        PROVE  Accounted(e, m)'
    <3>1. e # d /\ m \in got[e]
      BY <1>1, <2>1
    <3>2. Accounted(e, m)
      BY <3>1 DEF Accepted
    <3>3. dropped'[e] = dropped[e] /\ held'[e] = held[e]
      BY <1>1, <3>1
    <3>4. \A p \in Port : Dev(p) = e => Opening(p)' = Opening(p)
      BY <1>4, <3>1
    <3> QED
      BY <3>2, <3>3, <3>4 DEF Accounted
  <2> QED
    BY <2>1 DEF Accepted
<1> QED
  BY <1>7, <1>8, <1>9, <1>10

-----------------------------------------------------------------------------
(* The theorems.                                                           *)

LEMMA InitInductive == Init => Inductive
<1> SUFFICES ASSUME Init PROVE Inductive
  OBVIOUS
<1>1. \A p \in Port : wire[p] = {} /\ Opening(p) = {}
  BY DEF Init, Opening, At, Idle, Handling
<1>2. \A d \in Devices, t \in Threads : Sealing(d, t) = {}
  BY DEF Init, Sealing, In, Starting, Resting, Doing
<1>3. \A d \in Devices : /\ current[d] = NoClip /\ seen[d] = <<>>
                        /\ held[d] = {} /\ got[d] = {}
  BY DEF Init
<1>4. \A p \in Port : (st[p] = "off" => ~open[p[1]]) /\ st[p] \in {"off", "up"}
  BY PortFacts DEF Init
<1>5. ClipsOwned
  BY <1>1, <1>2, <1>3 DEF Init, ClipsOwned
<1>6. ClipsKnown
  BY <1>1, <1>3, <1>4, EmptySeq, PortFacts DEF ClipsKnown, Range
<1>7. Offered
  BY <1>3, PortFacts DEF Offered
<1>8. Accepted
  BY <1>3 DEF Accepted
<1> QED
  BY <1>5, <1>6, <1>7, <1>8 DEF Inductive

LEMMA StepInductive ==
  ASSUME Typed, Inductive, [Next]_vars
  PROVE  Inductive'
<1> USE DEF Typed
<1>1. ASSUME NEW c \in Conns, Connect(c) \/ Break(c) PROVE Inductive'
  BY <1>1, ConnectInductive, BreakInductive
<1>2. ASSUME NEW p \in Port, AddLink(p) \/ RemoveLink(p) \/ Receive(p) PROVE Inductive'
  BY <1>2, AddLinkInductive, RemoveLinkInductive, ReceiveInductive
<1>3. ASSUME NEW p \in Port, Handle(p) PROVE Inductive'
  BY <1>3, GiveUpInductive, HandleApplyInductive, ClipboardStill, StillInductive DEF Handle
<1>4. ASSUME NEW d \in Devices,
             Run(d) \/ Recopy(d) \/ SetSettings(d) \/ Restart(d) \/ UserCopy(d)
      PROVE  Inductive'
  BY <1>4, RunStill, UserStill, RestartInductive, StillInductive
<1>5. ASSUME NEW d \in Devices, NEW t \in Threads, Poll(d, t) \/ LocalCopy(d, t)
      PROVE  Inductive'
  BY <1>5, PollStill, CopyStill, LocalStampInductive, LocalSealInductive, StillInductive
     DEF LocalCopy
<1>6. CASE UNCHANGED vars
  <2>1. Still
    BY <1>6, SameOpening, SameSealing DEF vars, node, clipboard, net, history, Still
  <2> QED
    BY <2>1, StillInductive
<1> QED
  BY <1>1, <1>2, <1>3, <1>4, <1>5, <1>6, ClipSyncAssumption DEF Next

\* What is stamped, owned, travelling and remembered fits together in every
\* reachable state, with any number of devices, links and clips.
THEOREM InductiveHolds == Spec => []Inductive
<1> QED
  BY InitTyped, StepTyped, InitInductive, StepInductive, PTL DEF Spec

\* Over every open link the peer has been offered our current clip
\* (Node.AddLink, Node.LocalCopy, Node.Handle).
THEOREM OfferedHolds == Spec => []Offered
<1>1. Inductive => Offered
  BY DEF Inductive
<1> QED
  BY <1>1, InductiveHolds, PTL

\* No clip that arrives is forgotten: it is refused, being opened, or the
\* device has held one at least as new (Node.Handle).
THEOREM AcceptedHolds == Spec => []Accepted
<1>1. Inductive => Accepted
  BY DEF Inductive
<1> QED
  BY <1>1, InductiveHolds, PTL

\* What a device holds when it is not behind its own past is at least as new
\* as anything it has accounted for.
LEMMA CurrentIsNewest ==
  ASSUME Typed, Inductive, NEW d \in Devices, NEW m \in got[d],
         m \notin dropped[d], NoHandler(d), ~Regressed(d)
  PROVE  current[d] # NoClip /\ AtLeastAsNew(current[d], m)
<1> USE DEF Inductive, Typed
<1>1. PICK w \in held[d] : AtLeastAsNew(w, m)
  <2>1. Accounted(d, m)
    BY DEF Accepted
  <2> QED
    BY <2>1 DEF Accounted, NoHandler
<1>2. ~Newer(w, current[d])
  BY <1>1 DEF Regressed
<1>3. current[d] # NoClip
  BY <1>2 DEF Newer
<1>4. /\ m \in Clip /\ w \in Clip /\ current[d] \in Clip
      /\ w \in issued /\ current[d] \in issued
  BY <1>1, <1>3 DEF TypeOK, MaybeClip, ClipsKnown, ClipsOwned, Published
<1>5. AtLeastAsNew(current[d], w)
  <2>1. CASE w.id = current[d].id
    BY <1>4, <2>1 DEF ClipsOwned, AtLeastAsNew
  <2>2. CASE w.id # current[d].id
    BY <1>2, <1>4, <2>2, NewerTotal DEF AtLeastAsNew
  <2> QED
    BY <2>1, <2>2
<1> QED
  BY <1>1, <1>3, <1>4, <1>5, AtLeastAsNewTransitive

\* Two devices at the ends of a quiet open link agree, unless one refused the
\* other's clip or fell back behind one it had held: what Offered and Accepted
\* add up to (Node.Handle, Node.LocalCopy, Node.AddLink, Message.Newer).
THEOREM Convergence == Spec => []NeighboursAgree
<1>1. ASSUME Typed, Inductive PROVE NeighboursAgree
  <2> SUFFICES ASSUME NEW p \in Port,
                      Quiet(p), Quiet(Peer(p)),
                      NoHandler(Dev(p)), NoHandler(Dev(Peer(p))),
                      ~Regressed(Dev(p)), ~Regressed(Dev(Peer(p))),
                      current[Dev(p)] \notin dropped[Dev(Peer(p))],
                      current[Dev(Peer(p))] \notin dropped[Dev(p)]
               PROVE  current[Dev(p)] = current[Dev(Peer(p))]
    BY DEF NeighboursAgree
  <2> USE <1>1
  <2>1. ASSUME NEW q \in {p, Peer(p)}, current[Dev(q)] # NoClip
        PROVE  /\ current[Dev(Peer(q))] # NoClip
               /\ AtLeastAsNew(current[Dev(Peer(q))], current[Dev(q)])
    <3>1. q \in Port /\ Peer(q) \in {p, Peer(p)} /\ Dev(Peer(q)) \in Devices
      BY PortFacts
    <3>2. current[Dev(q)] \in wire[Peer(q)] \cup got[Dev(Peer(q))]
      BY <2>1, <3>1 DEF Inductive, Offered, Quiet
    <3>3. current[Dev(q)] \in got[Dev(Peer(q))]
      BY <3>1, <3>2 DEF Quiet
    <3>4. /\ NoHandler(Dev(Peer(q))) /\ ~Regressed(Dev(Peer(q)))
          /\ current[Dev(q)] \notin dropped[Dev(Peer(q))]
      BY PortFacts
    <3> QED
      BY <3>1, <3>3, <3>4, CurrentIsNewest
  <2>2. CASE current[Dev(p)] = NoClip /\ current[Dev(Peer(p))] = NoClip
    BY <2>2
  <2>3. CASE current[Dev(p)] # NoClip \/ current[Dev(Peer(p))] # NoClip
    <3>1. /\ current[Dev(p)] # NoClip /\ current[Dev(Peer(p))] # NoClip
          /\ AtLeastAsNew(current[Dev(Peer(p))], current[Dev(p)])
          /\ AtLeastAsNew(current[Dev(p)], current[Dev(Peer(p))])
      BY <2>1, <2>3, PortFacts
    <3>2. current[Dev(p)] \in Clip /\ current[Dev(Peer(p))] \in Clip
      BY <3>1, PortFacts DEF Typed, TypeOK, MaybeClip
    <3> QED
      BY <3>1, <3>2, NewerAsymmetric DEF AtLeastAsNew
  <2> QED
    BY <2>2, <2>3
<1> QED
  BY <1>1, InitTyped, StepTyped, InductiveHolds, PTL DEF Spec

-----------------------------------------------------------------------------
(* The devices implement the registers of NewestWins.                      *)

LEMMA InitRefines == Init => Registers!NewestInit
BY DEF Init, Registers!NewestInit, Published

\* LocalSeal publishes a clip nobody has seen, HandleApply adopts a published
\* one that is newer, Restart resets, and no other step moves a register.
LEMMA StepRefines ==
  ASSUME Typed, Inductive, [Next]_vars
  PROVE  [Registers!LooseNext]_(Registers!nwVars)
<1> USE DEF Typed, Inductive
<1> DEFINE Refines == [Registers!LooseNext]_(Registers!nwVars)
<1>1. ASSUME current' = current, Published' = Published PROVE Refines
  BY <1>1 DEF Registers!nwVars
<1>2. ASSUME Still PROVE Refines
  <2>1. Published' = Published
    BY <1>2 DEF Still, Published
  <2> QED
    BY <1>1, <1>2, <2>1 DEF Still
<1>3. ASSUME issued' = issued, loc' = loc PROVE Published' = Published
  BY <1>3, SameSealing DEF Published
<1> HIDE DEF Refines
<1>4. ASSUME NEW c \in Conns, Connect(c) \/ Break(c) PROVE Refines
  BY <1>1, <1>3, <1>4 DEF Connect, Break, node, history
<1>5. ASSUME NEW p \in Port, AddLink(p) \/ RemoveLink(p) \/ Receive(p) PROVE Refines
  BY <1>1, <1>3, <1>5 DEF AddLink, RemoveLink, Receive, ReceivePaused, ReceiveKnown,
     ReceiveNew, Arrive, node, history
<1>6. ASSUME NEW p \in Port, Handle(p) PROVE Refines
  <2>1. CASE HandleUnreadable(p) \/ HandleStale(p)
    BY <1>1, <1>3, <2>1 DEF HandleUnreadable, HandleStale, node, history
  <2>2. CASE HandleApply(p)
    <3>1. PICK m : m = rd[p].m
      OBVIOUS
    <3>2. /\ Dev(p) \in Devices /\ m \in Published /\ Newer(m, current[Dev(p)])
          /\ current' = [current EXCEPT ![Dev(p)] = m] /\ issued' = issued /\ loc' = loc
      BY <2>2, <3>1, PortFacts
         DEF HandleApply, Overtaken, Opening, At, ClipsKnown, ClipsOwned
    <3>3. Published' = Published
      BY <1>3, <3>2
    <3>4. Registers!Adopt(Dev(p), m)
      BY <3>2, <3>3 DEF Registers!Adopt, Newer, Registers!Newer
    <3> QED
      BY <3>2, <3>3, <3>4 DEF Refines, Registers!LooseNext, Registers!NewestNext
  <2>3. CASE \/ HandleWrite(p) \/ HandleSeq(p) \/ HandleStore(p)
             \/ HandleFails(p) \/ HandleHistory(p)
    BY <1>2, <2>3, ClipboardStill
  <2> QED
    BY <1>6, <2>1, <2>2, <2>3 DEF Handle
<1>7. ASSUME NEW d \in Devices, Run(d) \/ Recopy(d) \/ SetSettings(d) \/ UserCopy(d)
      PROVE  Refines
  BY <1>2, <1>7, RunStill, UserStill
<1>8. ASSUME NEW d \in Devices, Restart(d) PROVE Refines
  <2>1. Registers!Reset(d)
    BY <1>8, RestartPublishes DEF Restart, NewNode, Registers!Reset
  <2> QED
    BY <1>8, <2>1 DEF Refines, Registers!LooseNext, Registers!NewestNext
<1>9. ASSUME NEW d \in Devices, NEW t \in Threads, Poll(d, t) PROVE Refines
  BY <1>2, <1>9, PollStill
<1>10. ASSUME NEW d \in Devices, NEW t \in Threads, LocalCopy(d, t) PROVE Refines
  <2>1. CASE CopyIgnored(d, t) \/ CopyWithheld(d, t) \/ LocalHistory(d, t)
    BY <1>2, <2>1, CopyStill
  <2>2. CASE LocalStamp(d, t)
    <3>1. PICK m : Stamped(d, t, m) /\ m \notin issued
      BY <2>2 DEF LocalStamp
    <3>2. current' = current
      BY <3>1 DEF Stamped
    <3> QED
      BY <1>1, <3>1, <3>2, StampOwns
  <2>3. CASE LocalSeal(d, t)
    <3>1. PICK m : m = loc[d][t].m
      OBVIOUS
    <3>2. /\ m \in issued /\ m \notin Published /\ m.origin = d
          /\ Published' = Published \cup {m}
      BY <2>3, <3>1, SealPublishes
    <3>3. current' = [current EXCEPT ![d] = m]
      BY <2>3, <3>1 DEF LocalSeal
    <3>4. \A n \in Published : n.id # m.id
      BY <3>2 DEF ClipsOwned, Published
    <3>5. Registers!Publish(d, m)
      BY <3>2, <3>3, <3>4 DEF Registers!Publish
    <3>6. Registers!Copy(d, m) \/ Registers!LateCopy(d, m)
      BY <3>5 DEF Registers!Copy, Registers!LateCopy
    <3>7. m \in Published'
      BY <3>2
    <3> QED
      BY <3>6, <3>7 DEF Refines, Registers!LooseNext, Registers!NewestNext
  <2> QED
    BY <1>10, <2>1, <2>2, <2>3 DEF LocalCopy
<1>11. ASSUME UNCHANGED vars PROVE Refines
  <2>1. Still
    BY <1>11, SameOpening, SameSealing DEF vars, node, clipboard, net, history, Still
  <2> QED
    BY <1>2, <2>1
<1>12. Refines
  BY <1>4, <1>5, <1>6, <1>7, <1>8, <1>9, <1>10, <1>11, ClipSyncAssumption DEF Next
<1> QED
  BY <1>12 DEF Refines

\* The program implements the registers of NewestWins: whatever links, locks,
\* clipboards and restarts do, a device's clip changes only by a copy of its
\* own, by adopting a published clip newer than the one it holds, or with the
\* process.
THEOREM Refinement == Spec => Implements
<1> QED
  BY InitTyped, StepTyped, InductiveHolds, InitRefines, StepRefines, PTL
     DEF Spec, Implements, Registers!LooseSpec

-----------------------------------------------------------------------------
(* HistoryComplete: what History.add keeps, and what every step then keeps. *)

LEMMA ItemFacts ==
  ASSUME NEW h \in Seq(HistoryItem), NEW i \in 1..Len(h)
  PROVE  h[i] \in HistoryItem /\ h[i].clip \in Clip /\ h[i].clip.content \in Contents
<1>1. h[i] \in HistoryItem
  BY ElementOfSeq
<1> QED
  BY <1>1 DEF HistoryItem, Clip

\* Bytes adds up the sizes, item by item.
LEMMA BytesAdds ==
  ASSUME NEW h \in Seq(HistoryItem)
  PROVE  /\ Bytes(h) \in [0..Len(h) -> Nat] /\ Bytes(h)[0] = 0
         /\ \A i \in 1..Len(h) : Bytes(h)[i] = Bytes(h)[i - 1] + Size[h[i].clip.content]
<1> DEFINE s == [i \in 1..Len(h) |-> Size[h[i].clip.content]]
           Sums(n) == {g \in [0..n -> Nat] : g[0] = 0 /\ \A i \in 1..n : g[i] = g[i - 1] + s[i]}
           bad == {n \in 0..Len(h) : Sums(n) = {}}
<1>1. Len(h) \in Nat /\ s \in [1..Len(h) -> Nat]
  <2>1. \A i \in 1..Len(h) : h[i].clip.content \in Contents
    BY ItemFacts
  <2>2. \A i \in 1..Len(h) : Size[h[i].clip.content] \in Nat
    BY <2>1, HistoryAssumption
  <2> QED
    BY <2>2, LenProperties
<1> HIDE DEF s
<1>2. bad = {}
  <2> SUFFICES ASSUME bad # {} PROVE FALSE
    OBVIOUS
  <2> DEFINE n == Min(bad)
  <2>1. n \in bad /\ \A y \in bad : n <= y
    <3>1. bad \in SUBSET Nat
      BY <1>1
    <3> HIDE DEF bad
    <3> QED
      BY <3>1, LeastOf
  <2> HIDE DEF n
  <2>2. n \in 0..Len(h) /\ Sums(n) = {}
    BY <2>1
  <2>3. CASE n = 0
    <3>1. [i \in 0..0 |-> 0] \in Sums(0)
      OBVIOUS
    <3> QED
      BY <2>2, <2>3, <3>1
  <2>4. CASE n # 0
    <3>1. n - 1 \in 0..Len(h) /\ ~(n <= n - 1)
      BY <1>1, <2>2, <2>4
    <3>2. PICK g : g \in Sums(n - 1)
      <4> HIDE DEF Sums
      <4> QED
        BY <2>1, <3>1
    <3> DEFINE f == [i \in 0..n |-> IF i < n THEN g[i] ELSE g[n - 1] + s[n]]
    <3>3. n \in 1..Len(h) /\ s[n] \in Nat /\ g \in [0..(n - 1) -> Nat]
      BY <1>1, <2>2, <2>4, <3>2
    <3>4. f \in [0..n -> Nat] /\ f[0] = 0
      BY <3>2, <3>3
    <3>5. \A i \in 1..n : f[i] = f[i - 1] + s[i]
      BY <3>2, <3>3
    <3> QED
      BY <2>2, <3>4, <3>5
  <2> QED
    BY <2>3, <2>4
<1>3. PICK g : g \in Sums(Len(h))
  <2> HIDE DEF Sums
  <2>1. Len(h) \in 0..Len(h)
    BY <1>1
  <2> QED
    BY <1>2, <2>1
<1>4. g = [i \in 0..Len(h) |-> IF i = 0 THEN 0 ELSE g[i - 1] + Size[h[i].clip.content]]
  BY <1>1, <1>3 DEF s
<1>5. Bytes(h) = [i \in 0..Len(h) |-> IF i = 0 THEN 0 ELSE Bytes(h)[i - 1] + Size[h[i].clip.content]]
  BY <1>4 DEF Bytes
<1>6. Bytes(h) = g
  <2> DEFINE f == Bytes(h)
             off == {i \in 0..Len(h) : f[i] # g[i]}
  <2> HIDE DEF f
  <2>0. f = [i \in 0..Len(h) |-> IF i = 0 THEN 0 ELSE f[i - 1] + Size[h[i].clip.content]]
    BY <1>5 DEF f
  <2>1. f = [i \in 0..Len(h) |-> IF i = 0 THEN 0 ELSE f[i - 1] + s[i]]
    BY <1>1, <2>0 DEF s
  <2>2. off = {}
    <3> SUFFICES ASSUME off # {} PROVE FALSE
      OBVIOUS
    <3>1. Min(off) \in off /\ \A y \in off : Min(off) <= y
      <4>1. off \in SUBSET Nat
        BY <1>1
      <4> HIDE DEF off
      <4> QED
        BY <4>1, LeastOf
    <3> DEFINE k == Min(off)
    <3> HIDE DEF k
    <3>2. k \in 0..Len(h) /\ f[k] # g[k]
      BY <3>1 DEF k
    <3>3. k # 0
      BY <1>1, <1>3, <2>1, <3>2
    <3>4. k - 1 \in 0..Len(h) /\ k - 1 \notin off
      BY <1>1, <3>1, <3>2, <3>3 DEF k
    <3>5. f[k] = f[k - 1] + s[k] /\ g[k] = g[k - 1] + s[k]
      BY <1>1, <1>3, <2>1, <3>2, <3>3
    <3> QED
      BY <3>2, <3>4, <3>5
  <2>3. DOMAIN f = 0..Len(h) /\ DOMAIN g = 0..Len(h) /\ f = [i \in DOMAIN f |-> f[i]]
    BY <1>3, <2>1
  <2>4. g = [i \in DOMAIN g |-> g[i]]
    BY <1>3
  <2>5. \A i \in 0..Len(h) : f[i] = g[i]
    BY <2>2
  <2>6. f = g
    BY <2>3, <2>4, <2>5
  <2> QED
    BY <2>6 DEF f
<1> QED
  BY <1>3, <1>6 DEF s

LEMMA TimesGrows ==
  ASSUME NEW b \in Nat, NEW i \in Nat, NEW j \in Nat, i <= j
  PROVE  b * i <= b * j
<1>1. b * (j - i) \in Nat
  OBVIOUS
<1>2. b * j = b * i + b * (j - i)
  OBVIOUS
<1> QED
  BY <1>1, <1>2

\* Items of at most most bytes each.
LEMMA BytesBounded ==
  ASSUME NEW h \in Seq(HistoryItem), NEW most \in Nat, \A c \in Contents : Size[c] <= most
  PROVE  \A i \in 0..Len(h) : Bytes(h)[i] <= most * i
<1> DEFINE b == Bytes(h)
           over == {i \in 0..Len(h) : ~(b[i] <= most * i)}
<1>1. /\ b \in [0..Len(h) -> Nat] /\ b[0] = 0 /\ Len(h) \in Nat
      /\ \A i \in 1..Len(h) : b[i] = b[i - 1] + Size[h[i].clip.content]
  BY BytesAdds, LenProperties
<1>2. \A i \in 1..Len(h) : Size[h[i].clip.content] \in Nat /\ Size[h[i].clip.content] <= most
  <2>1. \A i \in 1..Len(h) : h[i].clip.content \in Contents
    BY ItemFacts
  <2> QED
    BY <2>1, HistoryAssumption
<1> HIDE DEF b
<1>3. over = {}
  <2> SUFFICES ASSUME over # {} PROVE FALSE
    OBVIOUS
  <2> DEFINE k == Min(over)
  <2>1. k \in over /\ \A y \in over : k <= y
    <3>1. over \in SUBSET Nat
      BY <1>1
    <3> HIDE DEF over
    <3> QED
      BY <3>1, LeastOf
  <2> HIDE DEF k
  <2>2. k \in 0..Len(h) /\ ~(b[k] <= most * k)
    BY <2>1
  <2>3. k # 0
    BY <1>1, <2>2
  <2>4. k - 1 \in 0..Len(h) /\ b[k - 1] <= most * (k - 1)
    BY <1>1, <2>1, <2>2, <2>3
  <2>5. b[k] <= b[k - 1] + most /\ b[k] \in Nat /\ b[k - 1] \in Nat
    <3>1. k \in 1..Len(h)
      BY <1>1, <2>2, <2>3
    <3>2. b[k] = b[k - 1] + Size[h[k].clip.content] /\ b[k] \in Nat /\ b[k - 1] \in Nat
      BY <1>1, <2>2, <2>4, <3>1
    <3>3. Size[h[k].clip.content] \in Nat /\ Size[h[k].clip.content] <= most
      BY <1>2, <3>1
    <3> QED
      BY <3>2, <3>3
  <2>6. most * k = most * (k - 1) + most
    BY <2>2
  <2> QED
    BY <2>2, <2>4, <2>5, <2>6
<1> QED
  BY <1>3 DEF b

\* With room for MaxItems clips of any size, the limits cut only at MaxItems.
LEMMA TrimCuts ==
  ASSUME NEW h \in Seq(HistoryItem), Ample, Len(Trim(h)) < MaxItems
  PROVE  Trim(h) = h
<1> DEFINE over == {i \in 1..Len(h) : ~Fits(h, i)}
<1>1. CASE over = {}
  BY <1>1 DEF Trim
<1>2. CASE over # {}
  <2> DEFINE k == Min(over)
  <2>1. k \in over
    <3>1. over \in SUBSET Nat
      BY LenProperties
    <3> HIDE DEF over
    <3> QED
      BY <1>2, <3>1, LeastOf
  <2>2. Trim(h) = SubSeq(h, 1, k - 1)
    BY <1>2 DEF Trim
  <2> HIDE DEF k
  <2>3. k \in 1..Len(h) /\ ~Fits(h, k) /\ Len(h) \in Nat
    BY <2>1, LenProperties
  <2>4. Len(Trim(h)) = k - 1
    <3>1. \A i \in 1..(k - 1) : h[i] \in HistoryItem
      BY <2>3, ElementOfSeq
    <3>2. k - 1 \in Int /\ k - 1 <= Len(h)
      BY <2>3
    <3> QED
      BY <2>2, <2>3, <3>1, <3>2, SubSeqProperties
  <2>5. MaxItems \in Nat /\ MaxBytes \in Nat /\ k <= MaxItems
    BY <2>3, <2>4, HistoryAssumption
  <2>6. PICK most \in Nat : (\A c \in Contents : Size[c] <= most) /\ most * MaxItems <= MaxBytes
    BY DEF Ample
  <2>7. Bytes(h)[k] <= most * k /\ most * k <= most * MaxItems /\ Bytes(h)[k] \in Nat
    <3>1. k \in 0..Len(h) /\ k \in Nat
      BY <2>3
    <3>2. Bytes(h)[k] <= most * k
      BY <2>6, <3>1, BytesBounded
    <3>3. most * k <= most * MaxItems
      BY <2>5, <3>1, TimesGrows
    <3>4. Bytes(h)[k] \in Nat
      BY <3>1, BytesAdds
    <3> QED
      BY <3>2, <3>3, <3>4
  <2>8. Bytes(h)[k] <= MaxBytes
    <3>1. most * k \in Nat /\ most * MaxItems \in Nat
      BY <2>3, <2>5
    <3> QED
      BY <2>5, <2>6, <2>7, <3>1
  <2> QED
    BY <2>3, <2>5, <2>8 DEF Fits
<1> QED
  BY <1>1, <1>2

\* What Without takes away is the only copy of c.
Distinct(h) == \A i, j \in 1..Len(h) : h[i].clip.content = h[j].clip.content => i = j

LEMMA WithoutElements ==
  ASSUME NEW h \in Seq(HistoryItem), NEW c, NEW at \in 1..Len(h),
         Without(h, c) = SubSeq(h, 1, at - 1) \o SubSeq(h, at + 1, Len(h))
  PROVE  /\ Len(Without(h, c)) = Len(h) - 1
         /\ \A i \in 1..(Len(h) - 1) : Without(h, c)[i] = IF i < at THEN h[i] ELSE h[i + 1]
<1> DEFINE a == SubSeq(h, 1, at - 1)
           b == SubSeq(h, at + 1, Len(h))
<1>1. Len(h) \in Nat
  BY LenProperties
<1>2. /\ \A i \in 1..(at - 1) : h[i] \in HistoryItem
      /\ \A i \in (at + 1)..Len(h) : h[i] \in HistoryItem
  BY ElementOfSeq, <1>1
<1>3. /\ a \in Seq(HistoryItem) /\ Len(a) = at - 1
      /\ \A i \in 1..(at - 1) : a[i] = h[i]
  <2>1. 1 \in Int /\ at - 1 \in Int /\ at - 1 <= Len(h)
    BY <1>1
  <2> QED
    BY <1>1, <1>2, <2>1, SubSeqProperties
<1>4. /\ b \in Seq(HistoryItem) /\ Len(b) = Len(h) - at
      /\ \A i \in 1..(Len(h) - at) : b[i] = h[at + i]
  <2>1. at + 1 \in Int /\ Len(h) \in Int
    BY <1>1
  <2> QED
    BY <1>1, <1>2, <2>1, SubSeqProperties
<1> HIDE DEF a, b
<1>5. /\ Len(a \o b) = Len(h) - 1
      /\ \A i \in 1..(Len(h) - 1) : (a \o b)[i] = IF i <= at - 1 THEN a[i] ELSE b[i - (at - 1)]
  <2>1. Len(a) + Len(b) = Len(h) - 1
    BY <1>1, <1>3, <1>4
  <2>2. /\ Len(a \o b) = Len(a) + Len(b)
        /\ \A i \in 1..(Len(a) + Len(b)) : (a \o b)[i] = IF i <= Len(a) THEN a[i] ELSE b[i - Len(a)]
    BY <1>3, <1>4, ConcatProperties
  <2>3. Len(a) = at - 1
    BY <1>3
  <2> QED
    BY <2>1, <2>2, <2>3
<1>6. \A i \in 1..(Len(h) - 1) : (a \o b)[i] = IF i < at THEN h[i] ELSE h[i + 1]
  <2> SUFFICES ASSUME NEW i \in 1..(Len(h) - 1)
               PROVE  (a \o b)[i] = IF i < at THEN h[i] ELSE h[i + 1]
    OBVIOUS
  <2>1. CASE i < at
    BY <1>1, <1>3, <1>5, <2>1
  <2>2. CASE ~(i < at)
    <3>1. i - (at - 1) \in 1..(Len(h) - at) /\ at + (i - (at - 1)) = i + 1 /\ ~(i <= at - 1)
      BY <1>1, <2>2
    <3> QED
      BY <1>4, <1>5, <2>2, <3>1
  <2> QED
    BY <2>1, <2>2
<1> QED
  BY <1>5, <1>6 DEF a, b

LEMMA WithoutKeeps ==
  ASSUME NEW h \in Seq(HistoryItem), NEW c, Distinct(h)
  PROVE  /\ Without(h, c) \in Seq(HistoryItem) /\ Distinct(Without(h, c))
         /\ Shown(Without(h, c)) = Shown(h) \ {c}
         /\ Len(h) <= Len(Without(h, c)) + 1
<1> DEFINE same == {i \in 1..Len(h) : h[i].clip.content = c}
           w == Without(h, c)
<1>0. Len(h) \in Nat /\ w \in Seq(HistoryItem)
  BY LenProperties, WithoutType
<1>1. CASE same = {}
  <2>1. w = h
    BY <1>1 DEF Without
  <2> QED
    BY <1>0, <1>1, <2>1 DEF Shown
<1>2. CASE same # {}
  <2> DEFINE at == Min(same)
  <2>1. at \in same
    <3>1. same \in SUBSET Nat
      BY <1>0
    <3> HIDE DEF same
    <3> QED
      BY <1>2, <3>1, LeastOf
  <2>2. w = SubSeq(h, 1, at - 1) \o SubSeq(h, at + 1, Len(h))
    BY <1>2 DEF Without, RemoveAt
  <2> HIDE DEF at
  <2>3. at \in 1..Len(h) /\ h[at].clip.content = c
    BY <2>1
  <2>4. /\ Len(w) = Len(h) - 1
        /\ \A i \in 1..(Len(h) - 1) : w[i] = IF i < at THEN h[i] ELSE h[i + 1]
    BY <2>2, <2>3, WithoutElements
  <2> HIDE DEF w
  <2>5. \A i \in 1..Len(w) : \E k \in 1..Len(h) : k # at /\ w[i] = h[k] /\ k = IF i < at THEN i ELSE i + 1
    BY <1>0, <2>3, <2>4
  <2>6. \A k \in 1..Len(h) : k # at => \E i \in 1..Len(w) : w[i] = h[k]
    <3> SUFFICES ASSUME NEW k \in 1..Len(h), k # at
                 PROVE  \E i \in 1..Len(w) : w[i] = h[k]
      OBVIOUS
    <3>1. CASE k < at
      BY <1>0, <2>3, <2>4, <3>1
    <3>2. CASE k > at
      <4>1. k - 1 \in 1..(Len(h) - 1) /\ ~(k - 1 < at) /\ (k - 1) + 1 = k
        BY <1>0, <2>3, <3>2
      <4>2. w[k - 1] = h[k]
        BY <2>4, <4>1
      <4> QED
        BY <2>4, <4>1, <4>2
    <3> QED
      BY <2>3, <3>1, <3>2
  <2>7. Distinct(w)
    <3> SUFFICES ASSUME NEW i \in 1..Len(w), NEW j \in 1..Len(w),
                        w[i].clip.content = w[j].clip.content
                 PROVE  i = j
      BY DEF Distinct
    <3>1. PICK k \in 1..Len(h) : w[i] = h[k] /\ k = IF i < at THEN i ELSE i + 1
      BY <2>5
    <3>2. PICK l \in 1..Len(h) : w[j] = h[l] /\ l = IF j < at THEN j ELSE j + 1
      BY <2>5
    <3>3. k = l
      BY <3>1, <3>2 DEF Distinct
    <3> QED
      BY <1>0, <2>3, <2>4, <3>1, <3>2, <3>3
  <2>8. Shown(w) \subseteq Shown(h) \ {c}
    <3> SUFFICES ASSUME NEW i \in 1..Len(w) PROVE w[i].clip.content \in Shown(h) \ {c}
      BY DEF Shown
    <3>1. PICK k \in 1..Len(h) : k # at /\ w[i] = h[k]
      BY <2>5
    <3>2. h[k].clip.content # c
      BY <2>3, <3>1 DEF Distinct
    <3> QED
      BY <3>1, <3>2 DEF Shown
  <2>9. Shown(h) \ {c} \subseteq Shown(w)
    <3> SUFFICES ASSUME NEW k \in 1..Len(h), h[k].clip.content # c
                 PROVE  h[k].clip.content \in Shown(w)
      BY DEF Shown
    <3>1. PICK i \in 1..Len(w) : w[i] = h[k]
      BY <2>3, <2>6
    <3> QED
      BY <3>1 DEF Shown
  <2> QED
    BY <1>0, <2>4, <2>7, <2>8, <2>9 DEF w
<1> QED
  BY <1>1, <1>2

\* A prefix of a history of distinct contents is one.
LEMMA PrefixKeeps ==
  ASSUME NEW h \in Seq(HistoryItem), Distinct(h)
  PROVE  Distinct(Trim(h)) /\ Shown(Trim(h)) \subseteq Shown(h)
<1>1. /\ Trim(h) \in Seq(HistoryItem) /\ Len(Trim(h)) <= Len(h)
      /\ \A i \in 1..Len(Trim(h)) : Trim(h)[i] = h[i]
  BY TrimType
<1>2. Len(h) \in Nat /\ Len(Trim(h)) \in Nat
  BY <1>1, LenProperties
<1>3. \A i \in 1..Len(Trim(h)) : i \in 1..Len(h)
  BY <1>1, <1>2
<1> QED
  BY <1>1, <1>3 DEF Distinct, Shown

\* History.Add shows what it is given, and nothing twice; it loses a content
\* only when it is full.
LEMMA HistoryAddKeeps ==
  ASSUME NEW h \in Seq(HistoryItem), NEW m \in Clip, NEW local \in BOOLEAN, Distinct(h),
         NEW g, g = HistoryAdd(h, m, local)
  PROVE  /\ Distinct(g) /\ Shown(g) \subseteq Shown(h) \cup {m.content}
         /\ Ample /\ Len(g) < MaxItems =>
              Len(h) < MaxItems /\ Shown(g) = Shown(h) \cup {m.content}
<1> DEFINE c == m.content
           w == Without(h, c)
           item == [clip |-> m, local |-> local]
           x == <<item>> \o w
<1>1. /\ w \in Seq(HistoryItem) /\ Distinct(w) /\ Shown(w) = Shown(h) \ {c}
      /\ Len(h) <= Len(w) + 1
  BY WithoutKeeps
<1>2. item \in HistoryItem /\ item.clip.content = c /\ g = Trim(x)
  BY DEF HistoryItem, HistoryAdd
<1> HIDE DEF c, w, item
<1>3. Len(h) \in Nat /\ Len(w) \in Nat
  BY <1>1, LenProperties
<1>4. /\ x \in Seq(HistoryItem) /\ Len(x) = Len(w) + 1 /\ x[1] = item
      /\ \A i \in 2..(Len(w) + 1) : x[i] = w[i - 1]
  <2>1. <<item>> \in Seq(HistoryItem) /\ Len(<<item>>) = 1 /\ <<item>>[1] = item
    BY <1>2
  <2>2. /\ x \in Seq(HistoryItem) /\ Len(x) = 1 + Len(w)
        /\ \A i \in 1..(1 + Len(w)) : x[i] = IF i <= 1 THEN <<item>>[i] ELSE w[i - 1]
    BY <1>1, <2>1, ConcatProperties
  <2> QED
    BY <1>3, <2>1, <2>2
<1> HIDE DEF x
<1>5. Shown(x) = Shown(h) \cup {c}
  <2>1. Shown(x) \subseteq Shown(w) \cup {c}
    <3> SUFFICES ASSUME NEW i \in 1..Len(x) PROVE x[i].clip.content \in Shown(w) \cup {c}
      BY DEF Shown
    <3>1. CASE i = 1
      BY <1>2, <1>4, <3>1
    <3>2. CASE i # 1
      <4>1. i \in 2..(Len(w) + 1) /\ i - 1 \in 1..Len(w)
        BY <1>3, <1>4, <3>2
      <4> QED
        BY <1>4, <4>1 DEF Shown
    <3> QED
      BY <3>1, <3>2
  <2>2. c \in Shown(x)
    <3>1. 1 \in 1..Len(x)
      BY <1>3, <1>4
    <3> QED
      BY <1>2, <1>4, <3>1 DEF Shown
  <2>3. Shown(w) \subseteq Shown(x)
    <3> SUFFICES ASSUME NEW i \in 1..Len(w) PROVE w[i].clip.content \in Shown(x)
      BY DEF Shown
    <3>1. i + 1 \in 2..(Len(w) + 1) /\ (i + 1) - 1 = i /\ i + 1 \in 1..Len(x)
      BY <1>3, <1>4
    <3>2. x[i + 1] = w[i]
      BY <1>4, <3>1
    <3> QED
      BY <3>1, <3>2 DEF Shown
  <2> QED
    BY <1>1, <2>1, <2>2, <2>3
<1>6. Distinct(x)
  <2> SUFFICES ASSUME NEW i \in 1..Len(x), NEW j \in 1..Len(x),
                      x[i].clip.content = x[j].clip.content
               PROVE  i = j
    BY DEF Distinct
  <2>1. \A k \in 1..Len(x) : k # 1 =>
          k \in 2..(Len(w) + 1) /\ k - 1 \in 1..Len(w) /\ x[k] = w[k - 1]
    BY <1>3, <1>4
  <2>2. \A k \in 1..Len(x) : k # 1 => x[k].clip.content # c
    <3> SUFFICES ASSUME NEW k \in 1..Len(x), k # 1 PROVE x[k].clip.content # c
      OBVIOUS
    <3>1. x[k].clip.content \in Shown(w)
      BY <2>1 DEF Shown
    <3> QED
      BY <1>1, <3>1
  <2>3. x[1].clip.content = c
    BY <1>2, <1>4
  <2>4. CASE i = 1 \/ j = 1
    BY <2>2, <2>3, <2>4
  <2>5. CASE i # 1 /\ j # 1
    <3>2. w[i - 1].clip.content = w[j - 1].clip.content /\ i - 1 \in 1..Len(w) /\ j - 1 \in 1..Len(w)
      BY <2>1, <2>5
    <3>1. i - 1 = j - 1
      BY <1>1, <3>2 DEF Distinct
    <3> QED
      BY <2>5, <3>1
  <2> QED
    BY <2>4, <2>5
<1>7. Distinct(g) /\ Shown(g) \subseteq Shown(x)
  BY <1>2, <1>4, <1>6, PrefixKeeps
<1>8. ASSUME Ample, Len(g) < MaxItems
      PROVE  Len(h) < MaxItems /\ g = x
  <2>1. g = x
    BY <1>2, <1>4, <1>8, TrimCuts
  <2> QED
    BY <1>1, <1>3, <1>4, <1>8, <2>1, HistoryAssumption
<1> QED
  BY <1>5, <1>7, <1>8 DEF c

-----------------------------------------------------------------------------
HistoryKept == HistoryHeld /\ (Ample => HistoryOrSoon)

LEMMA MoveReading ==
  ASSUME TypeOK, NEW p \in Port, NEW h, rd' = [rd EXCEPT ![p] = h]
  PROVE  /\ Reading(p)' = IF h.pc \in {"write", "seq", "store", "hist"} THEN {h.m} ELSE {}
         /\ \A q \in Port : q # p => Reading(q)' = Reading(q)
BY DEF TypeOK, Reading

LEMMA MoveRecording ==
  ASSUME TypeOK, NEW d \in Devices, NEW t \in Threads, NEW w, Step(d, t, w)
  PROVE  /\ Recording(d, t)' = IF w.pc = "hist" THEN {w.m} ELSE {}
         /\ \A e \in Devices, u \in Threads :
              ~(e = d /\ u = t) => Recording(e, u)' = Recording(e, u)
BY DEF TypeOK, Step, Recording, In

LEMMA SameReading ==
  ASSUME rd' = rd
  PROVE  \A p \in Port : Reading(p)' = Reading(p)
BY DEF Reading

LEMMA SameRecording ==
  ASSUME loc' = loc
  PROVE  \A d \in Devices, t \in Threads : Recording(d, t)' = Recording(d, t)
BY DEF Recording, In

\* Steps that add nothing to the history and to what was current, and drop no
\* clip that is still to be added.
Passing ==
  /\ UNCHANGED <<hist, held>>
  /\ \A p \in Port : Reading(p)' = Reading(p) \/ (~WithHistory /\ Reading(p)' = {})
  /\ \A d \in Devices, t \in Threads : Recording(d, t)' = Recording(d, t)

LEMMA PassingKeeps ==
  ASSUME HistoryKept, Passing
  PROVE  HistoryKept'
<1>1. HistoryHeld'
  BY DEF HistoryKept, HistoryHeld, Passing
<1>2. ASSUME HistoryOrSoon PROVE HistoryOrSoon'
  BY <1>2 DEF HistoryOrSoon, Remembered, Passing
<1> QED
  BY <1>1, <1>2 DEF HistoryKept, Ample

\* One device's threads and readers change nothing for another device.
Own(d) ==
  /\ \A e \in Devices : e # d => hist'[e] = hist[e] /\ held'[e] = held[e]
  /\ \A p \in Port : Dev(p) # d => Reading(p)' = Reading(p)
  /\ \A e \in Devices, t \in Threads : e # d => Recording(e, t)' = Recording(e, t)

HeldAt(d) ==
  /\ Distinct(hist[d])
  /\ Shown(hist[d]) \subseteq {m.content : m \in held[d]}
  /\ \A p \in Port : Dev(p) = d => Reading(p) \subseteq held[d]
  /\ \A t \in Threads : Recording(d, t) \subseteq held[d]

SoonAt(d) ==
  WithHistory /\ Len(hist[d]) < MaxItems => \A m \in held[d] : Remembered(d, m.content)

LEMMA OwnKeeps ==
  ASSUME HistoryKept, NEW d \in Devices, Own(d), HeldAt(d)', Ample => SoonAt(d)'
  PROVE  HistoryKept'
<1>1. ASSUME NEW e \in Devices, e # d PROVE HeldAt(e)'
  BY <1>1 DEF HistoryKept, HistoryHeld, HeldAt, Own, Distinct
<1>2. HistoryHeld'
  BY <1>1 DEF HistoryHeld, HeldAt, Distinct
<1>3. ASSUME NEW e \in Devices, e # d, Ample PROVE SoonAt(e)'
  BY <1>3 DEF HistoryKept, HistoryOrSoon, SoonAt, Remembered, Own
<1>4. Ample => HistoryOrSoon'
  BY <1>3 DEF HistoryOrSoon, SoonAt
<1> QED
  BY <1>2, <1>4 DEF HistoryKept, Ample

LEMMA KeptAt ==
  ASSUME HistoryKept, NEW d \in Devices
  PROVE  HeldAt(d) /\ (Ample => SoonAt(d))
BY DEF HistoryKept, HistoryHeld, HistoryOrSoon, HeldAt, SoonAt, Distinct


LEMMA RecordingKept ==
  ASSUME TypeOK, NEW d \in Devices, NEW t \in Threads, NEW w, Step(d, t, w),
         loc[d][t].pc # "hist", w.pc # "hist"
  PROVE  \A e \in Devices, u \in Threads : Recording(e, u)' = Recording(e, u)
BY DEF TypeOK, Step, Recording, In

\* The steps of the links, of users and of poll add nothing.
LEMMA LinkPasses ==
  ASSUME TypeOK, \/ \E c \in Conns : Connect(c) \/ Break(c)
                 \/ \E p \in Port : AddLink(p) \/ RemoveLink(p)
                 \/ \E d \in Devices : SetSettings(d) \/ UserCopy(d)
                 \/ UNCHANGED vars
  PROVE  Passing
<1>1. UNCHANGED <<hist, held, rd, loc>>
  BY DEF Connect, Break, AddLink, RemoveLink, SetSettings, UserCopy, node, history, vars
<1> QED
  BY <1>1, SameReading, SameRecording DEF Passing

LEMMA ReceivePasses ==
  ASSUME TypeOK, NEW p \in Port, Receive(p)
  PROVE  Passing
<1>1. PICK m \in wire[p] : ReceivePaused(p, m) \/ ReceiveKnown(p, m) \/ ReceiveNew(p, m)
  BY DEF Receive
<1>2. UNCHANGED <<hist, held, loc>> /\ rd[p] = Idle
  BY <1>1 DEF ReceivePaused, ReceiveKnown, ReceiveNew, Arrive
<1>3. Reading(p) = {}
  BY <1>2 DEF Reading, Idle, Handling
<1>4. rd' = rd \/ rd' = [rd EXCEPT ![p] = Handling("open", m, 0)]
  BY <1>1 DEF ReceivePaused, ReceiveKnown, ReceiveNew
<1>5. \A q \in Port : Reading(q)' = Reading(q)
  <2>1. CASE rd' = rd
    BY <2>1, SameReading
  <2>2. CASE rd' = [rd EXCEPT ![p] = Handling("open", m, 0)]
    BY <1>3, <2>2, MoveReading DEF Handling
  <2> QED
    BY <1>4, <2>1, <2>2
<1> QED
  BY <1>2, <1>5, SameRecording DEF Passing

\* Handle keeps its clip through the clipboard calls, until it adds it.
LEMMA HandlePasses ==
  ASSUME TypeOK, NEW p \in Port,
         \/ HandleUnreadable(p) \/ HandleStale(p)
         \/ HandleWrite(p) \/ HandleSeq(p) \/ HandleStore(p) \/ HandleFails(p)
  PROVE  Passing
<1> DEFINE m == rd[p].m
           late == {"write", "seq", "store", "hist"}
<1>1. UNCHANGED <<hist, held, loc>>
  BY DEF HandleUnreadable, HandleStale, HandleWrite, HandleSeq, HandleStore, HandleFails, node, history
<1>2. PICK h : /\ rd' = [rd EXCEPT ![p] = h]
               /\ \/ rd[p].pc = "open" /\ h.pc \notin late
                  \/ rd[p].pc \in late /\ h.pc \in late /\ h.m = m
                  \/ rd[p].pc \in late /\ h.pc \notin late /\ ~WithHistory
  <2>1. Idle.pc \notin late
    BY DEF Idle, Handling
  <2>3. CASE HandleUnreadable(p) \/ HandleStale(p)
    BY <2>1, <2>3 DEF HandleUnreadable, HandleStale, At
  <2>4. CASE HandleWrite(p)
    <3>1. rd[p].pc = "write" /\ rd' = [rd EXCEPT ![p] = Handling("seq", m, 0)]
      BY <2>4 DEF HandleWrite, Goto, At
    <3>2. Handling("seq", m, 0).pc = "seq" /\ Handling("seq", m, 0).m = m
      BY DEF Handling
    <3> QED
      BY <3>1, <3>2
  <2>5. CASE HandleSeq(p)
    <3> DEFINE h == Handling("store", m, cbSeq[Dev(p)])
    <3>1. rd[p].pc = "seq" /\ rd' = [rd EXCEPT ![p] = h]
      BY <2>5 DEF HandleSeq, At
    <3>2. h.pc = "store" /\ h.m = m
      BY DEF Handling
    <3> QED
      BY <3>1, <3>2
  <2>6. CASE HandleStore(p) \/ HandleFails(p)
    <3>1. rd[p].pc \in {"write", "seq", "store"} /\ Finish(p)
      BY <2>6 DEF HandleStore, HandleFails, At
    <3>2. CASE WithHistory
      <4>1. rd' = [rd EXCEPT ![p] = Handling("hist", m, 0)]
        BY <3>1, <3>2 DEF Finish
      <4>2. Handling("hist", m, 0).pc = "hist" /\ Handling("hist", m, 0).m = m
        BY DEF Handling
      <4> QED
        BY <3>1, <4>1, <4>2
    <3>3. CASE ~WithHistory
      <4>1. rd' = [rd EXCEPT ![p] = Idle]
        BY <3>1, <3>3 DEF Finish
      <4> QED
        BY <2>1, <3>1, <3>3, <4>1
    <3> QED
      BY <3>2, <3>3
  <2> QED
    BY <2>3, <2>4, <2>5, <2>6
<1>3. \A q \in Port : Reading(q)' = Reading(q) \/ (~WithHistory /\ Reading(q)' = {})
  <2>1. Reading(p) = IF rd[p].pc \in late THEN {m} ELSE {}
    BY DEF Reading
  <2>2. Reading(p)' = IF h.pc \in late THEN {h.m} ELSE {}
    BY <1>2, MoveReading
  <2>3. Reading(p)' = Reading(p) \/ (~WithHistory /\ Reading(p)' = {})
    BY <1>2, <2>1, <2>2
  <2> QED
    BY <1>2, <2>3, MoveReading
<1> QED
  BY <1>1, <1>3, SameRecording DEF Passing

LEMMA RunPasses ==
  ASSUME TypeOK, NEW d \in Devices, Run(d) \/ Recopy(d)
  PROVE  Passing
<1>1. UNCHANGED <<hist, held, rd>>
  BY DEF Run, BootSeq, BootRead, BootHash, Recopy, node, history
<1>2. PICK t \in Threads : \E w : Step(d, t, w) /\ loc[d][t].pc # "hist" /\ w.pc # "hist"
  <2>1. "run" \in Threads /\ "ui" \in Threads
    BY DEF Threads
  <2>2. \A pc, m, seq, c : Doing(pc, m, seq, c).pc = pc
    BY DEF Doing
  <2>3. Resting.pc = "idle"
    BY DEF Resting, Doing
  <2>4. CASE BootSeq(d)
    BY <2>1, <2>2, <2>4 DEF BootSeq, In
  <2>5. CASE BootRead(d)
    BY <2>1, <2>2, <2>3, <2>5 DEF BootRead, In
  <2>6. CASE BootHash(d)
    BY <2>1, <2>3, <2>6 DEF BootHash, In
  <2>7. CASE Recopy(d)
    BY <2>1, <2>2, <2>7 DEF Recopy, In
  <2> QED
    BY <2>4, <2>5, <2>6, <2>7 DEF Run
<1> QED
  BY <1>1, <1>2, RecordingKept, SameReading DEF Passing

LEMMA PollPasses ==
  ASSUME TypeOK, NEW d \in Devices, NEW t \in Threads,
         Poll(d, t) \/ CopyIgnored(d, t) \/ CopyWithheld(d, t) \/ LocalStamp(d, t)
  PROVE  Passing
<1>1. UNCHANGED <<hist, held, rd>>
  BY DEF Poll, PollSeq, PollUnchanged, PollChanged, PollRead, PollFails, CopyIgnored,
         CopyWithheld, LocalStamp, Stamped, node, history
<1>2. PICK w : Step(d, t, w) /\ loc[d][t].pc # "hist" /\ w.pc # "hist"
  <2>2. \A pc, m, seq, c : Doing(pc, m, seq, c).pc = pc
    BY DEF Doing
  <2>3. Resting.pc = "idle"
    BY DEF Resting, Doing
  <2>4. CASE PollSeq(d, t)
    BY <2>2, <2>4 DEF PollSeq, In
  <2>5. CASE PollUnchanged(d, t) \/ PollFails(d, t)
    BY <2>3, <2>5 DEF PollUnchanged, PollFails, In
  <2>6. CASE PollChanged(d, t)
    BY <2>2, <2>6 DEF PollChanged, In
  <2>7. CASE PollRead(d, t)
    BY <2>2, <2>7 DEF PollRead, In
  <2>8. CASE CopyIgnored(d, t) \/ CopyWithheld(d, t)
    BY <2>3, <2>8 DEF CopyIgnored, CopyWithheld, In
  <2>9. CASE LocalStamp(d, t)
    BY <2>2, <2>9 DEF LocalStamp, Stamped, In
  <2> QED
    BY <2>4, <2>5, <2>6, <2>7, <2>8, <2>9 DEF Poll
<1> QED
  BY <1>1, <1>2, RecordingKept, SameReading DEF Passing

\* Handle makes its clip current and carries it, if there is a history.
LEMMA ApplyKept ==
  ASSUME Typed, HistoryKept, NEW p \in Port, HandleApply(p)
  PROVE  HistoryKept'
<1> DEFINE d == Dev(p)
           m == rd[p].m
           late == {"write", "seq", "store", "hist"}
<1>1. /\ UNCHANGED <<hist, loc>> /\ d \in Devices /\ m \in Clip
      /\ held'[d] = held[d] \cup {m}
      /\ \A e \in Devices : e # d => held'[e] = held[e]
      /\ rd[p].pc = "open"
  BY PortFacts DEF HandleApply, At, Typed, TypeOK, HandlerHasClip
<1>2. PICK h : /\ rd' = [rd EXCEPT ![p] = h]
               /\ \/ h.pc \in late /\ h.m = m
                  \/ h.pc \notin late /\ ~WithHistory
  <2>1. Idle.pc \notin late
    BY DEF Idle, Handling
  <2>2. \A pc, seq : Handling(pc, m, seq).pc = pc /\ Handling(pc, m, seq).m = m
    BY DEF Handling
  <2> QED
    BY <2>1, <2>2 DEF HandleApply, Finish, Goto
<1>3. /\ Reading(p) = {} /\ Reading(p)' \subseteq {m}
      /\ WithHistory => Reading(p)' = {m}
      /\ \A q \in Port : q # p => Reading(q)' = Reading(q)
  <2>1. Reading(p) = {}
    BY <1>1 DEF Reading
  <2>2. Reading(p)' = IF h.pc \in late THEN {h.m} ELSE {}
    BY <1>2, MoveReading DEF Typed
  <2> QED
    BY <1>2, <2>1, <2>2, MoveReading DEF Typed
<1>4. \A e \in Devices, t \in Threads : Recording(e, t)' = Recording(e, t)
  BY <1>1, SameRecording
<1>5. Own(d)
  BY <1>1, <1>3, <1>4 DEF Own
<1>6. HeldAt(d) /\ (Ample => SoonAt(d))
  BY <1>1, KeptAt
<1>7. HeldAt(d)'
  <2>1. Distinct(hist[d])'
    BY <1>1, <1>6 DEF HeldAt, Distinct
  <2>2. Shown(hist'[d]) \subseteq {n.content : n \in held'[d]}
    BY <1>1, <1>6 DEF HeldAt
  <2>3. \A q \in Port : Dev(q) = d => Reading(q)' \subseteq held'[d]
    BY <1>1, <1>3, <1>6 DEF HeldAt
  <2>4. \A t \in Threads : Recording(d, t)' \subseteq held'[d]
    BY <1>1, <1>4, <1>6 DEF HeldAt
  <2> QED
    BY <2>1, <2>2, <2>3, <2>4 DEF HeldAt
<1>8. ASSUME SoonAt(d) PROVE SoonAt(d)'
  <2> SUFFICES ASSUME WithHistory, Len(hist[d]) < MaxItems, NEW n \in held'[d]
               PROVE  Remembered(d, n.content)'
    BY <1>1 DEF SoonAt
  <2>1. CASE n = m
    BY <1>3, <2>1 DEF Remembered
  <2>2. CASE n \in held[d]
    <3>1. Remembered(d, n.content)
      BY <1>8, <2>2 DEF SoonAt
    <3>2. \A q \in Port : Reading(q) \subseteq Reading(q)'
      BY <1>3
    <3> QED
      BY <1>1, <1>4, <3>1, <3>2 DEF Remembered
  <2> QED
    BY <1>1, <2>1, <2>2
<1>9. Ample => SoonAt(d)'
  BY <1>6, <1>8
<1> QED
  BY <1>1, <1>5, <1>7, <1>9, OwnKeeps

LEMMA SealKept ==
  ASSUME Typed, HistoryKept, NEW d \in Devices, NEW t \in Threads, LocalSeal(d, t)
  PROVE  HistoryKept'
<1> DEFINE m == loc[d][t].m
<1>1. /\ UNCHANGED <<hist, rd>>
      /\ held'[d] = held[d] \cup {m}
      /\ \A e \in Devices : e # d => held'[e] = held[e]
      /\ loc[d][t].pc = "seal"
  BY DEF LocalSeal, In, Typed, TypeOK
<1>2. PICK w : /\ Step(d, t, w)
               /\ \/ w.pc = "hist" /\ w.m = m
                  \/ w.pc # "hist" /\ ~WithHistory
  <2>1. Resting.pc = "idle" /\ Doing("hist", m, 0, NoCopy).pc = "hist" /\ Doing("hist", m, 0, NoCopy).m = m
    BY DEF Resting, Doing
  <2> QED
    BY <2>1 DEF LocalSeal
<1>3. /\ Recording(d, t) = {} /\ Recording(d, t)' \subseteq {m}
      /\ WithHistory => Recording(d, t)' = {m}
      /\ \A e \in Devices, u \in Threads :
           ~(e = d /\ u = t) => Recording(e, u)' = Recording(e, u)
  <2>1. Recording(d, t) = {}
    BY <1>1 DEF Recording, In
  <2>2. Recording(d, t)' = IF w.pc = "hist" THEN {w.m} ELSE {}
    BY <1>2, MoveRecording DEF Typed
  <2>3. \A e \in Devices, u \in Threads :
           ~(e = d /\ u = t) => Recording(e, u)' = Recording(e, u)
    BY <1>2, MoveRecording DEF Typed
  <2> QED
    BY <1>2, <2>1, <2>2, <2>3
<1>4. \A p \in Port : Reading(p)' = Reading(p)
  BY <1>1, SameReading
<1>5. Own(d)
  BY <1>1, <1>3, <1>4 DEF Own
<1>6. HeldAt(d) /\ (Ample => SoonAt(d))
  BY KeptAt
<1>7. HeldAt(d)'
  <2>1. Distinct(hist[d])'
    BY <1>1, <1>6 DEF HeldAt, Distinct
  <2>2. Shown(hist'[d]) \subseteq {n.content : n \in held'[d]}
    BY <1>1, <1>6 DEF HeldAt
  <2>3. \A q \in Port : Dev(q) = d => Reading(q)' \subseteq held'[d]
    BY <1>1, <1>4, <1>6 DEF HeldAt
  <2>4. \A u \in Threads : Recording(d, u)' \subseteq held'[d]
    BY <1>1, <1>3, <1>6 DEF HeldAt
  <2> QED
    BY <2>1, <2>2, <2>3, <2>4 DEF HeldAt
<1>8. ASSUME SoonAt(d) PROVE SoonAt(d)'
  <2> SUFFICES ASSUME WithHistory, Len(hist[d]) < MaxItems, NEW n \in held'[d]
               PROVE  Remembered(d, n.content)'
    BY <1>1 DEF SoonAt
  <2>1. CASE n = m
    BY <1>3, <2>1 DEF Remembered
  <2>2. CASE n \in held[d]
    <3>1. Remembered(d, n.content)
      BY <1>8, <2>2 DEF SoonAt
    <3>2. \A u \in Threads : Recording(d, u) \subseteq Recording(d, u)'
      BY <1>3
    <3> QED
      BY <1>1, <1>4, <3>1, <3>2 DEF Remembered
  <2> QED
    BY <1>1, <2>1, <2>2
<1>9. Ample => SoonAt(d)'
  BY <1>6, <1>8
<1> QED
  BY <1>5, <1>7, <1>9, OwnKeeps

Adds(new, h, m) == \E local \in BOOLEAN : new = HistoryAdd(h, m, local)

\* Whoever carried m for d to the history has let go of it.
Delivers(d, m) ==
  /\ \A p \in Port : \/ Reading(p)' = Reading(p)
                     \/ Dev(p) = d /\ Reading(p) = {m} /\ Reading(p)' = {}
  /\ \A e \in Devices, t \in Threads :
       \/ Recording(e, t)' = Recording(e, t)
       \/ e = d /\ Recording(e, t) = {m} /\ Recording(e, t)' = {}

\* The history takes the clip that was carried to it, whoever adds meanwhile.
LEMMA AddedKept ==
  ASSUME Typed, HistoryKept, NEW d \in Devices, NEW m \in Clip, NEW new,
         Adds(new, hist[d], m),
         hist' = [hist EXCEPT ![d] = new], held' = held, m \in held[d],
         Delivers(d, m)
  PROVE  HistoryKept'
<1>0. PICK local \in BOOLEAN : new = HistoryAdd(hist[d], m, local)
  BY DEF Adds
<1>1. /\ hist[d] \in Seq(HistoryItem) /\ hist'[d] = new
      /\ \A e \in Devices : e # d => hist'[e] = hist[e]
  BY DEF Typed, TypeOK
<1>2. HeldAt(d) /\ (Ample => SoonAt(d))
  BY KeptAt
<1>3. /\ Distinct(hist'[d]) /\ Shown(hist'[d]) \subseteq Shown(hist[d]) \cup {m.content}
      /\ Ample /\ Len(hist'[d]) < MaxItems =>
           Len(hist[d]) < MaxItems /\ Shown(hist'[d]) = Shown(hist[d]) \cup {m.content}
  BY <1>0, <1>1, <1>2, HistoryAddKeeps DEF HeldAt
<1>4. Own(d)
  BY <1>1 DEF Own, Delivers
<1>5. HeldAt(d)'
  <2>1. Distinct(hist[d])'
    BY <1>3 DEF Distinct
  <2>2. Shown(hist'[d]) \subseteq {n.content : n \in held'[d]}
    BY <1>2, <1>3 DEF HeldAt
  <2>3. \A q \in Port : Dev(q) = d => Reading(q)' \subseteq held'[d]
    BY <1>2 DEF HeldAt, Delivers
  <2>4. \A u \in Threads : Recording(d, u)' \subseteq held'[d]
    BY <1>2 DEF HeldAt, Delivers
  <2> QED
    BY <2>1, <2>2, <2>3, <2>4 DEF HeldAt
<1>6. ASSUME Ample PROVE SoonAt(d)'
  <2> SUFFICES ASSUME WithHistory, Len(hist'[d]) < MaxItems, NEW n \in held[d]
               PROVE  Remembered(d, n.content)'
    BY DEF SoonAt
  <2>1. Len(hist[d]) < MaxItems /\ Shown(hist'[d]) = Shown(hist[d]) \cup {m.content}
    BY <1>3, <1>6
  <2>2. Remembered(d, n.content)
    BY <1>2, <1>6, <2>1 DEF SoonAt
  <2>3. CASE n.content \in Shown(hist'[d])
    BY <2>3 DEF Remembered
  <2>4. CASE n.content \notin Shown(hist'[d])
    <3>1. n.content \notin Shown(hist[d]) /\ n.content # m.content
      BY <2>1, <2>4
    <3>2. CASE \E p \in Port : Dev(p) = d /\ \E o \in Reading(p) : o.content = n.content
      <4>1. PICK p \in Port : Dev(p) = d /\ \E o \in Reading(p) : o.content = n.content
        BY <3>2
      <4>2. Reading(p)' = Reading(p)
        BY <3>1, <4>1 DEF Delivers
      <4> QED
        BY <4>1, <4>2 DEF Remembered
    <3>3. CASE \E t \in Threads : \E o \in Recording(d, t) : o.content = n.content
      <4>1. PICK t \in Threads : \E o \in Recording(d, t) : o.content = n.content
        BY <3>3
      <4>2. Recording(d, t)' = Recording(d, t)
        BY <3>1, <4>1 DEF Delivers
      <4> QED
        BY <4>1, <4>2 DEF Remembered
    <3> QED
      BY <2>2, <3>1, <3>2, <3>3 DEF Remembered
  <2> QED
    BY <2>3, <2>4
<1> QED
  BY <1>4, <1>5, <1>6, OwnKeeps

LEMMA HandleHistoryKept ==
  ASSUME Typed, HistoryKept, NEW p \in Port, HandleHistory(p)
  PROVE  HistoryKept'
<1> DEFINE d == Dev(p)
           m == rd[p].m
<1>1. /\ hist' = [hist EXCEPT ![d] = HistoryAdd(@, m, FALSE)] /\ UNCHANGED <<held, loc>>
      /\ rd' = [rd EXCEPT ![p] = Idle] /\ rd[p].pc = "hist" /\ d \in Devices /\ m \in Clip
  BY PortFacts DEF HandleHistory, At, history, Typed, HandlerHasClip
<1>2. Reading(p) = {m}
  BY <1>1 DEF Reading
<1>3. Reading(p)' = {} /\ \A q \in Port : q # p => Reading(q)' = Reading(q)
  <2>1. Idle.pc \notin {"write", "seq", "store", "hist"}
    BY DEF Idle, Handling
  <2> QED
    BY <1>1, <2>1, MoveReading DEF Typed
<1>4. m \in held[d]
  BY <1>1, <1>2, KeptAt DEF HeldAt
<1>5. \A e \in Devices, t \in Threads : Recording(e, t)' = Recording(e, t)
  BY <1>1, SameRecording
<1>6. \A q \in Port : \/ Reading(q)' = Reading(q)
                      \/ Dev(q) = d /\ Reading(q) = {m} /\ Reading(q)' = {}
  BY <1>2, <1>3
<1>7. Delivers(d, m)
  BY <1>5, <1>6 DEF Delivers
<1> DEFINE new == HistoryAdd(hist[d], m, FALSE)
<1>8. hist' = [hist EXCEPT ![d] = new] /\ held' = held
  BY <1>1
<1>9. Adds(new, hist[d], m)
  BY DEF Adds
<1>10. d \in Devices /\ m \in Clip
  BY <1>1
<1> HIDE DEF d, m, new
<1> QED
  BY <1>4, <1>8, <1>9, <1>10, <1>7, AddedKept

LEMMA LocalHistoryKept ==
  ASSUME Typed, HistoryKept, NEW d \in Devices, NEW t \in Threads, LocalHistory(d, t)
  PROVE  HistoryKept'
<1> DEFINE m == loc[d][t].m
<1>1. /\ hist' = [hist EXCEPT ![d] = HistoryAdd(@, m, TRUE)] /\ UNCHANGED <<held, rd>>
      /\ Step(d, t, Resting) /\ loc[d][t].pc = "hist" /\ m \in Clip
  BY DEF LocalHistory, In, history, Typed, CopyHasContent
<1>2. Recording(d, t) = {m}
  BY <1>1 DEF Recording, In
<1>3. /\ Recording(d, t)' = {}
      /\ \A e \in Devices, u \in Threads :
           ~(e = d /\ u = t) => Recording(e, u)' = Recording(e, u)
  <2>1. Resting.pc # "hist"
    BY DEF Resting, Doing
  <2> QED
    BY <1>1, <2>1, MoveRecording DEF Typed
<1>4. m \in held[d]
  BY <1>2, KeptAt DEF HeldAt
<1>5. \A p \in Port : Reading(p)' = Reading(p)
  BY <1>1, SameReading
<1>6. \A e \in Devices, u \in Threads :
        \/ Recording(e, u)' = Recording(e, u)
        \/ e = d /\ Recording(e, u) = {m} /\ Recording(e, u)' = {}
  BY <1>2, <1>3
<1>7. Delivers(d, m)
  BY <1>5, <1>6 DEF Delivers
<1> DEFINE new == HistoryAdd(hist[d], m, TRUE)
<1>8. hist' = [hist EXCEPT ![d] = new] /\ held' = held
  BY <1>1
<1>9. Adds(new, hist[d], m)
  BY DEF Adds
<1>10. m \in Clip
  BY <1>1
<1> HIDE DEF m, new
<1> QED
  BY <1>4, <1>8, <1>9, <1>10, <1>7, AddedKept

LEMMA RestartKept ==
  ASSUME Typed, HistoryKept, NEW d \in Devices, Restart(d)
  PROVE  HistoryKept'
<1>1. /\ hist'[d] = <<>> /\ held'[d] = {}
      /\ \A e \in Devices : e # d => hist'[e] = hist[e] /\ held'[e] = held[e]
  BY DEF Restart, NewNode, Typed, TypeOK
<1>2. \A p \in Port : rd'[p] = IF Dev(p) = d THEN Idle ELSE rd[p]
  BY DEF Restart
<1>3. \A p \in Port : Reading(p)' = IF Dev(p) = d THEN {} ELSE Reading(p)
  BY <1>2 DEF Reading, Idle, Handling
<1>4. \A e \in Devices, u \in Threads : Recording(e, u)' = IF e = d THEN {} ELSE Recording(e, u)
  <2>1. \A e \in Devices, u \in Threads :
          /\ e = d => loc'[e][u] \in {Starting, Resting}
          /\ e # d => loc'[e][u] = loc[e][u]
    BY DEF Restart, Typed, TypeOK
  <2>2. Starting.pc # "hist" /\ Resting.pc # "hist"
    BY DEF Starting, Resting, Doing
  <2> QED
    BY <2>1, <2>2 DEF Recording, In
<1>5. Own(d)
  BY <1>1, <1>3, <1>4 DEF Own
<1>6. HeldAt(d)'
  <2>1. Len(hist'[d]) = 0
    BY <1>1
  <2> QED
    BY <1>1, <1>3, <1>4, <2>1 DEF HeldAt, Distinct, Shown
<1>7. SoonAt(d)'
  BY <1>1 DEF SoonAt
<1> QED
  BY <1>5, <1>6, <1>7, OwnKeeps

LEMMA InitKept == Init => HistoryKept
<1> SUFFICES ASSUME Init PROVE HistoryKept
  OBVIOUS
<1>1. \A d \in Devices : hist[d] = <<>> /\ held[d] = {} /\ Len(hist[d]) = 0
  BY DEF Init
<1>2. \A p \in Port : Reading(p) = {}
  BY DEF Init, Reading, Idle, Handling
<1>3. \A d \in Devices, t \in Threads : Recording(d, t) = {}
  BY DEF Init, Recording, In, Starting, Resting, Doing
<1>4. HistoryHeld
  <2>1. \A d \in Devices : \A i \in 1..Len(hist[d]) : FALSE
    BY <1>1
  <2>2. \A d \in Devices : Shown(hist[d]) = {}
    BY <2>1 DEF Shown
  <2> QED
    BY <1>1, <1>2, <1>3, <2>1, <2>2 DEF HistoryHeld
<1>5. HistoryOrSoon
  BY <1>1 DEF HistoryOrSoon
<1> QED
  BY <1>4, <1>5 DEF HistoryKept

LEMMA StepKept ==
  ASSUME Typed, HistoryKept, [Next]_vars
  PROVE  HistoryKept'
<1> USE DEF Typed
<1>1. ASSUME NEW c \in Conns, Connect(c) \/ Break(c) PROVE HistoryKept'
  BY <1>1, LinkPasses, PassingKeeps
<1>2. ASSUME NEW p \in Port, AddLink(p) \/ RemoveLink(p) \/ Receive(p) PROVE HistoryKept'
  BY <1>2, LinkPasses, ReceivePasses, PassingKeeps
<1>3. ASSUME NEW p \in Port, Handle(p) PROVE HistoryKept'
  BY <1>3, HandlePasses, PassingKeeps, ApplyKept, HandleHistoryKept DEF Handle
<1>4. ASSUME NEW d \in Devices,
             Run(d) \/ Recopy(d) \/ SetSettings(d) \/ Restart(d) \/ UserCopy(d)
      PROVE  HistoryKept'
  BY <1>4, RunPasses, LinkPasses, PassingKeeps, RestartKept
<1>5. ASSUME NEW d \in Devices, NEW t \in Threads, Poll(d, t) \/ LocalCopy(d, t)
      PROVE  HistoryKept'
  BY <1>5, PollPasses, PassingKeeps, SealKept, LocalHistoryKept DEF LocalCopy
<1>6. CASE UNCHANGED vars
  BY <1>6, LinkPasses, PassingKeeps
<1> QED
  BY <1>1, <1>2, <1>3, <1>4, <1>5, <1>6, ClipSyncAssumption DEF Next

LEMMA AlwaysKept == Spec => []HistoryKept
BY InitTyped, StepTyped, InitKept, StepKept, PTL DEF Spec

\* The tray menu shows only clips that were current, and none twice, however
\* readers, poll and Recopy interleave between the lock and History.Add.
THEOREM HistoryHeldHolds == Spec => []HistoryHeld
<1>1. HistoryKept => HistoryHeld
  BY DEF HistoryKept
<1> QED
  BY <1>1, AlwaysKept, PTL

\* With room left in the menu, and none of it lost to the byte limit, a clip
\* that was current is there or is about to be added.
THEOREM HistoryCompleteHolds == Spec /\ Ample => []HistoryComplete
<1>1. ASSUME HistoryKept, Ample PROVE HistoryComplete
  <2> SUFFICES ASSUME NEW d \in Devices
               PROVE  /\ Distinct(hist[d])
                      /\ WithHistory /\ ~Adding(d) /\ Len(hist[d]) < MaxItems =>
                           {m.content : m \in held[d]} = Shown(hist[d])
    BY DEF HistoryComplete, Distinct, Shown
  <2>1. HeldAt(d) /\ SoonAt(d)
    BY <1>1, KeptAt
  <2>2. ASSUME WithHistory, ~Adding(d), Len(hist[d]) < MaxItems, NEW m \in held[d]
        PROVE  m.content \in Shown(hist[d])
    <3>1. Remembered(d, m.content)
      BY <2>1, <2>2 DEF SoonAt
    <3>2. \A p \in Port : Dev(p) = d => Reading(p) = {}
      BY <2>2 DEF Adding, Reading
    <3>3. \A t \in Threads : Recording(d, t) = {}
      BY <2>2 DEF Adding, Recording
    <3> QED
      BY <3>1, <3>2, <3>3 DEF Remembered
  <2> QED
    BY <2>1, <2>2 DEF HeldAt
<1>2. Ample => []Ample
  <2>1. Ample /\ [TRUE]_vars => Ample'
    BY DEF Ample
  <2> QED
    BY <2>1, PTL
<1> QED
  BY <1>1, <1>2, AlwaysKept, PTL

-----------------------------------------------------------------------------
(* AppliedOnce: markSeen forgets nothing while it has room.                *)

NoRepeat(s) == \A i, j \in 1..Len(s) : s[i] = s[j] => i = j

\* Different ids of clips of S: no more than S has clips.
LEMMA IdsCounted ==
  ASSUME NEW s \in Seq(Ids), NoRepeat(s), NEW S, IsFiniteSet(S),
         Range(s) \subseteq {m.id : m \in S}
  PROVE  Len(s) <= Cardinality(S)
<1> DEFINE f == [i \in 1..Len(s) |-> CHOOSE m \in S : m.id = s[i]]
<1>1. Len(s) \in Nat /\ DOMAIN s = 1..Len(s)
  BY LenProperties
<1>2. \A i \in 1..Len(s) : f[i] \in S /\ f[i].id = s[i]
  <2> SUFFICES ASSUME NEW i \in 1..Len(s) PROVE f[i] \in S /\ f[i].id = s[i]
    OBVIOUS
  <2>1. \E m \in S : m.id = s[i]
    BY <1>1 DEF Range
  <2> QED
    BY <2>1
<1>3. f \in [1..Len(s) -> S]
  BY <1>2
<1> HIDE DEF f
<1>4. f \in Injection(1..Len(s), S)
  BY <1>2, <1>3 DEF NoRepeat, Injection, IsInjective
<1>5. Cardinality(1..Len(s)) <= Cardinality(S)
  BY <1>4, FS_Injection
<1>6. Cardinality(1..Len(s)) = Len(s)
  BY <1>1, FS_Interval
<1> QED
  BY <1>5, <1>6

\* markSeen forgets nothing while it has room for every clip the device has met.
LEMMA MarkSeenKeeps ==
  ASSUME NEW s \in Seq(Ids), NEW id \in Ids, NoRepeat(s), NEW S, IsFiniteSet(S),
         Range(s) \cup {id} \subseteq {m.id : m \in S}, Cardinality(S) <= SeenLimit
  PROVE  NoRepeat(MarkSeen(s, id)) /\ Range(MarkSeen(s, id)) = Range(s) \cup {id}
<1>1. CASE id \in Range(s)
  BY <1>1 DEF MarkSeen
<1>2. CASE id \notin Range(s)
  <2> DEFINE longer == Append(s, id)
  <2>1. /\ longer \in Seq(Ids) /\ Len(longer) = Len(s) + 1
        /\ longer[Len(s) + 1] = id /\ \A i \in 1..Len(s) : longer[i] = s[i]
    BY AppendProperties
  <2>2. Len(s) \in Nat /\ DOMAIN s = 1..Len(s) /\ DOMAIN longer = 1..Len(longer)
    BY <2>1, LenProperties
  <2> HIDE DEF longer
  <2>3. Range(longer) = Range(s) \cup {id}
    <3>1. Range(longer) \subseteq Range(s) \cup {id}
      <4> SUFFICES ASSUME NEW i \in 1..Len(longer) PROVE longer[i] \in Range(s) \cup {id}
        BY <2>2 DEF Range
      <4>1. CASE i = Len(s) + 1
        BY <2>1, <4>1
      <4>2. CASE i # Len(s) + 1
        <5>1. i \in 1..Len(s)
          BY <2>1, <2>2, <4>2
        <5> QED
          BY <2>1, <2>2, <5>1 DEF Range
      <4> QED
        BY <4>1, <4>2
    <3>2. id \in Range(longer)
      <4>1. Len(s) + 1 \in 1..Len(longer)
        BY <2>1, <2>2
      <4> QED
        BY <2>1, <2>2, <4>1 DEF Range
    <3>3. Range(s) \subseteq Range(longer)
      <4> SUFFICES ASSUME NEW i \in 1..Len(s) PROVE s[i] \in Range(longer)
        BY <2>2 DEF Range
      <4>1. i \in 1..Len(longer) /\ longer[i] = s[i]
        BY <2>1, <2>2
      <4> QED
        BY <2>2, <4>1 DEF Range
    <3> QED
      BY <3>1, <3>2, <3>3
  <2>4. NoRepeat(longer)
    <3> SUFFICES ASSUME NEW i \in 1..Len(longer), NEW j \in 1..Len(longer), longer[i] = longer[j]
                 PROVE  i = j
      BY DEF NoRepeat
    <3>1. \A k \in 1..Len(longer) : k # Len(s) + 1 => k \in 1..Len(s) /\ longer[k] = s[k] /\ s[k] \in Range(s)
      <4> SUFFICES ASSUME NEW k \in 1..Len(longer), k # Len(s) + 1
                   PROVE  k \in 1..Len(s) /\ longer[k] = s[k] /\ s[k] \in Range(s)
        OBVIOUS
      <4>1. k \in 1..Len(s)
        BY <2>1, <2>2
      <4> QED
        BY <2>1, <2>2, <4>1 DEF Range
    <3>2. CASE i = Len(s) + 1 \/ j = Len(s) + 1
      BY <1>2, <2>1, <3>1, <3>2
    <3>3. CASE i # Len(s) + 1 /\ j # Len(s) + 1
      BY <3>1, <3>3 DEF NoRepeat
    <3> QED
      BY <3>2, <3>3
  <2>5. Len(longer) <= Cardinality(S)
    BY <2>1, <2>3, <2>4, IdsCounted
  <2>6. Cardinality(S) \in Nat
    BY FS_CardinalityType
  <2>7. ~(Len(longer) > SeenLimit)
    BY <2>1, <2>2, <2>5, <2>6, ClipSyncAssumption
  <2>8. MarkSeen(s, id) = longer
    BY <1>2, <2>7 DEF MarkSeen, longer
  <2> QED
    BY <2>3, <2>4, <2>8
<1> QED
  BY <1>1, <1>2

OnceAt(d) ==
  /\ NoRepeat(seen[d]) /\ IsFiniteSet(got[d])
  /\ \A m \in held[d] : m.id \in Range(seen[d])
  /\ \A p \in Port : Dev(p) = d =>
       \A m \in Opening(p) :
         /\ m.id \in Range(seen[d]) /\ m \notin held[d]
         /\ \A q \in Port : Dev(q) = d /\ m \in Opening(q) => q = p

MetOnce == \A d \in Devices : OnceAt(d)

LEMMA OnceStays ==
  ASSUME NEW d \in Devices, OnceAt(d),
         seen'[d] = seen[d], got'[d] = got[d], held'[d] = held[d],
         \A p \in Port : Dev(p) = d => Opening(p)' = Opening(p)
  PROVE  OnceAt(d)'
BY DEF OnceAt, NoRepeat

LEMMA StillOnce ==
  ASSUME MetOnce, UNCHANGED <<seen, got, held>>,
         \A p \in Port : Opening(p)' = Opening(p)
  PROVE  MetOnce'
BY OnceStays DEF MetOnce

\* What the device has met is counted, its ids included.
LEMMA SeenMet ==
  ASSUME Typed, Inductive, NEW d \in Devices, NEW m \in Clip, OnceAt(d),
         got'[d] = got[d] \cup {m}, Cardinality(got'[d]) <= SeenLimit
  PROVE  /\ IsFiniteSet(got'[d])
         /\ NoRepeat(MarkSeen(seen[d], m.id))
         /\ Range(MarkSeen(seen[d], m.id)) = Range(seen[d]) \cup {m.id}
<1>1. IsFiniteSet(got'[d])
  BY FS_AddElement DEF OnceAt
<1>2. Range(seen[d]) \cup {m.id} \subseteq {n.id : n \in got'[d]}
  BY DEF Inductive, ClipsKnown
<1>3. seen[d] \in Seq(Ids) /\ m.id \in Ids /\ NoRepeat(seen[d])
  BY ClipFields DEF Typed, TypeOK, OnceAt
<1> QED
  BY <1>1, <1>2, <1>3, MarkSeenKeeps

LEMMA ReceiveOnce ==
  ASSUME Typed, Inductive, MetOnce, Roomy', NEW p \in Port, Receive(p)
  PROVE  MetOnce'
<1> DEFINE d == Dev(p)
<1>1. PICK m \in wire[p] : ReceivePaused(p, m) \/ ReceiveKnown(p, m) \/ ReceiveNew(p, m)
  BY DEF Receive
<1>2. Arrive(p, m) /\ d \in Devices /\ m \in Clip
  BY <1>1, PortFacts DEF ReceivePaused, ReceiveKnown, ReceiveNew, Typed, TypeOK
<1>3. /\ UNCHANGED held /\ Opening(p) = {}
      /\ got'[d] = got[d] \cup {m} /\ \A e \in Devices : e # d => got'[e] = got[e]
  BY <1>2 DEF Arrive, Typed, TypeOK, Opening, At, Idle, Handling
<1>4. \A e \in Devices : e # d => seen'[e] = seen[e]
  BY <1>1, <1>2 DEF ReceivePaused, ReceiveKnown, ReceiveNew, Typed, TypeOK
<1>5. \A q \in Port : q # p => Opening(q)' = Opening(q)
  <2>1. CASE rd' = rd
    BY <2>1, SameOpening
  <2>2. CASE rd' = [rd EXCEPT ![p] = Handling("open", m, 0)]
    BY <2>2, OpeningStarts DEF Typed
  <2> QED
    BY <1>1, <2>1, <2>2 DEF ReceivePaused, ReceiveKnown, ReceiveNew
<1>6. OnceAt(d)
  BY <1>2 DEF MetOnce
<1>7. /\ IsFiniteSet(got'[d])
      /\ NoRepeat(MarkSeen(seen[d], m.id))
      /\ Range(MarkSeen(seen[d], m.id)) = Range(seen[d]) \cup {m.id}
  <2>1. Cardinality(got'[d]) <= SeenLimit
    BY <1>2 DEF Roomy
  <2> QED
    BY <1>2, <1>3, <1>6, <2>1, SeenMet
<1>8. NoRepeat(seen'[d]) /\ Range(seen[d]) \subseteq Range(seen'[d])
  <2>1. CASE seen' = seen
    BY <1>6, <2>1 DEF OnceAt
  <2>2. CASE seen' = [seen EXCEPT ![d] = MarkSeen(seen[d], m.id)]
    <3>1. seen'[d] = MarkSeen(seen[d], m.id)
      BY <1>2, <2>2 DEF Typed, TypeOK
    <3> QED
      BY <1>7, <3>1
  <2> QED
    BY <1>1, <2>1, <2>2 DEF ReceivePaused, ReceiveKnown, ReceiveNew
<1>9. \A n \in Opening(p)' : n = m /\ m.id \in Range(seen'[d]) /\ m.id \notin Range(seen[d])
  <2>1. CASE ReceivePaused(p, m) \/ ReceiveKnown(p, m)
    <3>1. Opening(p)' = {}
      BY <1>3, <2>1, SameOpening DEF ReceivePaused, ReceiveKnown
    <3> QED
      BY <3>1
  <2>2. CASE ReceiveNew(p, m)
    <3>1. Opening(p)' = {m}
      BY <2>2, OpeningStarts DEF ReceiveNew, Typed
    <3>2. seen'[d] = MarkSeen(seen[d], m.id)
      BY <1>2, <2>2 DEF ReceiveNew, Typed, TypeOK
    <3>3. m.id \notin Range(seen[d])
      BY <2>2 DEF ReceiveNew, Known
    <3> QED
      BY <1>7, <3>1, <3>2, <3>3
  <2> QED
    BY <1>1, <2>1, <2>2
<1>10. OnceAt(d)'
  <2>1. \A n \in held'[d] : n.id \in Range(seen'[d])
    BY <1>3, <1>6, <1>8 DEF OnceAt
  <2>2. ASSUME NEW q \in Port, Dev(q) = d, NEW n \in Opening(q)'
        PROVE  /\ n.id \in Range(seen'[d]) /\ n \notin held'[d]
               /\ \A r \in Port : Dev(r) = d /\ n \in Opening(r)' => r = q
    <3>1. CASE q = p
      <4>1. n = m /\ m.id \in Range(seen'[d]) /\ m.id \notin Range(seen[d])
        BY <1>9, <2>2, <3>1
      <4>2. n \notin held[d] /\ \A r \in Port : Dev(r) = d => n \notin Opening(r)
        BY <1>6, <4>1 DEF OnceAt
      <4> QED
        BY <1>3, <1>5, <3>1, <4>1, <4>2
    <3>2. CASE q # p
      <4>1. n \in Opening(q)
        BY <1>5, <2>2, <3>2
      <4>2. /\ n.id \in Range(seen[d]) /\ n \notin held[d]
            /\ \A r \in Port : Dev(r) = d /\ n \in Opening(r) => r = q
        BY <1>6, <2>2, <4>1 DEF OnceAt
      <4>3. n \notin Opening(p)'
        BY <1>9, <4>2
      <4> QED
        BY <1>3, <1>5, <1>8, <4>2, <4>3
    <3> QED
      BY <3>1, <3>2
  <2> QED
    BY <1>7, <1>8, <2>1, <2>2 DEF OnceAt
<1>11. \A e \in Devices : e # d => OnceAt(e)'
  <2> SUFFICES ASSUME NEW e \in Devices, e # d PROVE OnceAt(e)'
    OBVIOUS
  <2>1. \A q \in Port : Dev(q) = e => Opening(q)' = Opening(q)
    BY <1>5
  <2> QED
    BY <1>3, <1>4, <2>1, OnceStays DEF MetOnce
<1> QED
  BY <1>10, <1>11 DEF MetOnce

LEMMA GiveUpOnce ==
  ASSUME Typed, MetOnce, NEW p \in Port, HandleUnreadable(p) \/ HandleStale(p)
  PROVE  MetOnce'
<1>1. UNCHANGED <<seen, got, held>> /\ rd' = [rd EXCEPT ![p] = Idle]
  BY DEF HandleUnreadable, HandleStale, node, history
<1>2. \A q \in Port : Opening(q)' \subseteq Opening(q)
  BY <1>1, OpeningIdle DEF Typed
<1> QED
  BY <1>1, <1>2 DEF MetOnce, OnceAt, NoRepeat

\* Handle opens a clip that was not current before.
LEMMA ApplyOnce ==
  ASSUME Typed, MetOnce, NEW p \in Port, HandleApply(p)
  PROVE  MetOnce' /\ rd[p].m \notin held[Dev(p)]
<1> DEFINE d == Dev(p)
           m == rd[p].m
<1>1. /\ UNCHANGED <<seen, got>> /\ Opening(p) = {m} /\ d \in Devices
      /\ held'[d] = held[d] \cup {m}
      /\ \A e \in Devices : e # d => held'[e] = held[e]
  BY PortFacts DEF HandleApply, Opening, At, Typed, TypeOK
<1>2. /\ Opening(p)' = {}
      /\ \A q \in Port : q # p => Opening(q)' = Opening(q)
  <2>1. \/ rd' = [rd EXCEPT ![p] = Idle]
        \/ rd' = [rd EXCEPT ![p] = Handling("hist", m, 0)]
        \/ rd' = [rd EXCEPT ![p] = Handling("write", m, 0)]
    BY DEF HandleApply, Finish, Goto
  <2> QED
    BY <2>1, OpeningDone, OpeningIdle DEF Typed
<1>3. OnceAt(d)
  BY <1>1 DEF MetOnce
<1>4. /\ m.id \in Range(seen[d]) /\ m \notin held[d]
      /\ \A q \in Port : Dev(q) = d /\ m \in Opening(q) => q = p
  BY <1>1, <1>3 DEF OnceAt
<1>5. OnceAt(d)'
  <2>1. \A n \in held'[d] : n.id \in Range(seen'[d])
    BY <1>1, <1>3, <1>4 DEF OnceAt
  <2>2. ASSUME NEW q \in Port, Dev(q) = d, NEW n \in Opening(q)'
        PROVE  /\ n.id \in Range(seen'[d]) /\ n \notin held'[d]
               /\ \A r \in Port : Dev(r) = d /\ n \in Opening(r)' => r = q
    <3>1. q # p /\ n \in Opening(q)
      BY <1>2, <2>2
    <3>2. n # m
      BY <1>4, <2>2, <3>1
    <3>3. /\ n.id \in Range(seen[d]) /\ n \notin held[d]
          /\ \A r \in Port : Dev(r) = d /\ n \in Opening(r) => r = q
      BY <1>3, <2>2, <3>1 DEF OnceAt
    <3> QED
      BY <1>1, <1>2, <3>2, <3>3
  <2>3. NoRepeat(seen'[d]) /\ IsFiniteSet(got'[d])
    BY <1>1, <1>3 DEF OnceAt
  <2> QED
    BY <2>1, <2>2, <2>3 DEF OnceAt
<1>6. \A e \in Devices : e # d => OnceAt(e)'
  <2> SUFFICES ASSUME NEW e \in Devices, e # d PROVE OnceAt(e)'
    OBVIOUS
  <2>1. \A q \in Port : Dev(q) = e => Opening(q)' = Opening(q)
    BY <1>2
  <2> QED
    BY <1>1, <2>1, OnceStays DEF MetOnce
<1> QED
  BY <1>4, <1>5, <1>6 DEF MetOnce

\* A clip that LocalCopy has sealed nobody has met.
LEMMA SealOnce ==
  ASSUME Typed, Inductive, MetOnce, Roomy', NEW d \in Devices, NEW t \in Threads, LocalSeal(d, t)
  PROVE  MetOnce' /\ loc[d][t].m \notin held[d]
<1> DEFINE m == loc[d][t].m
<1>1. /\ UNCHANGED rd /\ m \in Clip
      /\ held'[d] = held[d] \cup {m} /\ got'[d] = got[d] \cup {m}
      /\ seen'[d] = MarkSeen(seen[d], m.id)
      /\ \A e \in Devices : e # d => held'[e] = held[e] /\ got'[e] = got[e] /\ seen'[e] = seen[e]
  BY DEF LocalSeal, In, Typed, CopyHasContent, TypeOK
<1> HIDE DEF m
<1>2. \A q \in Port : Opening(q)' = Opening(q)
  BY <1>1, SameOpening
<1>3. m \notin got[d]
  <2>1. m \notin Published
    BY SealPublishes DEF Typed, Inductive, m
  <2> QED
    BY <2>1 DEF Inductive, ClipsOwned
<1>4. m \notin held[d] /\ \A q \in Port : Dev(q) = d => m \notin Opening(q)
  BY <1>3 DEF Inductive, ClipsKnown
<1>5. OnceAt(d)
  BY DEF MetOnce
<1>6. /\ IsFiniteSet(got'[d]) /\ NoRepeat(seen'[d])
      /\ Range(seen'[d]) = Range(seen[d]) \cup {m.id}
  <2>1. Cardinality(got'[d]) <= SeenLimit
    BY DEF Roomy
  <2>2. m \in Clip /\ got'[d] = got[d] \cup {m}
    BY <1>1
  <2>3. /\ IsFiniteSet(got'[d]) /\ NoRepeat(MarkSeen(seen[d], m.id))
        /\ Range(MarkSeen(seen[d], m.id)) = Range(seen[d]) \cup {m.id}
    BY <1>5, <2>1, <2>2, SeenMet
  <2> QED
    BY <1>1, <2>3
<1>7. OnceAt(d)'
  <2>1. \A n \in held'[d] : n.id \in Range(seen'[d])
    BY <1>1, <1>5, <1>6 DEF OnceAt
  <2>2. ASSUME NEW q \in Port, Dev(q) = d, NEW n \in Opening(q)'
        PROVE  /\ n.id \in Range(seen'[d]) /\ n \notin held'[d]
               /\ \A r \in Port : Dev(r) = d /\ n \in Opening(r)' => r = q
    <3>1. n \in Opening(q) /\ n # m
      BY <1>2, <1>4, <2>2
    <3>2. /\ n.id \in Range(seen[d]) /\ n \notin held[d]
          /\ \A r \in Port : Dev(r) = d /\ n \in Opening(r) => r = q
      BY <1>5, <2>2, <3>1 DEF OnceAt
    <3> QED
      BY <1>1, <1>2, <1>6, <3>1, <3>2
  <2> QED
    BY <1>6, <2>1, <2>2 DEF OnceAt
<1>8. \A e \in Devices : e # d => OnceAt(e)'
  <2> SUFFICES ASSUME NEW e \in Devices, e # d PROVE OnceAt(e)'
    OBVIOUS
  <2> QED
    BY <1>1, <1>2, OnceStays DEF MetOnce
<1> QED
  BY <1>4, <1>7, <1>8 DEF MetOnce, m

LEMMA RestartOnce ==
  ASSUME Typed, MetOnce, NEW d \in Devices, Restart(d)
  PROVE  MetOnce'
<1>1. /\ seen'[d] = <<>> /\ held'[d] = {} /\ got'[d] = {}
      /\ \A e \in Devices : e # d => held'[e] = held[e] /\ got'[e] = got[e] /\ seen'[e] = seen[e]
  BY DEF Restart, NewNode, Typed, TypeOK
<1>2. \A p \in Port : rd'[p] = IF Dev(p) = d THEN Idle ELSE rd[p]
  BY DEF Restart
<1>3. \A p \in Port : Opening(p)' = IF Dev(p) = d THEN {} ELSE Opening(p)
  BY <1>2 DEF Opening, At, Idle, Handling
<1>4. OnceAt(d)'
  <2>1. Len(seen'[d]) = 0
    BY <1>1
  <2>2. NoRepeat(seen'[d])
    BY <2>1 DEF NoRepeat
  <2>3. IsFiniteSet(got'[d])
    BY <1>1, FS_EmptySet
  <2> QED
    BY <1>1, <1>3, <2>2, <2>3 DEF OnceAt
<1>5. \A e \in Devices : e # d => OnceAt(e)'
  <2> SUFFICES ASSUME NEW e \in Devices, e # d PROVE OnceAt(e)'
    OBVIOUS
  <2> QED
    BY <1>1, <1>3, OnceStays DEF MetOnce
<1> QED
  BY <1>4, <1>5 DEF MetOnce

LEMMA InitOnce == Init => MetOnce
<1> SUFFICES ASSUME Init PROVE MetOnce
  OBVIOUS
<1>1. \A d \in Devices : seen[d] = <<>> /\ held[d] = {} /\ got[d] = {} /\ Len(seen[d]) = 0
  BY DEF Init
<1>2. \A p \in Port : Opening(p) = {}
  BY DEF Init, Opening, At, Idle, Handling
<1>3. \A d \in Devices : NoRepeat(seen[d])
  <2> SUFFICES ASSUME NEW d \in Devices PROVE NoRepeat(seen[d])
    OBVIOUS
  <2>1. \A i \in 1..Len(seen[d]) : FALSE
    BY <1>1
  <2> QED
    BY <2>1 DEF NoRepeat
<1>4. \A d \in Devices : IsFiniteSet(got[d])
  BY <1>1, FS_EmptySet
<1> QED
  BY <1>1, <1>2, <1>3, <1>4 DEF MetOnce, OnceAt

\* What becomes current was not current before.
Fresh == \A d \in Devices :
  current'[d] # current[d] /\ current'[d] # NoClip => current'[d] \notin held[d]

LEMMA StillFresh ==
  ASSUME UNCHANGED current
  PROVE  Fresh
BY DEF Fresh

LEMMA StepOnce ==
  ASSUME Typed, Inductive, MetOnce, Roomy', [Next]_vars
  PROVE  MetOnce' /\ Fresh
<1> USE DEF Typed
<1>1. ASSUME NEW c \in Conns, Connect(c) \/ Break(c) PROVE MetOnce' /\ Fresh
  <2>1. UNCHANGED <<current, seen, got, held, rd>>
    BY <1>1 DEF Connect, Break, node, history
  <2> QED
    BY <2>1, SameOpening, StillOnce, StillFresh
<1>2. ASSUME NEW p \in Port, AddLink(p) \/ RemoveLink(p) PROVE MetOnce' /\ Fresh
  <2>1. UNCHANGED <<current, seen, got, held, rd>>
    BY <1>2 DEF AddLink, RemoveLink, node, history
  <2> QED
    BY <2>1, SameOpening, StillOnce, StillFresh
<1>3. ASSUME NEW p \in Port, Receive(p) PROVE MetOnce' /\ Fresh
  <2>1. UNCHANGED current
    BY <1>3 DEF Receive, ReceivePaused, ReceiveKnown, ReceiveNew, Arrive
  <2> QED
    BY <1>3, <2>1, ReceiveOnce, StillFresh
<1>4. ASSUME NEW p \in Port, HandleUnreadable(p) \/ HandleStale(p) PROVE MetOnce' /\ Fresh
  <2>1. UNCHANGED current
    BY <1>4 DEF HandleUnreadable, HandleStale, node
  <2> QED
    BY <1>4, <2>1, GiveUpOnce, StillFresh
<1>5. ASSUME NEW p \in Port, HandleApply(p) PROVE MetOnce' /\ Fresh
  <2>1. MetOnce' /\ rd[p].m \notin held[Dev(p)]
    BY <1>5, ApplyOnce
  <2>2. current' = [current EXCEPT ![Dev(p)] = rd[p].m]
    BY <1>5 DEF HandleApply
  <2>3. Fresh
    BY <2>1, <2>2 DEF Fresh, TypeOK
  <2> QED
    BY <2>1, <2>3
<1>6. CASE Still
  BY <1>6, StillOnce, StillFresh DEF Still
<1>7. ASSUME NEW p \in Port, Handle(p) PROVE MetOnce' /\ Fresh
  BY <1>4, <1>5, <1>6, <1>7, ClipboardStill DEF Handle
<1>8. ASSUME NEW d \in Devices, Restart(d) PROVE MetOnce' /\ Fresh
  <2>1. current' = [current EXCEPT ![d] = NoClip]
    BY <1>8 DEF Restart, NewNode
  <2>2. Fresh
    BY <2>1 DEF Fresh, TypeOK
  <2> QED
    BY <1>8, <2>2, RestartOnce
<1>9. ASSUME NEW d \in Devices, Run(d) \/ Recopy(d) \/ SetSettings(d) \/ UserCopy(d)
      PROVE  MetOnce' /\ Fresh
  BY <1>6, <1>9, RunStill, UserStill
<1>10. ASSUME NEW d \in Devices, NEW t \in Threads, LocalStamp(d, t) PROVE MetOnce' /\ Fresh
  <2>1. UNCHANGED <<current, seen, got, held, rd>>
    BY <1>10 DEF LocalStamp, Stamped
  <2> QED
    BY <2>1, SameOpening, StillOnce, StillFresh
<1>11. ASSUME NEW d \in Devices, NEW t \in Threads, LocalSeal(d, t) PROVE MetOnce' /\ Fresh
  <2>1. MetOnce' /\ loc[d][t].m \notin held[d]
    BY <1>11, SealOnce
  <2>2. current' = [current EXCEPT ![d] = loc[d][t].m]
    BY <1>11 DEF LocalSeal
  <2>3. Fresh
    BY <2>1, <2>2 DEF Fresh, TypeOK
  <2> QED
    BY <2>1, <2>3
<1>12. ASSUME NEW d \in Devices, NEW t \in Threads, Poll(d, t) \/ LocalCopy(d, t)
       PROVE  MetOnce' /\ Fresh
  BY <1>6, <1>10, <1>11, <1>12, PollStill, CopyStill DEF LocalCopy
<1>13. CASE UNCHANGED vars
  <2>1. Still
    BY <1>13, SameOpening, SameSealing DEF vars, node, clipboard, net, history, Still
  <2> QED
    BY <1>6, <2>1
<1> QED
  BY <1>1, <1>2, <1>3, <1>7, <1>8, <1>9, <1>12, <1>13, ClipSyncAssumption DEF Next

LEMMA AlwaysOnce == Spec /\ []Roomy => []MetOnce
BY InitTyped, StepTyped, InitInductive, StepInductive, InitOnce, StepOnce, PTL DEF Spec

\* No device ever remembers an id twice, takes two links' copies of one clip, or
\* makes a clip current whose id markSeen has not recorded, as long as it meets
\* no more clips than markSeen remembers.
THEOREM SeenOnceHolds == Spec /\ []Roomy => []SeenOnce
<1>1. MetOnce => SeenOnce
  BY DEF MetOnce, OnceAt, SeenOnce, NoRepeat
<1> QED
  BY <1>1, AlwaysOnce, PTL

\* A clip becomes current at most once in the life of a device, as long as the
\* device meets no more clips than markSeen remembers.
THEOREM AppliedOnceHolds == Spec /\ []Roomy => AppliedOnce
<1>1. Typed /\ Inductive /\ MetOnce /\ Roomy' /\ [Next]_vars => [Fresh]_vars
  BY StepOnce
<1>2. Spec => [](Typed /\ Inductive)
  BY InitTyped, StepTyped, InitInductive, StepInductive, PTL DEF Spec
<1>3. AppliedOnce <=> [][Fresh]_vars
  BY DEF AppliedOnce, Fresh
<1> QED
  BY <1>1, <1>2, <1>3, AlwaysOnce, PTL DEF Spec
=============================================================================
