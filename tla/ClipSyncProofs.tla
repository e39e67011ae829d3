--------------------------- MODULE ClipSyncProofs ---------------------------
(***************************************************************************)
(* Proofs about ClipSync, for any number of devices, connections, contents *)
(* and clips, and any bounds.                                              *)
(***************************************************************************)
EXTENDS ClipSync, SequenceTheorems, WellFoundedInduction, TLAPS

-----------------------------------------------------------------------------
(* The order on clips is a strict total order, up to the id: Newer cannot  *)
(* hold both ways, is transitive, and decides any two clips that differ in *)
(* stamp or id.                                                            *)

LEMMA ClipFields ==
  ASSUME NEW m \in Clip
  PROVE  m # NoClip /\ m.id \in Ids /\ m.id \in Nat /\ m.time \in Nat
<1>1. m.id \in Ids /\ m.time \in Nat
  BY DEF Clip
<1>2. m # NoClip
  BY ClipAssumption
<1> QED
  BY <1>1, <1>2, ClipAssumption

\* No two clips are each newer than the other (Message.Newer).
LEMMA NewerAsymmetric ==
  ASSUME NEW m \in Clip, NEW n \in Clip, Newer(m, n)
  PROVE  ~Newer(n, m)
<1>1. m # NoClip /\ m.id \in Nat /\ m.time \in Nat
  BY ClipFields
<1>2. n # NoClip /\ n.id \in Nat /\ n.time \in Nat
  BY ClipFields
<1> QED
  BY <1>1, <1>2 DEF Newer

\* A clip newer than one that is newer than a third is newer than the third.
LEMMA NewerTransitive ==
  ASSUME NEW l \in Clip, NEW m \in Clip, NEW n \in MaybeClip, Newer(l, m), Newer(m, n)
  PROVE  Newer(l, n)
<1>1. l # NoClip /\ l.id \in Nat /\ l.time \in Nat
  BY ClipFields
<1>2. m # NoClip /\ m.id \in Nat /\ m.time \in Nat
  BY ClipFields
<1>3. CASE n = NoClip
  BY <1>3 DEF Newer
<1>4. CASE n \in Clip
  <2>1. n # NoClip /\ n.id \in Nat /\ n.time \in Nat
    BY <1>4, ClipFields
  <2> QED
    BY <1>1, <1>2, <2>1 DEF Newer
<1> QED
  BY <1>3, <1>4 DEF MaybeClip

\* Of two clips with different ids one is newer.
LEMMA NewerTotal ==
  ASSUME NEW m \in Clip, NEW n \in Clip, m.id # n.id
  PROVE  Newer(m, n) \/ Newer(n, m)
<1>1. m.id \in Nat /\ m.time \in Nat /\ n.id \in Nat /\ n.time \in Nat
  BY ClipFields
<1> QED
  BY <1>1 DEF Newer

\* LocalCopy's stamp beats the clip it was taken against, whatever the id and
\* however far behind the wall clock is.
LEMMA StampBeatsCurrent ==
  ASSUME NEW m \in Clip, NEW cur \in MaybeClip, NEW now \in Nat,
         m.time = Stamp(now, cur)
  PROVE  Newer(m, cur)
<1>1. CASE cur = NoClip
  BY <1>1 DEF Newer
<1>2. CASE cur \in Clip
  <2>1. cur # NoClip /\ cur.time \in Nat
    BY <1>2, ClipFields
  <2> QED
    BY <2>1 DEF Newer, Stamp
<1> QED
  BY <1>1, <1>2 DEF MaybeClip

LEMMA AtLeastAsNewTransitive ==
  ASSUME NEW l \in Clip, NEW m \in Clip, NEW n \in Clip,
         AtLeastAsNew(l, m), AtLeastAsNew(m, n)
  PROVE  AtLeastAsNew(l, n)
BY NewerTransitive DEF AtLeastAsNew, MaybeClip

-----------------------------------------------------------------------------
(* What History.Add does to any history, of any length and any limits.     *)

LEMMA LeastOf ==
  ASSUME NEW S \in SUBSET Nat, S # {}
  PROVE  Min(S) \in S /\ \A y \in S : Min(S) <= y
<1> DEFINE less == OpToRel(<, Nat)
<1>1. PICK x \in S : \A y \in S : <<y, x>> \notin less
  BY NatLessThanWellFounded, WFMin
<1>2. less = {ss \in Nat \X Nat : ss[1] < ss[2]}
  BY DEF OpToRel
<1> HIDE DEF less
<1>3. \A y \in S : x <= y
  <2> SUFFICES ASSUME NEW y \in S PROVE x <= y
    OBVIOUS
  <2>1. x \in Nat /\ y \in Nat
    OBVIOUS
  <2>2. ~(y < x)
    BY <1>1, <1>2, <2>1
  <2> QED
    BY <2>1, <2>2
<1> QED
  BY <1>3 DEF Min

\* The loop that applies the limits cuts the history, it reorders nothing.
LEMMA TrimType ==
  ASSUME NEW h \in Seq(HistoryItem)
  PROVE  /\ Trim(h) \in Seq(HistoryItem)
         /\ Len(Trim(h)) <= Len(h)
         /\ \A i \in 1..Len(Trim(h)) : Trim(h)[i] = h[i]
<1> DEFINE over == {i \in 1..Len(h) : ~Fits(h, i)}
<1>1. CASE over = {}
  BY <1>1 DEF Trim
<1>2. CASE over # {}
  <2>1. Min(over) \in 1..Len(h)
    <3>1. over \in SUBSET Nat /\ over \subseteq 1..Len(h)
      BY LenProperties
    <3> HIDE DEF over
    <3>2. Min(over) \in over
      BY <1>2, <3>1, LeastOf
    <3> QED
      BY <3>1, <3>2
  <2>2. \A i \in 1..(Min(over) - 1) : h[i] \in HistoryItem
    BY <2>1, ElementOfSeq
  <2>3. Trim(h) = SubSeq(h, 1, Min(over) - 1)
    BY <1>2 DEF Trim
  <2> HIDE DEF over
  <2>4. Min(over) - 1 \in Int /\ Min(over) - 1 <= Len(h)
    BY <2>1
  <2> QED
    BY <2>1, <2>2, <2>3, <2>4, SubSeqProperties
<1> QED
  BY <1>1, <1>2

LEMMA WithoutType ==
  ASSUME NEW h \in Seq(HistoryItem), NEW c
  PROVE  Without(h, c) \in Seq(HistoryItem)
<1> DEFINE same == {i \in 1..Len(h) : h[i].clip.content = c}
           at == Min(same)
<1>1. CASE same = {}
  BY <1>1 DEF Without
<1>2. CASE same # {}
  <2>1. at \in 1..Len(h)
    <3>1. same \in SUBSET Nat /\ same \subseteq 1..Len(h)
      BY LenProperties
    <3> HIDE DEF same
    <3>2. Min(same) \in same
      BY <1>2, <3>1, LeastOf
    <3> QED
      BY <3>1, <3>2
  <2>2. Without(h, c) = SubSeq(h, 1, at - 1) \o SubSeq(h, at + 1, Len(h))
    BY <1>2 DEF Without, RemoveAt
  <2> HIDE DEF same, at
  <2>3. /\ \A i \in 1..(at - 1) : h[i] \in HistoryItem
        /\ \A i \in (at + 1)..Len(h) : h[i] \in HistoryItem
    BY <2>1, ElementOfSeq
  <2>4. SubSeq(h, 1, at - 1) \in Seq(HistoryItem)
    BY <2>1, <2>3, SubSeqProperties
  <2>5. SubSeq(h, at + 1, Len(h)) \in Seq(HistoryItem)
    BY <2>1, <2>3, SubSeqProperties
  <2> QED
    BY <2>2, <2>4, <2>5, ConcatProperties
<1> QED
  BY <1>1, <1>2

\* History.Add keeps a sequence of items.
LEMMA HistoryAddType ==
  ASSUME NEW h \in Seq(HistoryItem), NEW m \in Clip, NEW local \in BOOLEAN
  PROVE  HistoryAdd(h, m, local) \in Seq(HistoryItem)
<1> DEFINE item == [clip |-> m, local |-> local]
<1>1. item \in HistoryItem
  BY DEF HistoryItem
<1> HIDE DEF item
<1>2. <<item>> \in Seq(HistoryItem)
  BY <1>1
<1>3. <<item>> \o Without(h, m.content) \in Seq(HistoryItem)
  BY <1>2, WithoutType, ConcatProperties
<1> QED
  BY <1>3, TrimType DEF HistoryAdd, item

-----------------------------------------------------------------------------
(* Helpers of the model.                                                   *)

LEMMA PortFacts ==
  ASSUME NEW p \in Port
  PROVE  /\ p[1] \in Conns
         /\ Dev(p) \in Devices
         /\ Peer(p) \in Port
         /\ Peer(p)[1] = p[1]
         /\ Peer(Peer(p)) = p
         /\ Peer(p) # p
BY ClipSyncAssumption DEF Port, Dev, Peer

\* markSeen yields a list of ids again, adds at most the id and keeps no other.
LEMMA MarkSeenType ==
  ASSUME NEW s \in Seq(Ids), NEW id \in Ids
  PROVE  /\ MarkSeen(s, id) \in Seq(Ids)
         /\ Range(MarkSeen(s, id)) \subseteq Range(s) \cup {id}
<1> DEFINE longer == Append(s, id)
<1>1. longer \in Seq(Ids) /\ Len(longer) = Len(s) + 1 /\ longer # <<>>
  BY AppendProperties, EmptySeq
<1>2. \A i \in 1..Len(longer) : longer[i] \in Range(s) \cup {id}
  <2> SUFFICES ASSUME NEW i \in 1..Len(longer) PROVE longer[i] \in Range(s) \cup {id}
    OBVIOUS
  <2>1. longer[i] = IF i <= Len(s) THEN s[i] ELSE id
    BY AppendProperties, LenProperties
  <2>2. i <= Len(s) => i \in DOMAIN s
    BY LenProperties
  <2> QED
    BY <2>1, <2>2 DEF Range
<1>3. Tail(longer) \in Seq(Ids) /\ Len(Tail(longer)) = Len(s)
  BY <1>1, HeadTailProperties, LenProperties
<1>4. \A i \in 1..Len(Tail(longer)) : Tail(longer)[i] = longer[i + 1]
  BY <1>1, HeadTailProperties
<1>5. Range(longer) \subseteq Range(s) \cup {id}
  <2>1. DOMAIN longer = 1..Len(longer)
    BY <1>1, LenProperties
  <2> QED
    BY <1>2, <2>1 DEF Range
<1>6. Range(Tail(longer)) \subseteq Range(s) \cup {id}
  <2>1. DOMAIN Tail(longer) = 1..Len(s)
    BY <1>3, LenProperties
  <2>2. \A i \in 1..Len(s) : i + 1 \in 1..Len(longer)
    BY <1>1, LenProperties
  <2> QED
    BY <1>2, <1>3, <1>4, <2>1, <2>2 DEF Range
<1>7. MarkSeen(s, id) \in {s, longer, Tail(longer)}
  BY DEF MarkSeen
<1> QED
  BY <1>1, <1>3, <1>5, <1>6, <1>7

\* What is sent is added to what is in flight, and only over open connections.
LEMMA SentType ==
  ASSUME NEW from, NEW m \in Clip, wire \in [Port -> SUBSET Clip]
  PROVE  /\ Sent(from, m) \in [Port -> SUBSET Clip]
         /\ \A p \in Port : /\ wire[p] \subseteq Sent(from, m)[p]
                            /\ Sent(from, m)[p] \subseteq wire[p] \cup {m}
                            /\ ~open[p[1]] => Sent(from, m)[p] = wire[p]
BY DEF Sent

-----------------------------------------------------------------------------
(* Types.                                                                  *)

LEMMA ValueTypes ==
  /\ Idle \in Handler /\ NoCopy \in Copied
  /\ Resting \in Watcher /\ Starting \in Watcher
BY DEF Idle, Handling, Handler, MaybeClip, NoCopy, Board, Copied, Resting, Starting,
       Doing, Watcher

LEMMA SpendType ==
  ASSUME TypeOK, NEW k \in DOMAIN Budget, Spend(k)
  PROVE  spent' \in [DOMAIN Budget -> Nat]
BY DEF TypeOK, Spend

LEMMA BudgetKeys == DOMAIN Budget = {"copies", "clips", "connects", "breaks", "restarts", "settings"}
BY ClipSyncAssumption

LEMMA StampedType ==
  ASSUME NEW id \in Ids, NEW d \in Devices, NEW now \in Clock,
         NEW cur \in MaybeClip, NEW c \in Contents
  PROVE  [id |-> id, origin |-> d, time |-> Stamp(now, cur), content |-> c] \in Clip
<1>1. Stamp(now, cur) \in Nat
  <2>1. now \in Nat
    BY ClipSyncAssumption
  <2>2. cur # NoClip => cur.time \in Nat
    BY DEF MaybeClip, Clip
  <2> QED
    BY <2>1, <2>2 DEF Stamp
<1> QED
  BY <1>1 DEF Clip

\* LocalCopy only ever sees content: poll returns on a nil Read.
CopyHasContent ==
  \A d \in Devices, t \in Threads :
    /\ loc[d][t].pc \in {"copy", "seal"} => loc[d][t].c.content \in Contents
    /\ loc[d][t].pc \in {"seal", "hist"} => loc[d][t].m \in Clip

\* A reader past its first hold of the lock has a clip.
HandlerHasClip ==
  \A p \in Port : rd[p].pc # "idle" => rd[p].m \in Clip

Typed == TypeOK /\ CopyHasContent /\ HandlerHasClip

LEMMA InitTyped == Init => Typed
<1> SUFFICES ASSUME Init PROVE Typed
  OBVIOUS
<1> USE ValueTypes, ClipSyncAssumption
<1>1. CopyHasContent
  BY DEF Init, CopyHasContent, Resting, Starting, Doing
<1>2. HandlerHasClip
  BY DEF Init, HandlerHasClip, Idle, Handling
<1>3. seen \in [Devices -> Seq(Ids)] /\ hist \in [Devices -> Seq(HistoryItem)]
  BY EmptySeq DEF Init
<1>4. cb \in [Devices -> Copied] /\ lastHash \in [Devices -> Contents \cup {NoContent}]
  <2>1. PICK c \in [Devices -> StartContents] :
          /\ cb = [d \in Devices |-> Board(c[d], FALSE)]
          /\ lastHash = [d \in Devices |-> IF d \in ColdStart THEN NoContent ELSE c[d]]
    BY DEF Init
  <2>2. \A d \in Devices : c[d] \in Contents \cup {NoContent}
    OBVIOUS
  <2>3. \A d \in Devices : Board(c[d], FALSE) \in Copied
    BY <2>2 DEF Board, Copied
  <2> QED
    BY <2>1, <2>2, <2>3
<1>5. loc \in [Devices -> [Threads -> Watcher]]
  BY DEF Init
<1>6. open \in [Conns -> BOOLEAN]
  BY DEF Init
<1>7. /\ settings \in [Devices -> [paused : BOOLEAN, skipSensitive : BOOLEAN]]
      /\ lastSeq \in [Devices -> Nat] /\ st \in [Port -> {"off", "ready", "up"}]
      /\ rd \in [Port -> Handler] /\ spent \in [DOMAIN Budget -> Nat]
  BY DEF Init
<1>8. TypeOK
  BY <1>3, <1>4, <1>5, <1>6, <1>7 DEF Init, TypeOK, MaybeClip
<1> QED
  BY <1>1, <1>2, <1>8 DEF Typed

\* The links, and the parts of Handle and LocalCopy that touch them.
LEMMA LinkStepTyped ==
  ASSUME Typed, \/ \E c \in Conns : Connect(c) \/ Break(c)
                \/ \E p \in Port : AddLink(p) \/ RemoveLink(p)
  PROVE  Typed'
<1> USE DEF Typed, node, clipboard, net, history
<1>1. ASSUME NEW c \in Conns, Connect(c) PROVE Typed'
  BY <1>1, SpendType, BudgetKeys DEF Connect, TypeOK, CopyHasContent, HandlerHasClip
<1>2. ASSUME NEW c \in Conns, Break(c) PROVE Typed'
  BY <1>2, SpendType, BudgetKeys DEF Break, TypeOK, CopyHasContent, HandlerHasClip
<1>3. ASSUME NEW p \in Port, AddLink(p) PROVE Typed'
  <2>1. wire' \in [Port -> SUBSET Clip]
    <3>1. CASE current[Dev(p)] = NoClip
      BY <1>3, <3>1 DEF AddLink, TypeOK
    <3>2. CASE current[Dev(p)] # NoClip
      <4>1. current[Dev(p)] \in Clip
        BY <3>2, PortFacts DEF TypeOK, MaybeClip
      <4> QED
        BY <1>3, <3>2, <4>1, SentType DEF AddLink, TypeOK
    <3> QED
      BY <3>1, <3>2
  <2> QED
    BY <1>3, <2>1 DEF AddLink, TypeOK, CopyHasContent, HandlerHasClip
<1>4. ASSUME NEW p \in Port, RemoveLink(p) PROVE Typed'
  BY <1>4 DEF RemoveLink, TypeOK, CopyHasContent, HandlerHasClip
<1> QED
  BY <1>1, <1>2, <1>3, <1>4

LEMMA ReceiveTyped ==
  ASSUME Typed, NEW p \in Port, Receive(p)
  PROVE  Typed'
<1> USE DEF Typed, node, clipboard, net, history
<1>1. PICK m \in wire[p] : ReceivePaused(p, m) \/ ReceiveKnown(p, m) \/ ReceiveNew(p, m)
  BY DEF Receive
<1>2. m \in Clip /\ m.id \in Ids /\ Dev(p) \in Devices
  BY PortFacts, ClipFields DEF TypeOK
<1>3. Arrive(p, m)
  BY <1>1 DEF ReceivePaused, ReceiveKnown, ReceiveNew
<1>4. /\ wire' \in [Port -> SUBSET Clip]
      /\ got' \in [Devices -> SUBSET Clip]
      /\ UNCHANGED <<current, lastHash, lastSeq, settings, hist, cb, cbSeq, st, open,
                     loc, issued, held, spent>>
  BY <1>2, <1>3 DEF Arrive, TypeOK
<1>5. seen' \in [Devices -> Seq(Ids)]
  <2>1. MarkSeen(seen[Dev(p)], m.id) \in Seq(Ids)
    BY <1>2, MarkSeenType DEF TypeOK
  <2> QED
    BY <1>1, <1>2, <2>1 DEF ReceivePaused, ReceiveKnown, ReceiveNew, TypeOK
<1>6. dropped' \in [Devices -> SUBSET Clip]
  <2>1. dropped' = dropped \/ dropped' = [dropped EXCEPT ![Dev(p)] = @ \cup {m}]
    BY <1>1 DEF ReceivePaused, ReceiveKnown, ReceiveNew
  <2>2. dropped[Dev(p)] \cup {m} \in SUBSET Clip
    BY <1>2 DEF TypeOK
  <2> QED
    BY <1>2, <2>1, <2>2 DEF TypeOK
<1>7. rd' \in [Port -> Handler] /\ HandlerHasClip'
  <2>1. CASE rd' = rd
    BY <2>1 DEF TypeOK, HandlerHasClip
  <2>2. CASE rd' = [rd EXCEPT ![p] = Handling("open", m, 0)]
    <3>1. Handling("open", m, 0) \in Handler /\ Handling("open", m, 0).m = m
      BY <1>2 DEF Handling, Handler, MaybeClip
    <3> QED
      BY <1>2, <2>2, <3>1 DEF TypeOK, HandlerHasClip
  <2> QED
    BY <1>1, <2>1, <2>2 DEF ReceivePaused, ReceiveKnown, ReceiveNew
<1> QED
  BY <1>4, <1>5, <1>6, <1>7 DEF TypeOK, CopyHasContent

\* One reader, or one watcher, moves on.
LEMMA HandlerMove ==
  ASSUME Typed, NEW p \in Port, NEW pc \in {"open", "write", "seq", "store", "hist"},
         NEW seq \in Nat, NEW m \in Clip,
         \/ rd' = [rd EXCEPT ![p] = Idle]
         \/ rd' = [rd EXCEPT ![p] = Handling(pc, m, seq)]
  PROVE  rd' \in [Port -> Handler] /\ HandlerHasClip'
<1>1. Handling(pc, m, seq) \in Handler /\ Handling(pc, m, seq).m \in Clip
  BY DEF Handling, Handler, MaybeClip
<1>2. Idle \in Handler /\ Idle.pc = "idle"
  BY ValueTypes DEF Idle, Handling
<1> QED
  BY <1>1, <1>2 DEF Typed, TypeOK, HandlerHasClip

LEMMA WatcherMove ==
  ASSUME Typed, NEW d \in Devices, NEW t \in Threads, NEW w \in Watcher, Step(d, t, w),
         w.pc \in {"copy", "seal"} => w.c.content \in Contents,
         w.pc \in {"seal", "hist"} => w.m \in Clip
  PROVE  loc' \in [Devices -> [Threads -> Watcher]] /\ CopyHasContent'
BY DEF Typed, TypeOK, CopyHasContent, Step

LEMMA HandleTyped ==
  ASSUME Typed, NEW p \in Port, Handle(p)
  PROVE  Typed'
<1> DEFINE d == Dev(p)
           m == rd[p].m
<1> USE DEF Typed, node, clipboard, net, history
<1>1. d \in Devices
  BY PortFacts
<1>2. rd[p].pc # "idle" => m \in Clip /\ m.content \in Contents
  BY DEF HandlerHasClip, Clip
<1>3. cbSeq[d] \in Nat /\ rd[p].seq \in Nat
  BY <1>1 DEF TypeOK, Handler
<1>4. CASE HandleUnreadable(p)
  <2>1. m \in Clip
    BY <1>2, <1>4 DEF HandleUnreadable, At
  <2>2. dropped' = [dropped EXCEPT ![d] = dropped[d] \cup {m}] /\ rd' = [rd EXCEPT ![p] = Idle]
    BY <1>4 DEF HandleUnreadable
  <2>3. dropped' \in [Devices -> SUBSET Clip]
    BY <1>1, <2>1, <2>2 DEF TypeOK
  <2> QED
    BY <1>4, <2>1, <2>2, <2>3, HandlerMove DEF HandleUnreadable, TypeOK, CopyHasContent
<1>5. CASE HandleStale(p)
  <2>1. m \in Clip
    BY <1>2, <1>5 DEF HandleStale, At
  <2> QED
    BY <1>5, <2>1, HandlerMove DEF HandleStale, TypeOK, CopyHasContent
<1>6. CASE HandleApply(p)
  <2>1. m \in Clip /\ m.content \in Contents
    BY <1>2, <1>6 DEF HandleApply, At
  <2>2. wire' \in [Port -> SUBSET Clip]
    BY <1>6, <2>1, SentType DEF HandleApply, TypeOK
  <2>3. held' \in [Devices -> SUBSET Clip]
    <3>1. held' = [held EXCEPT ![d] = held[d] \cup {m}]
      BY <1>6 DEF HandleApply
    <3> QED
      BY <1>1, <2>1, <3>1 DEF TypeOK
  <2>4. /\ current' \in [Devices -> MaybeClip]
        /\ lastHash' \in [Devices -> Contents \cup {NoContent}]
    BY <1>1, <1>6, <2>1 DEF HandleApply, TypeOK, MaybeClip
  <2>5. rd' \in [Port -> Handler] /\ HandlerHasClip'
    BY <1>6, <2>1, HandlerMove DEF HandleApply, Finish, Goto
  <2> QED
    BY <1>6, <2>2, <2>3, <2>4, <2>5 DEF HandleApply, TypeOK, CopyHasContent
<1>7. CASE HandleWrite(p)
  <2>1. m \in Clip /\ m.content \in Contents
    BY <1>2, <1>7 DEF HandleWrite, At
  <2>2. Board(m.content, FALSE) \in Copied
    BY <2>1 DEF Board, Copied
  <2>3. cb' \in [Devices -> Copied] /\ cbSeq' \in [Devices -> Nat]
    <3>1. cb' = [cb EXCEPT ![d] = Board(m.content, FALSE)]
      BY <1>7 DEF HandleWrite
    <3>2. cbSeq' = [cbSeq EXCEPT ![d] = cbSeq[d] + 1] /\ cbSeq[d] + 1 \in Nat
      BY <1>3, <1>7 DEF HandleWrite
    <3> QED
      BY <1>1, <2>2, <3>1, <3>2 DEF TypeOK
  <2>4. rd' \in [Port -> Handler] /\ HandlerHasClip'
    BY <1>7, <2>1, HandlerMove DEF HandleWrite, Goto
  <2> QED
    BY <1>7, <2>3, <2>4 DEF HandleWrite, TypeOK, CopyHasContent
<1>8. CASE HandleSeq(p)
  <2>1. m \in Clip
    BY <1>2, <1>8 DEF HandleSeq, At
  <2>2. rd' \in [Port -> Handler] /\ HandlerHasClip'
    BY <1>3, <1>8, <2>1, HandlerMove DEF HandleSeq
  <2> QED
    BY <1>8, <2>2 DEF HandleSeq, TypeOK, CopyHasContent
<1>9. CASE HandleStore(p)
  <2>1. m \in Clip
    BY <1>2, <1>9 DEF HandleStore, At
  <2>2. rd' \in [Port -> Handler] /\ HandlerHasClip'
    BY <1>9, <2>1, HandlerMove DEF HandleStore, Finish
  <2>3. lastSeq' \in [Devices -> Nat]
    BY <1>1, <1>3, <1>9 DEF HandleStore, TypeOK
  <2> QED
    BY <1>9, <2>2, <2>3 DEF HandleStore, TypeOK, CopyHasContent
<1>10. CASE HandleFails(p)
  <2>1. m \in Clip
    BY <1>2, <1>10 DEF HandleFails, At
  <2>2. rd' \in [Port -> Handler] /\ HandlerHasClip'
    BY <1>10, <2>1, HandlerMove DEF HandleFails, Finish
  <2> QED
    BY <1>10, <2>2 DEF HandleFails, TypeOK, CopyHasContent
<1>11. CASE HandleHistory(p)
  <2>1. m \in Clip
    BY <1>2, <1>11 DEF HandleHistory, At
  <2>2. rd' \in [Port -> Handler] /\ HandlerHasClip'
    BY <1>11, <2>1, HandlerMove DEF HandleHistory
  <2>3. hist' \in [Devices -> Seq(HistoryItem)]
    <3>1. HistoryAdd(hist[d], m, FALSE) \in Seq(HistoryItem)
      BY <1>1, <2>1, HistoryAddType DEF TypeOK
    <3> QED
      BY <1>1, <1>11, <3>1 DEF HandleHistory, TypeOK
  <2> QED
    BY <1>11, <2>2, <2>3 DEF HandleHistory, TypeOK, CopyHasContent
<1> QED
  BY <1>4, <1>5, <1>6, <1>7, <1>8, <1>9, <1>10, <1>11 DEF Handle

LEMMA RunTyped ==
  ASSUME Typed, NEW d \in Devices, Run(d)
  PROVE  Typed'
<1> USE DEF Typed, node, clipboard, net, history
<1>1. cb[d] \in Copied /\ cbSeq[d] \in Nat /\ "run" \in Threads
  BY DEF TypeOK, Threads
<1>2. CASE BootSeq(d)
  <2>1. /\ Doing("bootread", NoClip, 0, NoCopy) \in Watcher
        /\ Doing("bootread", NoClip, 0, NoCopy).pc = "bootread"
    BY ValueTypes DEF Doing, Watcher, MaybeClip
  <2>2. loc' \in [Devices -> [Threads -> Watcher]] /\ CopyHasContent'
    BY <1>1, <1>2, <2>1, WatcherMove DEF BootSeq
  <2>3. lastSeq' \in [Devices -> Nat]
    BY <1>1, <1>2 DEF BootSeq, TypeOK
  <2> QED
    BY <1>2, <2>2, <2>3 DEF BootSeq, TypeOK, HandlerHasClip
<1>3. CASE BootRead(d)
  <2>1. /\ Doing("boothash", NoClip, 0, cb[d]) \in Watcher
        /\ Doing("boothash", NoClip, 0, cb[d]).pc = "boothash"
    BY <1>1 DEF Doing, Watcher, MaybeClip
  <2>2. Resting \in Watcher /\ Resting.pc = "idle"
    BY ValueTypes DEF Resting, Doing
  <2>3. loc' \in [Devices -> [Threads -> Watcher]] /\ CopyHasContent'
    BY <1>1, <1>3, <2>1, <2>2, WatcherMove DEF BootRead
  <2> QED
    BY <1>3, <2>3 DEF BootRead, TypeOK, HandlerHasClip
<1>4. CASE BootHash(d)
  <2>1. Resting \in Watcher /\ Resting.pc = "idle"
    BY ValueTypes DEF Resting, Doing
  <2>2. loc' \in [Devices -> [Threads -> Watcher]] /\ CopyHasContent'
    BY <1>1, <1>4, <2>1, WatcherMove DEF BootHash
  <2>3. loc[d]["run"].c.content \in Contents \cup {NoContent}
    BY <1>1 DEF TypeOK, Watcher, Copied
  <2>4. lastHash' \in [Devices -> Contents \cup {NoContent}]
    BY <1>4, <2>3 DEF BootHash, TypeOK, Hash
  <2> QED
    BY <1>4, <2>2, <2>4 DEF BootHash, TypeOK, HandlerHasClip
<1> QED
  BY <1>2, <1>3, <1>4 DEF Run

LEMMA PollTyped ==
  ASSUME Typed, NEW d \in Devices, NEW t \in Threads, Poll(d, t)
  PROVE  Typed'
<1> USE DEF Typed, node, clipboard, net, history
<1>1. cb[d] \in Copied /\ cbSeq[d] \in Nat /\ loc[d][t].seq \in Nat
  BY DEF TypeOK, Watcher
<1>2. Resting \in Watcher /\ Resting.pc = "idle"
  BY ValueTypes DEF Resting, Doing
<1>3. CASE PollSeq(d, t)
  <2>1. /\ Doing("compare", NoClip, cbSeq[d], NoCopy) \in Watcher
        /\ Doing("compare", NoClip, cbSeq[d], NoCopy).pc = "compare"
    BY <1>1, ValueTypes DEF Doing, Watcher, MaybeClip
  <2>2. loc' \in [Devices -> [Threads -> Watcher]] /\ CopyHasContent'
    BY <1>3, <2>1, WatcherMove DEF PollSeq
  <2> QED
    BY <1>3, <2>2 DEF PollSeq, TypeOK, HandlerHasClip
<1>4. CASE PollUnchanged(d, t)
  <2>1. loc' \in [Devices -> [Threads -> Watcher]] /\ CopyHasContent'
    BY <1>2, <1>4, WatcherMove DEF PollUnchanged
  <2> QED
    BY <1>4, <2>1 DEF PollUnchanged, TypeOK, HandlerHasClip
<1>5. CASE PollChanged(d, t)
  <2>1. /\ Doing("read", NoClip, 0, NoCopy) \in Watcher
        /\ Doing("read", NoClip, 0, NoCopy).pc = "read"
    BY ValueTypes DEF Doing, Watcher, MaybeClip
  <2>2. loc' \in [Devices -> [Threads -> Watcher]] /\ CopyHasContent'
    BY <1>5, <2>1, WatcherMove DEF PollChanged
  <2>3. lastSeq' \in [Devices -> Nat]
    BY <1>1, <1>5 DEF PollChanged, TypeOK
  <2> QED
    BY <1>5, <2>2, <2>3 DEF PollChanged, TypeOK, HandlerHasClip
<1>6. CASE PollRead(d, t)
  <2>1. /\ Doing("copy", NoClip, 0, cb[d]) \in Watcher
        /\ Doing("copy", NoClip, 0, cb[d]).pc = "copy"
        /\ Doing("copy", NoClip, 0, cb[d]).c.content \in Contents
    BY <1>1, <1>6 DEF Doing, Watcher, MaybeClip, PollRead, Copied
  <2>2. loc' \in [Devices -> [Threads -> Watcher]] /\ CopyHasContent'
    BY <1>6, <2>1, WatcherMove DEF PollRead
  <2> QED
    BY <1>6, <2>2 DEF PollRead, TypeOK, HandlerHasClip
<1>7. CASE PollFails(d, t)
  <2>1. loc' \in [Devices -> [Threads -> Watcher]] /\ CopyHasContent'
    BY <1>2, <1>7, WatcherMove DEF PollFails
  <2> QED
    BY <1>7, <2>1 DEF PollFails, TypeOK, HandlerHasClip
<1> QED
  BY <1>3, <1>4, <1>5, <1>6, <1>7 DEF Poll

LEMMA LocalCopyTyped ==
  ASSUME Typed, NEW d \in Devices, NEW t \in Threads, LocalCopy(d, t)
  PROVE  Typed'
<1> DEFINE c == loc[d][t].c
           m == loc[d][t].m
<1> USE DEF Typed, node, clipboard, net, history
<1>1. c \in Copied
  BY DEF TypeOK, Watcher
<1>2. Resting \in Watcher /\ Resting.pc = "idle"
  BY ValueTypes DEF Resting, Doing
<1>3. CASE CopyIgnored(d, t)
  <2>1. loc' \in [Devices -> [Threads -> Watcher]] /\ CopyHasContent'
    BY <1>2, <1>3, WatcherMove DEF CopyIgnored
  <2> QED
    BY <1>3, <2>1 DEF CopyIgnored, TypeOK, HandlerHasClip
<1>4. CASE CopyWithheld(d, t)
  <2>1. loc' \in [Devices -> [Threads -> Watcher]] /\ CopyHasContent'
    BY <1>2, <1>4, WatcherMove DEF CopyWithheld
  <2>2. lastHash' \in [Devices -> Contents \cup {NoContent}]
    BY <1>1, <1>4 DEF CopyWithheld, TypeOK, Hash, Copied
  <2> QED
    BY <1>4, <2>1, <2>2 DEF CopyWithheld, TypeOK, HandlerHasClip
<1>5. CASE LocalStamp(d, t)
  <2>1. PICK now \in Clock, id \in Ids \ {n.id : n \in issued} :
          Stamped(d, t, [id |-> id, origin |-> d, time |-> Stamp(now, current[d]),
                         content |-> c.content])
    BY <1>5 DEF LocalStamp
  <2> DEFINE n == [id |-> id, origin |-> d, time |-> Stamp(now, current[d]),
                   content |-> c.content]
  <2>2. c.content \in Contents
    BY <2>1 DEF Stamped, In, CopyHasContent
  <2>3. n \in Clip
    BY <2>2, StampedType DEF TypeOK
  <2> HIDE DEF n
  <2>4. Stamped(d, t, n)
    BY <2>1 DEF n
  <2>5. /\ Doing("seal", n, 0, c) \in Watcher
        /\ Doing("seal", n, 0, c).c.content \in Contents
        /\ Doing("seal", n, 0, c).m \in Clip
    BY <1>1, <2>2, <2>3 DEF Doing, Watcher, MaybeClip
  <2>6. loc' \in [Devices -> [Threads -> Watcher]] /\ CopyHasContent'
    BY <2>4, <2>5, WatcherMove DEF Stamped
  <2>7. lastHash' \in [Devices -> Contents \cup {NoContent}]
    BY <2>2, <2>4 DEF Stamped, TypeOK, Hash
  <2>8. issued' \subseteq Clip
    BY <2>3, <2>4 DEF Stamped, TypeOK
  <2> QED
    BY <2>4, <2>6, <2>7, <2>8 DEF Stamped, TypeOK, HandlerHasClip
<1>6. CASE LocalSeal(d, t)
  <2>1. m \in Clip /\ m.id \in Ids
    BY <1>6, ClipFields DEF LocalSeal, In, CopyHasContent
  <2>2. /\ Doing("hist", m, 0, NoCopy) \in Watcher
        /\ Doing("hist", m, 0, NoCopy).pc = "hist"
        /\ Doing("hist", m, 0, NoCopy).m \in Clip
    BY <2>1, ValueTypes DEF Doing, Watcher, MaybeClip
  <2>3. loc' \in [Devices -> [Threads -> Watcher]] /\ CopyHasContent'
    BY <1>2, <1>6, <2>2, WatcherMove DEF LocalSeal
  <2>4. current' \in [Devices -> MaybeClip]
    BY <1>6, <2>1 DEF LocalSeal, TypeOK, MaybeClip
  <2>5. seen' \in [Devices -> Seq(Ids)]
    <3>1. MarkSeen(seen[d], m.id) \in Seq(Ids)
      BY <2>1, MarkSeenType DEF TypeOK
    <3> QED
      BY <1>6, <3>1 DEF LocalSeal, TypeOK
  <2>6. held' \in [Devices -> SUBSET Clip] /\ got' \in [Devices -> SUBSET Clip]
    <3>1. /\ held' = [held EXCEPT ![d] = held[d] \cup {m}]
          /\ got' = [got EXCEPT ![d] = got[d] \cup {m}]
      BY <1>6 DEF LocalSeal
    <3> QED
      BY <2>1, <3>1 DEF TypeOK
  <2>7. wire' \in [Port -> SUBSET Clip]
    <3>1. wire' = Sent(Links(d), m)
      BY <1>6 DEF LocalSeal
    <3>2. wire \in [Port -> SUBSET Clip]
      BY DEF TypeOK
    <3>3. Sent(Links(d), m) \in [Port -> SUBSET Clip]
      <4> HIDE DEF m
      <4> QED
        BY ONLY <2>1, <3>2, SentType
    <3> QED
      BY <3>1, <3>3
  <2> QED
    BY <1>6, <2>3, <2>4, <2>5, <2>6, <2>7 DEF LocalSeal, TypeOK, HandlerHasClip
<1>7. CASE LocalHistory(d, t)
  <2>1. m \in Clip
    BY <1>7 DEF LocalHistory, In, CopyHasContent
  <2>2. loc' \in [Devices -> [Threads -> Watcher]] /\ CopyHasContent'
    BY <1>2, <1>7, WatcherMove DEF LocalHistory
  <2>3. hist' \in [Devices -> Seq(HistoryItem)]
    <3>1. HistoryAdd(hist[d], m, TRUE) \in Seq(HistoryItem)
      BY <2>1, HistoryAddType DEF TypeOK
    <3> QED
      BY <1>7, <3>1 DEF LocalHistory, TypeOK
  <2> QED
    BY <1>7, <2>2, <2>3 DEF LocalHistory, TypeOK, HandlerHasClip
<1> QED
  BY <1>3, <1>4, <1>5, <1>6, <1>7 DEF LocalCopy

\* The user's copies and settings, and a new process.
LEMMA UserStepTyped ==
  ASSUME Typed, NEW d \in Devices, UserCopy(d) \/ Recopy(d) \/ SetSettings(d) \/ Restart(d)
  PROVE  Typed'
<1> USE DEF Typed, node, clipboard, net, history
<1>1. cbSeq[d] + 1 \in Nat
  BY DEF TypeOK
<1>2. CASE UserCopy(d)
  <2>1. PICK c \in Contents, sensitive \in Marks :
          cb' = [cb EXCEPT ![d] = Board(c, sensitive)]
    BY <1>2 DEF UserCopy
  <2>2. Board(c, sensitive) \in Copied
    BY ClipSyncAssumption DEF Board, Copied
  <2>3. cb' \in [Devices -> Copied]
    BY <2>1, <2>2 DEF TypeOK
  <2>4. cbSeq' = [cbSeq EXCEPT ![d] = cbSeq[d] + 1] /\ spent' \in [DOMAIN Budget -> Nat]
    BY <1>2, SpendType, BudgetKeys DEF UserCopy
  <2> QED
    BY <1>1, <1>2, <2>3, <2>4 DEF UserCopy, TypeOK, CopyHasContent, HandlerHasClip
<1>3. CASE Recopy(d)
  <2>1. PICK i \in 1..Len(hist[d]) :
          cb' = [cb EXCEPT ![d] = Board(hist[d][i].clip.content, FALSE)]
    BY <1>3 DEF Recopy
  <2>2. hist[d][i] \in HistoryItem
    BY LenProperties DEF TypeOK
  <2>3. hist[d][i].clip.content \in Contents
    BY <2>2 DEF HistoryItem, Clip
  <2>4. Board(hist[d][i].clip.content, FALSE) \in Copied
    BY <2>3 DEF Board, Copied
  <2>5. cb' \in [Devices -> Copied]
    BY <2>1, <2>4 DEF TypeOK
  <2>6. cbSeq' = [cbSeq EXCEPT ![d] = cbSeq[d] + 1] /\ spent' \in [DOMAIN Budget -> Nat]
    BY <1>3, SpendType, BudgetKeys DEF Recopy
  <2>7. /\ Doing("poll", NoClip, 0, NoCopy) \in Watcher
        /\ Doing("poll", NoClip, 0, NoCopy).pc = "poll"
    BY ValueTypes DEF Doing, Watcher, MaybeClip
  <2>8. loc' \in [Devices -> [Threads -> Watcher]] /\ CopyHasContent'
    BY <1>3, <2>7, WatcherMove DEF Recopy, Threads
  <2>9. UNCHANGED <<node, net, rd, history>>
    BY <1>3 DEF Recopy
  <2> QED
    BY <1>1, <2>5, <2>6, <2>8, <2>9 DEF TypeOK, HandlerHasClip
<1>4. CASE SetSettings(d)
  <2>1. spent' \in [DOMAIN Budget -> Nat]
    BY <1>4, SpendType, BudgetKeys DEF SetSettings
  <2>2. settings' \in [Devices -> [paused : BOOLEAN, skipSensitive : BOOLEAN]]
    BY <1>4 DEF SetSettings, TypeOK
  <2> QED
    BY <1>4, <2>1, <2>2 DEF SetSettings, TypeOK, CopyHasContent, HandlerHasClip
<1>5. CASE Restart(d)
  <2> DEFINE life == [t \in Threads |-> IF t = "run" THEN Starting ELSE Resting]
             mine == {p \in Port : Dev(p) = d}
  <2>1. /\ current' \in [Devices -> MaybeClip] /\ lastHash' \in [Devices -> Contents \cup {NoContent}]
        /\ lastSeq' \in [Devices -> Nat]
    BY <1>5 DEF Restart, NewNode, TypeOK, MaybeClip
  <2>2. /\ seen' \in [Devices -> Seq(Ids)] /\ hist' \in [Devices -> Seq(HistoryItem)]
    BY <1>5, EmptySeq DEF Restart, NewNode, TypeOK
  <2>3. settings' \in [Devices -> [paused : BOOLEAN, skipSensitive : BOOLEAN]]
    BY <1>5 DEF Restart, TypeOK
  <2>4. /\ st' \in [Port -> {"off", "ready", "up"}] /\ wire' \in [Port -> SUBSET Clip]
        /\ rd' \in [Port -> Handler] /\ HandlerHasClip'
    <3>1. \A p \in Port : rd'[p] = Idle \/ rd'[p] = rd[p]
      BY <1>5 DEF Restart
    <3>2. Idle \in Handler /\ Idle.pc = "idle"
      BY ValueTypes DEF Idle, Handling
    <3>3. rd' \in [Port -> Handler] /\ HandlerHasClip'
      BY <1>5, <3>1, <3>2 DEF Restart, TypeOK, HandlerHasClip
    <3> QED
      BY <1>5, <3>3 DEF Restart, TypeOK
  <2>5. open' \in [Conns -> BOOLEAN]
    <3>1. open' = [c \in Conns |-> open[c] /\ d \notin {Dialer[c], Acceptor[c]}]
      BY <1>5 DEF Restart
    <3> QED
      BY <3>1
  <2>6. loc' \in [Devices -> [Threads -> Watcher]] /\ CopyHasContent'
    <3>1. loc' = [loc EXCEPT ![d] = life]
      BY <1>5 DEF Restart
    <3>2. \A t \in Threads : life[t] \in Watcher /\ life[t].pc \in {"boot", "idle"}
      BY ValueTypes DEF Resting, Starting, Doing
    <3>3. life \in [Threads -> Watcher]
      BY <3>2
    <3> HIDE DEF life
    <3>4. loc' \in [Devices -> [Threads -> Watcher]]
      BY <3>1, <3>3 DEF TypeOK
    <3>5. \A e \in Devices, t \in Threads : loc'[e][t] = IF e = d THEN life[t] ELSE loc[e][t]
      BY <3>1 DEF TypeOK
    <3> QED
      BY <3>2, <3>4, <3>5 DEF CopyHasContent
  <2>7. /\ issued' \subseteq Clip /\ held' \in [Devices -> SUBSET Clip]
        /\ got' \in [Devices -> SUBSET Clip] /\ dropped' \in [Devices -> SUBSET Clip]
    BY <1>5 DEF Restart, TypeOK
  <2>8. spent' \in [DOMAIN Budget -> Nat] /\ UNCHANGED <<cb, cbSeq>>
    BY <1>5, SpendType, BudgetKeys DEF Restart
  <2> QED
    BY <2>1, <2>2, <2>3, <2>4, <2>5, <2>6, <2>7, <2>8 DEF TypeOK
<1> QED
  BY <1>2, <1>3, <1>4, <1>5

LEMMA StepTyped ==
  ASSUME Typed, [Next]_vars
  PROVE  Typed'
<1>1. CASE Next
  BY <1>1, LinkStepTyped, ReceiveTyped, HandleTyped, RunTyped, PollTyped, LocalCopyTyped,
     UserStepTyped, ClipSyncAssumption DEF Next
<1>2. CASE UNCHANGED vars
  BY <1>2 DEF vars, node, clipboard, net, history, Typed, TypeOK, CopyHasContent, HandlerHasClip
<1> QED
  BY <1>1, <1>2

\* The state of every device, link and thread keeps its type, and neither
\* Handle nor LocalCopy ever works on a clip or a content that is not there.
THEOREM TypeCorrect == Spec => []TypeOK
<1>1. Typed => TypeOK
  BY DEF Typed
<1> QED
  BY <1>1, InitTyped, StepTyped, PTL DEF Spec
=============================================================================
