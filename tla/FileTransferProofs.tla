------------------------- MODULE FileTransferProofs -------------------------
(***************************************************************************)
(* Proofs about FileTransfer, for any number of transfers, senders, links  *)
(* and nodes, and any bounds: type correctness, the inductive invariant,   *)
(* and what follows from it: files under their final names are whole, and  *)
(* the program implements Delivery.  Then the list of transfers: a stored  *)
(* file is not shown as under way for ever.  Last the folder: no temporary *)
(* file is left that nobody knows of, and a file whose sender was told     *)
(* "ok" is there.                                                          *)
(***************************************************************************)
EXTENDS FileTransfer, FiniteSetTheorems, SequenceTheorems, TLAPS

-----------------------------------------------------------------------------
(* Type correctness.                                                       *)

\* What the steps need to know of the threads: each has the transfer, the
\* list entry and the path that its place uses.
Placed ==
  /\ \A r \in Threads :
       /\ at[r].pc # "idle" => at[r].t \in Transfers
       /\ at[r].pc = "mark" => at[r].n \in 1..Len(list)
       /\ at[r].pc = "rename" => at[r].n \in 1..Cardinality(Transfers)
  /\ \A t \in Transfers : snd[t].pc \in {"start", "chunk", "wait"} => snd[t].link \in Links

Typed == TypeOK /\ Placed

LEMMA Counted == Cardinality(Transfers) \in Nat
BY FS_CardinalityType, FileTransferAssumption

LEMMA ValueTypes ==
  /\ Idle \in Place /\ Idle.pc = "idle" /\ Idle.ok = FALSE
  /\ \A pc \in {"start", "chunk", "progress", "abort", "forget", "end", "discard", "commit",
                "rename", "match", "add", "mark", "ack"},
        t \in Transfers, n \in Nat, ok \in BOOLEAN :
       /\ In(pc, t, n, ok) \in Place
       /\ In(pc, t, n, ok).pc = pc /\ In(pc, t, n, ok).t = t
       /\ In(pc, t, n, ok).n = n /\ In(pc, t, n, ok).ok = ok
BY DEF Idle, In, Place

LEMMA SpendType ==
  ASSUME TypeOK, NEW k \in DOMAIN Budget, Spend(k)
  PROVE  spent' \in [DOMAIN Budget -> Nat]
BY DEF TypeOK, Spend

LEMMA BudgetKeys == DOMAIN Budget = {"breaks", "drops", "cancels", "changes"}
BY FileTransferAssumption

\* One thread moves on; the list may have grown.
LEMMA ThreadMove ==
  ASSUME Typed, NEW r \in Threads,
         NEW pc \in {"start", "chunk", "progress", "abort", "forget", "end", "discard",
                     "commit", "rename", "match", "add", "mark", "ack"},
         NEW t \in Transfers, NEW n \in Nat, NEW ok \in BOOLEAN,
         at' = [at EXCEPT ![r] = Idle] \/ Move(r, pc, t, n, ok),
         list' \in Seq(Entry), Len(list) <= Len(list'),
         pc = "mark" => n \in 1..Len(list'),
         pc = "rename" => n \in 1..Cardinality(Transfers),
         UNCHANGED snd
  PROVE  at' \in [Threads -> Place] /\ Placed'
<1>1. /\ Len(list) \in Nat /\ Len(list') \in Nat
      /\ \A i \in 1..Len(list) : i \in 1..Len(list')
  <2>1. Len(list) \in Nat /\ Len(list') \in Nat
    BY LenProperties DEF Typed, TypeOK
  <2> QED
    BY <2>1
<1>2. PICK p \in Place :
        /\ at' = [at EXCEPT ![r] = p]
        /\ p.pc # "idle" => p.t \in Transfers
        /\ p.pc = "mark" => p.n \in 1..Len(list')
        /\ p.pc = "rename" => p.n \in 1..Cardinality(Transfers)
  <2>1. CASE at' = [at EXCEPT ![r] = Idle]
    BY <2>1, ValueTypes
  <2>2. CASE Move(r, pc, t, n, ok)
    <3> DEFINE p == In(pc, t, n, ok)
    <3>1. p \in Place /\ p.pc = pc /\ p.t = t /\ p.n = n
      BY ValueTypes
    <3>2. at' = [at EXCEPT ![r] = p]
      BY <2>2 DEF Move
    <3> HIDE DEF p
    <3> QED
      BY <3>1, <3>2
  <2> QED
    BY <2>1, <2>2
<1>3. at \in [Threads -> Place]
  BY DEF Typed, TypeOK
<1>4. at' \in [Threads -> Place] /\ \A s \in Threads : at'[s] = IF s = r THEN p ELSE at[s]
  BY <1>2, <1>3
<1>5. \A s \in Threads :
        /\ at'[s].pc # "idle" => at'[s].t \in Transfers
        /\ at'[s].pc = "mark" => at'[s].n \in 1..Len(list')
        /\ at'[s].pc = "rename" => at'[s].n \in 1..Cardinality(Transfers)
  BY <1>1, <1>2, <1>4 DEF Typed, Placed
<1> QED
  BY <1>4, <1>5 DEF Typed, Placed

LEMMA SameList ==
  ASSUME TypeOK, UNCHANGED list
  PROVE  list' \in Seq(Entry) /\ Len(list) <= Len(list')
<1>1. list \in Seq(Entry) /\ Len(list) \in Nat
  BY LenProperties DEF TypeOK
<1> QED
  BY <1>1

LEMMA InitTyped == Init => Typed
<1> SUFFICES ASSUME Init PROVE Typed
  OBVIOUS
<1> USE ValueTypes, FileTransferAssumption
<1>1. net \in [Links -> Seq(Message)] /\ list \in Seq(Entry)
  BY EmptySeq DEF Init
<1>2. snd \in [Transfers -> Sending]
  BY DEF Init, SendAt, Sending
<1>3. at \in [Threads -> Place] /\ \A r \in Threads : at[r].pc = "idle"
  BY DEF Init
<1>4. up \in [Links -> BOOLEAN]
  BY DEF Init
<1>5. Placed
  <2>1. \A t \in Transfers : snd[t].pc = "idle"
    BY DEF Init, SendAt
  <2> QED
    BY <1>3, <2>1 DEF Placed
<1> QED
  BY <1>1, <1>2, <1>3, <1>4, <1>5 DEF Init, TypeOK, Typed

-----------------------------------------------------------------------------
(* The senders.                                                            *)

\* SendFile changes place; no thread of the receiver does.
LEMMA SenderMove ==
  ASSUME Typed, NEW t \in Transfers, NEW pc \in {"idle", "start", "chunk", "wait", "done"},
         NEW l, NEW seq \in Nat, NEW result \in {"none", "ok", "failed"},
         snd' = [snd EXCEPT ![t] = SendAt(pc, l, seq, result)],
         l \in Links \cup {None}, pc \in {"start", "chunk", "wait"} => l \in Links,
         UNCHANGED <<at, list>>
  PROVE  snd' \in [Transfers -> Sending] /\ Placed'
BY DEF Typed, TypeOK, Placed, SendAt, Sending

LEMMA ReturnTyped ==
  ASSUME Typed, NEW t \in Transfers, NEW result \in {"ok", "failed"}, Return(t, result),
         UNCHANGED <<at, list>>
  PROVE  /\ snd' \in [Transfers -> Sending] /\ Placed'
         /\ fileAcks' \in [Transfers -> SUBSET BOOLEAN]
<1>1. snd[t].link \in Links \cup {None} /\ snd[t].seq \in Nat
  BY DEF Typed, TypeOK, Sending
<1>2. snd' = [snd EXCEPT ![t] = SendAt("done", snd[t].link, snd[t].seq, result)]
  BY DEF Return
<1>3. fileAcks' \in [Transfers -> SUBSET BOOLEAN]
  BY DEF Return, Typed, TypeOK
<1> QED
  BY <1>1, <1>2, <1>3, SenderMove

LEMMA EmitTyped ==
  ASSUME Typed, NEW t \in Transfers, NEW kind \in {"start", "chunk", "end"},
         NEW pc \in {"chunk", "wait"}, NEW seq \in Nat,
         snd[t].pc \in {"start", "chunk"}, Emit(t, kind, pc, seq),
         spent' \in [DOMAIN Budget -> Nat]
  PROVE  Typed'
<1> DEFINE l == snd[t].link
           m == [kind |-> kind, t |-> t, seq |-> snd[t].seq]
<1> USE DEF files
<1>1. l \in Links /\ m \in Message
  BY DEF Typed, TypeOK, Placed, Sending, Message
<1>2. Append(net[l], m) \in Seq(Message)
  BY <1>1, AppendProperties DEF Typed, TypeOK
<1>3. net' = [net EXCEPT ![l] = Append(net[l], m)]
  BY DEF Emit
<1>4. net' \in [Links -> Seq(Message)]
  BY <1>1, <1>2, <1>3 DEF Typed, TypeOK
<1>5. snd' \in [Transfers -> Sending] /\ Placed'
  BY <1>1, SenderMove DEF Emit
<1> QED
  BY <1>4, <1>5 DEF Emit, Typed, TypeOK

LEMMA SenderTyped ==
  ASSUME Typed, NEW t \in Transfers, Begin(t) \/ SendFile(t)
  PROVE  Typed'
<1> USE DEF files, link
<1>1. CASE Begin(t)
  <2>1. CASE Return(t, "failed")
    BY <1>1, <2>1, ReturnTyped DEF Begin, Typed, TypeOK
  <2>2. CASE \E l \in Links : /\ snd' = [snd EXCEPT ![t] = SendAt("start", l, 0, "none")]
                              /\ UNCHANGED fileAcks
    BY <1>1, <2>2, SenderMove DEF Begin, Typed, TypeOK
  <2> QED
    BY <1>1, <2>1, <2>2 DEF Begin
<1>2. spent \in [DOMAIN Budget -> Nat] /\ snd[t].seq \in Nat
  BY DEF Typed, TypeOK, Sending
<1>3. CASE SendStart(t)
  BY <1>2, <1>3, EmitTyped DEF SendStart
<1>4. CASE SendChunk(t)
  <2>1. spent' \in [DOMAIN Budget -> Nat]
    BY <1>2, <1>4, SpendType, BudgetKeys DEF SendChunk, Typed
  <2>2. snd[t].seq + 1 \in Nat
    BY <1>2
  <2> QED
    BY <1>4, <2>1, <2>2, EmitTyped DEF SendChunk
<1>5. CASE SendEnd(t)
  BY <1>2, <1>5, EmitTyped DEF SendEnd
<1>6. CASE SendFails(t)
  BY <1>6, ReturnTyped DEF SendFails, Typed, TypeOK
<1>7. CASE SendStops(t)
  <2>1. spent' \in [DOMAIN Budget -> Nat]
    BY <1>2, <1>7, SpendType, BudgetKeys DEF SendStops, Typed
  <2> QED
    BY <1>7, <2>1, ReturnTyped DEF SendStops, Typed, TypeOK
<1>8. CASE SendConfirmed(t)
  BY <1>8, ReturnTyped DEF SendConfirmed, Typed, TypeOK
<1> QED
  BY <1>1, <1>3, <1>4, <1>5, <1>6, <1>7, <1>8 DEF SendFile

LEMMA AckArrivesTyped ==
  ASSUME Typed, NEW l \in Links, NEW a \in acks[l], AckArrives(l, a)
  PROVE  Typed'
<1>1. a \in Ack /\ a.t \in Transfers /\ {a.ok} \in SUBSET BOOLEAN
  BY DEF Typed, TypeOK, Ack
<1>2. acks' \in [Links -> SUBSET Ack] /\ fileAcks' \in [Transfers -> SUBSET BOOLEAN]
  BY <1>1 DEF AckArrives, Typed, TypeOK
<1> QED
  BY <1>2 DEF AckArrives, Typed, TypeOK, Placed, files

-----------------------------------------------------------------------------
(* The readers.                                                            *)

\* A step of thread r that leaves senders, links and list alone.
LEMMA ReaderMoveTyped ==
  ASSUME Typed, NEW r \in Threads,
         NEW pc \in {"start", "chunk", "progress", "abort", "forget", "end", "discard",
                     "commit", "rename", "match", "add", "mark", "ack"},
         NEW t \in Transfers, NEW n \in Nat, NEW ok \in BOOLEAN,
         at' = [at EXCEPT ![r] = Idle] \/ Move(r, pc, t, n, ok),
         pc = "mark" => n \in 1..Len(list),
         pc = "rename" => n \in 1..Cardinality(Transfers),
         UNCHANGED <<snd, list>>
  PROVE  at' \in [Threads -> Place] /\ Placed'
<1>1. Len(list') = Len(list) /\ list' = list
  OBVIOUS
<1> QED
  BY <1>1, SameList, ThreadMove DEF Typed

LEMMA TakeTyped ==
  ASSUME Typed, NEW l \in Links, Take(l)
  PROVE  Typed'
<1> DEFINE m == Head(net[l])
<1> USE DEF sender, files
<1>1. m \in Message /\ Tail(net[l]) \in Seq(Message)
  BY HeadTailProperties DEF Take, Typed, TypeOK
<1>2. net' \in [Links -> Seq(Message)]
  BY <1>1 DEF Take, Typed, TypeOK
<1>3. at' \in [Threads -> Place] /\ Placed'
  <2>1. CASE UNCHANGED at
    BY <2>1 DEF Take, Typed, TypeOK, Placed
  <2>2. CASE Move(l, m.kind, m.t, m.seq, FALSE)
    <3>1. m.kind \in {"start", "chunk", "end"} /\ m.t \in Transfers /\ m.seq \in Nat
      BY <1>1 DEF Message
    <3>2. l \in Threads /\ UNCHANGED <<snd, list>>
      BY DEF Take, Threads
    <3> HIDE DEF m
    <3> QED
      BY <2>2, <3>1, <3>2, ReaderMoveTyped
  <2> QED
    BY <2>1, <2>2 DEF Take
<1> QED
  BY <1>2, <1>3 DEF Take, Typed, TypeOK

LEMMA AnswerType ==
  ASSUME TypeOK, NEW l \in Links, NEW t \in Transfers, NEW ok \in BOOLEAN, Answer(l, t, ok)
  PROVE  acks' \in [Links -> SUBSET Ack]
<1>1. [t |-> t, ok |-> ok] \in Ack
  BY DEF Ack
<1> QED
  BY <1>1 DEF TypeOK, Answer

LEMMA AbortType ==
  ASSUME TypeOK, NEW t \in Transfers, Abort(t)
  PROVE  writer' \in [Transfers -> {"none", "open", "closing", "gone", "stored"}]
BY DEF TypeOK, Abort

LEMMA StartTyped ==
  ASSUME Typed, NEW l \in Links, StartRefused(l) \/ StartAccepted(l) \/ Acknowledge(l)
  PROVE  Typed'
<1> USE DEF sender, link, files
<1>1. l \in Threads /\ at[l].t \in Transfers /\ at[l].ok \in BOOLEAN
  BY DEF StartRefused, StartAccepted, Acknowledge, Typed, TypeOK, Placed, Threads, Place
<1>2. at' \in [Threads -> Place] /\ Placed'
  <2>1. at' = [at EXCEPT ![l] = Idle] /\ UNCHANGED <<snd, list>>
    BY DEF StartRefused, StartAccepted, Acknowledge
  <2>2. "start" # "mark" /\ "start" # "rename" /\ 0 \in Nat
    OBVIOUS
  <2> QED
    BY <1>1, <2>1, <2>2, ReaderMoveTyped
<1>3. CASE StartRefused(l)
  BY <1>1, <1>2, <1>3, AnswerType DEF StartRefused, Typed, TypeOK
<1>4. CASE StartAccepted(l)
  BY <1>1, <1>2, <1>4 DEF StartAccepted, Typed, TypeOK
<1>5. CASE Acknowledge(l)
  BY <1>1, <1>2, <1>5, AnswerType DEF Acknowledge, Typed, TypeOK
<1> QED
  BY <1>3, <1>4, <1>5

LEMMA ChunkTyped ==
  ASSUME Typed, NEW l \in Links, ChunkRefused(l) \/ ChunkTaken(l)
  PROVE  Typed'
<1> DEFINE t == at[l].t
<1> USE DEF sender, link, files
<1>1. l \in Threads /\ t \in Transfers
  BY DEF ChunkRefused, ChunkTaken, Typed, TypeOK, Placed, Threads
<1>2. at' \in [Threads -> Place] /\ Placed'
  <2>1. \/ Move(l, "abort", t, 0, FALSE)
        \/ Move(l, "progress", t, 0, FALSE)
    BY DEF ChunkRefused, ChunkTaken
  <2>2. UNCHANGED <<snd, list>>
    BY DEF ChunkRefused, ChunkTaken
  <2> HIDE DEF t
  <2> QED
    BY <1>1, <2>1, <2>2, ReaderMoveTyped
<1>3. CASE ChunkRefused(l)
  BY <1>2, <1>3 DEF ChunkRefused, Typed, TypeOK
<1>4. CASE ChunkTaken(l)
  <2>1. next[t] + 1 \in Nat /\ got[t] + 1 \in Nat /\ disk[t] + 1 \in Nat
    BY <1>1 DEF Typed, TypeOK
  <2>2. next' \in [Transfers -> Nat] /\ got' \in [Transfers -> Nat]
    BY <1>1, <1>4, <2>1 DEF ChunkTaken, Typed, TypeOK
  <2>3. disk' \in [Transfers -> Nat]
    BY <1>1, <1>4, <2>1 DEF ChunkTaken, Typed, TypeOK
  <2> QED
    BY <1>2, <1>4, <2>2, <2>3 DEF ChunkTaken, Typed, TypeOK
<1> QED
  BY <1>3, <1>4

LEMMA FailTyped ==
  ASSUME Typed, NEW l \in Links,
         FailAbort(l) \/ FailForget(l) \/ EndTaken(l) \/ EndDiscard(l)
  PROVE  Typed'
<1> DEFINE t == at[l].t
<1> USE DEF sender, link, files
<1>1. l \in Threads /\ t \in Transfers
  BY DEF FailAbort, FailForget, EndTaken, EndDiscard, Typed, TypeOK, Placed, Threads
<1>2. at' \in [Threads -> Place] /\ Placed'
  <2>1. \/ Move(l, "forget", t, 0, FALSE)
        \/ Move(l, "match", t, 0, FALSE)
        \/ Move(l, "commit", t, 0, FALSE)
        \/ Move(l, "discard", t, 0, FALSE)
    BY DEF FailAbort, FailForget, EndTaken, EndDiscard
  <2>2. UNCHANGED <<snd, list>>
    BY DEF FailAbort, FailForget, EndTaken, EndDiscard
  <2> HIDE DEF t
  <2> QED
    BY <1>1, <2>1, <2>2, ReaderMoveTyped
<1>3. CASE FailAbort(l)
  BY <1>1, <1>2, <1>3, AbortType DEF FailAbort, Typed, TypeOK
<1>4. CASE FailForget(l)
  BY <1>2, <1>4 DEF FailForget, Typed, TypeOK
<1>5. CASE EndTaken(l)
  BY <1>2, <1>5 DEF EndTaken, Typed, TypeOK
<1>6. CASE EndDiscard(l)
  BY <1>1, <1>2, <1>6, AbortType DEF EndDiscard, Typed, TypeOK
<1> QED
  BY <1>3, <1>4, <1>5, <1>6

LEMMA CommitTyped ==
  ASSUME Typed, NEW l \in Links, EndCommit(l) \/ EndRename(l)
  PROVE  Typed'
<1> DEFINE t == at[l].t
<1> USE DEF sender, link, files
<1>1. l \in Threads /\ t \in Transfers /\ Name[t] \in Names
  BY FileTransferAssumption DEF EndCommit, EndRename, Typed, TypeOK, Placed, Threads
<1>2. UNCHANGED <<snd, list>> /\ 0 \in Nat
  BY DEF EndCommit, EndRename
<1>3. CASE EndCommit(l)
  <2>1. at' \in [Threads -> Place] /\ Placed'
    <3>1. \/ \E n \in 1..Cardinality(Transfers) : Move(l, "rename", t, n, FALSE)
          \/ Move(l, "match", t, 0, FALSE)
      BY <1>3 DEF EndCommit, FreePath
    <3>2. 1..Cardinality(Transfers) \subseteq Nat
      BY Counted
    <3> HIDE DEF t
    <3> QED
      BY <1>1, <1>2, <3>1, <3>2, ReaderMoveTyped
  <2>2. writer' \in [Transfers -> {"none", "open", "closing", "gone", "stored"}]
    <3>1. writer' \in {writer, [writer EXCEPT ![t] = "closing"], [writer EXCEPT ![t] = "gone"]}
      BY <1>3 DEF EndCommit
    <3> HIDE DEF t
    <3> QED
      BY <1>1, <3>1 DEF Typed, TypeOK
  <2> QED
    BY <1>3, <2>1, <2>2 DEF EndCommit, Typed, TypeOK
<1>4. CASE EndRename(l)
  <2>1. PICK ok \in BOOLEAN :
          /\ writer' = [writer EXCEPT ![t] = IF ok THEN "stored" ELSE "gone"]
          /\ folder' = IF ok THEN [folder EXCEPT ![<<Name[t], at[l].n>>] = t] ELSE folder
          /\ Move(l, "match", t, 0, ok)
    BY <1>4, FileTransferAssumption DEF EndRename
  <2>2. at' \in [Threads -> Place] /\ Placed'
    <3> HIDE DEF t
    <3> QED
      BY <1>1, <1>2, <2>1, ReaderMoveTyped
  <2>3. folder' \in [Paths -> Transfers \cup {None}]
    BY <1>1, <2>1 DEF Typed, TypeOK
  <2>4. writer' \in [Transfers -> {"none", "open", "closing", "gone", "stored"}]
    BY <1>1, <2>1 DEF Typed, TypeOK
  <2> QED
    BY <1>4, <2>2, <2>3, <2>4 DEF EndRename, Typed, TypeOK
<1> QED
  BY <1>3, <1>4

-----------------------------------------------------------------------------
(* The list, the expiry, links and nodes.                                  *)

LEMMA ProgressTyped ==
  ASSUME Typed, NEW l \in Links, Progress(l)
  PROVE  Typed'
<1> DEFINE e == [of |-> at[l].t, progress |-> TRUE, state |-> "active"]
<1> USE DEF sender, link, files
<1>1. l \in Threads /\ at[l].t \in Transfers /\ Len(list) \in Nat
  BY LenProperties DEF Progress, Typed, TypeOK, Placed, Threads
<1>2. e \in Entry /\ list \in Seq(Entry)
  BY <1>1 DEF Entry, Typed, TypeOK
<1>3. list' = list \/ list' = Append(list, e)
  BY DEF Progress
<1>4. list' \in Seq(Entry) /\ Len(list) <= Len(list')
  <2> HIDE DEF e
  <2>1. Append(list, e) \in Seq(Entry) /\ Len(Append(list, e)) = Len(list) + 1
    BY <1>2, AppendProperties
  <2> QED
    BY <1>1, <1>2, <1>3, <2>1
<1>5. at' \in [Threads -> Place] /\ Placed'
  BY <1>1, <1>4, ThreadMove DEF Progress
<1> QED
  BY <1>4, <1>5 DEF Progress, Typed, TypeOK

LEMMA ReceivedTyped ==
  ASSUME Typed, NEW r \in Threads, Received(r)
  PROVE  Typed'
<1> DEFINE t == at[r].t
           n == at[r].n
           ok == at[r].ok
<1> USE DEF sender, link, files
<1>1. /\ t \in Transfers /\ n \in Nat /\ ok \in BOOLEAN
      /\ list \in Seq(Entry) /\ Len(list) \in Nat
  BY LenProperties DEF Received, Match, Add, Mark, Typed, TypeOK, Placed, Place
<1>2. CASE Match(r)
  <2>1. \/ Move(r, "add", t, 0, ok)
        \/ \E i \in 1..Len(list) : Move(r, "mark", t, i, ok)
    BY <1>2 DEF Match, Newest, SameName, Shown
  <2>2. 1..Len(list) \subseteq Nat /\ UNCHANGED <<snd, list>>
    BY <1>1, <1>2 DEF Match
  <2>3. at' \in [Threads -> Place] /\ Placed'
    <3> HIDE DEF t, ok
    <3> QED
      BY <1>1, <2>1, <2>2, ReaderMoveTyped
  <2> QED
    BY <1>2, <2>3 DEF Match, Typed, TypeOK
<1>3. CASE Add(r)
  <2> DEFINE e == [of |-> t, progress |-> FALSE, state |-> "active"]
  <2>1. e \in Entry
    BY <1>1 DEF Entry
  <2>2. list' = Append(list, e) /\ Move(r, "mark", t, Len(list) + 1, ok) /\ UNCHANGED snd
    BY <1>3 DEF Add
  <2> HIDE DEF e, t, ok
  <2>3. list' \in Seq(Entry) /\ Len(list') = Len(list) + 1
    BY <1>1, <2>1, <2>2, AppendProperties
  <2>4. Len(list) <= Len(list') /\ Len(list) + 1 \in Nat /\ Len(list) + 1 \in 1..Len(list')
    BY <1>1, <2>3
  <2>5. at' \in [Threads -> Place] /\ Placed'
    BY <1>1, <2>2, <2>3, <2>4, ThreadMove
  <2> QED
    BY <1>3, <2>3, <2>5 DEF Add, Typed, TypeOK
<1>4. CASE Mark(r)
  <2>1. n \in 1..Len(list)
    BY <1>4 DEF Mark, Typed, Placed
  <2>2. list[n] \in Entry
    BY <1>1, <2>1, ElementOfSeq
  <2>3. PICK e \in Entry : list' = [list EXCEPT ![n] = e]
    BY <1>4, <2>2 DEF Mark, Entry
  <2>4. list' \in Seq(Entry) /\ Len(list') = Len(list)
    BY <1>1, <2>1, <2>3, ExceptSeq
  <2>5. Len(list) <= Len(list')
    BY <1>1, <2>4
  <2>6. at' \in [Threads -> Place] /\ Placed'
    <3>1. at' = [at EXCEPT ![r] = Idle] \/ Move(r, "ack", t, 0, ok)
      BY <1>4 DEF Mark
    <3>2. UNCHANGED snd
      BY <1>4 DEF Mark
    <3> HIDE DEF t, ok
    <3> QED
      BY <1>1, <2>4, <2>5, <3>1, <3>2, ThreadMove
  <2> QED
    BY <1>4, <2>4, <2>6 DEF Mark, Typed, TypeOK
<1> QED
  BY <1>2, <1>3, <1>4 DEF Received

LEMMA ExpireTyped ==
  ASSUME Typed, Expire
  PROVE  Typed'
<1>1. PICK quiet \in SUBSET {t \in incoming : NodeOf[snd[t].link] = live} :
        /\ incoming' = incoming \ quiet
        /\ dead' = [dead EXCEPT ![live] = quiet]
  BY DEF Expire
<1>2. quiet \subseteq Transfers
  BY DEF Typed, TypeOK
<1>3. dead' \in [Nodes -> SUBSET Transfers] /\ incoming' \subseteq Transfers
  BY <1>1, <1>2 DEF Typed, TypeOK
<1> QED
  BY <1>3 DEF Expire, Typed, TypeOK, Placed, sender, link

LEMMA ExpireAbortTyped ==
  ASSUME Typed, NEW n \in Nodes, NEW t \in dead[n], ExpireAbort(n, t)
  PROVE  Typed'
<1> USE DEF sender, link
<1>1. n \in Threads /\ t \in Transfers
  BY DEF Threads, Typed, TypeOK
<1>2. Move(n, "match", t, 0, FALSE) /\ UNCHANGED <<snd, list>>
  BY DEF ExpireAbort
<1>3. at' \in [Threads -> Place] /\ Placed'
  BY <1>1, <1>2, ReaderMoveTyped
<1>4. dead' \in [Nodes -> SUBSET Transfers]
  BY DEF ExpireAbort, Typed, TypeOK
<1> QED
  BY <1>1, <1>3, <1>4, AbortType DEF ExpireAbort, Typed, TypeOK

LEMMA LinksTyped ==
  ASSUME Typed, \/ \E l \in Links : Break(l) \/ Lost(l) \/ Reconnect(l)
                \/ Restart
  PROVE  Typed'
<1> USE DEF sender, files
<1>1. <<>> \in Seq(Message)
  BY EmptySeq
<1>2. ASSUME NEW l \in Links, Break(l) PROVE Typed'
  BY <1>2, SpendType, BudgetKeys DEF Break, Typed, TypeOK, Placed
<1>3. ASSUME NEW l \in Links, Lost(l) PROVE Typed'
  BY <1>1, <1>3 DEF Lost, Typed, TypeOK, Placed
<1>4. ASSUME NEW l \in Links, Reconnect(l) PROVE Typed'
  <2>1. net' \in [Links -> Seq(Message)]
    <3>1. net[l] \in Seq(Message) /\ Len(net[l]) \in Nat
      BY LenProperties DEF Typed, TypeOK
    <3>2. PICK k \in 0..Len(net[l]) :
            net' = [net EXCEPT ![l] = SubSeq(net[l], k + 1, Len(net[l]))]
      BY <1>4 DEF Reconnect
    <3>3. k + 1 \in Int /\ Len(net[l]) \in Int /\ k + 1 >= 1
      BY <3>1
    <3>4. \A i \in (k + 1)..Len(net[l]) : net[l][i] \in Message
      <4> SUFFICES ASSUME NEW i \in (k + 1)..Len(net[l]) PROVE net[l][i] \in Message
        OBVIOUS
      <4>1. i \in 1..Len(net[l])
        BY <3>1, <3>3
      <4> QED
        BY <3>1, <4>1, ElementOfSeq
    <3>5. SubSeq(net[l], k + 1, Len(net[l])) \in Seq(Message)
      BY <3>3, <3>4, SubSeqProperties
    <3> QED
      BY <3>2, <3>5 DEF Typed, TypeOK
  <2>2. acks' \in [Links -> SUBSET Ack]
    <3>1. PICK orphaned \in SUBSET Transfers :
            acks' = [acks EXCEPT ![l] = @ \cup {[t |-> t, ok |-> FALSE] : t \in orphaned}]
      BY <1>4 DEF Reconnect
    <3>2. {[t |-> t, ok |-> FALSE] : t \in orphaned} \subseteq Ack
      <4>1. \A t \in orphaned : [t |-> t, ok |-> FALSE] \in Ack
        BY DEF Ack
      <4> QED
        BY <4>1
    <3> QED
      BY <3>1, <3>2 DEF Typed, TypeOK
  <2>3. spent' \in [DOMAIN Budget -> Nat]
    BY <1>4, SpendType, BudgetKeys DEF Reconnect, Typed
  <2> QED
    BY <1>4, <2>1, <2>2, <2>3 DEF Reconnect, Typed, TypeOK, Placed
<1>5. CASE Restart
  <2>1. up' \in [Links -> BOOLEAN] /\ net' \in [Links -> Seq(Message)] /\ live' \in Nodes
    BY <1>1, <1>5 DEF Restart
  <2> QED
    BY <1>5, <2>1 DEF Restart, Typed, TypeOK, Placed
<1> QED
  BY <1>2, <1>3, <1>4, <1>5

-----------------------------------------------------------------------------

LEMMA NextTyped ==
  ASSUME Typed, [Next]_vars
  PROVE  Typed'
<1>1. CASE UNCHANGED vars
  BY <1>1 DEF vars, sender, link, files, Typed, TypeOK, Placed
<1>2. ASSUME NEW l \in Links, HandleFile(l) PROVE Typed'
  BY <1>2, TakeTyped, StartTyped, ChunkTyped, ProgressTyped, FailTyped, CommitTyped
  DEF HandleFile
<1> QED
  BY <1>1, <1>2, SenderTyped, AckArrivesTyped, ReceivedTyped, ExpireTyped,
     ExpireAbortTyped, LinksTyped
  DEF Next

\* Every variable of senders, links, receiver, folder and list keeps its type:
\* no message carries a sequence number that no chunk has, no thread marks an
\* entry that the list does not have (handleFile, Service.receiver).
THEOREM TypeCorrect == Spec => []TypeOK
<1>1. Spec => []Typed
  BY InitTyped, NextTyped, PTL DEF Spec
<1>2. Typed => TypeOK
  BY DEF Typed
<1> QED
  BY <1>1, <1>2, PTL

-----------------------------------------------------------------------------
(* The inductive invariant.                                                *)

IInv == Typed /\ Inductive

-----------------------------------------------------------------------------
(* A step of one reader, about its own transfer.                           *)

\* No start of a transfer is on its way while a reader is busy with it.
LEMMA NoStartBehind ==
  ASSUME IInv, NEW l \in Links, at[l].pc # "idle"
  PROVE  \A k \in Links : \A i \in 1..Len(net[k]) : ~IsStart(k, i, at[l].t)
<1>1. l \in Threads /\ at[l].t \in Transfers
  BY DEF IInv, Typed, Placed, Threads
<1> SUFFICES ASSUME NEW k \in Links, NEW i \in 1..Len(net[k]), IsStart(k, i, at[l].t)
             PROVE  FALSE
  OBVIOUS
<1>2. net[k][i].t = at[l].t
  BY DEF IsStart
<1>3. k = l
  BY <1>2 DEF IInv, Inductive, Routed
<1>4. writer[at[l].t] = "none" /\ at[l].pc # "start"
  <2> DEFINE u == at[l].t
  <2>1. i \in 1..Len(net[l]) /\ IsStart(l, i, u) /\ u \in Transfers
    BY <1>1, <1>3
  <2>2. writer[u] = "none" /\ ~(at[l].pc = "start" /\ at[l].t = u)
    <3> HIDE DEF u
    <3> QED
      BY <2>1 DEF IInv, Inductive, StartOnce
  <2> QED
    BY <2>2
<1> QED
  BY <1>4 DEF IInv, Inductive, FileCounted

\* What a step of reader l must do to its transfer u, and to nothing else, to
\* keep the invariant; p is where it goes.
OwnStep(l, u, p) ==
  /\ UNCHANGED <<snd, fileAcks, net>>
  /\ at' = [at EXCEPT ![l] = p]
  /\ p.pc # "start" /\ (p.pc # "idle" => p.t = u)
  /\ \A t \in Transfers : t # u =>
       /\ writer'[t] = writer[t] /\ disk'[t] = disk[t] /\ got'[t] = got[t]
       /\ t \in incoming' => t \in incoming
  /\ writer'[u] = "none" => p.pc = "idle" /\ u \notin incoming' /\ disk'[u] = got'[u]
  /\ u \in incoming' /\ p.pc \notin {"abort", "forget"} => disk'[u] = got'[u]
  /\ p.pc \in {"chunk", "end"} => disk'[u] = got'[u]
  /\ p.pc \in {"commit", "rename"} => disk'[u] = Chunks[u]
  /\ p.pc = "rename" => writer'[u] = "closing"
  /\ writer[u] = "stored" => writer'[u] = "stored" /\ disk'[u] = disk[u]
  /\ \A f \in Paths : \/ folder'[f] = folder[f]
                      \/ folder'[f] = u /\ writer'[u] = "stored" /\ disk'[u] = Chunks[u]
  /\ p.ok => p.t = u /\ writer'[u] = "stored"
  /\ \A k \in Links : \A a \in acks'[k] :
       a \in acks[k] \/ (a.ok => a.t = u /\ writer'[u] = "stored")

LEMMA OwnStepKeeps ==
  ASSUME IInv, Typed', NEW l \in Links, at[l].pc # "idle", NEW p \in Place,
         OwnStep(l, at[l].t, p)
  PROVE  Inductive'
<1> DEFINE u == at[l].t
<1>1. l \in Threads /\ u \in Transfers /\ Links \subseteq Threads
  BY DEF IInv, Typed, Placed, Threads
<1>2. /\ at'[l] = p
      /\ \A r \in Threads : r # l => at'[r] = at[r]
  BY <1>1 DEF OwnStep, IInv, Typed, TypeOK
<1>3. \A k \in Links : k # l => ~(at[k].pc # "idle" /\ at[k].t = u)
  BY DEF IInv, Inductive, Routed
<1>4. Stored \subseteq Stored' /\ \A t \in Stored : disk'[t] = disk[t]
  BY <1>1 DEF OwnStep, Stored
<1>5. Routed'
  BY <1>1, <1>2 DEF OwnStep, IInv, Inductive, Routed
<1>6. StartOnce'
  <2> SUFFICES ASSUME NEW t \in Transfers
               PROVE
                 /\ snd[t].pc \in {"idle", "start"} =>
                      /\ writer'[t] = "none"
                      /\ \A k \in Links : ~(at'[k].pc # "idle" /\ at'[k].t = t)
                      /\ \A k \in Links : \A i \in 1..Len(net[k]) : net[k][i].t # t
                 /\ \A k \in Links :
                      /\ at'[k].pc = "start" /\ at'[k].t = t => writer'[t] = "none"
                      /\ \A i \in 1..Len(net[k]) : IsStart(k, i, t) =>
                           /\ writer'[t] = "none" /\ ~(at'[k].pc = "start" /\ at'[k].t = t)
                           /\ \A j \in 1..Len(net[k]) : IsStart(k, j, t) => j = i
    BY DEF OwnStep, StartOnce, IsStart
  <2>1. snd[t].pc \in {"idle", "start"} => t # u
    BY <1>1 DEF IInv, Inductive, StartOnce
  <2>2. \A k \in Links : \A i \in 1..Len(net[k]) : IsStart(k, i, t) => t # u
    BY NoStartBehind
  <2>3. t # u => writer'[t] = writer[t]
    BY DEF OwnStep
  <2>4. \A k \in Links : at'[k].pc # "idle" /\ at'[k].t = t /\ t # u =>
                            at[k].pc = at'[k].pc /\ at[k].t = t
    BY <1>1, <1>2 DEF OwnStep
  <2>5. \A k \in Links : at'[k].pc = "start" => at[k].pc = "start" /\ at[k].t = at'[k].t /\ k # l
    BY <1>1, <1>2 DEF OwnStep
  <2> QED
    BY <1>3, <2>1, <2>2, <2>3, <2>4, <2>5 DEF IInv, Inductive, StartOnce
<1>7. FileCounted'
  <2>1. \A t \in Transfers :
          /\ writer'[t] = "none" => disk'[t] = got'[t]
          /\ t \in incoming' => writer'[t] # "none"
    BY <1>1 DEF OwnStep, IInv, Inductive, FileCounted
  <2>2. ASSUME NEW t \in Transfers, t \in incoming', ~Failing(t)'
        PROVE  disk'[t] = got'[t]
    <3>1. CASE t = u
      <4>1. p.pc \notin {"abort", "forget"}
        BY <1>2, <2>2, <3>1 DEF OwnStep, Failing
      <4> QED
        BY <2>2, <3>1, <4>1 DEF OwnStep
    <3>2. CASE t # u
      <4>1. ~Failing(t)
        BY <1>1, <1>2, <2>2, <3>2 DEF Failing
      <4> QED
        BY <2>2, <3>2, <4>1 DEF OwnStep, IInv, Inductive, FileCounted
    <3> QED
      BY <3>1, <3>2
  <2>3. ASSUME NEW k \in Links
        PROVE  /\ at'[k].pc \notin {"idle", "start"} => writer'[at'[k].t] # "none"
               /\ at'[k].pc \in {"chunk", "end"} => disk'[at'[k].t] = got'[at'[k].t]
               /\ at'[k].pc \in {"commit", "rename"} => disk'[at'[k].t] = Chunks[at'[k].t]
               /\ at'[k].pc = "rename" => writer'[at'[k].t] = "closing"
    <3>1. CASE k = l
      BY <1>2, <3>1 DEF OwnStep
    <3>2. CASE k # l
      <4>1. at'[k] = at[k] /\ k \in Threads
        BY <1>1, <1>2, <3>2
      <4>2. at[k].pc # "idle" => at[k].t \in Transfers /\ at[k].t # u
        BY <1>3, <3>2, <4>1 DEF IInv, Typed, Placed
      <4> QED
        BY <4>1, <4>2 DEF OwnStep, IInv, Inductive, FileCounted
    <3> QED
      BY <3>1, <3>2
  <2>4. \A f \in Paths : folder'[f] # None => writer'[folder'[f]] = "stored"
    <3> SUFFICES ASSUME NEW f \in Paths, folder'[f] # None
                 PROVE  writer'[folder'[f]] = "stored"
      OBVIOUS
    <3>1. CASE folder'[f] = folder[f]
      <4>1. folder[f] \in Stored
        BY <3>1 DEF IInv, Inductive, FileCounted, Stored, Typed, TypeOK
      <4> QED
        BY <1>4, <3>1, <4>1 DEF Stored
    <3> QED
      BY <3>1 DEF OwnStep
  <2> QED
    BY <2>1, <2>2, <2>3, <2>4 DEF FileCounted
<1>8. OkIsStored'
  <2>1. \A r \in Threads : at'[r].ok => at'[r].t \in Stored'
    BY <1>1, <1>2, <1>4 DEF OwnStep, IInv, Inductive, OkIsStored, Stored
  <2>2. \A k \in Links : \A a \in acks'[k] : a.ok => a.t \in Stored'
    BY <1>1, <1>4 DEF OwnStep, IInv, Inductive, OkIsStored, Stored
  <2>3. \A t \in Transfers : /\ TRUE \in fileAcks'[t] => t \in Stored'
                             /\ snd'[t].pc # "done" => snd'[t].result = "none"
    BY <1>4 DEF OwnStep, IInv, Inductive, OkIsStored
  <2> QED
    BY <2>1, <2>2, <2>3 DEF OkIsStored
<1>9. WholeFiles'
  <2> SUFFICES ASSUME NEW f \in Paths, folder'[f] # None
               PROVE  disk'[folder'[f]] = Chunks[folder'[f]]
    BY DEF WholeFiles
  <2>1. CASE folder'[f] = folder[f]
    <3>1. folder[f] \in Stored
      BY <2>1 DEF IInv, Inductive, FileCounted, Stored, Typed, TypeOK
    <3> QED
      BY <1>4, <2>1, <3>1 DEF IInv, Inductive, WholeFiles
  <2> QED
    BY <2>1 DEF OwnStep
<1> QED
  BY <1>5, <1>6, <1>7, <1>8, <1>9 DEF Inductive

LEMMA ReaderKeeps ==
  ASSUME IInv, Typed', NEW l \in Links, HandleFile(l), ~Take(l)
  PROVE  Inductive'
<1> DEFINE u == at[l].t
<1> USE DEF sender, link, files
<1>1. l \in Threads /\ at \in [Threads -> Place] /\ at[l].pc # "idle" /\ u \in Transfers
  BY DEF HandleFile, StartRefused, StartAccepted, ChunkRefused, ChunkTaken, Progress,
         FailAbort, FailForget, EndTaken, EndDiscard, EndCommit, EndRename, Acknowledge,
         IInv, Typed, TypeOK, Placed, Threads
<1>2. /\ Idle \in Place /\ Idle.pc = "idle" /\ Idle.ok = FALSE
      /\ \A pc \in {"progress", "abort", "forget", "discard", "commit", "rename", "match"}, n \in Nat :
           /\ In(pc, u, n, FALSE) \in Place
           /\ In(pc, u, n, FALSE).pc = pc /\ In(pc, u, n, FALSE).t = u
           /\ In(pc, u, n, FALSE).ok = FALSE
  <2> HIDE DEF u
  <2>1. Idle \in Place /\ Idle.pc = "idle" /\ Idle.ok = FALSE
    BY ValueTypes
  <2>2. ASSUME NEW pc \in {"progress", "abort", "forget", "discard", "commit", "rename", "match"}, NEW n \in Nat
        PROVE  /\ In(pc, u, n, FALSE) \in Place
               /\ In(pc, u, n, FALSE).pc = pc /\ In(pc, u, n, FALSE).t = u
               /\ In(pc, u, n, FALSE).ok = FALSE
    BY <1>1 DEF In, Place
  <2> QED
    BY <2>1, <2>2
<1>3. /\ writer \in [Transfers -> {"none", "open", "closing", "gone", "stored"}]
      /\ disk \in [Transfers -> Nat] /\ got \in [Transfers -> Nat]
      /\ next \in [Transfers -> Nat] /\ Chunks \in [Transfers -> Nat]
  BY FileTransferAssumption DEF IInv, Typed, TypeOK
<1>4. /\ at[l].pc # "start" => writer[u] # "none"
      /\ at[l].pc = "start" => writer[u] = "none"
      /\ u \in incoming => writer[u] # "none"
      /\ writer[u] = "none" => disk[u] = got[u]
      /\ at[l].pc \in {"chunk", "end"} => disk[u] = got[u]
      /\ at[l].pc \in {"commit", "rename"} => disk[u] = Chunks[u]
      /\ at[l].pc = "rename" => writer[u] = "closing"
      /\ at[l].ok => writer[u] = "stored"
  BY <1>1 DEF IInv, Inductive, FileCounted, StartOnce, OkIsStored, Stored
<1>5. u \in incoming /\ at[l].pc \notin {"abort", "forget"} => disk[u] = got[u]
  <2>1. \A k \in Links : at[k].pc # "idle" /\ at[k].t = u => k = l
    BY <1>1 DEF IInv, Inductive, Routed
  <2>2. at[l].pc \notin {"abort", "forget"} => ~Failing(u)
    BY <2>1 DEF Failing
  <2> QED
    BY <1>1, <2>2 DEF IInv, Inductive, FileCounted
<1>6. ASSUME NEW p \in Place, OwnStep(l, u, p) PROVE Inductive'
  BY <1>1, <1>6, OwnStepKeeps DEF IInv
<1>7. CASE StartRefused(l)
  <2>1. OwnStep(l, u, Idle)
    BY <1>1, <1>2, <1>3, <1>4, <1>5, <1>7 DEF OwnStep, StartRefused, Answer
  <2> QED
    BY <1>2, <1>6, <2>1
<1>8. CASE StartAccepted(l)
  <2>1. OwnStep(l, u, Idle)
    BY <1>1, <1>2, <1>3, <1>4, <1>5, <1>8 DEF OwnStep, StartAccepted
  <2> QED
    BY <1>2, <1>6, <2>1
<1>9. CASE ChunkRefused(l)
  <2>1. OwnStep(l, u, In("abort", u, 0, FALSE))
    BY <1>1, <1>2, <1>3, <1>4, <1>5, <1>9 DEF OwnStep, ChunkRefused, Move
  <2> QED
    BY <1>2, <1>6, <2>1
<1>10. CASE ChunkTaken(l)
  <2>1. CASE Move(l, "progress", u, 0, FALSE) /\ writer[u] = "open" /\ disk' = [disk EXCEPT ![u] = @ + 1]
    <3> DEFINE p == In("progress", u, 0, FALSE)
    <3>1. p \in Place /\ p.pc = "progress" /\ p.t = u /\ p.ok = FALSE
      BY <1>2
    <3>2. at' = [at EXCEPT ![l] = p]
      BY <2>1 DEF Move
    <3> HIDE DEF p
    <3>3. OwnStep(l, u, p)
      BY <1>1, <1>3, <1>4, <1>5, <1>10, <2>1, <3>1, <3>2 DEF OwnStep, ChunkTaken
    <3> QED
      BY <1>6, <3>1, <3>3
  <2>2. CASE Move(l, "abort", u, 0, FALSE) /\ UNCHANGED disk
    <3>1. writer[u] # "none"
      BY <1>4, <1>10 DEF ChunkTaken
    <3>2. OwnStep(l, u, In("abort", u, 0, FALSE))
      BY <1>1, <1>2, <1>3, <1>4, <1>10, <2>2, <3>1 DEF OwnStep, ChunkTaken, Move
    <3> QED
      BY <1>2, <1>6, <3>2
  <2> QED
    BY <1>10, <2>1, <2>2 DEF ChunkTaken
<1>11. CASE Progress(l)
  <2>1. OwnStep(l, u, Idle)
    BY <1>1, <1>2, <1>3, <1>4, <1>5, <1>11 DEF OwnStep, Progress
  <2> QED
    BY <1>2, <1>6, <2>1
<1>12. CASE FailAbort(l)
  <2>1. OwnStep(l, u, In("forget", u, 0, FALSE))
    BY <1>1, <1>2, <1>3, <1>4, <1>5, <1>12 DEF OwnStep, FailAbort, Move, Abort
  <2> QED
    BY <1>2, <1>6, <2>1
<1>13. CASE FailForget(l)
  <2>1. OwnStep(l, u, In("match", u, 0, FALSE))
    BY <1>1, <1>2, <1>3, <1>4, <1>5, <1>13 DEF OwnStep, FailForget, Move
  <2> QED
    BY <1>2, <1>6, <2>1
<1>14. CASE EndTaken(l)
  <2> DEFINE whole == at[l].n = next[u] /\ got[u] = Chunks[u]
             pc == IF whole THEN "commit" ELSE "discard"
  <2>1. pc \in {"commit", "discard"} /\ (pc = "commit" => disk[u] = Chunks[u])
    BY <1>4, <1>14 DEF EndTaken
  <2>2. Move(l, pc, u, 0, FALSE) /\ at[l].pc = "end" /\ incoming' = incoming \ {u}
    BY <1>14 DEF EndTaken
  <2> DEFINE p == In(pc, u, 0, FALSE)
  <2>3. p \in Place /\ OwnStep(l, u, p)
    <3>0. p \in Place
      <4> HIDE DEF pc
      <4> QED
        BY <1>2, <2>1
    <3>1. p.pc = pc /\ p.t = u /\ p.ok = FALSE
      <4> HIDE DEF pc
      <4> QED
        BY <1>2, <2>1
    <3>2. at' = [at EXCEPT ![l] = p]
      BY <2>2 DEF Move
    <3>3. p.pc \in {"commit", "discard"} /\ (p.pc = "commit" => disk[u] = Chunks[u])
      BY <2>1, <3>1
    <3>4. writer[u] # "none"
      BY <1>4, <2>2
    <3> HIDE DEF p, pc
    <3> QED
      BY <1>1, <1>3, <1>5, <1>14, <2>2, <3>0, <3>1, <3>2, <3>3, <3>4 DEF OwnStep, EndTaken
  <2> QED
    <3> HIDE DEF p
    <3> QED
      BY <1>6, <2>3
<1>15. CASE EndDiscard(l)
  <2>1. OwnStep(l, u, In("match", u, 0, FALSE))
    BY <1>1, <1>2, <1>3, <1>4, <1>5, <1>15 DEF OwnStep, EndDiscard, Move, Abort
  <2> QED
    BY <1>2, <1>6, <2>1
<1>16. CASE EndCommit(l)
  <2>1. ASSUME NEW n \in Nat, Move(l, "rename", u, n, FALSE), writer[u] = "open",
               writer' = [writer EXCEPT ![u] = "closing"]
        PROVE  Inductive'
    <3>1. OwnStep(l, u, In("rename", u, n, FALSE))
      BY <1>1, <1>2, <1>3, <1>4, <1>5, <1>16, <2>1 DEF OwnStep, EndCommit, Move
    <3> QED
      BY <1>2, <1>6, <3>1
  <2>2. ASSUME Move(l, "match", u, 0, FALSE),
               writer' = IF writer[u] = "open" THEN [writer EXCEPT ![u] = "gone"] ELSE writer
        PROVE  Inductive'
    <3>1. OwnStep(l, u, In("match", u, 0, FALSE))
      BY <1>1, <1>2, <1>3, <1>4, <1>5, <1>16, <2>2 DEF OwnStep, EndCommit, Move
    <3> QED
      BY <1>2, <1>6, <3>1
  <2>3. FreePath(u) \subseteq Nat
    BY Counted DEF FreePath
  <2> QED
    BY <1>16, <2>1, <2>2, <2>3 DEF EndCommit
<1>17. CASE EndRename(l)
  <2>1. PICK ok \in BOOLEAN :
          /\ writer' = [writer EXCEPT ![u] = IF ok THEN "stored" ELSE "gone"]
          /\ folder' = IF ok THEN [folder EXCEPT ![<<Name[u], at[l].n>>] = u] ELSE folder
          /\ Move(l, "match", u, 0, ok)
    BY <1>17, FileTransferAssumption DEF EndRename
  <2>2. folder \in [Paths -> Transfers \cup {None}]
    BY DEF IInv, Typed, TypeOK
  <2>3. \A f \in Paths : folder'[f] = folder[f] \/ (folder'[f] = u /\ ok)
    BY <2>1, <2>2
  <2>4. writer'[u] = (IF ok THEN "stored" ELSE "gone") /\ disk[u] = Chunks[u] /\ writer[u] = "closing"
    BY <1>1, <1>3, <1>4, <1>17, <2>1 DEF EndRename
  <2>5. \A t \in Transfers : t # u => writer'[t] = writer[t]
    BY <1>3, <2>1
  <2>6. at' = [at EXCEPT ![l] = In("match", u, 0, ok)]
    BY <2>1 DEF Move
  <2>7. /\ In("match", u, 0, ok).pc = "match" /\ In("match", u, 0, ok).t = u
        /\ In("match", u, 0, ok).ok = ok
    BY <1>1, ValueTypes
  <2>8. OwnStep(l, u, In("match", u, 0, ok))
    <3>1. CASE ok
      BY <1>1, <1>5, <1>17, <2>3, <2>4, <2>5, <2>6, <2>7, <3>1 DEF OwnStep, EndRename
    <3>2. CASE ~ok
      BY <1>1, <1>5, <1>17, <2>3, <2>4, <2>5, <2>6, <2>7, <3>2 DEF OwnStep, EndRename
    <3> QED
      BY <3>1, <3>2
  <2> QED
    BY <1>1, <1>6, <2>8, ValueTypes
<1>18. CASE Acknowledge(l)
  <2>1. OwnStep(l, u, Idle)
    BY <1>1, <1>2, <1>3, <1>4, <1>5, <1>18 DEF OwnStep, Acknowledge, Answer
  <2> QED
    BY <1>2, <1>6, <2>1
<1> QED
  BY <1>7, <1>8, <1>9, <1>10, <1>11, <1>12, <1>13, <1>14, <1>15, <1>16, <1>17, <1>18
  DEF HandleFile

-----------------------------------------------------------------------------
(* What is on its way.                                                     *)

\* Every link has lost some of what it carried first, and nothing else.
Shrinks ==
  \A k \in Links : \E lost \in Nat :
    \A i \in 1..Len(net'[k]) :
      i + lost \in 1..Len(net[k]) /\ net'[k][i] = net[k][i + lost]

LEMMA ShrinkKeeps ==
  ASSUME IInv, Typed', Shrinks, UNCHANGED <<snd, writer, at>>
  PROVE  Routed' /\ StartOnce'
<1>1. \A k \in Links : \A i \in 1..Len(net'[k]) :
        \E j \in 1..Len(net[k]) : net'[k][i] = net[k][j]
  BY DEF Shrinks
<1>2. Routed'
  BY <1>1 DEF IInv, Inductive, Routed
<1>3. ASSUME NEW t \in Transfers, NEW k \in Links, NEW i \in 1..Len(net'[k]), IsStart(k, i, t)'
      PROVE  /\ writer[t] = "none" /\ ~(at[k].pc = "start" /\ at[k].t = t)
             /\ \A j \in 1..Len(net'[k]) : IsStart(k, j, t)' => j = i
  <2>1. PICK lost \in Nat : \A j \in 1..Len(net'[k]) :
          j + lost \in 1..Len(net[k]) /\ net'[k][j] = net[k][j + lost]
    BY DEF Shrinks
  <2>2. \A j \in 1..Len(net'[k]) : IsStart(k, j, t)' => IsStart(k, j + lost, t)
    BY <2>1 DEF IsStart
  <2>3. i + lost \in 1..Len(net[k]) /\ IsStart(k, i + lost, t)
    BY <1>3, <2>1, <2>2
  <2>4. /\ writer[t] = "none" /\ ~(at[k].pc = "start" /\ at[k].t = t)
        /\ \A j \in 1..Len(net[k]) : IsStart(k, j, t) => j = i + lost
    BY <2>3 DEF IInv, Inductive, StartOnce
  <2>5. \A j \in 1..Len(net'[k]) : IsStart(k, j, t)' => j + lost = i + lost
    BY <2>1, <2>2, <2>4
  <2> QED
    BY <2>4, <2>5
<1>4. StartOnce'
  BY <1>1, <1>3 DEF IInv, Inductive, StartOnce
<1> QED
  BY <1>2, <1>4

LEMMA TakeKeeps ==
  ASSUME IInv, Typed', NEW l \in Links, Take(l)
  PROVE  Inductive'
<1> DEFINE m == net[l][1]
<1> USE DEF sender, files
<1>1. /\ l \in Threads /\ Links \subseteq Threads
      /\ net[l] \in Seq(Message) /\ Len(net[l]) \in Nat /\ net[l] # <<>>
  BY LenProperties DEF Take, IInv, Typed, TypeOK, Threads
<1>2. 1 \in 1..Len(net[l]) /\ m = Head(net[l]) /\ m \in Message
  <2>1. Len(net[l]) # 0
    BY <1>1, EmptySeq
  <2>2. 1 \in 1..Len(net[l])
    BY <1>1, <2>1
  <2> QED
    BY <1>1, <2>2, ElementOfSeq
<1>3. /\ \A k \in Links : k # l => net'[k] = net[k]
      /\ \A i \in 1..Len(net'[l]) : i + 1 \in 1..Len(net[l]) /\ net'[l][i] = net[l][i + 1]
      /\ Len(net'[l]) \in Nat
  <2>1. net' = [net EXCEPT ![l] = Tail(net[l])] /\ net \in [Links -> Seq(Message)]
    BY DEF Take, IInv, Typed, TypeOK
  <2>2. /\ Len(Tail(net[l])) = Len(net[l]) - 1
        /\ \A i \in 1..Len(Tail(net[l])) : Tail(net[l])[i] = net[l][i + 1]
    BY <1>1, HeadTailProperties
  <2> QED
    BY <1>1, <1>2, <2>1, <2>2
<1>4. m.kind \in {"start", "chunk", "end"} /\ m.t \in Transfers /\ m.seq \in Nat
  BY <1>2 DEF Message
<1>5. snd[m.t].link = l
  BY <1>2 DEF IInv, Inductive, Routed
<1>6. \A k \in Links : ~(at[k].pc # "idle" /\ at[k].t = m.t)
  BY <1>5, ValueTypes DEF Take, IInv, Inductive, Routed
<1>7. CASE UNCHANGED at
  <2>1. Shrinks
    <3> SUFFICES ASSUME NEW k \in Links
                 PROVE  \E lost \in Nat : \A i \in 1..Len(net'[k]) :
                          i + lost \in 1..Len(net[k]) /\ net'[k][i] = net[k][i + lost]
      BY DEF Shrinks
    <3>1. CASE k = l
      BY <1>3, <3>1
    <3>2. CASE k # l
      <4>1. \A i \in 1..Len(net'[k]) : i + 0 \in 1..Len(net[k]) /\ net'[k][i] = net[k][i + 0]
        BY <1>3, <3>2
      <4> QED
        BY <4>1
    <3> QED
      BY <3>1, <3>2
  <2>2. Routed' /\ StartOnce'
    BY <1>7, <2>1, ShrinkKeeps DEF Take
  <2>3. FileCounted'
    BY <1>7 DEF Take, IInv, Inductive, FileCounted, Failing
  <2>4. OkIsStored' /\ WholeFiles'
    BY <1>7 DEF Take, IInv, Inductive, OkIsStored, Stored, WholeFiles
  <2> QED
    BY <2>2, <2>3, <2>4 DEF Inductive
<1>8. CASE Move(l, m.kind, m.t, m.seq, FALSE) /\ (m.kind = "start" \/ m.t \in incoming)
  <2>1. /\ at'[l].pc = m.kind /\ at'[l].t = m.t /\ at'[l].ok = FALSE
        /\ \A r \in Threads : r # l => at'[r] = at[r]
    <3>1. at' = [at EXCEPT ![l] = In(m.kind, m.t, m.seq, FALSE)] /\ at \in [Threads -> Place]
      BY <1>8 DEF Move, IInv, Typed, TypeOK
    <3> QED
      BY <1>1, <3>1 DEF In
  <2>2. UNCHANGED <<snd, fileAcks, acks, incoming, next, got, disk, writer, folder>>
    BY DEF Take
  <2> HIDE DEF m
  <2>3. Routed'
    <3>1. \A k \in Links : \A i \in 1..Len(net'[k]) :
            \E j \in 1..Len(net[k]) : net'[k][i] = net[k][j]
      BY <1>3
    <3>2. \A k \in Links : \A i \in 1..Len(net'[k]) : snd[net'[k][i].t].link = k
      BY <3>1 DEF IInv, Inductive, Routed
    <3>3. ASSUME NEW k \in Links, at'[k].pc # "idle" PROVE snd[at'[k].t].link = k
      <4>1. CASE k = l
        BY <1>5, <2>1, <4>1
      <4>2. CASE k # l
        <5>1. at'[k] = at[k]
          BY <1>1, <2>1, <4>2
        <5> QED
          BY <3>3, <5>1 DEF IInv, Inductive, Routed
      <4> QED
        BY <4>1, <4>2
    <3> QED
      BY <2>2, <3>2, <3>3 DEF Routed
  <2>4. StartOnce'
    <3> SUFFICES ASSUME NEW t \in Transfers
                 PROVE
                   /\ snd[t].pc \in {"idle", "start"} =>
                        /\ writer[t] = "none"
                        /\ \A k \in Links : ~(at'[k].pc # "idle" /\ at'[k].t = t)
                        /\ \A k \in Links : \A i \in 1..Len(net'[k]) : net'[k][i].t # t
                   /\ \A k \in Links :
                        /\ at'[k].pc = "start" /\ at'[k].t = t => writer[t] = "none"
                        /\ \A i \in 1..Len(net'[k]) : IsStart(k, i, t)' =>
                             /\ writer[t] = "none" /\ ~(at'[k].pc = "start" /\ at'[k].t = t)
                             /\ \A j \in 1..Len(net'[k]) : IsStart(k, j, t)' => j = i
      BY <2>2 DEF StartOnce
    <3>1. \A k \in Links : \A i \in 1..Len(net'[k]) :
            \E j \in 1..Len(net[k]) : net'[k][i] = net[k][j]
      BY <1>3
    <3>2. ASSUME snd[t].pc \in {"idle", "start"}
          PROVE  /\ writer[t] = "none"
                 /\ \A k \in Links : ~(at'[k].pc # "idle" /\ at'[k].t = t)
                 /\ \A k \in Links : \A i \in 1..Len(net'[k]) : net'[k][i].t # t
      <4>1. /\ writer[t] = "none"
            /\ \A k \in Links : ~(at[k].pc # "idle" /\ at[k].t = t)
            /\ \A k \in Links : \A i \in 1..Len(net[k]) : net[k][i].t # t
        BY <3>2 DEF IInv, Inductive, StartOnce
      <4>2. m.t # t
        BY <1>2, <4>1 DEF m
      <4> QED
        BY <1>1, <2>1, <3>1, <4>1, <4>2
    <3>3. IsStart(l, 1, m.t) <=> m.kind = "start"
      BY DEF IsStart, m
    <3>4. m.kind = "start" =>
            writer[m.t] = "none" /\ \A j \in 1..Len(net[l]) : IsStart(l, j, m.t) => j = 1
      BY <1>2, <1>4, <3>3 DEF IInv, Inductive, StartOnce
    <3>5. ASSUME NEW k \in Links, NEW i \in 1..Len(net'[k]), IsStart(k, i, t)'
          PROVE  /\ writer[t] = "none" /\ ~(at'[k].pc = "start" /\ at'[k].t = t)
                 /\ \A j \in 1..Len(net'[k]) : IsStart(k, j, t)' => j = i
      <4>1. CASE k = l
        <5>1. \A j \in 1..Len(net'[l]) : IsStart(l, j, t)' => IsStart(l, j + 1, t)
          BY <1>3 DEF IsStart
        <5>2. i + 1 \in 1..Len(net[l]) /\ IsStart(l, i + 1, t) /\ i + 1 # 1
          BY <1>3, <3>5, <4>1, <5>1
        <5>3. writer[t] = "none" /\ \A j \in 1..Len(net[l]) : IsStart(l, j, t) => j = i + 1
          BY <5>2 DEF IInv, Inductive, StartOnce
        <5>4. ~(at'[l].pc = "start" /\ at'[l].t = t)
          BY <2>1, <3>4, <5>2
        <5>5. \A j \in 1..Len(net'[l]) : IsStart(l, j, t)' => j + 1 = i + 1
          BY <1>3, <5>1, <5>3
        <5> QED
          BY <4>1, <5>3, <5>4, <5>5
      <4>2. CASE k # l
        <5>1. net'[k] = net[k] /\ at'[k] = at[k]
          BY <1>1, <1>3, <2>1, <4>2
        <5>2. \A j \in 1..Len(net[k]) : IsStart(k, j, t)' <=> IsStart(k, j, t)
          BY <5>1 DEF IsStart
        <5>3. i \in 1..Len(net[k]) /\ IsStart(k, i, t)
          BY <3>5, <5>1, <5>2
        <5>4. /\ writer[t] = "none" /\ ~(at[k].pc = "start" /\ at[k].t = t)
              /\ \A j \in 1..Len(net[k]) : IsStart(k, j, t) => j = i
          BY <5>3 DEF IInv, Inductive, StartOnce
        <5> QED
          BY <5>1, <5>2, <5>4
      <4> QED
        BY <4>1, <4>2
    <3>6. ASSUME NEW k \in Links, at'[k].pc = "start", at'[k].t = t PROVE writer[t] = "none"
      <4>1. CASE k = l
        BY <2>1, <3>4, <3>6, <4>1
      <4>2. CASE k # l
        <5>1. at[k] = at'[k]
          BY <1>1, <2>1, <4>2
        <5> QED
          BY <3>6, <5>1 DEF IInv, Inductive, StartOnce
      <4> QED
        BY <4>1, <4>2
    <3> QED
      BY <3>2, <3>5, <3>6
  <2>5. FileCounted'
    <3>1. \A t \in Transfers : Failing(t)' <=> Failing(t)
      BY <1>1, <1>4, <2>1, ValueTypes DEF Failing, Take
    <3>2. ~Failing(m.t)
      BY <1>6 DEF Failing
    <3>3. m.t \in incoming => disk[m.t] = got[m.t] /\ writer[m.t] # "none"
      BY <1>4, <3>2 DEF IInv, Inductive, FileCounted
    <3>4. \A k \in Links :
            /\ at'[k].pc \notin {"idle", "start"} => writer[at'[k].t] # "none"
            /\ at'[k].pc \in {"chunk", "end"} => disk[at'[k].t] = got[at'[k].t]
            /\ at'[k].pc \in {"commit", "rename"} => disk[at'[k].t] = Chunks[at'[k].t]
            /\ at'[k].pc = "rename" => writer[at'[k].t] = "closing"
      BY <1>1, <1>4, <1>8, <2>1, <3>3 DEF IInv, Inductive, FileCounted
    <3> QED
      BY <2>2, <3>1, <3>4 DEF IInv, Inductive, FileCounted
  <2>6. OkIsStored' /\ WholeFiles'
    BY <2>1, <2>2 DEF IInv, Inductive, OkIsStored, Stored, WholeFiles
  <2> QED
    BY <2>3, <2>4, <2>5, <2>6 DEF Inductive
<1> QED
  BY <1>2, <1>7, <1>8 DEF Take

-----------------------------------------------------------------------------
(* The senders.                                                            *)

\* A sender that goes on keeps its link, and does not go back to its start.
SenderOnly(t) ==
  /\ UNCHANGED <<acks, at, files>>
  /\ \A u \in Transfers : u # t => snd'[u] = snd[u] /\ fileAcks'[u] = fileAcks[u]
  /\ fileAcks'[t] \subseteq fileAcks[t]
  /\ snd'[t].pc # "done" => snd'[t].result = "none"

LEMMA SenderOnlyKeeps ==
  ASSUME IInv, Typed', NEW t \in Transfers, SenderOnly(t)
  PROVE  FileCounted' /\ OkIsStored' /\ WholeFiles'
<1>1. UNCHANGED <<acks, at, files>>
  BY DEF SenderOnly
<1>2. FileCounted' /\ WholeFiles'
  BY <1>1 DEF files, IInv, Inductive, FileCounted, Failing, WholeFiles
<1>3. ASSUME NEW u \in Transfers
      PROVE  /\ TRUE \in fileAcks'[u] => TRUE \in fileAcks[u]
             /\ snd'[u].pc # "done" => snd'[u].result = "none"
  <2>1. snd[u].pc # "done" => snd[u].result = "none"
    BY DEF IInv, Inductive, OkIsStored
  <2> QED
    BY <2>1 DEF SenderOnly
<1>4. OkIsStored'
  BY <1>1, <1>3 DEF files, IInv, Inductive, OkIsStored, Stored
<1> QED
  BY <1>2, <1>4

LEMMA MessageOf ==
  ASSUME TypeOK, NEW k \in Links, NEW i \in 1..Len(net[k])
  PROVE  net[k][i] \in Message /\ net[k][i].t \in Transfers
<1>1. net[k] \in Seq(Message)
  BY DEF TypeOK
<1>2. net[k][i] \in Message
  BY <1>1, ElementOfSeq
<1> QED
  BY <1>2 DEF Message

LEMMA ReturnKeeps ==
  ASSUME IInv, Typed', NEW t \in Transfers, NEW result \in {"ok", "failed"},
         Return(t, result), UNCHANGED <<net, acks, at, files>>
  PROVE  Inductive'
<1>1. /\ snd'[t] = SendAt("done", snd[t].link, snd[t].seq, result)
      /\ \A u \in Transfers : u # t => snd'[u] = snd[u]
      /\ fileAcks'[t] = {} /\ \A u \in Transfers : u # t => fileAcks'[u] = fileAcks[u]
  BY DEF Return, IInv, Typed, TypeOK
<1>2. /\ snd'[t].pc = "done"
      /\ \A u \in Transfers : snd'[u].link = snd[u].link
      /\ \A u \in Transfers : snd'[u].pc \in {"idle", "start"} => snd[u].pc = snd'[u].pc
  BY <1>1 DEF SendAt
<1>3. SenderOnly(t)
  BY <1>1, <1>2 DEF SenderOnly
<1>4. Routed'
  <2>1. \A k \in Links : \A i \in 1..Len(net[k]) : net[k][i].t \in Transfers
    BY MessageOf DEF IInv, Typed
  <2>2. \A k \in Links : at[k].pc # "idle" => at[k].t \in Transfers
    BY DEF IInv, Typed, Placed, Threads
  <2> QED
    BY <1>2, <2>1, <2>2 DEF IInv, Inductive, Routed
<1>5. StartOnce'
  BY <1>2 DEF files, IInv, Inductive, StartOnce, IsStart
<1> QED
  BY <1>3, <1>4, <1>5, SenderOnlyKeeps DEF Inductive

LEMMA EmitKeeps ==
  ASSUME IInv, Typed', NEW t \in Transfers, NEW kind \in {"start", "chunk", "end"},
         NEW pc \in {"chunk", "wait"}, NEW seq \in Nat, Emit(t, kind, pc, seq),
         snd[t].pc \in {"start", "chunk"}, kind = "start" => snd[t].pc = "start"
  PROVE  Inductive'
<1> DEFINE l == snd[t].link
           m == [kind |-> kind, t |-> t, seq |-> snd[t].seq]
<1>1. l \in Links /\ m \in Message /\ net[l] \in Seq(Message) /\ Len(net[l]) \in Nat
  BY LenProperties DEF IInv, Typed, TypeOK, Placed, Sending, Message
<1>2. /\ \A k \in Links : k # l => net'[k] = net[k]
      /\ Len(net'[l]) = Len(net[l]) + 1
      /\ \A i \in 1..Len(net[l]) : net'[l][i] = net[l][i]
      /\ net'[l][Len(net[l]) + 1] = m
  <2>1. net' = [net EXCEPT ![l] = Append(net[l], m)] /\ net \in [Links -> Seq(Message)]
    BY DEF Emit, IInv, Typed, TypeOK
  <2> HIDE DEF m
  <2> QED
    BY <1>1, <2>1, AppendProperties
<1>3. /\ snd'[t].pc = pc /\ snd'[t].link = l /\ snd'[t].result = "none"
      /\ \A u \in Transfers : u # t => snd'[u] = snd[u]
  BY DEF Emit, SendAt, IInv, Typed, TypeOK
<1>4. UNCHANGED <<acks, at, files, fileAcks>>
  BY DEF Emit
<1>5. SenderOnly(t)
  BY <1>3, <1>4 DEF SenderOnly
<1>6. \A u \in Transfers : snd'[u].link = snd[u].link
  BY <1>3
<1>7. m.kind = kind /\ m.t = t
  OBVIOUS
<1> HIDE DEF m, l
<1>8. \A i \in 1..Len(net'[l]) : i \in 1..Len(net[l]) \/ i = Len(net[l]) + 1
  BY <1>1, <1>2
<1>9. Routed'
  <2>1. ASSUME NEW k \in Links, NEW i \in 1..Len(net'[k]) PROVE snd'[net'[k][i].t].link = k
    <3>1. (net'[k][i].t = t /\ k = l) \/ (i \in 1..Len(net[k]) /\ net'[k][i] = net[k][i])
      BY <1>2, <1>7, <1>8
    <3>2. i \in 1..Len(net[k]) => net[k][i].t \in Transfers
      BY MessageOf DEF IInv, Typed
    <3> QED
      BY <1>3, <1>6, <3>1, <3>2 DEF IInv, Inductive, Routed
  <2>2. \A k \in Links : at[k].pc # "idle" => at[k].t \in Transfers
    BY DEF IInv, Typed, Placed, Threads
  <2> QED
    BY <1>4, <1>6, <2>1, <2>2 DEF IInv, Inductive, Routed
<1>10. ASSUME NEW u \in Transfers, NEW k \in Links, NEW i \in 1..Len(net'[k])
       PROVE  \/ i \in 1..Len(net[k]) /\ net'[k][i] = net[k][i]
              \/ i = Len(net[k]) + 1 /\ k = l /\ net'[k][i] = m
  BY <1>2, <1>8
<1>11. StartOnce'
  <2>1. ASSUME NEW u \in Transfers, snd'[u].pc \in {"idle", "start"}
        PROVE  /\ writer'[u] = "none"
               /\ \A k \in Links : ~(at'[k].pc # "idle" /\ at'[k].t = u)
               /\ \A k \in Links : \A i \in 1..Len(net'[k]) : net'[k][i].t # u
    <3>1. u # t /\ snd[u].pc \in {"idle", "start"}
      BY <1>3, <2>1
    <3>2. /\ writer[u] = "none"
          /\ \A k \in Links : ~(at[k].pc # "idle" /\ at[k].t = u)
          /\ \A k \in Links : \A i \in 1..Len(net[k]) : net[k][i].t # u
      BY <3>1 DEF IInv, Inductive, StartOnce
    <3> QED
      BY <1>4, <1>7, <1>10, <3>1, <3>2 DEF files
  <2>2. ASSUME NEW u \in Transfers, NEW k \in Links, NEW i \in 1..Len(net'[k]),
               IsStart(k, i, u)'
        PROVE  /\ writer[u] = "none" /\ ~(at[k].pc = "start" /\ at[k].t = u)
               /\ \A j \in 1..Len(net'[k]) : IsStart(k, j, u)' => j = i
    <3>1. CASE u = t /\ kind = "start"
      <4>1. /\ writer[t] = "none"
            /\ \A h \in Links : ~(at[h].pc # "idle" /\ at[h].t = t)
            /\ \A h \in Links : \A j \in 1..Len(net[h]) : net[h][j].t # t
        BY <3>1 DEF IInv, Inductive, StartOnce
      <4>2. \A j \in 1..Len(net'[k]) : IsStart(k, j, u)' => j = Len(net[k]) + 1
        BY <1>10, <3>1, <4>1 DEF IsStart
      <4> QED
        BY <2>2, <3>1, <4>1, <4>2
    <3>2. CASE ~(u = t /\ kind = "start")
      <4>1. \A j \in 1..Len(net'[k]) : IsStart(k, j, u)' => j \in 1..Len(net[k]) /\ IsStart(k, j, u)
        BY <1>7, <1>10, <3>2 DEF IsStart
      <4>2. i \in 1..Len(net[k]) /\ IsStart(k, i, u)
        BY <2>2, <4>1
      <4>3. /\ writer[u] = "none" /\ ~(at[k].pc = "start" /\ at[k].t = u)
            /\ \A j \in 1..Len(net[k]) : IsStart(k, j, u) => j = i
        BY <4>2 DEF IInv, Inductive, StartOnce
      <4> QED
        BY <4>1, <4>3
    <3> QED
      BY <3>1, <3>2
  <2>3. \A u \in Transfers : \A k \in Links :
          at[k].pc = "start" /\ at[k].t = u => writer[u] = "none"
    BY DEF IInv, Inductive, StartOnce
  <2>4. UNCHANGED <<at, writer>>
    BY <1>4 DEF files
  <2> QED
    BY <2>1, <2>2, <2>3, <2>4 DEF StartOnce
<1> QED
  BY <1>5, <1>9, <1>11, SenderOnlyKeeps DEF Inductive

LEMMA BeginKeeps ==
  ASSUME IInv, Typed', NEW t \in Transfers, Begin(t)
  PROVE  Inductive'
<1> USE DEF link
<1>1. CASE Return(t, "failed")
  BY <1>1, ReturnKeeps DEF Begin
<1>2. ASSUME NEW l \in Links, snd' = [snd EXCEPT ![t] = SendAt("start", l, 0, "none")],
             UNCHANGED fileAcks
      PROVE  Inductive'
  <2>1. /\ snd'[t].pc = "start" /\ snd'[t].result = "none"
        /\ \A u \in Transfers : u # t => snd'[u] = snd[u]
    BY <1>2 DEF SendAt, IInv, Typed, TypeOK
  <2>2. snd[t].pc = "idle" /\ UNCHANGED <<net, acks, at, files, fileAcks>>
    BY <1>2 DEF Begin
  <2>3. SenderOnly(t)
    BY <2>1, <2>2 DEF SenderOnly
  <2>4. /\ writer[t] = "none"
        /\ \A k \in Links : ~(at[k].pc # "idle" /\ at[k].t = t)
        /\ \A k \in Links : \A i \in 1..Len(net[k]) : net[k][i].t # t
    BY <2>2 DEF IInv, Inductive, StartOnce
  <2>5. Routed'
    <3>1. \A k \in Links : \A i \in 1..Len(net[k]) : net[k][i].t \in Transfers
      BY MessageOf DEF IInv, Typed
    <3>2. \A k \in Links : at[k].pc # "idle" => at[k].t \in Transfers
      BY DEF IInv, Typed, Placed, Threads
    <3> QED
      BY <2>1, <2>2, <2>4, <3>1, <3>2 DEF IInv, Inductive, Routed
  <2>6. StartOnce'
    <3>1. \A u \in Transfers : snd'[u].pc \in {"idle", "start"} => snd[u].pc \in {"idle", "start"}
      BY <2>1, <2>2
    <3> QED
      BY <2>2, <3>1 DEF files, IInv, Inductive, StartOnce, IsStart
  <2> QED
    BY <2>3, <2>5, <2>6, SenderOnlyKeeps DEF Inductive
<1> QED
  BY <1>1, <1>2 DEF Begin

LEMMA SendFileKeeps ==
  ASSUME IInv, Typed', NEW t \in Transfers, SendFile(t)
  PROVE  Inductive'
<1> USE DEF link
<1>1. snd[t].seq \in Nat /\ snd[t].seq + 1 \in Nat
  BY DEF IInv, Typed, TypeOK, Sending
<1>2. CASE SendStart(t)
  BY <1>2, EmitKeeps DEF SendStart
<1>3. CASE SendChunk(t)
  BY <1>1, <1>3, EmitKeeps DEF SendChunk
<1>4. CASE SendEnd(t)
  BY <1>1, <1>4, EmitKeeps DEF SendEnd
<1>5. CASE SendFails(t) \/ SendStops(t) \/ SendConfirmed(t)
  BY <1>5, ReturnKeeps DEF SendFails, SendStops, SendConfirmed
<1> QED
  BY <1>2, <1>3, <1>4, <1>5 DEF SendFile

LEMMA AckArrivesKeeps ==
  ASSUME IInv, Typed', NEW l \in Links, NEW a \in acks[l], AckArrives(l, a)
  PROVE  Inductive'
<1>1. a.t \in Transfers /\ (a.ok => a.t \in Stored) /\ a.ok \in BOOLEAN
  BY DEF IInv, Typed, TypeOK, Ack, Inductive, OkIsStored
<1>2. UNCHANGED <<snd, net, files, at>>
  BY DEF AckArrives
<1>3. Routed' /\ StartOnce' /\ FileCounted' /\ WholeFiles'
  BY <1>2 DEF files, IInv, Inductive, Routed, StartOnce, IsStart, FileCounted, Failing,
              WholeFiles
<1>4. OkIsStored'
  <2>1. \A k \in Links : \A b \in acks'[k] : b \in acks[k]
    BY DEF AckArrives, IInv, Typed, TypeOK
  <2>2. ASSUME NEW t \in Transfers, TRUE \in fileAcks'[t] PROVE t \in Stored
    <3>1. CASE TRUE \in fileAcks[t]
      BY <3>1 DEF IInv, Inductive, OkIsStored
    <3>2. CASE TRUE \notin fileAcks[t]
      <4>1. fileAcks' = [fileAcks EXCEPT ![a.t] = {a.ok}] /\ fileAcks \in [Transfers -> SUBSET BOOLEAN]
        BY <2>2, <3>2 DEF AckArrives, IInv, Typed, TypeOK
      <4>2. t = a.t /\ TRUE \in {a.ok}
        BY <1>1, <2>2, <3>2, <4>1
      <4> QED
        BY <1>1, <4>2
    <3> QED
      BY <3>1, <3>2
  <2> QED
    BY <1>2, <2>1, <2>2 DEF files, IInv, Inductive, OkIsStored, Stored
<1> QED
  BY <1>3, <1>4 DEF Inductive

-----------------------------------------------------------------------------
(* The list, the expiry, links and nodes.                                  *)

LEMMA ReceivedKeeps ==
  ASSUME IInv, Typed', NEW r \in Threads, Received(r)
  PROVE  Inductive'
<1> DEFINE u == at[r].t
<1> USE DEF sender, link, files
<1>1. /\ at \in [Threads -> Place] /\ Links \subseteq Threads /\ u \in Transfers
      /\ at[r].pc \in {"match", "add", "mark"}
  BY DEF Received, Match, Add, Mark, IInv, Typed, TypeOK, Placed, Threads
<1>2. UNCHANGED <<snd, fileAcks, up, net, acks, incoming, next, got, disk, writer, folder>>
  BY DEF Received, Match, Add, Mark
<1>3. PICK p \in Place :
        /\ at' = [at EXCEPT ![r] = p]
        /\ p.pc \in {"add", "mark", "ack", "idle"}
        /\ p.pc # "idle" => p.t = u
        /\ p.ok => at[r].ok /\ p.t = u
  <2>1. ASSUME NEW pc \in {"add", "mark", "ack"}, NEW n \in Nat, Move(r, pc, u, n, at[r].ok)
        PROVE  \E p \in Place :
                 /\ at' = [at EXCEPT ![r] = p]
                 /\ p.pc \in {"add", "mark", "ack", "idle"}
                 /\ p.pc # "idle" => p.t = u
                 /\ p.ok => at[r].ok /\ p.t = u
    <3> DEFINE p == In(pc, u, n, at[r].ok)
    <3>1. at[r].ok \in BOOLEAN
      BY <1>1 DEF Place
    <3>2. p \in Place /\ p.pc = pc /\ p.t = u /\ p.ok = at[r].ok
      BY <1>1, <3>1, ValueTypes
    <3>3. at' = [at EXCEPT ![r] = p]
      BY <2>1 DEF Move
    <3> HIDE DEF p
    <3> QED
      BY <3>2, <3>3
  <2>2. CASE at' = [at EXCEPT ![r] = Idle]
    BY <2>2, ValueTypes
  <2>3. Len(list) \in Nat /\ Len(list) + 1 \in Nat /\ 1..Len(list) \subseteq Nat
    BY LenProperties DEF IInv, Typed, TypeOK
  <2>4. Newest(SameName(u)) \subseteq Nat
    BY <2>3 DEF Newest, SameName, Shown
  <2> QED
    BY <2>1, <2>2, <2>3, <2>4 DEF Received, Match, Add, Mark
<1>4. at'[r] = p /\ \A s \in Threads : s # r => at'[s] = at[s]
  BY <1>1, <1>3
<1>5. Routed'
  BY <1>1, <1>2, <1>3, <1>4 DEF IInv, Inductive, Routed
<1>6. \A k \in Links : /\ at'[k].pc # "idle" => at[k].pc # "idle" /\ at'[k].t = at[k].t
                       /\ at'[k].pc = "start" => at[k].pc = "start"
  BY <1>1, <1>3, <1>4
<1>7. StartOnce'
  BY <1>2, <1>6 DEF IInv, Inductive, StartOnce, IsStart
<1>8. FileCounted'
  <2>1. \A t \in Transfers : Failing(t)' <=> Failing(t)
    BY <1>1, <1>3, <1>4 DEF Failing
  <2>2. \A k \in Links :
          at'[k].pc \notin {"idle", "start"} => at[k].pc \notin {"idle", "start"} /\ at'[k].t = at[k].t
    BY <1>1, <1>3, <1>4
  <2>3. \A k \in Links :
          at'[k].pc \in {"chunk", "end", "commit", "rename"} => at'[k] = at[k]
    BY <1>1, <1>3, <1>4
  <2> QED
    BY <1>2, <2>1, <2>2, <2>3 DEF IInv, Inductive, FileCounted
<1>9. OkIsStored' /\ WholeFiles'
  BY <1>1, <1>2, <1>3, <1>4 DEF IInv, Inductive, OkIsStored, Stored, WholeFiles
<1> QED
  BY <1>5, <1>7, <1>8, <1>9 DEF Inductive

LEMMA ExpireKeeps ==
  ASSUME IInv, Typed', Expire
  PROVE  Inductive'
<1>1. /\ UNCHANGED <<snd, fileAcks, net, acks, next, got, disk, writer, folder, at>>
      /\ incoming' \subseteq incoming
  BY DEF Expire, sender, link
<1>2. Routed' /\ StartOnce'
  BY <1>1 DEF IInv, Inductive, Routed, StartOnce, IsStart
<1>3. FileCounted'
  BY <1>1 DEF IInv, Inductive, FileCounted, Failing
<1>4. OkIsStored' /\ WholeFiles'
  BY <1>1 DEF IInv, Inductive, OkIsStored, Stored, WholeFiles
<1> QED
  BY <1>2, <1>3, <1>4 DEF Inductive

LEMMA ExpireAbortKeeps ==
  ASSUME IInv, Typed', NEW n \in Nodes, NEW t \in dead[n], ExpireAbort(n, t)
  PROVE  Inductive'
<1> USE DEF sender, link
<1>1. /\ UNCHANGED <<snd, fileAcks, net, acks, incoming, next, got, disk, folder>>
      /\ n \in Threads /\ n \notin Links /\ t \in Transfers
  BY FileTransferAssumption DEF ExpireAbort, Threads, IInv, Typed, TypeOK
<1>2. \A r \in Threads : r # n => at'[r] = at[r]
  BY <1>1 DEF ExpireAbort, Move, IInv, Typed, TypeOK
<1>3. at'[n].ok = FALSE
  <2>1. at' = [at EXCEPT ![n] = In("match", t, 0, FALSE)] /\ at \in [Threads -> Place]
    BY DEF ExpireAbort, Move, IInv, Typed, TypeOK
  <2>2. In("match", t, 0, FALSE).ok = FALSE
    BY DEF In
  <2> QED
    BY <1>1, <2>1, <2>2
<1>4. Links \subseteq Threads /\ \A k \in Links : at'[k] = at[k]
  BY <1>1, <1>2 DEF Threads
<1>5. \A u \in Transfers :
        writer'[u] = writer[u] \/ (writer[u] = "open" /\ writer'[u] = "gone")
  BY <1>1 DEF ExpireAbort, Abort, IInv, Typed, TypeOK
<1>6. Stored' = Stored
  BY <1>5 DEF Stored
<1>7. Routed'
  BY <1>1, <1>4 DEF IInv, Inductive, Routed
<1>8. StartOnce'
  BY <1>1, <1>4, <1>5 DEF IInv, Inductive, StartOnce, IsStart
<1>9. FileCounted'
  <2>1. \A u \in Transfers : Failing(u)' <=> Failing(u)
    BY <1>4 DEF Failing
  <2>2. \A k \in Links : at[k].pc # "idle" => at[k].t \in Transfers
    BY <1>4 DEF IInv, Typed, Placed
  <2>3. \A f \in Paths : folder[f] # None => folder[f] \in Transfers
    BY DEF IInv, Typed, TypeOK
  <2> QED
    BY <1>1, <1>4, <1>5, <2>1, <2>2, <2>3 DEF IInv, Inductive, FileCounted
<1>10. OkIsStored' /\ WholeFiles'
  BY <1>1, <1>2, <1>3, <1>6 DEF IInv, Inductive, OkIsStored, WholeFiles
<1> QED
  BY <1>7, <1>8, <1>9, <1>10 DEF Inductive

LEMMA LinksKeep ==
  ASSUME IInv, Typed', \/ \E l \in Links : Break(l) \/ Lost(l) \/ Reconnect(l)
                       \/ Restart
  PROVE  Inductive'
<1> USE DEF sender, files
<1>1. UNCHANGED <<snd, fileAcks, incoming, next, got, disk, writer, folder, at>>
  BY DEF Break, Lost, Reconnect, Restart
<1>2. FileCounted' /\ WholeFiles'
  BY <1>1 DEF IInv, Inductive, FileCounted, Failing, WholeFiles
<1>3. Shrinks
  <2> SUFFICES ASSUME NEW k \in Links
               PROVE  \E lost \in Nat : \A i \in 1..Len(net'[k]) :
                        i + lost \in 1..Len(net[k]) /\ net'[k][i] = net[k][i + lost]
    BY DEF Shrinks
  <2>1. net[k] \in Seq(Message) /\ Len(net[k]) \in Nat
    BY LenProperties DEF IInv, Typed, TypeOK
  <2>2. CASE net'[k] = net[k]
    <3>1. \A i \in 1..Len(net'[k]) : i + 0 \in 1..Len(net[k]) /\ net'[k][i] = net[k][i + 0]
      BY <2>1, <2>2
    <3> QED
      BY <3>1
  <2>3. CASE net'[k] = <<>>
    <3>1. Len(net'[k]) = 0
      BY <2>3, EmptySeq
    <3> QED
      BY <3>1
  <2>4. ASSUME NEW lost \in 0..Len(net[k]), net'[k] = SubSeq(net[k], lost + 1, Len(net[k]))
        PROVE  \E d \in Nat : \A i \in 1..Len(net'[k]) :
                 i + d \in 1..Len(net[k]) /\ net'[k][i] = net[k][i + d]
    <3>1. lost + 1 \in Int /\ Len(net[k]) \in Int /\ lost \in Nat
      BY <2>1
    <3>2. \A i \in (lost + 1)..Len(net[k]) : net[k][i] \in Message
      <4> SUFFICES ASSUME NEW i \in (lost + 1)..Len(net[k]) PROVE net[k][i] \in Message
        OBVIOUS
      <4>1. i \in 1..Len(net[k])
        BY <2>1, <3>1
      <4> QED
        BY <2>1, <4>1, ElementOfSeq
    <3>3. /\ Len(net'[k]) = (IF lost + 1 <= Len(net[k]) THEN Len(net[k]) - (lost + 1) + 1 ELSE 0)
          /\ \A i \in 1..(Len(net[k]) - (lost + 1) + 1) : net'[k][i] = net[k][(lost + 1) + i - 1]
      BY <2>4, <3>1, <3>2, SubSeqProperties
    <3>4. ASSUME NEW i \in 1..Len(net'[k])
          PROVE  i + lost \in 1..Len(net[k]) /\ net'[k][i] = net[k][i + lost]
      <4>1. i \in 1..(Len(net[k]) - (lost + 1) + 1) /\ (lost + 1) + i - 1 = i + lost
        BY <2>1, <3>1, <3>3
      <4> QED
        BY <2>1, <3>1, <3>3, <4>1
    <3> QED
      BY <3>1, <3>4
  <2>5. \/ net'[k] = net[k] \/ net'[k] = <<>>
        \/ \E lost \in 0..Len(net[k]) : net'[k] = SubSeq(net[k], lost + 1, Len(net[k]))
    <3>1. net \in [Links -> Seq(Message)]
      BY DEF IInv, Typed, TypeOK
    <3> QED
      BY <3>1 DEF Break, Lost, Reconnect, Restart
  <2> QED
    BY <2>2, <2>3, <2>4, <2>5
<1>4. Routed' /\ StartOnce'
  BY <1>1, <1>3, ShrinkKeeps
<1>5. \A k \in Links : \A a \in acks'[k] : a \in acks[k] \/ a.ok = FALSE
  BY DEF Break, Lost, Reconnect, Restart, IInv, Typed, TypeOK
<1>6. OkIsStored'
  BY <1>1, <1>5 DEF IInv, Inductive, OkIsStored, Stored
<1> QED
  BY <1>2, <1>4, <1>6 DEF Inductive

-----------------------------------------------------------------------------
LEMMA InitInductive == Init => Inductive
<1> SUFFICES ASSUME Init PROVE Inductive
  OBVIOUS
<1>1. /\ \A r \in Threads : at[r].pc = "idle" /\ at[r].ok = FALSE
      /\ Links \subseteq Threads
      /\ \A l \in Links : Len(net[l]) = 0 /\ acks[l] = {}
  BY ValueTypes, EmptySeq DEF Init, Threads
<1>2. /\ \A t \in Transfers : /\ writer[t] = "none" /\ disk[t] = 0 /\ got[t] = 0
                              /\ fileAcks[t] = {} /\ snd[t].result = "none"
      /\ incoming = {} /\ \A f \in Paths : folder[f] = None
  BY DEF Init, SendAt
<1>3. \A l \in Links : 1..Len(net[l]) = {}
  BY <1>1
<1> QED
  BY <1>1, <1>2, <1>3 DEF Inductive, Routed, StartOnce, FileCounted, OkIsStored, WholeFiles

LEMMA NextKeeps ==
  ASSUME IInv, [Next]_vars
  PROVE  IInv'
<1>1. Typed'
  BY NextTyped DEF IInv
<1>2. ASSUME UNCHANGED vars PROVE Inductive'
  <2>1. UNCHANGED <<snd, fileAcks, net, acks, incoming, got, disk, writer, folder, at>>
    BY <1>2 DEF vars, sender, link, files
  <2>2. Routed' /\ StartOnce'
    BY <2>1 DEF IInv, Inductive, Routed, StartOnce, IsStart
  <2>3. FileCounted'
    BY <2>1 DEF IInv, Inductive, FileCounted, Failing
  <2>4. OkIsStored' /\ WholeFiles'
    BY <2>1 DEF IInv, Inductive, OkIsStored, Stored, WholeFiles
  <2> QED
    BY <2>2, <2>3, <2>4 DEF Inductive
<1>3. ASSUME Next PROVE Inductive'
  BY <1>1, <1>3, BeginKeeps, SendFileKeeps, TakeKeeps, ReaderKeeps, AckArrivesKeeps,
     ReceivedKeeps, ExpireKeeps, ExpireAbortKeeps, LinksKeep
  DEF Next
<1> QED
  BY <1>1, <1>2, <1>3 DEF IInv

LEMMA Invariance == Spec => []IInv
<1>1. Init => IInv
  BY InitTyped, InitInductive DEF IInv
<1> QED
  BY <1>1, NextKeeps, PTL DEF Spec

-----------------------------------------------------------------------------
(* What follows.                                                           *)

\* Whatever is about a transfer travels on the link its sender chose, after its
\* one start; a file holds what its reader has counted; an "ok" anywhere is
\* about a stored file (SendFile, handleFile, expireFiles and their races).
THEOREM InductiveHolds == Spec => []Inductive
<1>1. IInv => Inductive
  BY DEF IInv
<1> QED
  BY <1>1, Invariance, PTL

\* A file that has its final name holds every chunk, whatever failed, expired,
\* restarted or was cut off on the way (handleFile's checks, writer.done).
THEOREM WholeFilesHold == Spec => []WholeFiles
<1>1. IInv => WholeFiles
  BY DEF IInv, Inductive
<1> QED
  BY <1>1, Invariance, PTL

\* The steps that change nothing Delivery speaks of.
LEMMA Stutters ==
  ASSUME IInv, UNCHANGED snd,
         \/ UNCHANGED writer
         \/ \E l \in Links : HandleFile(l) /\ ~EndRename(l)
         \/ \E n \in Nodes : \E t \in dead[n] : ExpireAbort(n, t)
  PROVE  UNCHANGED Promise!dVars
<1>1. UNCHANGED [t \in Transfers |-> snd[t].result]
  OBVIOUS
<1>2. \A t \in Transfers : writer'[t] = "stored" <=> writer[t] = "stored"
  <2>1. CASE UNCHANGED writer
    BY <2>1
  <2>2. ASSUME NEW l \in Links, HandleFile(l), ~EndRename(l)
        PROVE  \A t \in Transfers : writer'[t] = "stored" <=> writer[t] = "stored"
    <3>1. l \in Threads
      BY DEF Threads
    <3>2. StartAccepted(l) => at[l].t \in Transfers /\ writer[at[l].t] = "none"
      BY <3>1 DEF StartAccepted, IInv, Typed, Placed, Inductive, StartOnce
    <3>3. writer \in [Transfers -> {"none", "open", "closing", "gone", "stored"}]
      BY DEF IInv, Typed, TypeOK
    <3>4. CASE StartAccepted(l)
      BY <3>2, <3>3, <3>4 DEF StartAccepted
    <3>5. CASE FailAbort(l) \/ EndDiscard(l)
      BY <3>3, <3>5 DEF FailAbort, EndDiscard, Abort
    <3>6. CASE EndCommit(l)
      BY <3>3, <3>6 DEF EndCommit
    <3>7. CASE UNCHANGED writer
      BY <3>7
    <3> QED
      BY <2>2, <3>4, <3>5, <3>6, <3>7
      DEF HandleFile, Take, StartRefused, ChunkRefused, ChunkTaken, Progress, FailForget,
          EndTaken, Acknowledge, files
  <2>3. ASSUME NEW n \in Nodes, NEW t \in dead[n], ExpireAbort(n, t)
        PROVE  \A u \in Transfers : writer'[u] = "stored" <=> writer[u] = "stored"
    BY <2>3 DEF ExpireAbort, Abort, IInv, Typed, TypeOK
  <2> QED
    BY <2>1, <2>2, <2>3
<1>3. UNCHANGED Stored
  BY <1>2 DEF Stored
<1> QED
  BY <1>1, <1>3 DEF Promise!dVars

\* SendFile returns once, and with "ok" only for a stored file.
LEMMA ReturnRefines ==
  ASSUME IInv, NEW t \in Transfers, snd[t].pc # "done", UNCHANGED writer,
         \/ Return(t, "failed")
         \/ Return(t, "ok") /\ TRUE \in fileAcks[t]
  PROVE  Promise!DeliveryNext
<1> DEFINE outcome == [u \in Transfers |-> snd[u].result]
<1>1. snd[t].result = "none" /\ (TRUE \in fileAcks[t] => t \in Stored)
  BY DEF IInv, Inductive, OkIsStored
<1>2. UNCHANGED Stored
  BY DEF Stored
<1>3. ASSUME NEW result \in {"ok", "failed"}, Return(t, result)
      PROVE  Promise!Return(t, result)
  <2>1. \A u \in Transfers : snd'[u].result = IF u = t THEN result ELSE snd[u].result
    BY <1>3 DEF Return, SendAt, IInv, Typed, TypeOK
  <2>2. outcome' = [outcome EXCEPT ![t] = result]
    BY <2>1
  <2>3. outcome[t] = "none"
    BY <1>1
  <2> QED
    BY <1>2, <2>2, <2>3 DEF Promise!Return
<1>4. Promise!GiveUp(t) \/ Promise!Confirm(t)
  BY <1>1, <1>3 DEF Promise!GiveUp, Promise!Confirm
<1> QED
  BY <1>4 DEF Promise!DeliveryNext

\* A sender that goes on returns nothing yet.
LEMMA GoesOn ==
  ASSUME IInv, NEW t \in Transfers, snd[t].pc # "done", UNCHANGED writer,
         NEW v, snd' = [snd EXCEPT ![t] = v], v.result = "none"
  PROVE  UNCHANGED Promise!dVars
<1>1. snd[t].result = "none" /\ snd \in [Transfers -> Sending]
  BY DEF IInv, Inductive, OkIsStored, Typed, TypeOK
<1>2. \A u \in Transfers : snd'[u].result = snd[u].result
  BY <1>1
<1>3. UNCHANGED [u \in Transfers |-> snd[u].result]
  BY <1>2
<1>4. UNCHANGED Stored
  BY DEF Stored
<1> QED
  BY <1>3, <1>4 DEF Promise!dVars

LEMMA RenameRefines ==
  ASSUME IInv, NEW l \in Links, EndRename(l)
  PROVE  [Promise!DeliveryNext]_(Promise!dVars)
<1> DEFINE t == at[l].t
<1>1. l \in Threads /\ t \in Transfers /\ writer[t] = "closing"
  BY DEF EndRename, Threads, IInv, Typed, Placed, Inductive, FileCounted
<1>2. UNCHANGED [u \in Transfers |-> snd[u].result]
  BY DEF EndRename, sender
<1>3. PICK ok \in BOOLEAN : writer' = [writer EXCEPT ![t] = IF ok THEN "stored" ELSE "gone"]
  BY FileTransferAssumption DEF EndRename
<1>4. writer \in [Transfers -> {"none", "open", "closing", "gone", "stored"}]
  BY DEF IInv, Typed, TypeOK
<1>5. CASE ok
  <2>1. t \notin Stored /\ Stored' = Stored \cup {t}
    BY <1>1, <1>3, <1>4, <1>5 DEF Stored
  <2>2. Promise!Store(t)
    BY <1>2, <2>1 DEF Promise!Store
  <2> QED
    BY <1>1, <2>2 DEF Promise!DeliveryNext
<1>6. CASE ~ok
  <2>1. Stored' = Stored
    BY <1>1, <1>3, <1>4, <1>6 DEF Stored
  <2> QED
    BY <1>2, <2>1 DEF Promise!dVars
<1> QED
  BY <1>5, <1>6

LEMMA SenderRefines ==
  ASSUME IInv, NEW t \in Transfers, Begin(t) \/ SendFile(t)
  PROVE  [Promise!DeliveryNext]_(Promise!dVars)
<1>1. UNCHANGED writer
  BY DEF Begin, SendFile, SendStart, SendChunk, SendEnd, Emit, SendFails, SendStops,
         SendConfirmed, files
<1>2. snd[t].pc # "done"
  BY DEF Begin, SendFile, SendStart, SendChunk, SendEnd, SendFails, SendStops, SendConfirmed
<1>3. \/ Return(t, "failed")
      \/ Return(t, "ok") /\ TRUE \in fileAcks[t]
      \/ \E pc \in {"start", "chunk", "wait"} : \E l \in Links \cup {snd[t].link} : \E seq \in Nat :
           snd' = [snd EXCEPT ![t] = SendAt(pc, l, seq, "none")]
  <2>1. snd[t].seq \in Nat /\ snd[t].seq + 1 \in Nat
    BY DEF IInv, Typed, TypeOK, Sending
  <2> QED
    BY <2>1 DEF Begin, SendFile, SendStart, SendChunk, SendEnd, Emit, SendFails, SendStops,
                SendConfirmed
<1>4. \A pc, l, seq : SendAt(pc, l, seq, "none").result = "none"
  BY DEF SendAt
<1>5. CASE Return(t, "failed") \/ (Return(t, "ok") /\ TRUE \in fileAcks[t])
  BY <1>1, <1>2, <1>5, ReturnRefines
<1>6. ASSUME NEW pc, NEW l, NEW seq, snd' = [snd EXCEPT ![t] = SendAt(pc, l, seq, "none")]
      PROVE  UNCHANGED Promise!dVars
  BY <1>1, <1>2, <1>4, <1>6, GoesOn
<1> QED
  BY <1>3, <1>5, <1>6

LEMMA NextRefines ==
  ASSUME IInv, [Next]_vars
  PROVE  [Promise!DeliveryNext]_(Promise!dVars)
<1>1. ASSUME NEW l \in Links, HandleFile(l) PROVE [Promise!DeliveryNext]_(Promise!dVars)
  <2>1. UNCHANGED snd
    BY <1>1 DEF HandleFile, Take, StartRefused, StartAccepted, ChunkRefused, ChunkTaken, Progress,
                FailAbort, FailForget, EndTaken, EndDiscard, EndCommit, EndRename, Acknowledge,
                sender
  <2> QED
    BY <1>1, <2>1, RenameRefines, Stutters
<1>2. ASSUME NEW n \in Nodes, NEW t \in dead[n], ExpireAbort(n, t)
      PROVE  UNCHANGED Promise!dVars
  <2>1. UNCHANGED snd
    BY <1>2 DEF ExpireAbort, sender
  <2> QED
    BY <1>2, <2>1, Stutters
<1>3. CASE \/ UNCHANGED vars
           \/ \E l \in Links : Break(l) \/ Lost(l) \/ Reconnect(l)
           \/ \E l \in Links : \E a \in acks[l] : AckArrives(l, a)
           \/ \E r \in Threads : Received(r)
           \/ Expire \/ Restart
  <2>1. UNCHANGED <<snd, writer>>
    BY <1>3 DEF vars, Break, Lost, Reconnect, AckArrives, Received, Match, Add, Mark, Expire,
                Restart, sender, files
  <2> QED
    BY <2>1, Stutters
<1> QED
  BY <1>1, <1>2, <1>3, SenderRefines DEF Next

\* Senders and folder implement Delivery: a transfer is stored at most once,
\* SendFile returns once, and "ok" only for a stored file.  Every race of a
\* reader with the expiry, of an acknowledgement with the timeout, and of the
\* readers of two nodes is a step of Delivery or leaves it alone.
THEOREM Refinement == Spec => Implements
<1>1. Init => Promise!DeliveryInit
  <2> SUFFICES ASSUME Init PROVE Promise!DeliveryInit
    OBVIOUS
  <2>1. Stored = {}
    BY DEF Init, Stored
  <2>2. [t \in Transfers |-> snd[t].result] = [t \in Transfers |-> "none"]
    BY DEF Init, SendAt
  <2> QED
    BY <2>1, <2>2 DEF Promise!DeliveryInit
<1>2. IInv /\ [Next]_vars => [Promise!DeliveryNext]_(Promise!dVars)
  BY NextRefines
<1> QED
  BY <1>1, <1>2, Invariance, PTL DEF Spec, Implements, Promise!DeliverySpec

-----------------------------------------------------------------------------
(* The list of transfers: StoredNotBusy.                                   *)

Settled == LeavesOnce /\ ListKept /\ BusyFound

LEMMA ThreadFacts == Links \subseteq Threads /\ Nodes \subseteq Threads /\ Links \cap Nodes = {}
BY FileTransferAssumption DEF Threads

\* One reader at most is about t.
LEMMA OneReader ==
  ASSUME Routed, NEW l \in Links, NEW k \in Links,
         at[l].pc # "idle", at[k].pc # "idle", at[l].t = at[k].t
  PROVE  l = k
BY DEF Routed

\* Thread r goes from its place to place p.
Goes(r, p) == at' = [at EXCEPT ![r] = p]

LEMMA GoesTo ==
  ASSUME TypeOK, NEW r \in Threads, NEW p, Goes(r, p)
  PROVE  at'[r] = p /\ \A s \in Threads : s # r => at'[s] = at[s]
BY DEF TypeOK, Goes

\* What a step may do to the table and the writers.
Leaves(r, p) ==
  /\ \A t \in Transfers :
       /\ writer'[t] = "none" => writer[t] = "none"
       /\ t \in incoming' => t \in incoming \/ (writer[t] = "none" /\ writer'[t] = "open")
       /\ writer'[t] \in {"closing", "stored"} =>
            \/ writer[t] \in {"closing", "stored"}
            \/ r \in Links /\ p.t = t /\ p.pc = "rename" /\ t \notin incoming'
  /\ r \in Links => /\ p.pc \in {"commit", "rename"} => p.t \notin incoming'
                    /\ p.pc \in {"chunk", "progress"} => writer'[p.t] \notin {"closing", "stored"}
  /\ r \in Nodes /\ p.pc # "idle" => at[r].pc # "idle" /\ at[r].t = p.t

LEMMA LeavesKept ==
  ASSUME IInv, IInv', LeavesOnce, NEW r \in Threads, NEW p,
         Goes(r, p), Leaves(r, p), UNCHANGED dead
  PROVE  LeavesOnce'
<1>1. at'[r] = p /\ \A s \in Threads : s # r => at'[s] = at[s]
  BY GoesTo DEF IInv, Typed
<1>2. \A n \in Nodes, t \in Transfers : Expired(n, t)' => Expired(n, t)
  BY <1>1, ThreadFacts DEF Expired, Leaves
<1>3. ASSUME NEW t \in Transfers
      PROVE  /\ t \in incoming' \/ writer'[t] = "none" => \A n \in Nodes : ~Expired(n, t)'
             /\ \A n, o \in Nodes : Expired(n, t)' /\ Expired(o, t)' => n = o
  BY <1>2 DEF LeavesOnce, Leaves
<1>4. ASSUME NEW t \in Transfers, t \in incoming' PROVE writer'[t] \notin {"closing", "stored"}
  BY <1>4 DEF LeavesOnce, Leaves
<1>5. ASSUME NEW l \in Links, at'[l].pc \in {"commit", "rename"}
      PROVE  at'[l].t \notin incoming'
  <2>1. CASE l = r
    BY <1>1, <1>5, <2>1 DEF Leaves
  <2>2. CASE l # r
    <3>1. at'[l] = at[l] /\ at[l].t \in Transfers /\ at[l].t \notin incoming
      BY <1>1, <1>5, <2>2, ThreadFacts DEF LeavesOnce, IInv, Typed, Placed
    <3>2. writer[at[l].t] # "none"
      BY <1>5, <3>1 DEF IInv, Inductive, FileCounted
    <3> QED
      BY <3>1, <3>2 DEF Leaves
  <2> QED
    BY <2>1, <2>2
<1>6. ASSUME NEW l \in Links, at'[l].pc \in {"chunk", "progress"}
      PROVE  writer'[at'[l].t] \notin {"closing", "stored"}
  <2>1. CASE l = r
    BY <1>1, <1>6, <2>1 DEF Leaves
  <2>2. CASE l # r
    <3>1. at'[l] = at[l] /\ at[l].t \in Transfers /\ writer[at[l].t] \notin {"closing", "stored"}
      BY <1>1, <1>6, <2>2, ThreadFacts DEF LeavesOnce, IInv, Typed, Placed
    <3>2. ~(r \in Links /\ p.t = at[l].t /\ p.pc = "rename")
      BY <1>1, <1>6, <2>2, <3>1 DEF IInv, Inductive, Routed
    <3> QED
      BY <3>1, <3>2 DEF Leaves
  <2> QED
    BY <2>1, <2>2
<1> QED
  BY <1>3, <1>4, <1>5, <1>6 DEF LeavesOnce

-----------------------------------------------------------------------------
(* Steps that leave the list alone.                                        *)

LEMMA ClaimsKept ==
  ASSUME TypeOK, NEW r \in Threads, NEW p, Goes(r, p), at[r].pc # "mark"
  PROVE  \A i : Claimed(i) => Claimed(i)'
BY GoesTo DEF Claimed

LEMMA ListStays ==
  ASSUME TypeOK, ListKept, NEW r \in Threads, NEW p, Goes(r, p), at[r].pc # "mark",
         UNCHANGED list,
         p.pc = "mark" => p.n \in 1..Len(list) /\ SameFile(list[p.n].of, p.t)
  PROVE  ListKept' /\ \A t \in Transfers : Busy(t)' \subseteq Busy(t)
<1>1. Shown' = Shown
  BY DEF Shown
<1>2. \A i : Claimed(i) => Claimed(i)'
  BY ClaimsKept
<1>3. \A s \in Threads : at'[s].pc = "mark" =>
        at'[s].n \in 1..Len(list) /\ SameFile(list[at'[s].n].of, at'[s].t)
  BY GoesTo DEF ListKept
<1> QED
  BY <1>1, <1>2, <1>3 DEF ListKept, Busy, SameFile

LEMMA FoundKept ==
  ASSUME BusyFound,
         \A t \in Transfers : Alone(t) =>
           \/ Busy(t)' = {}
           \/ /\ Busy(t)' \subseteq Busy(t)
              /\ Racing(t)' \/ Reported(t)' => Racing(t) \/ Reported(t)
  PROVE  BusyFound'
BY DEF BusyFound, Alone, SameFile

\* A reader that is not in OnReceived goes on.
LEMMA ReaderFinds ==
  ASSUME IInv, Settled, NEW l \in Links, NEW p, Goes(l, p), UNCHANGED list,
         at[l].pc \notin {"match", "add", "mark"}, p.pc \notin {"add", "mark"},
         p.pc \in Late => p.t \in Transfers
                          /\ (p.t \in incoming \/ (at[l].pc \in Late /\ at[l].t = p.t)),
         \A t \in Stored' : t \in Stored \/ (p.pc = "match" /\ p.t = t)
  PROVE  ListKept' /\ BusyFound'
<1>1. l \in Threads /\ TypeOK /\ ListKept
  BY ThreadFacts DEF Settled, IInv, Typed
<1>2. ListKept' /\ \A t \in Transfers : Busy(t)' \subseteq Busy(t)
  BY <1>1, ListStays
<1>3. at'[l] = p /\ \A s \in Threads : s # l => at'[s] = at[s]
  BY <1>1, GoesTo
<1>4. ASSUME NEW t \in Transfers, Racing(t)' PROVE Racing(t)
  <2>1. PICK k \in Links, n \in Nodes :
          /\ at'[k].t = t /\ at'[k].pc \in Late
          /\ at'[n].t = t /\ at'[n].pc \in {"add", "mark"}
    BY <1>4 DEF Racing, Late
  <2>2. at'[n] = at[n] /\ Expired(n, t)
    BY <1>3, <2>1, ThreadFacts DEF Expired
  <2>3. t \notin incoming
    BY <2>2 DEF Settled, LeavesOnce
  <2>4. at[k].t = t /\ at[k].pc \in Late
    BY <1>3, <2>1, <2>3, ThreadFacts
  <2> QED
    BY <2>1, <2>2, <2>4 DEF Racing, Late
<1>5. ASSUME NEW t \in Transfers, Reported(t)' PROVE Reported(t)
  BY <1>3, <1>5, ThreadFacts DEF Reported
<1> QED
  BY <1>2, <1>4, <1>5, FoundKept DEF Settled

-----------------------------------------------------------------------------
(* The readers.                                                            *)

LEMMA TakeSettles ==
  ASSUME IInv, IInv', Settled, NEW l \in Links, Take(l)
  PROVE  Settled'
<1>1. CASE UNCHANGED at
  BY <1>1 DEF Take, Settled, LeavesOnce, ListKept, BusyFound, files, Expired, Claimed, Busy, Shown,
              Racing, Reported, Stored, Alone, SameFile
<1>2. CASE ~UNCHANGED at
  <2> DEFINE m == Head(net[l])
             p == In(m.kind, m.t, m.seq, FALSE)
  <2>1. /\ Goes(l, p) /\ (m.kind = "start" \/ m.t \in incoming)
        /\ UNCHANGED <<list, dead, writer, incoming>> /\ at[l] = Idle
    BY <1>2 DEF Take, Move, Goes, files
  <2>2. m.kind \in {"start", "chunk", "end"} /\ m.t \in Transfers
    <3>1. m \in Message
      BY HeadTailProperties DEF Take, IInv, Typed, TypeOK
    <3> QED
      BY <3>1 DEF Message
  <2>3. p.pc = m.kind /\ p.t = m.t
    BY DEF In
  <2> HIDE DEF p, m
  <2>4. Leaves(l, p)
    BY <2>1, <2>2, <2>3, ThreadFacts DEF Leaves, Settled, LeavesOnce
  <2>5. LeavesOnce'
    BY <2>1, <2>4, LeavesKept, ThreadFacts DEF Settled
  <2>6. UNCHANGED Stored
    BY <2>1 DEF Stored
  <2>7. ListKept' /\ BusyFound'
    <3>1. at[l].pc \notin {"match", "add", "mark"} /\ p.pc \notin {"add", "mark"}
      BY <2>1, <2>2, <2>3, ValueTypes
    <3>2. p.pc \in Late => p.t \in Transfers /\ p.t \in incoming
      BY <2>1, <2>2, <2>3 DEF Late
    <3> QED
      BY <2>1, <2>6, <3>1, <3>2, ReaderFinds
  <2> QED
    BY <2>5, <2>7 DEF Settled
<1> QED
  BY <1>1, <1>2

\* The reader's other steps, but those of the callbacks.
LEMMA ReaderSettles ==
  ASSUME IInv, IInv', Settled, NEW l \in Links,
         \/ StartRefused(l) \/ StartAccepted(l) \/ ChunkRefused(l) \/ ChunkTaken(l)
         \/ FailAbort(l) \/ FailForget(l) \/ EndTaken(l) \/ EndDiscard(l)
         \/ EndCommit(l) \/ EndRename(l) \/ Acknowledge(l)
  PROVE  Settled'
<1> DEFINE t == at[l].t
<1>1. /\ l \in Threads /\ at[l].pc # "idle" /\ t \in Transfers
      /\ at[l].pc \notin {"match", "add", "mark"} /\ UNCHANGED <<list, dead>>
  BY ThreadFacts DEF StartRefused, StartAccepted, ChunkRefused, ChunkTaken, FailAbort, FailForget,
     EndTaken, EndDiscard, EndCommit, EndRename, Acknowledge, IInv, Typed, Placed
<1>2. /\ writer \in [Transfers -> {"none", "open", "closing", "gone", "stored"}]
      /\ incoming \subseteq Transfers
  BY DEF IInv, Typed, TypeOK
<1> DEFINE Fits(p) ==
             /\ Goes(l, p) /\ Leaves(l, p) /\ p.pc \notin {"add", "mark"}
             /\ p.pc \in Late => p.t = t /\ at[l].pc \in Late
             /\ \A u \in Stored' : u \in Stored \/ (p.pc = "match" /\ p.t = u)
<1>3. ASSUME NEW p, Fits(p) PROVE Settled'
  <2>1. LeavesOnce'
    BY <1>1, <1>3, LeavesKept DEF Settled
  <2>2. ListKept' /\ BusyFound'
    BY <1>1, <1>3, ReaderFinds
  <2> QED
    BY <2>1, <2>2 DEF Settled
<1>4. l \notin Nodes
  BY ThreadFacts
<1>5. CASE StartRefused(l) \/ Acknowledge(l)
  <2>1. Goes(l, Idle) /\ UNCHANGED <<writer, incoming>>
    BY <1>5 DEF StartRefused, Acknowledge, Goes, files
  <2>2. Fits(Idle)
    BY <1>4, <2>1, ValueTypes DEF Leaves, Late, Stored
  <2> QED
    BY <1>3, <2>2
<1>6. CASE StartAccepted(l)
  <2>1. /\ Goes(l, Idle) /\ incoming' = incoming \cup {t} /\ writer[t] = "none"
        /\ writer' = [writer EXCEPT ![t] = "open"]
    BY <1>1, <1>6 DEF StartAccepted, Goes, IInv, Inductive, StartOnce
  <2>2. Fits(Idle)
    BY <1>1, <1>2, <1>4, <2>1, ValueTypes DEF Leaves, Late, Stored
  <2> QED
    BY <1>3, <2>2
<1>7. CASE ChunkRefused(l) \/ ChunkTaken(l)
  <2>1. PICK pc \in {"abort", "progress"} : Move(l, pc, t, 0, FALSE)
    BY <1>7 DEF ChunkRefused, ChunkTaken
  <2> DEFINE p == In(pc, t, 0, FALSE)
  <2>2. Goes(l, p) /\ p.pc = pc /\ p.t = t
    BY <2>1 DEF Goes, Move, In
  <2> HIDE DEF p
  <2>3. UNCHANGED <<writer, incoming>> /\ at[l].pc = "chunk"
    BY <1>7 DEF ChunkRefused, ChunkTaken, files
  <2>4. writer[t] \notin {"closing", "stored"}
    BY <2>3 DEF Settled, LeavesOnce
  <2>5. Fits(p)
    BY <1>4, <2>2, <2>3, <2>4 DEF Leaves, Late, Stored
  <2> QED
    BY <1>3, <2>5
<1>8. CASE FailAbort(l) \/ FailForget(l) \/ EndTaken(l) \/ EndDiscard(l)
  <2>1. PICK pc \in {"forget", "match", "commit", "discard"} :
          Move(l, pc, t, 0, FALSE) /\ (pc = "commit" => EndTaken(l))
    BY <1>8 DEF FailAbort, FailForget, EndTaken, EndDiscard
  <2> DEFINE p == In(pc, t, 0, FALSE)
  <2>2. Goes(l, p) /\ p.pc = pc /\ p.t = t
    BY <2>1 DEF Goes, Move, In
  <2> HIDE DEF p
  <2>3. /\ writer' = writer \/ writer' = [writer EXCEPT ![t] = "gone"]
        /\ incoming' \subseteq incoming /\ (EndTaken(l) => t \notin incoming')
        /\ at[l].pc \in {"abort", "forget", "end", "discard"}
    BY <1>8 DEF FailAbort, FailForget, EndTaken, EndDiscard, Abort
  <2>4. Fits(p)
    BY <1>1, <1>2, <1>4, <2>1, <2>2, <2>3 DEF Leaves, Late, Stored
  <2> QED
    BY <1>3, <2>4
<1>9. CASE EndCommit(l)
  <2>1. at[l].pc = "commit" /\ UNCHANGED incoming /\ t \notin incoming
    BY <1>9 DEF EndCommit, Settled, LeavesOnce
  <2>2. CASE \E n \in FreePath(t) :
               writer' = [writer EXCEPT ![t] = "closing"] /\ Move(l, "rename", t, n, FALSE)
    <3>1. PICK n \in FreePath(t) :
            writer' = [writer EXCEPT ![t] = "closing"] /\ Move(l, "rename", t, n, FALSE)
      BY <2>2
    <3> DEFINE p == In("rename", t, n, FALSE)
    <3>2. Goes(l, p) /\ p.pc = "rename" /\ p.t = t
      BY <3>1 DEF Goes, Move, In
    <3> HIDE DEF p
    <3>3. Fits(p)
      BY <1>1, <1>2, <1>4, <2>1, <3>1, <3>2 DEF Leaves, Late, Stored
    <3> QED
      BY <1>3, <3>3
  <2>3. CASE Move(l, "match", t, 0, FALSE)
             /\ (writer' = writer \/ writer' = [writer EXCEPT ![t] = "gone"])
    <3> DEFINE p == In("match", t, 0, FALSE)
    <3>1. Goes(l, p) /\ p.pc = "match" /\ p.t = t
      BY <2>3 DEF Goes, Move, In
    <3> HIDE DEF p
    <3>2. Fits(p)
      BY <1>1, <1>2, <1>4, <2>1, <2>3, <3>1 DEF Leaves, Late, Stored
    <3> QED
      BY <1>3, <3>2
  <2> QED
    BY <1>9, <2>2, <2>3 DEF EndCommit
<1>10. CASE EndRename(l)
  <2>1. PICK ok \in BOOLEAN : /\ writer' = [writer EXCEPT ![t] = IF ok THEN "stored" ELSE "gone"]
                              /\ Move(l, "match", t, 0, ok)
    BY <1>10, FileTransferAssumption DEF EndRename
  <2> DEFINE p == In("match", t, 0, ok)
  <2>2. Goes(l, p) /\ p.pc = "match" /\ p.t = t
    BY <2>1 DEF Goes, Move, In
  <2> HIDE DEF p
  <2>3. at[l].pc = "rename" /\ UNCHANGED incoming /\ writer[t] = "closing"
    BY <1>10 DEF EndRename, IInv, Inductive, FileCounted
  <2>4. \A u \in Transfers : u # t => writer'[u] = writer[u]
    BY <1>2, <2>1
  <2>5. writer'[t] \in {"stored", "gone"}
    BY <1>1, <1>2, <2>1
  <2>6. Fits(p)
    BY <1>1, <1>4, <2>2, <2>3, <2>4, <2>5 DEF Leaves, Late, Stored
  <2> QED
    BY <1>3, <2>6
<1> QED
  BY <1>5, <1>6, <1>7, <1>8, <1>9, <1>10

-----------------------------------------------------------------------------
(* The callbacks: OnProgress and OnReceived.                               *)

\* What appending an entry does to the list and to what is shown of it.
LEMMA ListGrows ==
  ASSUME TypeOK, NEW e \in Entry, list' = Append(list, e)
  PROVE  /\ Len(list) \in Nat /\ Len(list') = Len(list) + 1
         /\ \A i \in 1..Len(list) : i \in 1..Len(list') /\ i # Len(list) + 1 /\ list'[i] = list[i]
         /\ Len(list) + 1 \in 1..Len(list') /\ list'[Len(list) + 1] = e
         /\ \A i \in Shown' : i = Len(list) + 1 \/ (i \in Shown /\ list'[i] = list[i])
<1>1. list \in Seq(Entry) /\ Len(list) \in Nat /\ ListLimit \in Nat
  BY LenProperties, FileTransferAssumption DEF TypeOK
<1>2. Len(list') = Len(list) + 1
  BY <1>1, AppendProperties
<1>3. \A i \in 1..Len(list) : list'[i] = list[i]
  BY <1>1, AppendProperties
<1>4. list'[Len(list) + 1] = e
  BY <1>1, AppendProperties
<1>5. \A i \in 1..Len(list) : i \in 1..Len(list') /\ i # Len(list) + 1
  BY <1>1, <1>2
<1>6. ASSUME NEW i \in Shown' PROVE i = Len(list) + 1 \/ i \in Shown
  BY <1>1, <1>2, <1>6 DEF Shown
<1>7. Shown \subseteq 1..Len(list)
  BY DEF Shown
<1>8. Len(list) + 1 \in 1..Len(list')
  BY <1>1, <1>2
<1> QED
  BY <1>1, <1>2, <1>3, <1>4, <1>5, <1>6, <1>7, <1>8

\* A thread in OnReceived goes on: the table and the writers are as before.
LEMMA ReceivedLeaves ==
  ASSUME IInv, IInv', LeavesOnce, NEW r \in Threads, NEW p, Goes(r, p),
         UNCHANGED <<dead, writer, incoming>>,
         p.pc \notin {"commit", "rename", "chunk", "progress"},
         p.pc # "idle" => at[r].pc # "idle" /\ at[r].t = p.t
  PROVE  LeavesOnce'
<1>1. Leaves(r, p)
  BY DEF Leaves
<1> QED
  BY <1>1, LeavesKept

\* OnReceived goes on past its search: nothing is reported that was not.
LEMMA PastSearch ==
  ASSUME TypeOK, NEW r \in Threads, NEW p, Goes(r, p), UNCHANGED writer,
         at[r].pc \in {"add", "mark"}, p.pc \notin Late,
         p.pc \in {"add", "mark"} => p.t = at[r].t
  PROVE  \A t \in Transfers : Racing(t)' \/ Reported(t)' => Racing(t) \/ Reported(t)
<1>1. at'[r] = p /\ \A s \in Threads : s # r => at'[s] = at[s]
  BY GoesTo
<1>2. ASSUME NEW t \in Transfers, Racing(t)' PROVE Racing(t)
  <2>1. PICK k \in Links, n \in Nodes :
          /\ at'[k].t = t /\ at'[k].pc \in Late
          /\ at'[n].t = t /\ at'[n].pc \in {"add", "mark"}
    BY <1>2 DEF Racing, Late
  <2>2. at'[k] = at[k]
    BY <1>1, <2>1, ThreadFacts
  <2>3. at[n].t = t /\ at[n].pc \in {"add", "mark"}
    BY <1>1, <2>1, ThreadFacts
  <2> QED
    BY <2>1, <2>2, <2>3 DEF Racing, Late
<1>3. ASSUME NEW t \in Transfers, Reported(t)' PROVE Reported(t)
  <2>1. t \in Stored
    BY <1>3 DEF Reported, Stored
  <2>2. \A l \in Links : ~(at[l].pc = "match" /\ at[l].t = t)
    BY <1>1, <1>3, ThreadFacts DEF Reported
  <2> QED
    BY <2>1, <2>2 DEF Reported
<1> QED
  BY <1>2, <1>3

LEMMA AddSettles ==
  ASSUME IInv, IInv', Settled, NEW r \in Threads, Add(r)
  PROVE  Settled'
<1>0. PICK t, k : at[r].t = t /\ Len(list) + 1 = k
  OBVIOUS
<1> DEFINE e == [of |-> t, progress |-> FALSE, state |-> "active"]
           p == In("mark", t, k, at[r].ok)
<1>1. /\ Goes(r, p) /\ list' = Append(list, e) /\ at[r].pc = "add" /\ t \in Transfers
      /\ UNCHANGED <<dead, writer, incoming>> /\ TypeOK
  BY <1>0 DEF Add, Move, Goes, files, IInv, Typed, Placed
<1>2. p.pc = "mark" /\ p.t = t /\ p.n = k /\ e.of = t /\ ~e.progress
  BY DEF In
<1>3. e \in Entry
  BY <1>1 DEF Entry
<1> HIDE DEF p, e
<1>4. /\ \A i \in 1..Len(list) : i \in 1..Len(list') /\ list'[i] = list[i]
      /\ k \in 1..Len(list') /\ list'[k] = e
      /\ \A i \in Shown' : i = k \/ (i \in Shown /\ list'[i] = list[i])
  BY <1>0, <1>1, <1>3, ListGrows
<1>5. at'[r] = p /\ \A s \in Threads : s # r => at'[s] = at[s]
  BY <1>1, GoesTo
<1>6. Claimed(k)' /\ \A i : Claimed(i) => Claimed(i)'
  <2>1. Claimed(k)'
    BY <1>2, <1>5 DEF Claimed
  <2>2. \A i : Claimed(i) => Claimed(i)'
    BY <1>1, ClaimsKept
  <2> QED
    BY <2>1, <2>2
<1>7. ListKept'
  <2>1. ASSUME NEW i \in Shown', NEW j \in Shown', list'[i].progress, list'[j].progress,
               list'[i].of = list'[j].of
        PROVE  i = j
    <3>1. i # k /\ j # k
      BY <1>2, <1>4, <2>1
    <3> QED
      BY <1>4, <2>1, <3>1 DEF Settled, ListKept
  <2>2. \A i \in Shown' : list'[i].state = "active" /\ ~list'[i].progress => Claimed(i)'
    BY <1>4, <1>6 DEF Settled, ListKept
  <2>3. ASSUME NEW s \in Threads, at'[s].pc = "mark"
        PROVE  at'[s].n \in 1..Len(list') /\ SameFile(list'[at'[s].n].of, at'[s].t)
    <3>1. CASE s = r
      BY <1>2, <1>4, <1>5, <3>1 DEF SameFile
    <3>2. CASE s # r
      BY <1>4, <1>5, <2>3, <3>2 DEF Settled, ListKept
    <3> QED
      BY <3>1, <3>2
  <2> QED
    BY <2>1, <2>2, <2>3 DEF ListKept
<1>8. \A u \in Transfers : Busy(u)' \subseteq Busy(u)
  BY <1>4, <1>6 DEF Busy
<1>9. BusyFound'
  <2>1. p.pc \notin Late
    BY <1>2 DEF Late
  <2>2. \A u \in Transfers : Racing(u)' \/ Reported(u)' => Racing(u) \/ Reported(u)
    BY <1>0, <1>1, <1>2, <2>1, PastSearch
  <2> QED
    BY <1>8, <2>2, FoundKept DEF Settled
<1>10. LeavesOnce'
  BY <1>0, <1>1, <1>2, ReceivedLeaves DEF Settled
<1> QED
  BY <1>7, <1>9, <1>10 DEF Settled

LEMMA MarkSettles ==
  ASSUME IInv, IInv', Settled, NEW r \in Threads, Mark(r)
  PROVE  Settled'
<1> DEFINE k == at[r].n
           state == IF at[r].ok THEN "done" ELSE "failed"
<1>1. /\ list' = [list EXCEPT ![k].state = state] /\ at[r].pc = "mark" /\ TypeOK
      /\ UNCHANGED <<dead, writer, incoming>> /\ k \in 1..Len(list)
  BY DEF Mark, files, IInv, Typed, Placed
<1>2. PICK p : /\ Goes(r, p) /\ p.pc \in {"idle", "ack"}
               /\ p.pc = "ack" => p.t = at[r].t
  <2>1. CASE Move(r, "ack", at[r].t, 0, at[r].ok)
    <3> DEFINE p == In("ack", at[r].t, 0, at[r].ok)
    <3>1. Goes(r, p) /\ p.pc = "ack" /\ p.t = at[r].t
      BY <2>1 DEF Move, Goes, In
    <3> HIDE DEF p
    <3> QED
      BY <3>1
  <2>2. CASE at' = [at EXCEPT ![r] = Idle]
    BY <2>2, ValueTypes DEF Goes
  <2> QED
    BY <2>1, <2>2 DEF Mark
<1>3. /\ Len(list') = Len(list) /\ Shown' = Shown
      /\ \A i \in 1..Len(list) : /\ list'[i].of = list[i].of /\ list'[i].progress = list[i].progress
                                 /\ i # k => list'[i] = list[i]
      /\ list'[k].state # "active"
  <2>1. list \in [1..Len(list) -> Entry] /\ Len(list) \in Nat
    BY <1>1, LenProperties DEF TypeOK
  <2>2. /\ list' \in Seq(Entry) /\ DOMAIN list' = DOMAIN list
        /\ \A i \in 1..Len(list) : list'[i] = IF i = k THEN [list[k] EXCEPT !.state = state] ELSE list[i]
    BY <1>1, <2>1 DEF IInv, Typed, TypeOK
  <2>3. Len(list') = Len(list)
    BY <1>1, <2>2, LenProperties DEF TypeOK
  <2>4. list[k] \in Entry
    BY <1>1, <2>1
  <2>5. /\ [list[k] EXCEPT !.state = state].of = list[k].of
        /\ [list[k] EXCEPT !.state = state].progress = list[k].progress
        /\ [list[k] EXCEPT !.state = state].state # "active"
    BY <2>4 DEF Entry
  <2> QED
    BY <1>1, <2>2, <2>3, <2>5 DEF Shown
<1> HIDE DEF state
<1>4. at'[r] = p /\ \A s \in Threads : s # r => at'[s] = at[s]
  BY <1>1, <1>2, GoesTo
<1>5. \A i : i # k /\ Claimed(i) => Claimed(i)'
  BY <1>4 DEF Claimed
<1>6. Shown \subseteq 1..Len(list)
  BY DEF Shown
<1>7. ListKept'
  <2>1. \A i, j \in Shown' :
          list'[i].progress /\ list'[j].progress /\ list'[i].of = list'[j].of => i = j
    BY <1>3, <1>6 DEF Settled, ListKept
  <2>2. \A i \in Shown' : list'[i].state = "active" /\ ~list'[i].progress => Claimed(i)'
    BY <1>3, <1>5, <1>6 DEF Settled, ListKept
  <2>3. \A s \in Threads : at'[s].pc = "mark" =>
          at'[s].n \in 1..Len(list') /\ SameFile(list'[at'[s].n].of, at'[s].t)
    BY <1>2, <1>3, <1>4 DEF Settled, ListKept, SameFile
  <2> QED
    BY <2>1, <2>2, <2>3 DEF ListKept
<1>8. \A u \in Transfers : Busy(u)' \subseteq Busy(u)
  BY <1>3, <1>5, <1>6 DEF Busy
<1>9. BusyFound'
  <2>1. p.pc \notin Late
    BY <1>2 DEF Late
  <2>2. \A u \in Transfers : Racing(u)' \/ Reported(u)' => Racing(u) \/ Reported(u)
    BY <1>1, <1>2, <2>1, PastSearch
  <2> QED
    BY <1>8, <2>2, FoundKept DEF Settled
<1>10. LeavesOnce'
  BY <1>1, <1>2, ReceivedLeaves DEF Settled
<1> QED
  BY <1>7, <1>9, <1>10 DEF Settled

\* OnReceived's search takes the entry of the progress, if no other call has
\* taken it, or there is none.
LEMMA SearchFinds ==
  ASSUME IInv, Settled, NEW r \in Threads, NEW p, Goes(r, p), at[r].pc = "match",
         NEW t \in Transfers, at[r].t = t, UNCHANGED <<list, writer>>, Alone(t),
         \A u \in Transfers : Busy(u)' \subseteq Busy(u),
         \/ SameName(t) = {}
         \/ /\ p.pc = "mark" /\ p.t = t /\ p.n \in Newest(SameName(t))
  PROVE  \/ Busy(t)' = {}
         \/ Racing(t)' \/ Reported(t)' => Racing(t) \/ Reported(t)
<1>1. t \in Transfers /\ TypeOK /\ Routed
  BY DEF IInv, Typed, Placed, Inductive
<1>2. at'[r] = p /\ \A s \in Threads : s # r => at'[s] = at[s]
  BY <1>1, GoesTo
<1>3. Busy(t) \subseteq SameName(t)
  BY DEF Busy, SameName
<1>4. ASSUME p.pc = "mark", p.t = t, p.n \in Newest(SameName(t)), ~Claimed(p.n)
      PROVE  Busy(t)' = {}
  <2>1. p.n \in Shown /\ list[p.n].state = "active" /\ list[p.n].of = t
    <3>1. p.n \in SameName(t)
      BY <1>4 DEF Newest
    <3>2. list[p.n].of \in Transfers
      <4>1. p.n \in 1..Len(list) /\ list \in Seq(Entry)
        BY <1>1, <3>1 DEF SameName, Shown, TypeOK
      <4>2. list[p.n] \in Entry
        BY <4>1, ElementOfSeq
      <4> QED
        BY <4>2 DEF Entry
    <3> QED
      BY <3>1, <3>2 DEF SameName, Alone, SameFile
  <2>2. p.n \in Busy(t)
    BY <1>4, <2>1 DEF Busy
  <2>3. \A i \in Busy(t) : i = p.n
    BY <2>2 DEF Busy, Settled, ListKept
  <2>4. Claimed(p.n)'
    BY <1>2, <1>4 DEF Claimed
  <2>5. p.n \notin Busy(t)'
    BY <2>4 DEF Busy
  <2> QED
    BY <1>1, <2>3, <2>5
<1>5. ASSUME p.pc = "mark", p.t = t, p.n \in Newest(SameName(t)), Claimed(p.n)
      PROVE  \/ Busy(t)' = {}
             \/ Racing(t)' \/ Reported(t)' => Racing(t) \/ Reported(t)
  <2>1. PICK s \in Threads : at[s].pc = "mark" /\ at[s].n = p.n
    BY <1>5 DEF Claimed
  <2>2. at[s].t = t
    <3>1. at[s].t \in Transfers
      BY <2>1 DEF IInv, Typed, Placed
    <3>2. SameFile(list[p.n].of, at[s].t)
      BY <2>1 DEF Settled, ListKept
    <3>3. p.n \in SameName(t)
      BY <1>5 DEF Newest
    <3> QED
      BY <3>1, <3>2, <3>3 DEF SameName, Alone, SameFile
  <2>3. s # r
    BY <2>1
  <2>4. CASE r \in Links
    <3>1. s \in Nodes
      BY <1>1, <2>1, <2>2, <2>3, <2>4, OneReader DEF Threads
    <3>2. Racing(t)
      BY <2>1, <2>2, <2>4, <3>1 DEF Racing, Late
    <3> QED
      BY <1>1, <3>2 DEF Settled, BusyFound
  <2>5. CASE r \notin Links
    <3>1. r \in Nodes
      BY <2>5 DEF Threads
    <3>2. s \in Links
      <4>1. s \in Nodes => Expired(s, t) /\ Expired(r, t)
        BY <2>1, <2>2 DEF Expired
      <4>2. s \notin Nodes
        BY <1>1, <2>3, <3>1, <4>1 DEF Settled, LeavesOnce
      <4> QED
        BY <4>2 DEF Threads
    <3>3. \A l \in Links : at'[l] = at[l] /\ at'[l].t = t => at'[l].pc \notin Late
      <4> SUFFICES ASSUME NEW l \in Links, at'[l] = at[l], at'[l].t = t PROVE at'[l].pc \notin Late
        OBVIOUS
      <4>1. CASE at[l].pc = "idle"
        BY <4>1 DEF Late
      <4>2. CASE at[l].pc # "idle"
        <5>1. l = s
          BY <1>1, <2>1, <2>2, <3>2, <4>2, OneReader
        <5> QED
          BY <2>1, <5>1 DEF Late
      <4> QED
        BY <4>1, <4>2
    <3>4. \A l \in Links : at'[l] = at[l]
      BY <1>2, <2>5, ThreadFacts
    <3>5. ~Racing(t)'
      BY <3>3, <3>4 DEF Racing, Late
    <3>6. Reported(t)' => Reported(t)
      BY <3>4 DEF Reported, Stored
    <3> QED
      BY <3>5, <3>6
  <2> QED
    BY <2>4, <2>5
<1>6. CASE SameName(t) = {}
  BY <1>1, <1>3, <1>6
<1> QED
  BY <1>4, <1>5, <1>6

LEMMA MatchSettles ==
  ASSUME IInv, IInv', Settled, NEW r \in Threads, Match(r)
  PROVE  Settled'
<1>0. PICK t : at[r].t = t
  OBVIOUS
<1>1. /\ at[r].pc = "match" /\ t \in Transfers /\ TypeOK
      /\ UNCHANGED <<list, dead, writer, incoming>>
  BY <1>0 DEF Match, files, IInv, Typed, Placed
<1>2. PICK p : /\ Goes(r, p) /\ p.pc \in {"add", "mark"} /\ p.t = t
               /\ \/ SameName(t) = {} /\ p.pc = "add"
                  \/ p.pc = "mark" /\ p.n \in Newest(SameName(t))
  <2>1. CASE SameName(t) = {} /\ Move(r, "add", t, 0, at[r].ok)
    <3> DEFINE p == In("add", t, 0, at[r].ok)
    <3>1. Goes(r, p) /\ p.pc = "add" /\ p.t = t
      BY <2>1 DEF Move, Goes, In
    <3> HIDE DEF p
    <3> QED
      BY <2>1, <3>1
  <2>2. ASSUME NEW i \in Newest(SameName(t)), Move(r, "mark", t, i, at[r].ok)
        PROVE  \E p : Goes(r, p) /\ p.pc = "mark" /\ p.t = t /\ p.n \in Newest(SameName(t))
    <3> DEFINE p == In("mark", t, i, at[r].ok)
    <3>1. Goes(r, p) /\ p.pc = "mark" /\ p.t = t /\ p.n = i
      BY <2>2 DEF Move, Goes, In
    <3> HIDE DEF p
    <3> QED
      BY <2>2, <3>1
  <2> QED
    BY <1>0, <2>1, <2>2 DEF Match
<1>3. ListKept' /\ \A u \in Transfers : Busy(u)' \subseteq Busy(u)
  <2>1. p.pc = "mark" => p.n \in 1..Len(list) /\ SameFile(list[p.n].of, p.t)
    BY <1>2 DEF Newest, SameName, Shown, SameFile
  <2> QED
    BY <1>1, <1>2, <2>1, ListStays DEF Settled
<1>4. at'[r] = p /\ \A s \in Threads : s # r => at'[s] = at[s]
  BY <1>1, <1>2, GoesTo
<1>5. ASSUME NEW u \in Transfers, u # t
      PROVE  Racing(u)' \/ Reported(u)' => Racing(u) \/ Reported(u)
  <2>1. \A s \in Threads : at'[s].t = u => at'[s] = at[s]
    BY <1>2, <1>4, <1>5
  <2>2. Racing(u)' => Racing(u)
    BY <2>1, ThreadFacts DEF Racing
  <2>3. Reported(u)' => Reported(u)
    <3>0. UNCHANGED Stored
      BY <1>1 DEF Stored
    <3> SUFFICES ASSUME Reported(u)', NEW l \in Links, at[l].pc = "match", at[l].t = u
                 PROVE  FALSE
      BY <3>0 DEF Reported
    <3>1. l # r /\ l \in Threads
      BY <1>0, <1>5, ThreadFacts
    <3> QED
      BY <1>4, <3>1 DEF Reported
  <2> QED
    BY <2>2, <2>3
<1>6. ASSUME Alone(t)
      PROVE  \/ Busy(t)' = {}
             \/ Racing(t)' \/ Reported(t)' => Racing(t) \/ Reported(t)
  BY <1>0, <1>1, <1>2, <1>3, <1>6, SearchFinds
<1>7. BusyFound'
  <2>1. \A u \in Transfers : Alone(u) =>
          \/ Busy(u)' = {}
          \/ /\ Busy(u)' \subseteq Busy(u)
             /\ Racing(u)' \/ Reported(u)' => Racing(u) \/ Reported(u)
    BY <1>3, <1>5, <1>6
  <2> QED
    BY <2>1, FoundKept DEF Settled
<1>8. LeavesOnce'
  BY <1>0, <1>1, <1>2, ReceivedLeaves DEF Settled
<1> QED
  BY <1>3, <1>7, <1>8 DEF Settled

\* OnProgress makes an entry only for a transfer that is not stored, and whose
\* reader is then done with the chunk.
LEMMA ProgressSettles ==
  ASSUME IInv, IInv', Settled, NEW l \in Links, Progress(l)
  PROVE  Settled'
<1>0. PICK t, k : at[l].t = t /\ Len(list) + 1 = k
  OBVIOUS
<1> DEFINE e == [of |-> t, progress |-> TRUE, state |-> "active"]
<1>1. /\ Goes(l, Idle) /\ at[l].pc = "progress" /\ t \in Transfers /\ TypeOK /\ l \in Threads
      /\ UNCHANGED <<dead, writer, incoming>>
  BY <1>0, ThreadFacts DEF Progress, Goes, files, IInv, Typed, Placed
<1>2. at'[l] = Idle /\ \A s \in Threads : s # l => at'[s] = at[s]
  BY <1>1, GoesTo
<1>3. \A i : Claimed(i) => Claimed(i)'
  BY <1>1, ClaimsKept
<1>4. ASSUME NEW u \in Transfers, Racing(u)' PROVE Racing(u)
  BY <1>2, <1>4, ThreadFacts, ValueTypes DEF Racing, Late
<1>5. ASSUME NEW u \in Transfers, Reported(u)' PROVE Reported(u)
  BY <1>1, <1>2, <1>5, ThreadFacts DEF Reported, Stored
<1>6. ~Racing(t)' /\ ~Reported(t)'
  <2>1. t \notin Stored
    BY <1>0, <1>1 DEF Settled, LeavesOnce, Stored
  <2>2. \A m \in Links : m # l /\ at[m].t = t => at[m].pc = "idle"
    BY <1>0, <1>1 DEF IInv, Inductive, Routed
  <2>3. \A m \in Links : at'[m].t = t => at'[m].pc = "idle"
    BY <1>2, <2>2, ThreadFacts, ValueTypes
  <2> QED
    BY <1>1, <2>1, <2>3 DEF Racing, Late, Reported, Stored
<1>7. LeavesOnce'
  BY <1>1, ValueTypes, ReceivedLeaves DEF Settled
<1>8. CASE UNCHANGED list
  <2>1. ListKept' /\ \A u \in Transfers : Busy(u)' \subseteq Busy(u)
    BY <1>1, <1>8, ValueTypes, ListStays DEF Settled
  <2>2. BusyFound'
    BY <1>4, <1>5, <2>1, FoundKept DEF Settled
  <2> QED
    BY <1>7, <2>1, <2>2 DEF Settled
<1>9. CASE list' = Append(list, e) /\ ~(\E i \in Shown : list[i].of = t /\ list[i].progress)
  <2>1. e \in Entry /\ e.of = t /\ e.progress
    BY <1>1 DEF Entry
  <2> HIDE DEF e
  <2>2. /\ \A i \in 1..Len(list) : i \in 1..Len(list') /\ list'[i] = list[i]
        /\ list'[k] = e
        /\ \A i \in Shown' : i = k \/ (i \in Shown /\ list'[i] = list[i])
    BY <1>0, <1>1, <1>9, <2>1, ListGrows
  <2>3. ListKept'
    <3>1. ASSUME NEW i \in Shown', NEW j \in Shown', list'[i].progress, list'[j].progress,
                 list'[i].of = list'[j].of
          PROVE  i = j
      <4>1. CASE i # k /\ j # k
        BY <2>2, <3>1, <4>1 DEF Settled, ListKept
      <4>2. CASE i = k \/ j = k
        BY <1>9, <2>1, <2>2, <3>1, <4>2
      <4> QED
        BY <4>1, <4>2
    <3>2. \A i \in Shown' : list'[i].state = "active" /\ ~list'[i].progress => Claimed(i)'
      BY <1>3, <2>1, <2>2 DEF Settled, ListKept
    <3>3. \A s \in Threads : at'[s].pc = "mark" =>
            at'[s].n \in 1..Len(list') /\ SameFile(list'[at'[s].n].of, at'[s].t)
      BY <1>2, <2>2, ValueTypes DEF Settled, ListKept
    <3> QED
      BY <3>1, <3>2, <3>3 DEF ListKept
  <2>4. ASSUME NEW u \in Transfers, u # t PROVE Busy(u)' \subseteq Busy(u)
    BY <1>3, <2>1, <2>2, <2>4 DEF Busy
  <2>5. BusyFound'
    <3> SUFFICES ASSUME NEW u \in Transfers, Alone(u), Racing(u)' \/ Reported(u)'
                 PROVE  Busy(u)' = {}
      BY DEF BusyFound, Alone, SameFile
    <3>1. u # t
      BY <1>6
    <3>2. Racing(u) \/ Reported(u)
      BY <1>4, <1>5
    <3> QED
      BY <2>4, <3>1, <3>2 DEF Settled, BusyFound
  <2> QED
    BY <1>7, <2>3, <2>5 DEF Settled
<1> QED
  BY <1>0, <1>8, <1>9 DEF Progress

-----------------------------------------------------------------------------
(* The Run loops.                                                          *)

LEMMA ExpireSettles ==
  ASSUME IInv, Settled, Expire
  PROVE  Settled'
<1>1. PICK quiet \in SUBSET incoming :
        /\ incoming' = incoming \ quiet /\ dead' = [dead EXCEPT ![live] = quiet]
        /\ UNCHANGED <<writer, at, list>> /\ live \in Nodes
  BY DEF Expire, IInv, Typed, TypeOK
<1>2. \A n \in Nodes : dead'[n] = IF n = live THEN quiet ELSE dead[n]
  BY <1>1 DEF IInv, Typed, TypeOK
<1>3. \A n \in Nodes, t \in Transfers : Expired(n, t)' => Expired(n, t) \/ (n = live /\ t \in quiet)
  BY <1>1, <1>2 DEF Expired
<1>4. \A t \in quiet : /\ t \in incoming /\ t \notin incoming' /\ writer[t] # "none"
                       /\ \A n \in Nodes : ~Expired(n, t)
  BY <1>1 DEF Settled, LeavesOnce, IInv, Typed, TypeOK, Inductive, FileCounted
<1>5. LeavesOnce'
  <2>1. ASSUME NEW t \in Transfers
        PROVE  /\ t \in incoming' \/ writer'[t] = "none" => \A n \in Nodes : ~Expired(n, t)'
               /\ \A n, o \in Nodes : Expired(n, t)' /\ Expired(o, t)' => n = o
               /\ t \in incoming' => writer'[t] \notin {"closing", "stored"}
    BY <1>1, <1>3, <1>4 DEF Settled, LeavesOnce
  <2>2. ASSUME NEW l \in Links
        PROVE  /\ at'[l].pc \in {"commit", "rename"} => at'[l].t \notin incoming'
               /\ at'[l].pc \in {"chunk", "progress"} => writer'[at'[l].t] \notin {"closing", "stored"}
    BY <1>1 DEF Settled, LeavesOnce
  <2> QED
    BY <2>1, <2>2 DEF LeavesOnce
<1>6. ListKept' /\ BusyFound'
  BY <1>1 DEF Settled, ListKept, BusyFound, Claimed, Busy, Shown, Racing, Reported, Stored, Alone,
              SameFile
<1> QED
  BY <1>5, <1>6 DEF Settled

LEMMA ExpireAbortSettles ==
  ASSUME IInv, Settled, NEW n \in Nodes, NEW t \in dead[n], ExpireAbort(n, t)
  PROVE  Settled'
<1> DEFINE p == In("match", t, 0, FALSE)
<1>1. /\ Goes(n, p) /\ at[n] = Idle /\ n \in Threads /\ TypeOK /\ t \in Transfers
      /\ dead' = [dead EXCEPT ![n] = @ \ {t}] /\ UNCHANGED <<incoming, list>>
      /\ writer' = writer \/ (writer[t] = "open" /\ writer' = [writer EXCEPT ![t] = "gone"])
  BY ThreadFacts DEF ExpireAbort, Abort, Move, Goes, IInv, Typed, TypeOK
<1>2. p.pc = "match" /\ p.t = t /\ at[n].pc = "idle"
  BY <1>1, ValueTypes DEF In
<1> HIDE DEF p
<1>3. at'[n] = p /\ \A s \in Threads : s # n => at'[s] = at[s]
  BY <1>1, GoesTo
<1>4. \A l \in Links : at'[l] = at[l]
  BY <1>3, ThreadFacts
<1>5. \A o \in Nodes, u \in Transfers : Expired(o, u)' => Expired(o, u)
  <2>1. \A o \in Nodes : dead'[o] \subseteq dead[o]
    BY <1>1 DEF TypeOK
  <2> QED
    BY <1>2, <1>3, <2>1, ThreadFacts DEF Expired
<1>6. \A u \in Transfers : /\ writer'[u] = "none" => writer[u] = "none"
                           /\ writer'[u] \in {"closing", "stored"} => writer'[u] = writer[u]
                           /\ writer[u] = "stored" <=> writer'[u] = "stored"
  BY <1>1 DEF TypeOK
<1>7. LeavesOnce'
  <2>1. ASSUME NEW u \in Transfers
        PROVE  /\ u \in incoming' \/ writer'[u] = "none" => \A o \in Nodes : ~Expired(o, u)'
               /\ \A o, q \in Nodes : Expired(o, u)' /\ Expired(q, u)' => o = q
               /\ u \in incoming' => writer'[u] \notin {"closing", "stored"}
    BY <1>1, <1>5, <1>6 DEF Settled, LeavesOnce
  <2>2. ASSUME NEW l \in Links
        PROVE  /\ at'[l].pc \in {"commit", "rename"} => at'[l].t \notin incoming'
               /\ at'[l].pc \in {"chunk", "progress"} => writer'[at'[l].t] \notin {"closing", "stored"}
    <3>1. at[l].pc # "idle" => at[l].t \in Transfers
      BY ThreadFacts DEF IInv, Typed, Placed
    <3> QED
      BY <1>1, <1>4, <1>6, <3>1 DEF Settled, LeavesOnce
  <2> QED
    BY <2>1, <2>2 DEF LeavesOnce
<1>8. ListKept' /\ \A u \in Transfers : Busy(u)' \subseteq Busy(u)
  BY <1>1, <1>2, ListStays DEF Settled
<1>9. BusyFound'
  <2>1. \A u \in Transfers : Racing(u)' => Racing(u)
    BY <1>2, <1>3, <1>4, ThreadFacts DEF Racing
  <2>2. \A u \in Transfers : Reported(u)' => Reported(u)
    BY <1>4, <1>6 DEF Reported, Stored
  <2> QED
    BY <1>8, <2>1, <2>2, FoundKept DEF Settled
<1> QED
  BY <1>7, <1>8, <1>9 DEF Settled

-----------------------------------------------------------------------------
LEMMA InitSettled == Init => Settled
<1> SUFFICES ASSUME Init PROVE Settled
  OBVIOUS
<1>1. /\ \A r \in Threads : at[r].pc = "idle"
      /\ \A n \in Nodes : dead[n] = {} /\ n \in Threads
      /\ \A l \in Links : l \in Threads
      /\ incoming = {} /\ \A t \in Transfers : writer[t] = "none"
  BY ValueTypes, ThreadFacts DEF Init
<1>2. Shown = {}
  <2>1. Len(list) = 0
    BY EmptySeq DEF Init
  <2> QED
    BY <2>1 DEF Shown
<1>3. LeavesOnce
  BY <1>1 DEF LeavesOnce, Expired
<1>4. ListKept
  BY <1>1, <1>2 DEF ListKept
<1>5. BusyFound
  BY <1>2 DEF BusyFound, Busy
<1> QED
  BY <1>3, <1>4, <1>5 DEF Settled

LEMMA NextSettles ==
  ASSUME IInv, Settled, [Next]_vars
  PROVE  Settled'
<1>1. IInv'
  BY NextKeeps
<1>2. ASSUME UNCHANGED <<incoming, writer, at, dead, list>> PROVE Settled'
  BY <1>2 DEF Settled, LeavesOnce, ListKept, BusyFound, Expired, Claimed, Busy, Shown, Racing,
              Reported, Stored, Alone, SameFile
<1>3. CASE UNCHANGED vars
  BY <1>2, <1>3 DEF vars, files
<1>4. ASSUME NEW t \in Transfers, Begin(t) \/ SendFile(t) PROVE Settled'
  BY <1>2, <1>4 DEF Begin, SendFile, SendStart, SendChunk, SendEnd, Emit, SendFails, SendStops,
                    SendConfirmed, files
<1>5. ASSUME NEW l \in Links, HandleFile(l) PROVE Settled'
  BY <1>1, <1>5, TakeSettles, ReaderSettles, ProgressSettles DEF HandleFile
<1>6. ASSUME NEW l \in Links, Break(l) \/ Lost(l) \/ Reconnect(l) PROVE Settled'
  BY <1>2, <1>6 DEF Break, Lost, Reconnect, files
<1>7. ASSUME NEW l \in Links, NEW a \in acks[l], AckArrives(l, a) PROVE Settled'
  BY <1>2, <1>7 DEF AckArrives, files
<1>8. ASSUME NEW r \in Threads, Received(r) PROVE Settled'
  BY <1>1, <1>8, MatchSettles, AddSettles, MarkSettles DEF Received
<1>9. CASE Restart
  BY <1>2, <1>9 DEF Restart, files
<1> QED
  BY <1>3, <1>4, <1>5, <1>6, <1>7, <1>8, <1>9, ExpireSettles, ExpireAbortSettles DEF Next

LEMMA AlwaysSettled == Spec => [](IInv /\ Settled)
<1>1. Init => IInv
  BY InitTyped, InitInductive DEF IInv
<1> QED
  BY <1>1, InitSettled, NextKeeps, NextSettles, PTL DEF Spec

\* A stored file that shares its name with no other is not shown as under way
\* for ever, whoever reports it first, reader or Run loop, whatever is reported
\* of other files, and however short the list is (OnReceived, OnProgress).
THEOREM AloneNotBusyHolds == Spec => []AloneNotBusy
<1>1. ASSUME IInv, Settled PROVE AloneNotBusy
  <2> SUFFICES ASSUME Calm, NEW i \in Shown, list[i].of \in Stored, Alone(list[i].of),
                      list[i].state = "active"
               PROVE  FALSE
    BY DEF AloneNotBusy
  <2>1. \A r \in Threads : at[r].pc = "idle"
    BY ValueTypes DEF Calm
  <2>2. Reported(list[i].of)
    BY <2>1, ThreadFacts DEF Reported
  <2>3. i \in Busy(list[i].of)
    BY <2>1 DEF Busy, Claimed
  <2> QED
    BY <1>1, <2>2, <2>3 DEF Settled, BusyFound, Stored
<1> QED
  BY <1>1, AlwaysSettled, PTL

\* With different names for all files of a device, no stored file is.
THEOREM StoredNotBusyHolds ==
  ASSUME \A t \in Transfers : Alone(t)
  PROVE  Spec => []StoredNotBusy
<1>1. AloneNotBusy => StoredNotBusy
  BY DEF AloneNotBusy, StoredNotBusy, Stored
<1> QED
  BY <1>1, AloneNotBusyHolds, PTL

-----------------------------------------------------------------------------
(* Temporary files: TempFilesListed.                                       *)

\* A step of reader l that keeps Owned: what it does to the table and the
\* writers, and the place p it goes to.
LEMMA OwnedKept ==
  ASSUME IInv, Owned, NEW l \in Links, NEW p, Goes(l, p), UNCHANGED dead,
         at[l].pc # "idle",
         \A u \in Transfers : u # at[l].t =>
           writer'[u] = writer[u] /\ (u \in incoming' <=> u \in incoming),
         p.pc # "idle" => p.t = at[l].t,
         writer'[at[l].t] \in {"open", "closing"} =>
           at[l].t \in incoming' \/ p.pc \in {"commit", "discard", "rename"}
             \/ \E n \in Nodes : at[l].t \in dead[n],
         writer'[at[l].t] = "closing" => p.pc = "rename",
         at[l].t \in incoming' =>
           p.pc \in {"abort", "forget"} \/ writer'[at[l].t] = "open",
         p.pc = "forget" => writer'[at[l].t] \notin {"open", "closing"},
         p.pc = "discard" => at[l].t \notin incoming'
  PROVE  Owned'
<1> DEFINE t == at[l].t
<1>1. at'[l] = p /\ \A s \in Threads : s # l => at'[s] = at[s]
  BY GoesTo, ThreadFacts DEF IInv, Typed
<1>2. /\ t \in Transfers
      /\ \A k \in Links : k # l => /\ at'[k] = at[k]
                                   /\ at[k].pc # "idle" => at[k].t \in Transfers /\ at[k].t # t
  <2>1. t \in Transfers
    BY ThreadFacts DEF IInv, Typed, Placed
  <2>2. ASSUME NEW k \in Links, k # l
        PROVE  /\ at'[k] = at[k]
               /\ at[k].pc # "idle" => at[k].t \in Transfers /\ at[k].t # t
    BY <1>1, <2>2, OneReader, ThreadFacts DEF IInv, Inductive, Typed, Placed
  <2> QED
    BY <2>1, <2>2
<1>3. ASSUME NEW u \in Transfers, u # t
      PROVE  /\ Owner(u) => Owner(u)'
             /\ (\E k \in Links : at[k].t = u /\ at[k].pc = "rename") =>
                  \E k \in Links : at'[k].t = u /\ at'[k].pc = "rename"
             /\ Failing(u) => Failing(u)'
  <2>1. ASSUME NEW k \in Links, at[k].t = u PROVE at'[k] = at[k]
    BY <1>2, <1>3, <2>1
  <2> QED
    BY <1>3, <2>1 DEF Owner, Failing
<1>4. ASSUME NEW u \in Transfers
      PROVE  /\ writer'[u] \in {"open", "closing"} => Owner(u)'
             /\ writer'[u] = "closing" => \E k \in Links : at'[k].t = u /\ at'[k].pc = "rename"
             /\ u \in incoming' /\ ~Failing(u)' => writer'[u] = "open"
  <2>1. CASE u # t
    BY <1>3, <2>1 DEF Owned
  <2>2. CASE u = t
    <3>1. writer'[u] \in {"open", "closing"} => Owner(u)'
      BY <1>1, <2>2 DEF Owner
    <3>2. writer'[u] = "closing" => \E k \in Links : at'[k].t = u /\ at'[k].pc = "rename"
      BY <1>1, <2>2
    <3>3. u \in incoming' /\ ~Failing(u)' => writer'[u] = "open"
      BY <1>1, <2>2 DEF Failing
    <3> QED
      BY <3>1, <3>2, <3>3
  <2> QED
    BY <2>1, <2>2
<1>5. ASSUME NEW k \in Links
      PROVE  /\ at'[k].pc = "forget" => writer'[at'[k].t] \notin {"open", "closing"}
             /\ at'[k].pc = "discard" => at'[k].t \notin incoming'
  BY <1>1, <1>2 DEF Owned
<1> QED
  BY <1>4, <1>5 DEF Owned

\* No reader that is idle or at the end of its work holds an unfinished file.
LEMMA OwnedFreed ==
  ASSUME IInv, Owned, NEW r \in Threads, NEW p, Goes(r, p),
         UNCHANGED <<incoming, writer, dead>>,
         at[r].pc \notin {"abort", "forget", "commit", "discard", "rename"},
         p.pc \notin {"forget", "discard"}
  PROVE  Owned'
<1>1. at'[r] = p /\ \A s \in Threads : s # r => at'[s] = at[s]
  BY GoesTo DEF IInv, Typed
<1>2. \A k \in Links : at[k].pc \in {"abort", "forget", "commit", "discard", "rename"} =>
        at'[k] = at[k]
  BY <1>1, ThreadFacts
<1>3. \A k \in Links : at'[k].pc \in {"forget", "discard"} => at'[k] = at[k]
  BY <1>1, ThreadFacts
<1>4. \A u \in Transfers : /\ Owner(u) => Owner(u)'
                           /\ Failing(u) => Failing(u)'
                           /\ (\E k \in Links : at[k].t = u /\ at[k].pc = "rename") =>
                                \E k \in Links : at'[k].t = u /\ at'[k].pc = "rename"
  BY <1>2 DEF Owner, Failing
<1> QED
  BY <1>3, <1>4 DEF Owned

LEMMA ReaderOwns ==
  ASSUME IInv, Settled, Owned, NEW l \in Links, HandleFile(l)
  PROVE  Owned'
<1> DEFINE t == at[l].t
<1>1. /\ l \in Threads /\ (at[l].pc # "idle" => t \in Transfers)
      /\ writer \in [Transfers -> {"none", "open", "closing", "gone", "stored"}]
      /\ incoming \subseteq Transfers
  BY ThreadFacts DEF IInv, Typed, TypeOK, Placed
<1>2. \A u \in Transfers : writer[u] = "closing" => \E k \in Links : at[k].t = u /\ at[k].pc = "rename"
  BY DEF Owned
<1>3. at[l].pc \notin {"idle", "rename"} => writer[t] # "closing"
  BY <1>1, <1>2, OneReader DEF IInv, Inductive
<1>4. at[l].pc \notin {"idle", "abort", "forget"} => ~Failing(t)
  BY OneReader DEF Failing, IInv, Inductive
<1>5. CASE Take(l)
  <2>1. CASE UNCHANGED at
    BY <1>5, <2>1 DEF Take, files, Owned, Owner, Failing
  <2>2. CASE ~UNCHANGED at
    <3> DEFINE m == Head(net[l])
               p == In(m.kind, m.t, m.seq, FALSE)
    <3>1. Goes(l, p) /\ UNCHANGED <<incoming, writer, dead>> /\ at[l].pc = "idle"
      BY <1>5, <2>2, ValueTypes DEF Take, Move, Goes, files
    <3>2. m.kind \in {"start", "chunk", "end"}
      <4>1. m \in Message
        BY <1>5, HeadTailProperties DEF Take, IInv, Typed, TypeOK
      <4> QED
        BY <4>1 DEF Message
    <3>3. p.pc \notin {"forget", "discard"}
      BY <3>2 DEF In
    <3> HIDE DEF p, m
    <3> QED
      BY <1>1, <3>1, <3>3, OwnedFreed
  <2> QED
    BY <2>1, <2>2
<1>6. CASE StartRefused(l) \/ Acknowledge(l)
  <2>1. Goes(l, Idle) /\ UNCHANGED <<incoming, writer, dead>> /\ at[l].pc \in {"start", "ack"}
    BY <1>6 DEF StartRefused, Acknowledge, Goes, files
  <2> QED
    BY <1>1, <2>1, OwnedFreed, ValueTypes
<1>7. CASE StartAccepted(l)
  <2>1. /\ Goes(l, Idle) /\ UNCHANGED dead /\ at[l].pc = "start"
        /\ incoming' = incoming \cup {t} /\ writer' = [writer EXCEPT ![t] = "open"]
    BY <1>7 DEF StartAccepted, Goes
  <2>2. writer'[t] = "open" /\ \A u \in Transfers : u # t =>
           writer'[u] = writer[u] /\ (u \in incoming' <=> u \in incoming)
    BY <1>1, <2>1
  <2> QED
    BY <1>1, <2>1, <2>2, OwnedKept, ValueTypes
<1>8. CASE ChunkRefused(l) \/ ChunkTaken(l)
  <2>1. PICK pc \in {"abort", "progress"} : Move(l, pc, t, 0, FALSE)
    BY <1>8 DEF ChunkRefused, ChunkTaken
  <2> DEFINE p == In(pc, t, 0, FALSE)
  <2>2. Goes(l, p) /\ p.pc = pc /\ p.t = t
    BY <2>1 DEF Goes, Move, In
  <2>3. UNCHANGED <<incoming, writer, dead>> /\ at[l].pc = "chunk"
    BY <1>8 DEF ChunkRefused, ChunkTaken, files
  <2> HIDE DEF p
  <2> QED
    BY <1>1, <2>1, <2>2, <2>3, OwnedFreed
<1>9. CASE Progress(l)
  <2>1. Goes(l, Idle) /\ UNCHANGED <<incoming, writer, dead>> /\ at[l].pc = "progress"
    BY <1>9 DEF Progress, Goes, files
  <2> QED
    BY <1>1, <2>1, OwnedFreed, ValueTypes
<1>10. CASE FailAbort(l)
  <2> DEFINE p == In("forget", t, 0, FALSE)
  <2>1. Goes(l, p) /\ p.pc = "forget" /\ p.t = t /\ UNCHANGED <<incoming, dead>> /\ at[l].pc = "abort"
    BY <1>10 DEF FailAbort, Goes, Move, In
  <2>2. /\ writer'[t] \notin {"open", "closing"}
        /\ \A u \in Transfers : u # t => writer'[u] = writer[u]
    BY <1>1, <1>10 DEF FailAbort, Abort
  <2> HIDE DEF p
  <2> QED
    BY <2>1, <2>2, OwnedKept
<1>11. CASE FailForget(l)
  <2> DEFINE p == In("match", t, 0, FALSE)
  <2>1. /\ Goes(l, p) /\ p.pc = "match" /\ p.t = t /\ UNCHANGED <<writer, dead>>
        /\ at[l].pc = "forget" /\ incoming' = incoming \ {t}
    BY <1>11 DEF FailForget, Goes, Move, In
  <2>2. writer[t] \notin {"open", "closing"}
    BY <2>1 DEF Owned
  <2> HIDE DEF p
  <2> QED
    BY <2>1, <2>2, OwnedKept
<1>12. CASE EndTaken(l)
  <2>1. PICK pc \in {"commit", "discard"} : Move(l, pc, t, 0, FALSE)
    BY <1>12 DEF EndTaken
  <2> DEFINE p == In(pc, t, 0, FALSE)
  <2>2. Goes(l, p) /\ p.pc = pc /\ p.t = t
    BY <2>1 DEF Goes, Move, In
  <2>3. UNCHANGED <<writer, dead>> /\ at[l].pc = "end" /\ incoming' = incoming \ {t}
    BY <1>12 DEF EndTaken
  <2> HIDE DEF p
  <2> QED
    BY <1>3, <2>1, <2>2, <2>3, OwnedKept
<1>13. CASE EndDiscard(l)
  <2> DEFINE p == In("match", t, 0, FALSE)
  <2>1. /\ Goes(l, p) /\ p.pc = "match" /\ p.t = t /\ UNCHANGED <<incoming, dead>>
        /\ at[l].pc = "discard"
    BY <1>13 DEF EndDiscard, Goes, Move, In
  <2>2. /\ writer'[t] \notin {"open", "closing"}
        /\ \A u \in Transfers : u # t => writer'[u] = writer[u]
    BY <1>1, <1>13 DEF EndDiscard, Abort
  <2>3. t \notin incoming
    BY <2>1 DEF Owned
  <2> HIDE DEF p
  <2> QED
    BY <2>1, <2>2, <2>3, OwnedKept
<1>14. CASE EndCommit(l)
  <2>1. PICK pc \in {"rename", "match"}, n \in Nat :
          /\ Move(l, pc, t, n, FALSE)
          /\ pc = "rename" => writer' = [writer EXCEPT ![t] = "closing"]
          /\ pc = "match" => writer' = IF writer[t] = "open" THEN [writer EXCEPT ![t] = "gone"]
                                       ELSE writer
    <3>1. CASE /\ writer' = [writer EXCEPT ![t] = "closing"]
               /\ \E n \in FreePath(t) : Move(l, "rename", t, n, FALSE)
      <4>1. FreePath(t) \subseteq Nat
        BY Counted DEF FreePath
      <4> QED
        BY <3>1, <4>1
    <3>2. CASE /\ writer' = IF writer[t] = "open" THEN [writer EXCEPT ![t] = "gone"] ELSE writer
               /\ Move(l, "match", t, 0, FALSE)
      BY <3>2
    <3> QED
      BY <1>14, <3>1, <3>2 DEF EndCommit
  <2> DEFINE p == In(pc, t, n, FALSE)
  <2>2. Goes(l, p) /\ p.pc = pc /\ p.t = t
    BY <2>1 DEF Goes, Move, In
  <2>3. UNCHANGED <<incoming, dead>> /\ at[l].pc = "commit" /\ t \notin incoming
    BY <1>14 DEF EndCommit, Settled, LeavesOnce
  <2>4. /\ writer'[t] \in {"open", "closing"} => pc = "rename"
        /\ \A u \in Transfers : u # t => writer'[u] = writer[u]
    BY <1>1, <1>3, <2>1, <2>3
  <2> HIDE DEF p
  <2> QED
    BY <2>1, <2>2, <2>3, <2>4, OwnedKept
<1>15. CASE EndRename(l)
  <2>1. PICK ok \in BOOLEAN :
          /\ writer' = [writer EXCEPT ![t] = IF ok THEN "stored" ELSE "gone"]
          /\ Move(l, "match", t, 0, ok)
    BY <1>15, FileTransferAssumption DEF EndRename
  <2> DEFINE p == In("match", t, 0, ok)
  <2>2. Goes(l, p) /\ p.pc = "match" /\ p.t = t
    BY <2>1 DEF Goes, Move, In
  <2>3. UNCHANGED <<incoming, dead>> /\ at[l].pc = "rename" /\ t \notin incoming
    BY <1>15 DEF EndRename, Settled, LeavesOnce
  <2>4. /\ writer'[t] \in {"stored", "gone"}
        /\ \A u \in Transfers : u # t => writer'[u] = writer[u]
    BY <1>1, <2>1, <2>3
  <2> HIDE DEF p
  <2> QED
    BY <2>2, <2>3, <2>4, OwnedKept
<1> QED
  BY <1>5, <1>6, <1>7, <1>8, <1>9, <1>10, <1>11, <1>12, <1>13, <1>14, <1>15 DEF HandleFile

LEMMA ReceivedOwns ==
  ASSUME IInv, Owned, NEW r \in Threads, Received(r)
  PROVE  Owned'
<1>1. at[r].pc \in {"match", "add", "mark"} /\ UNCHANGED <<incoming, writer, dead>>
  BY DEF Received, Match, Add, Mark, files
<1>2. \E p : Goes(r, p) /\ p.pc \notin {"forget", "discard"}
  BY ValueTypes DEF Received, Match, Add, Mark, Move, Goes, In
<1> QED
  BY <1>1, <1>2, OwnedFreed

LEMMA ExpiryOwns ==
  ASSUME IInv, Settled, Owned,
         Expire \/ \E n \in Nodes : \E t \in dead[n] : ExpireAbort(n, t)
  PROVE  Owned'
<1>1. CASE Expire
  <2>1. PICK quiet \in SUBSET incoming :
          /\ incoming' = incoming \ quiet /\ dead' = [dead EXCEPT ![live] = quiet]
          /\ UNCHANGED <<writer, at>> /\ live \in Nodes /\ dead[live] = {}
    BY <1>1 DEF Expire, IInv, Typed, TypeOK
  <2>2. \A n \in Nodes : dead'[n] = IF n = live THEN quiet ELSE dead[n]
    BY <2>1 DEF IInv, Typed, TypeOK
  <2>3. \A t \in Transfers : Owner(t) => Owner(t)'
    <3>1. \A t \in incoming : t \in incoming' \/ t \in dead'[live]
      BY <2>1, <2>2
    <3>2. \A n \in Nodes : dead[n] \subseteq dead'[n]
      BY <2>1, <2>2
    <3> QED
      BY <2>1, <3>1, <3>2 DEF Owner
  <2> QED
    BY <2>1, <2>3 DEF Owned, Failing
<1>2. ASSUME NEW n \in Nodes, NEW t \in dead[n], ExpireAbort(n, t) PROVE Owned'
  <2> DEFINE p == In("match", t, 0, FALSE)
  <2>1. /\ Goes(n, p) /\ n \in Threads /\ TypeOK /\ t \in Transfers
        /\ dead' = [dead EXCEPT ![n] = @ \ {t}] /\ UNCHANGED incoming
    BY <1>2, ThreadFacts DEF ExpireAbort, Move, Goes, IInv, Typed, TypeOK
  <2>2. \A l \in Links : at'[l] = at[l]
    <3> HIDE DEF p
    <3> QED
      BY <2>1, GoesTo, ThreadFacts
  <2>3. /\ writer'[t] \notin {"open", "closing"}
        /\ \A u \in Transfers : u # t => writer'[u] = writer[u]
        /\ writer[t] # "open" => writer' = writer
    BY <1>2, <2>1 DEF ExpireAbort, Abort, TypeOK
  <2>4. t \notin incoming
    BY <2>1 DEF Settled, LeavesOnce, Expired
  <2>5. \A u \in Transfers : u # t /\ Owner(u) => Owner(u)'
    <3>1. \A o \in Nodes, u \in Transfers : u # t /\ u \in dead[o] => u \in dead'[o]
      BY <2>1 DEF TypeOK
    <3> QED
      BY <2>1, <2>2, <3>1 DEF Owner
  <2>6. ASSUME NEW u \in Transfers
        PROVE  /\ writer'[u] \in {"open", "closing"} => Owner(u)'
               /\ writer'[u] = "closing" => \E l \in Links : at'[l].t = u /\ at'[l].pc = "rename"
               /\ u \in incoming' /\ ~Failing(u)' => writer'[u] = "open"
    BY <2>1, <2>2, <2>3, <2>4, <2>5 DEF Owned, Failing
  <2>7. ASSUME NEW l \in Links
        PROVE  /\ at'[l].pc = "forget" => writer'[at'[l].t] \notin {"open", "closing"}
               /\ at'[l].pc = "discard" => at'[l].t \notin incoming'
    <3>1. at'[l] = at[l] /\ (at[l].pc # "idle" => at[l].t \in Transfers)
      BY <2>2, ThreadFacts DEF IInv, Typed, Placed
    <3> QED
      BY <2>1, <2>3, <3>1 DEF Owned
  <2> QED
    BY <2>6, <2>7 DEF Owned
<1> QED
  BY <1>1, <1>2

LEMMA NextOwns ==
  ASSUME IInv, Settled, Owned, [Next]_vars
  PROVE  Owned'
<1>1. ASSUME UNCHANGED <<incoming, writer, at, dead>> PROVE Owned'
  BY <1>1 DEF Owned, Owner, Failing
<1>2. CASE UNCHANGED vars
  BY <1>1, <1>2 DEF vars, files
<1>3. ASSUME NEW t \in Transfers, Begin(t) \/ SendFile(t) PROVE Owned'
  BY <1>1, <1>3 DEF Begin, SendFile, SendStart, SendChunk, SendEnd, Emit, SendFails, SendStops,
                    SendConfirmed, files
<1>4. ASSUME NEW l \in Links, Break(l) \/ Lost(l) \/ Reconnect(l) PROVE Owned'
  BY <1>1, <1>4 DEF Break, Lost, Reconnect, files
<1>5. ASSUME NEW l \in Links, NEW a \in acks[l], AckArrives(l, a) PROVE Owned'
  BY <1>1, <1>5 DEF AckArrives, files
<1>6. CASE Restart
  BY <1>1, <1>6 DEF Restart, files
<1> QED
  BY <1>2, <1>3, <1>4, <1>5, <1>6, ReaderOwns, ReceivedOwns, ExpiryOwns DEF Next

\* Between messages, the temporary files in the folder are those of the transfers
\* in Node.incoming, where expireFiles finds them: no reader that fails, no expiry
\* that races with it and no restart of the node leaves a temporary file that
\* nobody knows of, nor an entry without its file.
THEOREM TempFilesAreListed == Spec => []TempFilesListed
<1>1. Init => Owned
  <2> SUFFICES ASSUME Init PROVE Owned
    OBVIOUS
  <2>1. /\ \A t \in Transfers : writer[t] = "none"
        /\ incoming = {} /\ \A l \in Links : at[l].pc = "idle"
    BY ValueTypes, ThreadFacts DEF Init
  <2> QED
    BY <2>1 DEF Owned
<1>2. ASSUME IInv, Owned PROVE TempFilesListed
  <2> SUFFICES ASSUME Calm, NEW t \in Transfers
               PROVE  writer[t] \in {"open", "closing"} <=> t \in incoming
    BY DEF TempFilesListed
  <2>1. (\A l \in Links : at[l].pc = "idle") /\ \A n \in Nodes : dead[n] = {}
    BY ValueTypes, ThreadFacts DEF Calm
  <2> QED
    BY <1>2, <2>1 DEF Owned, Owner, Failing
<1>3. Init => IInv
  BY InitTyped, InitInductive DEF IInv
<1> QED
  BY <1>1, <1>2, <1>3, InitSettled, NextKeeps, NextSettles, NextOwns, PTL DEF Spec

-----------------------------------------------------------------------------
(* The folder: SentIsThere.                                                *)

\* A step that moves no file keeps the paths.
LEMMA FolderKeeps ==
  ASSUME IInv, Kept, UNCHANGED <<folder, Stored>>,
         \A l \in Links : at'[l].pc = "rename" =>
           at'[l] = at[l] \/ folder[<<Name[at'[l].t], at'[l].n>>] = None,
         \A t \in Transfers : snd'[t].result = "ok" => snd[t].result = "ok" \/ t \in Stored
  PROVE  Kept'
<1>1. \A t \in Stored' : InFolder(t)'
  BY DEF Kept, InFolder
<1>2. \A l \in Links : at'[l].pc = "rename" => folder'[<<Name[at'[l].t], at'[l].n>>] = None
  BY DEF Kept
<1>3. \A t \in Transfers : snd'[t].result = "ok" => t \in Stored'
  BY DEF Kept
<1> QED
  BY <1>1, <1>2, <1>3 DEF Kept

LEMMA SenderKeepsPaths ==
  ASSUME IInv, Kept, NEW t \in Transfers, Begin(t) \/ SendFile(t)
  PROVE  Kept'
<1>1. UNCHANGED <<writer, folder, at>>
  BY DEF Begin, SendFile, SendStart, SendChunk, SendEnd, Emit, SendFails, SendStops,
         SendConfirmed, files
<1>2. \E pc, l, seq, result :
        /\ snd' = [snd EXCEPT ![t] = SendAt(pc, l, seq, result)]
        /\ result \in {"none", "failed"} \/ TRUE \in fileAcks[t]
  <2>1. CASE Begin(t)
    BY <2>1 DEF Begin, Return
  <2>2. CASE SendStart(t) \/ SendChunk(t) \/ SendEnd(t)
    <3>1. \E pc, l, seq : snd' = [snd EXCEPT ![t] = SendAt(pc, l, seq, "none")]
      BY <2>2 DEF SendStart, SendChunk, SendEnd, Emit
    <3> QED
      BY <3>1
  <2>3. CASE SendFails(t) \/ SendStops(t)
    BY <2>3 DEF SendFails, SendStops, Return
  <2>4. CASE SendConfirmed(t)
    BY <2>4 DEF SendConfirmed, Return
  <2> QED
    BY <2>1, <2>2, <2>3, <2>4 DEF SendFile
<1>3. TRUE \in fileAcks[t] => t \in Stored
  BY DEF IInv, Inductive, OkIsStored
<1>4. \A u \in Transfers : snd'[u].result = "ok" => snd[u].result = "ok" \/ u \in Stored
  <2>1. snd \in [Transfers -> Sending]
    BY DEF IInv, Typed, TypeOK
  <2>2. PICK pc, l, seq, result :
          /\ snd' = [snd EXCEPT ![t] = SendAt(pc, l, seq, result)]
          /\ result \in {"none", "failed"} \/ TRUE \in fileAcks[t]
    BY <1>2
  <2> DEFINE v == SendAt(pc, l, seq, result)
  <2>3. v.result = result
    BY DEF SendAt
  <2>4. snd' = [snd EXCEPT ![t] = v]
    BY <2>2
  <2> HIDE DEF v
  <2>5. \A u \in Transfers : snd'[u] = IF u = t THEN v ELSE snd[u]
    BY <2>1, <2>4
  <2> QED
    BY <1>3, <2>2, <2>3, <2>5
<1> QED
  BY <1>1, <1>4, FolderKeeps DEF Stored

\* The file takes a path that is free, so it replaces none.
LEMMA RenameKeepsPaths ==
  ASSUME IInv, Kept, RenamesApart, NEW l \in Links, EndRename(l)
  PROVE  Kept'
<1> PICK t : t = at[l].t
  OBVIOUS
<1> PICK n : n = at[l].n
  OBVIOUS
<1> DEFINE f == <<Name[t], n>>
<1>1. /\ l \in Threads /\ t \in Transfers /\ Name[t] \in Names
      /\ n \in 1..Cardinality(Transfers) /\ f \in Paths /\ folder[f] = None
      /\ at[l].pc = "rename" /\ UNCHANGED snd
  BY ThreadFacts, FileTransferAssumption
  DEF EndRename, IInv, Typed, TypeOK, Placed, Kept, Paths, sender
<1>2. \E p : Goes(l, p) /\ p.pc = "match"
  <2>1. PICK ok \in BOOLEAN : Move(l, "match", at[l].t, 0, ok)
    BY FileTransferAssumption DEF EndRename
  <2> DEFINE p == In("match", at[l].t, 0, ok)
  <2>2. Goes(l, p) /\ p.pc = "match"
    BY <2>1 DEF Goes, Move, In
  <2> QED
    BY <2>2
<1>3. at'[l].pc = "match" /\ \A k \in Links : k # l => at'[k] = at[k]
  BY <1>1, <1>2, GoesTo, ThreadFacts DEF IInv, Typed
<1>4. ASSUME NEW k \in Links, at'[k].pc = "rename"
      PROVE  at'[k] = at[k] /\ <<Name[at[k].t], at[k].n>> # f
  BY <1>1, <1>3, <1>4 DEF RenamesApart
<1>5. \/ /\ writer' = [writer EXCEPT ![t] = "stored"]
         /\ folder' = [folder EXCEPT ![f] = t]
      \/ /\ writer' = [writer EXCEPT ![t] = "gone"]
         /\ UNCHANGED folder
  BY DEF EndRename
<1>6. /\ writer \in [Transfers -> {"none", "open", "closing", "gone", "stored"}]
      /\ folder \in [Paths -> Transfers \cup {None}]
      /\ writer[t] = "closing"
  BY <1>1 DEF IInv, Typed, TypeOK, Inductive, FileCounted
<1> HIDE DEF f
<1>7. CASE UNCHANGED folder /\ writer' = [writer EXCEPT ![t] = "gone"]
  <2>1. UNCHANGED Stored
    BY <1>1, <1>6, <1>7 DEF Stored
  <2> QED
    BY <1>1, <1>4, <1>7, <2>1, FolderKeeps
<1>8. CASE writer' = [writer EXCEPT ![t] = "stored"] /\ folder' = [folder EXCEPT ![f] = t]
  <2>1. folder'[f] = t /\ \A g \in Paths : g # f => folder'[g] = folder[g]
    BY <1>1, <1>6, <1>8
  <2>2. \A u \in Stored' : u \in Stored \/ u = t
    BY <1>1, <1>6, <1>8 DEF Stored
  <2>3. InFolder(t)'
    BY <1>1, <2>1 DEF InFolder, f
  <2>4. ASSUME NEW u \in Stored, u # t PROVE InFolder(u)'
    <3>1. PICK i \in 1..Cardinality(Transfers) : folder[<<Name[u], i>>] = u
      BY <2>4 DEF Kept, InFolder
    <3>2. <<Name[u], i>> \in Paths /\ u # None
      BY <3>1, FileTransferAssumption DEF Paths, Stored
    <3>3. folder'[<<Name[u], i>>] = u
      BY <1>1, <2>1, <3>1, <3>2
    <3> QED
      BY <3>3 DEF InFolder
  <2>5. ASSUME NEW k \in Links, at'[k].pc = "rename"
        PROVE  folder'[<<Name[at'[k].t], at'[k].n>>] = None
    <3> DEFINE g == <<Name[at[k].t], at[k].n>>
    <3>1. at'[k] = at[k] /\ g # f /\ folder[g] = None
      BY <1>4, <2>5 DEF Kept
    <3>2. g \in Paths
      BY <2>5, <3>1, ThreadFacts, FileTransferAssumption DEF IInv, Typed, Placed, Paths
    <3> QED
      BY <2>1, <3>1, <3>2
  <2>6. \A u \in Transfers : snd'[u].result = "ok" => u \in Stored'
    <3>1. Stored \subseteq Stored'
      BY <1>1, <1>6, <1>8 DEF Stored
    <3> QED
      BY <1>1, <3>1 DEF Kept
  <2> QED
    BY <2>2, <2>3, <2>4, <2>5, <2>6 DEF Kept
<1> QED
  BY <1>5, <1>7, <1>8

\* What a reader does to its own place, when it moves no file.
LEMMA ReaderKeepsPaths ==
  ASSUME IInv, Kept, RenamesApart, NEW l \in Links, HandleFile(l)
  PROVE  Kept'
<1>1. CASE EndRename(l)
  BY <1>1, RenameKeepsPaths
<1>2. CASE ~EndRename(l)
  <2>1. UNCHANGED <<snd, folder>>
    BY <1>2 DEF HandleFile, Take, StartRefused, StartAccepted, ChunkRefused, ChunkTaken, Progress,
                FailAbort, FailForget, EndTaken, EndDiscard, EndCommit, Acknowledge, sender, files
  <2>2. UNCHANGED Stored
    BY <1>2, <2>1, Stutters DEF Promise!dVars
  <2>3. \/ \E p : Goes(l, p) /\ p.pc # "rename"
        \/ \E p : Goes(l, p) /\ folder[<<Name[p.t], p.n>>] = None
        \/ UNCHANGED at
    <3>1. CASE EndCommit(l)
      <4> DEFINE t == at[l].t
      <4>1. \/ \E n \in FreePath(t) : Move(l, "rename", t, n, FALSE)
            \/ Move(l, "match", t, 0, FALSE)
        BY <3>1 DEF EndCommit
      <4>2. \A n \in FreePath(t) : folder[<<Name[t], n>>] = None
        BY DEF FreePath
      <4> HIDE DEF t
      <4> QED
        <5>1. ASSUME NEW n \in FreePath(t), Move(l, "rename", t, n, FALSE)
              PROVE  \E p : Goes(l, p) /\ folder[<<Name[p.t], p.n>>] = None
          <6> DEFINE p == In("rename", t, n, FALSE)
          <6>1. Goes(l, p) /\ p.t = t /\ p.n = n
            BY <5>1 DEF Goes, Move, In
          <6> HIDE DEF p
          <6> QED
            BY <4>2, <5>1, <6>1
        <5>2. ASSUME Move(l, "match", t, 0, FALSE)
              PROVE  \E p : Goes(l, p) /\ p.pc # "rename"
          <6> DEFINE p == In("match", t, 0, FALSE)
          <6>1. Goes(l, p) /\ p.pc = "match"
            BY <5>2 DEF Goes, Move, In
          <6> HIDE DEF p
          <6> QED
            BY <6>1
        <5> QED
          BY <4>1, <5>1, <5>2
    <3>2. CASE Take(l)
      <4> DEFINE m == Head(net[l])
      <4>1. m.kind \in {"start", "chunk", "end"}
        <5>1. m \in Message
          BY <3>2, HeadTailProperties DEF Take, IInv, Typed, TypeOK
        <5> QED
          BY <5>1 DEF Message
      <4>2. UNCHANGED at \/ at' = [at EXCEPT ![l] = In(m.kind, m.t, m.seq, FALSE)]
        BY <3>2 DEF Take, Move
      <4>3. In(m.kind, m.t, m.seq, FALSE).pc = m.kind
        BY DEF In
      <4> HIDE DEF m
      <4> QED
        BY <4>1, <4>2, <4>3 DEF Goes
    <3>3. CASE ~EndCommit(l) /\ ~Take(l)
      <4>1. \/ at' = [at EXCEPT ![l] = Idle]
            \/ \E pc \in {"abort", "progress", "forget", "match", "commit", "discard"} :
                 Move(l, pc, at[l].t, 0, FALSE)
        BY <1>2, <3>3
        DEF HandleFile, StartRefused, StartAccepted, ChunkRefused, ChunkTaken, Progress,
            FailAbort, FailForget, EndTaken, EndDiscard, Acknowledge
      <4>2. at' = [at EXCEPT ![l] = Idle] => Goes(l, Idle) /\ Idle.pc # "rename"
        BY ValueTypes DEF Goes
      <4> QED
        <5>1. ASSUME NEW pc \in {"abort", "progress", "forget", "match", "commit", "discard"},
                     Move(l, pc, at[l].t, 0, FALSE)
              PROVE  \E p : Goes(l, p) /\ p.pc # "rename"
          <6> DEFINE p == In(pc, at[l].t, 0, FALSE)
          <6>1. Goes(l, p) /\ p.pc = pc
            BY <5>1 DEF Goes, Move, In
          <6> HIDE DEF p
          <6> QED
            BY <6>1
        <5> QED
          BY <4>1, <4>2, <5>1
    <3> QED
      BY <3>1, <3>2, <3>3
  <2>4. \A k \in Links : at'[k].pc = "rename" =>
          at'[k] = at[k] \/ folder[<<Name[at'[k].t], at'[k].n>>] = None
    BY <2>3, GoesTo, ThreadFacts DEF IInv, Typed
  <2> QED
    BY <2>1, <2>2, <2>4, FolderKeeps
<1> QED
  BY <1>1, <1>2

LEMMA NextKeepsPaths ==
  ASSUME IInv, Kept, RenamesApart, [Next]_vars
  PROVE  Kept'
<1>1. ASSUME NEW r \in Threads, Received(r) PROVE Kept'
  <2>1. UNCHANGED <<snd, folder, writer>>
    BY <1>1 DEF Received, Match, Add, Mark, sender, files
  <2>2. \E p : Goes(r, p) /\ p.pc # "rename"
    BY <1>1, ValueTypes DEF Received, Match, Add, Mark, Move, Goes, In
  <2>3. \A k \in Links : at'[k].pc = "rename" => at'[k] = at[k]
    BY <2>2, GoesTo, ThreadFacts DEF IInv, Typed
  <2> QED
    BY <2>1, <2>3, FolderKeeps DEF Stored
<1>2. ASSUME NEW n \in Nodes, NEW t \in dead[n], ExpireAbort(n, t) PROVE Kept'
  <2>1. UNCHANGED <<snd, folder>>
    BY <1>2 DEF ExpireAbort, sender
  <2>2. UNCHANGED Stored
    BY <1>2, <2>1, Stutters DEF Promise!dVars
  <2>3. \E p : Goes(n, p) /\ p.pc # "rename"
    <3>1. Move(n, "match", t, 0, FALSE)
      BY <1>2 DEF ExpireAbort
    <3> DEFINE p == In("match", t, 0, FALSE)
    <3>2. Goes(n, p) /\ p.pc = "match"
      BY <3>1 DEF Goes, Move, In
    <3> HIDE DEF p
    <3> QED
      BY <3>2
  <2>4. \A k \in Links : at'[k].pc = "rename" => at'[k] = at[k]
    BY <2>3, GoesTo, ThreadFacts DEF IInv, Typed
  <2> QED
    BY <2>1, <2>2, <2>4, FolderKeeps
<1>3. CASE \/ UNCHANGED vars
           \/ \E l \in Links : Break(l) \/ Lost(l) \/ Reconnect(l)
           \/ \E l \in Links : \E a \in acks[l] : AckArrives(l, a)
           \/ Expire \/ Restart
  <2>1. UNCHANGED <<snd, folder, writer, at>>
    BY <1>3 DEF vars, Break, Lost, Reconnect, AckArrives, Expire, Restart, sender, files
  <2> QED
    BY <2>1, FolderKeeps DEF Stored
<1> QED
  BY <1>1, <1>2, <1>3, SenderKeepsPaths, ReaderKeepsPaths DEF Next

\* A file whose sender was told "ok" is in the folder under its name, whole, and
\* no later transfer takes its place, provided that no two readers are at once
\* between uniquePath's look and Rename for files of one name: that window is all
\* that Commit leaves open.
THEOREM SentIsThereHolds == Spec /\ []RenamesApart => []SentIsThere
<1>1. Init => IInv /\ Kept
  <2> SUFFICES ASSUME Init PROVE Kept
    BY InitTyped, InitInductive DEF IInv
  <2>1. \A l \in Links : at[l].pc = "idle"
    BY ValueTypes, ThreadFacts DEF Init
  <2>2. Stored = {} /\ \A t \in Transfers : snd[t].result = "none"
    BY DEF Init, Stored, SendAt
  <2> QED
    BY <2>1, <2>2 DEF Kept
<1>2. IInv /\ Kept => SentIsThere
  <2> SUFFICES ASSUME IInv, Kept, NEW t \in Transfers, snd[t].result = "ok"
               PROVE  InFolder(t) /\ disk[t] = Chunks[t]
    BY DEF SentIsThere
  <2>1. InFolder(t)
    BY DEF Kept
  <2>2. PICK n \in 1..Cardinality(Transfers) : folder[<<Name[t], n>>] = t
    BY <2>1 DEF InFolder
  <2>3. <<Name[t], n>> \in Paths /\ t # None
    BY <2>2, FileTransferAssumption DEF Paths
  <2> QED
    BY <2>1, <2>2, <2>3 DEF IInv, Inductive, WholeFiles
<1> QED
  BY <1>1, <1>2, NextKeeps, NextKeepsPaths, PTL DEF Spec

\* In particular, if no two files have one name.
THEOREM DistinctNamesAreThere ==
  ASSUME \A t, u \in Transfers : Name[t] = Name[u] => t = u
  PROVE  Spec => []SentIsThere
<1>1. IInv => RenamesApart
  <2> SUFFICES ASSUME IInv, NEW k \in Links, NEW l \in Links,
                      at[k].pc = "rename", at[l].pc = "rename", Name[at[k].t] = Name[at[l].t]
               PROVE  k = l
    BY DEF RenamesApart
  <2>1. at[k].t = at[l].t
    BY ThreadFacts DEF IInv, Typed, Placed
  <2> QED
    BY <2>1, OneReader DEF IInv, Inductive
<1> QED
  BY <1>1, Invariance, SentIsThereHolds, PTL
=============================================================================
