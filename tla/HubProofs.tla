----------------------------- MODULE HubProofs -----------------------------
(***************************************************************************)
(* Proofs about the hub, for any number of connections, devices, clips and *)
(* transfers: the types, and the safety properties that the run hub checks *)
(* on a small instance, and that no step leaves a sender waiting.          *)
(***************************************************************************)
EXTENDS Hub, TLAPS

\* A handler that routes a message or answers for it holds one.
JobHeld ==
  \A c \in Conns :
    /\ stage[c] \in {"routing", "failing"} => job[c].m \in FileMessage \cup AckMessage
    /\ stage[c] = "routing" => job[c].target \in Conns

Typed == TypeOK /\ JobHeld

LEMMA InitTyped == Init => Typed
BY HubAssumption DEF Init, Typed, TypeOK, JobHeld, Job, NoJob

-----------------------------------------------------------------------------
(* Types.                                                                  *)

LEMMA ListedTyped ==
  ASSUME NEW c \in Conns
  PROVE  Listed[c] \subseteq Message
<1>1. online \in SUBSET Devices
  BY HubAssumption DEF online, conns
<1>2. DevicesMsg(online) \in Message
  BY <1>1 DEF DevicesMsg, Message
<1> QED
  BY <1>2 DEF Listed

LEMMA SpendTyped ==
  ASSUME TypeOK, NEW b \in {"breaks", "kicks"}, Spend(b)
  PROVE  load' \in [clips : SUBSET Traffic, files : SUBSET Transfers, lists : BOOLEAN,
                    breaks : Nat, kicks : Nat]
<1>1. load[b] \in Nat /\ load[b] > 0 /\ load' = [load EXCEPT ![b] = @ - 1]
  BY DEF TypeOK, Spend
<1>2. load[b] - 1 \in Nat
  BY <1>1
<1>3. CASE b = "breaks"
  BY <1>1, <1>2, <1>3 DEF TypeOK
<1>4. CASE b = "kicks"
  BY <1>1, <1>2, <1>4 DEF TypeOK
<1> QED
  BY <1>3, <1>4

LEMMA SyncTyped ==
  ASSUME Typed, NEW c \in Conns, Sync(c)
  PROVE  Typed'
BY DEF Sync, Typed, TypeOK, JobHeld, clips, transfers, writes, ConnsOf, conns

LEMMA AnnounceTyped ==
  ASSUME Typed, NEW c \in Conns, Announce(c)
  PROVE  Typed'
BY HubAssumption, ListedTyped
   DEF Announce, Typed, TypeOK, JobHeld, clips, transfers, ClipMsg, Message

LEMMA BreakTyped ==
  ASSUME Typed, NEW c \in Conns, Break(c)
  PROVE  Typed'
<1>1. Spend("breaks") /\ ended' = ended \cup {c} /\ UNCHANGED <<handlers, clips, transfers, writes>>
  BY DEF Break
<1>2. load' \in [clips : SUBSET Traffic, files : SUBSET Transfers, lists : BOOLEAN,
                 breaks : Nat, kicks : Nat]
  BY <1>1, SpendTyped DEF Typed
<1> QED
  BY <1>1, <1>2 DEF Typed, TypeOK, JobHeld, handlers, clips, transfers, writes

LEMMA KickTyped ==
  ASSUME Typed, NEW D, Kick(D)
  PROVE  Typed'
<1>1. /\ Spend("kicks") /\ ended' \subseteq ended \cup conns
      /\ UNCHANGED <<handlers, clips, transfers, writes>>
  BY DEF Kick
<1>2. load' \in [clips : SUBSET Traffic, files : SUBSET Transfers, lists : BOOLEAN,
                 breaks : Nat, kicks : Nat]
  BY <1>1, SpendTyped DEF Typed
<1> QED
  BY <1>1, <1>2 DEF Typed, TypeOK, JobHeld, handlers, clips, transfers, writes, conns

LEMMA ReadClipTyped ==
  ASSUME Typed, NEW c \in Conns, NEW m \in Traffic, ReadClip(c, m)
  PROVE  Typed'
BY DEF ReadClip, Typed, TypeOK, JobHeld, handlers, transfers, ClipMsg, Message

LEMMA WriteTyped ==
  ASSUME Typed, NEW c \in Conns, NEW m \in going[c], Write(c, m)
  PROVE  Typed'
<1>1. m \in Message /\ (m.type = "clip" => m.clip \in Traffic)
  BY DEF Typed, TypeOK, Message, AckMessage
<1>2. going' \in [Conns -> SUBSET Message]
  BY DEF Write, Typed, TypeOK
<1>3. written' \in [Conns -> SUBSET Message] /\ met' \in [Conns -> SUBSET Traffic]
  <2>1. CASE UNCHANGED <<written, met>>
    BY <2>1 DEF Typed, TypeOK
  <2>2. CASE /\ written' = [written EXCEPT ![c] = IF m.type = "clip" THEN @ ELSE @ \cup {m}]
             /\ met' = [met EXCEPT ![c] = IF m.type = "clip" THEN @ \cup {m.clip} ELSE @]
    <3>1. (IF m.type = "clip" THEN written[c] ELSE written[c] \cup {m}) \in SUBSET Message
      BY <1>1 DEF Typed, TypeOK
    <3>2. (IF m.type = "clip" THEN met[c] \cup {m.clip} ELSE met[c]) \in SUBSET Traffic
      BY <1>1 DEF Typed, TypeOK
    <3> QED
      BY <2>2, <3>1, <3>2 DEF Typed, TypeOK
  <2> QED
    BY <2>1, <2>2 DEF Write
<1> QED
  BY <1>2, <1>3 DEF Write, Typed, TypeOK, JobHeld, handlers, transfers

LEMMA ReadFileTyped ==
  ASSUME Typed, NEW c \in Conns, NEW t \in Transfers, ReadFile(c, t)
  PROVE  Typed'
BY HubAssumption DEF ReadFile, Route, Target, Targets, ConnsOf, conns, FileMsg, FileMessage,
   Typed, TypeOK, JobHeld, Job, clips, writes

LEMMA ReadAckTyped ==
  ASSUME Typed, NEW c \in Conns, NEW t \in Transfers, ReadAck(c, t)
  PROVE  Typed'
BY HubAssumption DEF ReadAck, Route, Target, Targets, ConnsOf, conns, AckMsg, AckMessage,
   Typed, TypeOK, JobHeld, Job, clips, writes

LEMMA SendTyped ==
  ASSUME Typed, NEW c \in Conns, Send(c)
  PROVE  Typed'
<1> DEFINE m == job[c].m
            target == job[c].target
<1>1. /\ stage[c] = "routing" /\ m \in FileMessage \cup AckMessage
      /\ m.type = "file" => m \in FileMessage
      /\ m.type # "file" => m \in AckMessage
  BY DEF Send, Typed, JobHeld, FileMessage, AckMessage
<1>2. files' \in [Conns -> Seq(FileMessage)]
  <2>1. CASE m.type = "file"
    <3>1. files' = [files EXCEPT ![target] = Append(@, m)]
      BY <2>1 DEF Send
    <3>2. target \in Conns => Append(files[target], m) \in Seq(FileMessage)
      BY <1>1, <2>1 DEF Typed, TypeOK
    <3> HIDE DEF m, target
    <3> QED
      BY <3>1, <3>2 DEF Typed, TypeOK
  <2>2. CASE m.type # "file"
    BY <2>2 DEF Send, Typed, TypeOK
  <2> QED
    BY <2>1, <2>2
<1>3. written' \in [Conns -> SUBSET Message]
  <2>1. CASE m.type = "file"
    BY <2>1 DEF Send, Typed, TypeOK
  <2>2. CASE m.type # "file"
    <3>1. written' = [written EXCEPT ![target] = @ \cup {m}]
      BY <2>2 DEF Send
    <3>2. m \in Message
      BY <1>1, <2>2 DEF Message
    <3> HIDE DEF m, target
    <3> QED
      BY <3>1, <3>2 DEF Typed, TypeOK
  <2> QED
    BY <2>1, <2>2
<1>4. /\ stage' = [stage EXCEPT ![c] = "reading"] /\ job' = [job EXCEPT ![c] = NoJob]
      /\ UNCHANGED <<held, ended, clips, inflight, sent, via, answered, going, load>>
  BY DEF Send
<1>5. NoJob \in Job
  BY DEF NoJob, Job
<1> QED
  BY <1>2, <1>3, <1>4, <1>5 DEF Typed, TypeOK, JobHeld, clips

LEMMA SendFailsTyped ==
  ASSUME Typed, NEW c \in Conns, SendFails(c)
  PROVE  Typed'
<1>1. stage[c] = "routing" /\ job[c].m \in FileMessage \cup AckMessage /\ job[c].target \in Conns
  BY DEF SendFails, Typed, JobHeld
<1>2. ended' \subseteq Conns
  BY <1>1 DEF SendFails, Typed, TypeOK
<1> QED
  BY <1>1, <1>2 DEF SendFails, Typed, TypeOK, JobHeld, clips, transfers, writes

LEMMA FailTyped ==
  ASSUME Typed, NEW c \in Conns, Fail(c)
  PROVE  Typed'
<1>1. job[c].m.t \in Transfers
  BY DEF Fail, Typed, JobHeld, FileMessage, AckMessage
<1>2. AckMsg(job[c].m.t) \in Message
  BY <1>1 DEF AckMsg, AckMessage, Message
<1>3. written' \in [Conns -> SUBSET Message]
  <2>1. CASE UNCHANGED written
    BY <2>1 DEF Typed, TypeOK
  <2>2. CASE written' = [written EXCEPT ![c] = @ \cup {AckMsg(job[c].m.t)}]
    <3>1. written[c] \cup {AckMsg(job[c].m.t)} \in SUBSET Message
      BY <1>2 DEF Typed, TypeOK
    <3> QED
      BY <2>2, <3>1 DEF Typed, TypeOK
  <2> QED
    BY <2>1, <2>2 DEF Fail
<1>4. NoJob \in Job
  BY DEF NoJob, Job
<1>5. /\ stage' = [stage EXCEPT ![c] = "reading"] /\ job' = [job EXCEPT ![c] = NoJob]
      /\ UNCHANGED <<held, ended, clips, transfers, going, load>>
  BY DEF Fail
<1> QED
  BY <1>3, <1>4, <1>5 DEF Typed, TypeOK, JobHeld, clips, transfers

LEMMA LeaveTyped ==
  ASSUME Typed, NEW c \in Conns, Leave(c)
  PROVE  Typed'
BY HubAssumption DEF Leave, Typed, TypeOK, JobHeld, Job, NoJob, clips, AckMsg, AckMessage, Message, Orphaned

LEMMA FarewellTyped ==
  ASSUME Typed, NEW c \in Conns, Farewell(c)
  PROVE  Typed'
BY ListedTyped DEF Farewell, Typed, TypeOK, JobHeld, clips, transfers

LEMMA StepTyped ==
  ASSUME Typed, [Next]_vars
  PROVE  Typed'
<1>1. CASE UNCHANGED vars
  BY <1>1 DEF vars, handlers, clips, transfers, writes, Typed, TypeOK, JobHeld
<1>2. ASSUME NEW c \in Conns, Sync(c) \/ Break(c) \/ Send(c) \/ Handle(c)
      PROVE  Typed'
  BY <1>2, SyncTyped, BreakTyped, SendTyped, AnnounceTyped, SendFailsTyped,
     FailTyped, LeaveTyped, FarewellTyped DEF Handle
<1>3. ASSUME NEW c \in Conns, NEW m \in Traffic, ReadClip(c, m)
      PROVE  Typed'
  BY <1>3, ReadClipTyped
<1>4. ASSUME NEW c \in Conns, NEW m \in going[c], Write(c, m)
      PROVE  Typed'
  BY <1>4, WriteTyped
<1>5. ASSUME NEW c \in Conns, NEW t \in Transfers, ReadFile(c, t) \/ ReadAck(c, t)
      PROVE  Typed'
  BY <1>5, ReadFileTyped, ReadAckTyped
<1>6. ASSUME NEW D, Kick(D)
      PROVE  Typed'
  BY <1>6, KickTyped
<1> QED
  BY <1>1, <1>2, <1>3, <1>4, <1>5, <1>6 DEF Next

\* The state of the hub keeps its types; what a handler passes on has a
\* target, which route looked up before it began to write.
THEOREM TypeCorrect == Spec => []TypeOK
<1>1. Init => Typed
  BY InitTyped
<1>2. Typed /\ [Next]_vars => Typed'
  BY StepTyped
<1>3. Typed => TypeOK
  BY DEF Typed
<1> QED
  BY <1>1, <1>2, <1>3, PTL DEF Spec

-----------------------------------------------------------------------------
(* The safety properties.                                                  *)

\* A transfer stays accounted for when the hub forgets nothing of it.
LEMMA AccountedKept ==
  ASSUME NEW t \in Transfers, Accounted(t),
         inflight'[t] = inflight[t], via'[t] = via[t],
         answered \subseteq answered', ended \subseteq ended',
         \A c \in Conns : AckMsg(t) \in written[c] \cup going[c] =>
           c \in ended' \/ AckMsg(t) \in written'[c] \cup going'[c]
  PROVE  Accounted(t)'
BY DEF Accounted, AckMsg

\* What files need is kept by a step that passes on no message of one.
LEMMA FilesStill ==
  ASSUME NoneForgotten, OneAtATime,
         UNCHANGED <<files, sent, via>>,
         \A t \in Transfers : Accounted(t) => Accounted(t)',
         \A c \in Conns : stage'[c] = "routing" /\ job'[c].m \in FileMessage =>
           stage[c] = "routing" /\ job'[c] = job[c]
  PROVE  NoneForgotten' /\ OneAtATime'
<1>1. NoneForgotten'
  BY DEF NoneForgotten, FileMsg
<1>2. \A c \in Conns : \A i \in DOMAIN files'[c] : files'[c][i].n < sent'[files'[c][i].t]
  BY DEF OneAtATime
<1>3. ASSUME NEW c \in Conns, stage'[c] = "routing", job'[c].m \in FileMessage
      PROVE  InTurn(c)'
  <2>1. stage[c] = "routing" /\ job'[c] = job[c] /\ job[c].m.t \in Transfers
    BY <1>3 DEF FileMessage
  <2>2. InTurn(c)
    BY <1>3, <2>1 DEF OneAtATime
  <2> QED
    BY <2>1, <2>2 DEF InTurn
<1> QED
  BY <1>1, <1>2, <1>3 DEF OneAtATime, FileMsg

\* The lists are kept by a step after which the same devices are connected.
LEMMA ListStill ==
  ASSUME ListOffered, load'.lists = load.lists, conns' = conns, ended \subseteq ended',
         \A c \in Conns : stage'[c] \notin {"joined", "left"} => stage[c] \notin {"joined", "left"},
         \A c \in conns \ ended' : DevicesMsg(online) \in written[c] \cup going[c] =>
           DevicesMsg(online) \in written'[c] \cup going'[c]
  PROVE  ListOffered'
<1>1. online' = online
  BY DEF online
<1> QED
  BY <1>1 DEF ListOffered, DevicesMsg

\* The last connection to join or leave sends the list to everybody.
LEMMA ListSent ==
  ASSUME load'.lists = load.lists, conns' = conns,
         \A c \in Conns : Listed[c] \subseteq going'[c]
  PROVE  ListOffered'
<1>1. online' = online
  BY DEF online
<1>2. load.lists => \A c \in conns : DevicesMsg(online) \in going'[c]
  BY DEF Listed, conns
<1> QED
  BY <1>1, <1>2 DEF ListOffered, DevicesMsg


\* What Send writes is added to what was written.
LEMMA SendWritten ==
  ASSUME Typed, NEW c \in Conns, Send(c)
  PROVE  \A o \in Conns : written[o] \subseteq written'[o]
<1>1. CASE UNCHANGED written
  BY <1>1
<1>2. CASE written' = [written EXCEPT ![job[c].target] = @ \cup {job[c].m}]
  BY <1>2 DEF Typed, TypeOK
<1> QED
  BY <1>1, <1>2 DEF Send

LEMMA SendAccounts ==
  ASSUME Typed, NEW c \in Conns, Send(c), NEW t \in Transfers, Accounted(t)
  PROVE  Accounted(t)'
<1>1. UNCHANGED <<inflight, via, answered, ended, going>>
  BY DEF Send
<1> QED
  BY <1>1, SendWritten, AccountedKept

\* A message of a file is added at the end of what its target was sent.
LEMMA SendFiles ==
  ASSUME Typed, NEW c \in Conns, Send(c), NEW o \in Conns, NEW i \in DOMAIN files'[o]
  PROVE  \/ i \in DOMAIN files[o] /\ files'[o][i] = files[o][i]
         \/ /\ files'[o][i] = job[c].m /\ job[c].m \in FileMessage /\ i \notin DOMAIN files[o]
            /\ \A j \in DOMAIN files'[o] : j # i => j \in DOMAIN files[o] /\ files'[o][j] = files[o][j]
            /\ \A j \in DOMAIN files[o] : j < i
<1> DEFINE m == job[c].m
<1>1. m \in FileMessage \cup AckMessage /\ job[c].target \in Conns /\ files[o] \in Seq(FileMessage)
  BY DEF Send, Typed, TypeOK, JobHeld
<1>2. CASE m.type = "file" /\ o = job[c].target
  <2>1. files'[o] = Append(files[o], m) /\ m \in FileMessage
    BY <1>1, <1>2 DEF Send, Typed, TypeOK, AckMessage
  <2> HIDE DEF m
  <2>2. /\ DOMAIN files'[o] = 1..(Len(files[o]) + 1) /\ DOMAIN files[o] = 1..Len(files[o])
        /\ Len(files[o]) \in Nat /\ files'[o][Len(files[o]) + 1] = m
        /\ \A j \in 1..Len(files[o]) : files'[o][j] = files[o][j]
    BY <1>1, <2>1
  <2>3. CASE i = Len(files[o]) + 1
    BY <2>1, <2>2, <2>3 DEF m
  <2>4. CASE i # Len(files[o]) + 1
    BY <2>2, <2>4
  <2> QED
    BY <2>3, <2>4
<1>3. CASE m.type # "file" \/ o # job[c].target
  BY <1>3 DEF Send, Typed, TypeOK
<1> QED
  BY <1>2, <1>3

LEMMA ReadFileAccounts ==
  ASSUME Typed, NEW c \in Conns, NEW t \in Transfers, ReadFile(c, t),
         NEW u \in Transfers, Accounted(u), 0 < sent[u]
  PROVE  Accounted(u)'
<1>1. via'[u] = via[u] /\ inflight'[u] = inflight[u]
  BY DEF ReadFile, Typed, TypeOK
<1>2. UNCHANGED <<ended, answered, going, written>>
  BY DEF ReadFile, writes
<1> QED
  BY <1>1, <1>2, AccountedKept

LEMMA SyncKeeps ==
  ASSUME Typed, Inductive, NEW c \in Conns, Sync(c)
  PROVE  Inductive'
<1>1. Offered'
  BY HubAssumption DEF Sync, ConnsOf, online, clips, transfers, writes, Offered, Inductive, Typed, TypeOK, JobHeld, conns, ClipMsg
<1>2. ListOffered'
  BY HubAssumption DEF Sync, ConnsOf, online, clips, transfers, writes, ListOffered, Inductive, Typed, TypeOK, JobHeld, conns, DevicesMsg
<1>3. InflightConnected'
  BY HubAssumption DEF Sync, ConnsOf, online, clips, transfers, writes, InflightConnected, Inductive, Typed, TypeOK, JobHeld, conns
<1>4. NoneForgotten' /\ OneAtATime'
  <2>1. UNCHANGED <<files, sent, via>>
    BY DEF Sync, ConnsOf, clips, transfers, writes
  <2>2. ASSUME NEW u \in Transfers, Accounted(u) PROVE Accounted(u)'
    <3>1. inflight'[u] = inflight[u] /\ answered' = answered /\ ended \subseteq ended'
      BY DEF Sync, ConnsOf, clips, transfers, writes
    <3>2. \A o \in Conns : AckMsg(u) \in written[o] \cup going[o] =>
            o \in ended' \/ AckMsg(u) \in written'[o] \cup going'[o]
      BY DEF Sync, ConnsOf, clips, transfers, writes, Inductive, Typed, TypeOK, JobHeld, AckMsg
    <3> QED
      BY <2>1, <2>2, <3>1, <3>2, AccountedKept
  <2>3. ASSUME NEW o \in Conns, stage'[o] = "routing", job'[o].m \in FileMessage
        PROVE  stage[o] = "routing" /\ job'[o] = job[o]
    BY <2>3 DEF Sync, ConnsOf, clips, transfers, writes, Inductive, Typed, TypeOK
  <2> QED
    BY <2>1, <2>2, <2>3, FilesStill DEF Inductive
<1>5. InOrder'
  BY HubAssumption DEF Sync, ConnsOf, online, clips, transfers, writes, InOrder, Inductive, Typed, TypeOK, JobHeld
<1> QED
  BY <1>1, <1>2, <1>3, <1>4, <1>5 DEF Inductive

LEMMA AnnounceKeeps ==
  ASSUME Typed, Inductive, NEW c \in Conns, Announce(c)
  PROVE  Inductive'
<1>1. Offered'
  BY HubAssumption DEF Announce, Listed, online, clips, transfers, Offered, Inductive, Typed, TypeOK, JobHeld, conns, ClipMsg
<1>2. ListOffered'
  <2>1. conns' = conns /\ load'.lists = load.lists
    BY DEF Announce, clips, transfers, conns, Inductive, Typed, TypeOK
  <2>2. \A o \in Conns : Listed[o] \subseteq going'[o]
    BY DEF Announce, clips, transfers, Inductive, Typed, TypeOK
  <2> QED
    BY <2>1, <2>2, ListSent
<1>3. InflightConnected'
  BY HubAssumption DEF Announce, Listed, online, clips, transfers, InflightConnected, Inductive, Typed, TypeOK, JobHeld, conns
<1>4. NoneForgotten' /\ OneAtATime'
  <2>1. UNCHANGED <<files, sent, via>>
    BY DEF Announce, Listed, clips, transfers
  <2>2. ASSUME NEW u \in Transfers, Accounted(u) PROVE Accounted(u)'
    <3>1. inflight'[u] = inflight[u] /\ answered' = answered /\ ended \subseteq ended'
      BY DEF Announce, Listed, clips, transfers
    <3>2. \A o \in Conns : AckMsg(u) \in written[o] \cup going[o] =>
            o \in ended' \/ AckMsg(u) \in written'[o] \cup going'[o]
      BY DEF Announce, Listed, clips, transfers, Inductive, Typed, TypeOK, JobHeld, AckMsg
    <3> QED
      BY <2>1, <2>2, <3>1, <3>2, AccountedKept
  <2>3. ASSUME NEW o \in Conns, stage'[o] = "routing", job'[o].m \in FileMessage
        PROVE  stage[o] = "routing" /\ job'[o] = job[o]
    BY <2>3 DEF Announce, Listed, clips, transfers, Inductive, Typed, TypeOK
  <2> QED
    BY <2>1, <2>2, <2>3, FilesStill DEF Inductive
<1>5. InOrder'
  BY HubAssumption DEF Announce, Listed, online, clips, transfers, InOrder, Inductive, Typed, TypeOK, JobHeld
<1> QED
  BY <1>1, <1>2, <1>3, <1>4, <1>5 DEF Inductive

LEMMA BreakKeeps ==
  ASSUME Typed, Inductive, NEW c \in Conns, Break(c)
  PROVE  Inductive'
<1>1. Offered'
  BY HubAssumption DEF Break, Spend, online, handlers, clips, transfers, writes, Offered, Inductive, Typed, TypeOK, JobHeld, conns, ClipMsg
<1>2. ListOffered'
  <2>1. conns' = conns /\ load'.lists = load.lists /\ ended \subseteq ended'
    BY DEF Break, Spend, handlers, clips, transfers, writes, conns, Inductive, Typed, TypeOK
  <2>2. \A o \in Conns : stage'[o] \notin {"joined", "left"} => stage[o] \notin {"joined", "left"}
    BY DEF Break, Spend, handlers, clips, transfers, writes, Inductive, Typed, TypeOK
  <2>3. \A o \in conns \ ended' : DevicesMsg(online) \in written[o] \cup going[o] =>
          DevicesMsg(online) \in written'[o] \cup going'[o]
    BY DEF Break, Spend, handlers, clips, transfers, writes, conns, DevicesMsg, Inductive, Typed, TypeOK
  <2> QED
    BY <2>1, <2>2, <2>3, ListStill DEF Inductive
<1>3. InflightConnected'
  BY HubAssumption DEF Break, Spend, online, handlers, clips, transfers, writes, InflightConnected, Inductive, Typed, TypeOK, JobHeld, conns
<1>4. NoneForgotten' /\ OneAtATime'
  <2>1. UNCHANGED <<files, sent, via>>
    BY DEF Break, Spend, handlers, clips, transfers, writes
  <2>2. ASSUME NEW u \in Transfers, Accounted(u) PROVE Accounted(u)'
    <3>1. inflight'[u] = inflight[u] /\ answered' = answered /\ ended \subseteq ended'
      BY DEF Break, Spend, handlers, clips, transfers, writes
    <3>2. \A o \in Conns : AckMsg(u) \in written[o] \cup going[o] =>
            o \in ended' \/ AckMsg(u) \in written'[o] \cup going'[o]
      BY DEF Break, Spend, handlers, clips, transfers, writes, Inductive, Typed, TypeOK, JobHeld, AckMsg
    <3> QED
      BY <2>1, <2>2, <3>1, <3>2, AccountedKept
  <2>3. ASSUME NEW o \in Conns, stage'[o] = "routing", job'[o].m \in FileMessage
        PROVE  stage[o] = "routing" /\ job'[o] = job[o]
    BY <2>3 DEF Break, Spend, handlers, clips, transfers, writes, Inductive, Typed, TypeOK
  <2> QED
    BY <2>1, <2>2, <2>3, FilesStill DEF Inductive
<1>5. InOrder'
  BY HubAssumption DEF Break, Spend, online, handlers, clips, transfers, writes, InOrder, Inductive, Typed, TypeOK, JobHeld
<1> QED
  BY <1>1, <1>2, <1>3, <1>4, <1>5 DEF Inductive

LEMMA KickKeeps ==
  ASSUME Typed, Inductive, NEW D, Kick(D)
  PROVE  Inductive'
<1>1. Offered'
  BY HubAssumption DEF Kick, Spend, online, handlers, clips, transfers, writes, Offered, Inductive, Typed, TypeOK, JobHeld, conns, ClipMsg
<1>2. ListOffered'
  <2>1. conns' = conns /\ load'.lists = load.lists /\ ended \subseteq ended'
    BY DEF Kick, Spend, handlers, clips, transfers, writes, conns, Inductive, Typed, TypeOK
  <2>2. \A o \in Conns : stage'[o] \notin {"joined", "left"} => stage[o] \notin {"joined", "left"}
    BY DEF Kick, Spend, handlers, clips, transfers, writes, Inductive, Typed, TypeOK
  <2>3. \A o \in conns \ ended' : DevicesMsg(online) \in written[o] \cup going[o] =>
          DevicesMsg(online) \in written'[o] \cup going'[o]
    BY DEF Kick, Spend, handlers, clips, transfers, writes, conns, DevicesMsg, Inductive, Typed, TypeOK
  <2> QED
    BY <2>1, <2>2, <2>3, ListStill DEF Inductive
<1>3. InflightConnected'
  BY HubAssumption DEF Kick, Spend, online, handlers, clips, transfers, writes, InflightConnected, Inductive, Typed, TypeOK, JobHeld, conns
<1>4. NoneForgotten' /\ OneAtATime'
  <2>1. UNCHANGED <<files, sent, via>>
    BY DEF Kick, Spend, handlers, clips, transfers, writes
  <2>2. ASSUME NEW u \in Transfers, Accounted(u) PROVE Accounted(u)'
    <3>1. inflight'[u] = inflight[u] /\ answered' = answered /\ ended \subseteq ended'
      BY DEF Kick, Spend, handlers, clips, transfers, writes
    <3>2. \A o \in Conns : AckMsg(u) \in written[o] \cup going[o] =>
            o \in ended' \/ AckMsg(u) \in written'[o] \cup going'[o]
      BY DEF Kick, Spend, handlers, clips, transfers, writes, Inductive, Typed, TypeOK, JobHeld, AckMsg
    <3> QED
      BY <2>1, <2>2, <3>1, <3>2, AccountedKept
  <2>3. ASSUME NEW o \in Conns, stage'[o] = "routing", job'[o].m \in FileMessage
        PROVE  stage[o] = "routing" /\ job'[o] = job[o]
    BY <2>3 DEF Kick, Spend, handlers, clips, transfers, writes, Inductive, Typed, TypeOK
  <2> QED
    BY <2>1, <2>2, <2>3, FilesStill DEF Inductive
<1>5. InOrder'
  BY HubAssumption DEF Kick, Spend, online, handlers, clips, transfers, writes, InOrder, Inductive, Typed, TypeOK, JobHeld
<1> QED
  BY <1>1, <1>2, <1>3, <1>4, <1>5 DEF Inductive

LEMMA ReadClipKeeps ==
  ASSUME Typed, Inductive, NEW c \in Conns, NEW m \in Traffic, ReadClip(c, m)
  PROVE  Inductive'
<1>1. Offered'
  BY HubAssumption DEF ReadClip, online, handlers, transfers, Offered, Inductive, Typed, TypeOK, JobHeld, conns, ClipMsg
<1>2. ListOffered'
  <2>1. conns' = conns /\ load'.lists = load.lists /\ ended \subseteq ended'
    BY DEF ReadClip, handlers, transfers, conns, Inductive, Typed, TypeOK
  <2>2. \A o \in Conns : stage'[o] \notin {"joined", "left"} => stage[o] \notin {"joined", "left"}
    BY DEF ReadClip, handlers, transfers, Inductive, Typed, TypeOK
  <2>3. \A o \in conns \ ended' : DevicesMsg(online) \in written[o] \cup going[o] =>
          DevicesMsg(online) \in written'[o] \cup going'[o]
    BY DEF ReadClip, handlers, transfers, conns, DevicesMsg, Inductive, Typed, TypeOK
  <2> QED
    BY <2>1, <2>2, <2>3, ListStill DEF Inductive
<1>3. InflightConnected'
  BY HubAssumption DEF ReadClip, online, handlers, transfers, InflightConnected, Inductive, Typed, TypeOK, JobHeld, conns
<1>4. NoneForgotten' /\ OneAtATime'
  <2>1. UNCHANGED <<files, sent, via>>
    BY DEF ReadClip, handlers, transfers
  <2>2. ASSUME NEW u \in Transfers, Accounted(u) PROVE Accounted(u)'
    <3>1. inflight'[u] = inflight[u] /\ answered' = answered /\ ended \subseteq ended'
      BY DEF ReadClip, handlers, transfers
    <3>2. \A o \in Conns : AckMsg(u) \in written[o] \cup going[o] =>
            o \in ended' \/ AckMsg(u) \in written'[o] \cup going'[o]
      BY DEF ReadClip, handlers, transfers, Inductive, Typed, TypeOK, JobHeld, AckMsg
    <3> QED
      BY <2>1, <2>2, <3>1, <3>2, AccountedKept
  <2>3. ASSUME NEW o \in Conns, stage'[o] = "routing", job'[o].m \in FileMessage
        PROVE  stage[o] = "routing" /\ job'[o] = job[o]
    BY <2>3 DEF ReadClip, handlers, transfers, Inductive, Typed, TypeOK
  <2> QED
    BY <2>1, <2>2, <2>3, FilesStill DEF Inductive
<1>5. InOrder'
  BY HubAssumption DEF ReadClip, online, handlers, transfers, InOrder, Inductive, Typed, TypeOK, JobHeld
<1> QED
  BY <1>1, <1>2, <1>3, <1>4, <1>5 DEF Inductive

LEMMA WriteKeeps ==
  ASSUME Typed, Inductive, NEW c \in Conns, NEW m \in going[c], Write(c, m)
  PROVE  Inductive'
<1>1. Offered'
  BY HubAssumption DEF Write, Open, online, handlers, transfers, Offered, Inductive, Typed, TypeOK, JobHeld, conns, ClipMsg
<1>2. ListOffered'
  <2>1. conns' = conns /\ load'.lists = load.lists /\ ended \subseteq ended'
    BY DEF Write, Open, handlers, transfers, conns, Inductive, Typed, TypeOK
  <2>2. \A o \in Conns : stage'[o] \notin {"joined", "left"} => stage[o] \notin {"joined", "left"}
    BY DEF Write, Open, handlers, transfers, Inductive, Typed, TypeOK
  <2>3. \A o \in conns \ ended' : DevicesMsg(online) \in written[o] \cup going[o] =>
          DevicesMsg(online) \in written'[o] \cup going'[o]
    BY DEF Write, Open, handlers, transfers, conns, DevicesMsg, Inductive, Typed, TypeOK
  <2> QED
    BY <2>1, <2>2, <2>3, ListStill DEF Inductive
<1>3. InflightConnected'
  BY HubAssumption DEF Write, Open, online, handlers, transfers, InflightConnected, Inductive, Typed, TypeOK, JobHeld, conns
<1>4. NoneForgotten' /\ OneAtATime'
  <2>1. UNCHANGED <<files, sent, via>>
    BY DEF Write, Open, handlers, transfers
  <2>2. ASSUME NEW u \in Transfers, Accounted(u) PROVE Accounted(u)'
    <3>1. inflight'[u] = inflight[u] /\ answered' = answered /\ ended \subseteq ended'
      BY DEF Write, Open, handlers, transfers
    <3>2. \A o \in Conns : AckMsg(u) \in written[o] \cup going[o] =>
            o \in ended' \/ AckMsg(u) \in written'[o] \cup going'[o]
      BY DEF Write, Open, handlers, transfers, Inductive, Typed, TypeOK, JobHeld, AckMsg
    <3> QED
      BY <2>1, <2>2, <3>1, <3>2, AccountedKept
  <2>3. ASSUME NEW o \in Conns, stage'[o] = "routing", job'[o].m \in FileMessage
        PROVE  stage[o] = "routing" /\ job'[o] = job[o]
    BY <2>3 DEF Write, Open, handlers, transfers, Inductive, Typed, TypeOK
  <2> QED
    BY <2>1, <2>2, <2>3, FilesStill DEF Inductive
<1>5. InOrder'
  BY HubAssumption DEF Write, Open, online, handlers, transfers, InOrder, Inductive, Typed, TypeOK, JobHeld
<1> QED
  BY <1>1, <1>2, <1>3, <1>4, <1>5 DEF Inductive

LEMMA ReadFileKeeps ==
  ASSUME Typed, Inductive, NEW c \in Conns, NEW t \in Transfers, ReadFile(c, t)
  PROVE  Inductive'
<1>1. Offered'
  BY HubAssumption DEF ReadFile, Route, Target, Targets, ConnsOf, online, clips, writes, Offered, Inductive, Typed, TypeOK, JobHeld, conns, ClipMsg
<1>2. ListOffered'
  <2>1. conns' = conns /\ load'.lists = load.lists /\ ended \subseteq ended'
    BY DEF ReadFile, Route, Target, Targets, ConnsOf, clips, writes, conns, Inductive, Typed, TypeOK
  <2>2. \A o \in Conns : stage'[o] \notin {"joined", "left"} => stage[o] \notin {"joined", "left"}
    BY DEF ReadFile, Route, Target, Targets, ConnsOf, clips, writes, Inductive, Typed, TypeOK
  <2>3. \A o \in conns \ ended' : DevicesMsg(online) \in written[o] \cup going[o] =>
          DevicesMsg(online) \in written'[o] \cup going'[o]
    BY DEF ReadFile, Route, Target, Targets, ConnsOf, clips, writes, conns, DevicesMsg, Inductive, Typed, TypeOK
  <2> QED
    BY <2>1, <2>2, <2>3, ListStill DEF Inductive
<1>3. InflightConnected'
  BY HubAssumption DEF ReadFile, Route, Target, Targets, ConnsOf, online, clips, writes, InflightConnected, Inductive, Typed, TypeOK, JobHeld, conns
<1>4. NoneForgotten'
  <2> SUFFICES ASSUME NEW u \in Transfers, NEW o \in Conns, NEW i \in DOMAIN files'[o],
                      files'[o][i] = FileMsg(u, 0)
               PROVE  Accounted(u)'
    BY DEF NoneForgotten, FileMsg
  <2>1. files' = files
    BY DEF ReadFile
  <2>2. Accounted(u) /\ 0 < sent[u]
    BY <2>1 DEF Inductive, NoneForgotten, OneAtATime, FileMsg
  <2> QED
    BY <2>2, ReadFileAccounts
<1>5. InOrder'
  BY HubAssumption DEF ReadFile, Route, Target, Targets, ConnsOf, online, clips, writes, InOrder, Inductive, Typed, TypeOK, JobHeld
<1>6. OneAtATime'
  <2>1. files' = files /\ \A u \in Transfers : sent[u] <= sent'[u] /\ sent[u] \in Nat
    BY DEF ReadFile, Typed, TypeOK
  <2>2. ASSUME NEW o \in Conns, NEW i \in DOMAIN files'[o]
        PROVE  files'[o][i].n < sent'[files'[o][i].t]
    <3>1. files[o][i] \in FileMessage
      BY <2>1, <2>2 DEF Typed, TypeOK
    <3>2. files[o][i].n \in Nat /\ files[o][i].t \in Transfers
      BY <3>1 DEF FileMessage
    <3>3. files[o][i].n < sent[files[o][i].t] /\ sent'[files[o][i].t] \in Nat
      BY <2>1, <2>2, <3>2 DEF Inductive, OneAtATime, ReadFile, Typed, TypeOK
    <3> QED
      BY <2>1, <3>2, <3>3
  <2>3. ASSUME NEW o \in Conns, stage'[o] = "routing", job'[o].m \in FileMessage
        PROVE  InTurn(o)'
    <3>1. CASE o = c
      <4>1. job'[c].m = FileMsg(t, sent[t]) /\ sent'[t] = sent[t] + 1 /\ via'[t] = c
        BY DEF ReadFile, Route, Typed, TypeOK
      <4>2. \A p \in Conns : \A i \in DOMAIN files'[p] : files'[p][i].t = t => files'[p][i].n < sent[t]
        BY <2>1 DEF Inductive, OneAtATime
      <4>3. sent[t] = 0 => inflight'[t] # None
        BY <2>3, <3>1 DEF ReadFile, Route, Typed, TypeOK, FileMsg
      <4> QED
        BY <3>1, <4>1, <4>2, <4>3 DEF InTurn, FileMsg, Accounted
    <3>2. CASE o # c
      <4>1. stage[o] = "routing" /\ job'[o] = job[o]
        BY <2>3, <3>2 DEF ReadFile, Route, Typed, TypeOK
      <4>2. InTurn(o) /\ job[o].m.t \in Transfers /\ job[o].m.n \in Nat
        BY <2>3, <4>1 DEF Inductive, OneAtATime, FileMessage
      <4>3. 0 < sent[job[o].m.t] /\ via[job[o].m.t] # c
        BY <3>2, <4>2 DEF InTurn
      <4>4. job[o].m.t # t
        BY <4>3 DEF ReadFile
      <4>5. via'[job[o].m.t] = via[job[o].m.t] /\ sent'[job[o].m.t] = sent[job[o].m.t]
        BY <4>2, <4>4 DEF ReadFile
      <4>6. \A u \in Transfers : Accounted(u) /\ 0 < sent[u] => Accounted(u)'
        BY ReadFileAccounts
      <4> QED
        BY <2>1, <4>1, <4>2, <4>3, <4>5, <4>6 DEF InTurn, Accounted
    <3> QED
      BY <3>1, <3>2
  <2> QED
    BY <2>2, <2>3 DEF OneAtATime
<1> QED
  BY <1>1, <1>2, <1>3, <1>4, <1>5, <1>6 DEF Inductive

LEMMA ReadAckKeeps ==
  ASSUME Typed, Inductive, NEW c \in Conns, NEW t \in Transfers, ReadAck(c, t)
  PROVE  Inductive'
<1>1. Offered'
  BY HubAssumption DEF ReadAck, Route, Target, Targets, ConnsOf, online, clips, writes, Offered, Inductive, Typed, TypeOK, JobHeld, conns, ClipMsg
<1>2. ListOffered'
  <2>1. conns' = conns /\ load'.lists = load.lists /\ ended \subseteq ended'
    BY DEF ReadAck, Route, Target, Targets, ConnsOf, clips, writes, conns, Inductive, Typed, TypeOK
  <2>2. \A o \in Conns : stage'[o] \notin {"joined", "left"} => stage[o] \notin {"joined", "left"}
    BY DEF ReadAck, Route, Target, Targets, ConnsOf, clips, writes, Inductive, Typed, TypeOK
  <2>3. \A o \in conns \ ended' : DevicesMsg(online) \in written[o] \cup going[o] =>
          DevicesMsg(online) \in written'[o] \cup going'[o]
    BY DEF ReadAck, Route, Target, Targets, ConnsOf, clips, writes, conns, DevicesMsg, Inductive, Typed, TypeOK
  <2> QED
    BY <2>1, <2>2, <2>3, ListStill DEF Inductive
<1>3. InflightConnected'
  BY HubAssumption DEF ReadAck, Route, Target, Targets, ConnsOf, online, clips, writes, InflightConnected, Inductive, Typed, TypeOK, JobHeld, conns
<1>4. NoneForgotten' /\ OneAtATime'
  <2>1. UNCHANGED <<files, sent, via, ended, going, written>>
    BY DEF ReadAck, writes
  <2>2. ASSUME NEW u \in Transfers, Accounted(u) PROVE Accounted(u)'
    <3>1. CASE u = t
      BY <3>1 DEF ReadAck, Accounted
    <3>2. CASE u # t
      <4>1. inflight'[u] = inflight[u] /\ answered \subseteq answered'
        BY <3>2 DEF ReadAck, Typed, TypeOK
      <4> QED
        BY <2>1, <2>2, <4>1, AccountedKept
    <3> QED
      BY <3>1, <3>2
  <2>3. ASSUME NEW o \in Conns, stage'[o] = "routing", job'[o].m \in FileMessage
        PROVE  stage[o] = "routing" /\ job'[o] = job[o]
    <3>1. job'[c].m = AckMsg(t) /\ AckMsg(t) \notin FileMessage
      BY DEF ReadAck, Route, Typed, TypeOK, AckMsg, FileMessage
    <3> QED
      BY <2>3, <3>1 DEF ReadAck, Route, Typed, TypeOK
  <2> QED
    BY <2>1, <2>2, <2>3, FilesStill DEF Inductive
<1>5. InOrder'
  BY HubAssumption DEF ReadAck, Route, Target, Targets, ConnsOf, online, clips, writes, InOrder, Inductive, Typed, TypeOK, JobHeld
<1> QED
  BY <1>1, <1>2, <1>3, <1>4, <1>5 DEF Inductive

LEMMA SendKeeps ==
  ASSUME Typed, Inductive, NEW c \in Conns, Send(c)
  PROVE  Inductive'
<1>1. Offered'
  BY HubAssumption DEF Send, NoJob, Open, online, clips, Offered, Inductive, Typed, TypeOK, JobHeld, conns, ClipMsg
<1>2. ListOffered'
  <2>1. conns' = conns /\ load' = load /\ ended' = ended
    BY DEF Send, conns, Typed, TypeOK
  <2>2. \A o \in Conns : stage'[o] \notin {"joined", "left"} => stage[o] \notin {"joined", "left"}
    BY DEF Send, Typed, TypeOK
  <2>3. going' = going /\ \A o \in Conns : written[o] \subseteq written'[o]
    BY SendWritten DEF Send
  <2> QED
    BY <2>1, <2>2, <2>3, ListStill DEF Inductive, conns
<1>3. InflightConnected'
  BY HubAssumption DEF Send, NoJob, Open, online, clips, InflightConnected, Inductive, Typed, TypeOK, JobHeld, conns
<1>4. NoneForgotten'
  <2>1. ASSUME NEW u \in Transfers, Accounted(u) PROVE Accounted(u)'
    <3>1. UNCHANGED <<inflight, via, answered, ended, going>>
      BY DEF Send
    <3> QED
      BY <2>1, <3>1, SendWritten, AccountedKept
  <2>2. ASSUME NEW u \in Transfers, NEW o \in Conns, NEW i \in DOMAIN files'[o],
               files'[o][i] = FileMsg(u, 0)
        PROVE  Accounted(u)
    <3>1. CASE i \in DOMAIN files[o] /\ files'[o][i] = files[o][i]
      BY <2>2, <3>1 DEF Inductive, NoneForgotten
    <3>2. CASE files'[o][i] = job[c].m /\ job[c].m \in FileMessage
      BY <2>2, <3>2 DEF Inductive, OneAtATime, InTurn, Send, FileMsg
    <3> QED
      BY <3>1, <3>2, SendFiles
  <2> QED
    BY <2>1, <2>2 DEF NoneForgotten, FileMsg
<1>5. InOrder'
  <2> SUFFICES ASSUME NEW o \in Conns, NEW i \in DOMAIN files'[o], NEW j \in DOMAIN files'[o],
                      i < j, files'[o][i].t = files'[o][j].t
               PROVE  files'[o][i].n < files'[o][j].n
    BY DEF InOrder
  <2>1. CASE j \in DOMAIN files[o] /\ files'[o][j] = files[o][j]
    <3>1. i \in Nat /\ j \in Nat
      <4>1. files[o] \in Seq(FileMessage) /\ files'[o] \in Seq(FileMessage)
        BY SendTyped DEF Typed, TypeOK
      <4> QED
        BY <4>1
    <3>2. i \notin DOMAIN files[o] => j < i
      BY <2>1, SendFiles
    <3>3. i \in DOMAIN files[o] /\ files'[o][i] = files[o][i]
      BY <3>1, <3>2, SendFiles
    <3> QED
      BY <2>1, <3>3 DEF Inductive, InOrder
  <2>2. CASE files'[o][j] = job[c].m /\ job[c].m \in FileMessage /\ j \notin DOMAIN files[o]
    <3>1. i # j
      <4>1. files[o] \in Seq(FileMessage) /\ files'[o] \in Seq(FileMessage)
        BY SendTyped DEF Typed, TypeOK
      <4> QED
        BY <4>1
    <3>2. i \in DOMAIN files[o] /\ files'[o][i] = files[o][i]
      BY <2>2, <3>1, SendFiles
    <3>3. stage[c] = "routing" /\ InTurn(c)
      BY <2>2 DEF Inductive, OneAtATime, Send
    <3> QED
      BY <2>2, <3>2, <3>3 DEF InTurn
  <2> QED
    BY <2>1, <2>2, SendFiles
<1>6. OneAtATime'
  <2>1. ASSUME NEW o \in Conns, NEW i \in DOMAIN files'[o]
        PROVE  files'[o][i].n < sent'[files'[o][i].t]
    <3>1. CASE i \in DOMAIN files[o] /\ files'[o][i] = files[o][i]
      BY <3>1 DEF Inductive, OneAtATime, Send
    <3>2. CASE files'[o][i] = job[c].m /\ job[c].m \in FileMessage
      <4>1. job[c].m.n \in Nat /\ sent[job[c].m.t] = job[c].m.n + 1
        BY <3>2 DEF Inductive, OneAtATime, InTurn, Send, FileMessage
      <4> QED
        BY <3>2, <4>1 DEF Send
    <3> QED
      BY <3>1, <3>2, SendFiles
  <2>2. ASSUME NEW o \in Conns, stage'[o] = "routing", job'[o].m \in FileMessage
        PROVE  InTurn(o)'
    <3>1. o # c /\ stage[o] = "routing" /\ job'[o] = job[o]
      BY <2>2 DEF Send, Typed, TypeOK
    <3>2. InTurn(o) /\ job[o].m.t \in Transfers
      BY <2>2, <3>1 DEF Inductive, OneAtATime, FileMessage
    <3>3. ASSUME NEW p \in Conns, NEW i \in DOMAIN files'[p], files'[p][i].t = job[o].m.t
          PROVE  files'[p][i].n < job[o].m.n
      <4>1. CASE i \in DOMAIN files[p] /\ files'[p][i] = files[p][i]
        BY <3>2, <3>3, <4>1 DEF InTurn
      <4>2. CASE files'[p][i] = job[c].m /\ job[c].m \in FileMessage
        BY <3>1, <3>2, <3>3, <4>2 DEF Inductive, OneAtATime, InTurn, Send
      <4> QED
        BY <4>1, <4>2, SendFiles
    <3>4. \A u \in Transfers : Accounted(u) => Accounted(u)'
      BY SendAccounts
    <3>5. UNCHANGED <<via, sent>>
      BY DEF Send
    <3> QED
      BY <3>1, <3>2, <3>3, <3>4, <3>5 DEF InTurn, Accounted
  <2> QED
    BY <2>1, <2>2 DEF OneAtATime
<1> QED
  BY <1>1, <1>2, <1>3, <1>4, <1>5, <1>6 DEF Inductive

LEMMA SendFailsKeeps ==
  ASSUME Typed, Inductive, NEW c \in Conns, SendFails(c)
  PROVE  Inductive'
<1>1. Offered'
  BY HubAssumption DEF SendFails, online, clips, transfers, writes, Offered, Inductive, Typed, TypeOK, JobHeld, conns, ClipMsg
<1>2. ListOffered'
  <2>1. conns' = conns /\ load'.lists = load.lists /\ ended \subseteq ended'
    BY DEF SendFails, clips, transfers, writes, conns, Inductive, Typed, TypeOK
  <2>2. \A o \in Conns : stage'[o] \notin {"joined", "left"} => stage[o] \notin {"joined", "left"}
    BY DEF SendFails, clips, transfers, writes, Inductive, Typed, TypeOK
  <2>3. \A o \in conns \ ended' : DevicesMsg(online) \in written[o] \cup going[o] =>
          DevicesMsg(online) \in written'[o] \cup going'[o]
    BY DEF SendFails, clips, transfers, writes, conns, DevicesMsg, Inductive, Typed, TypeOK
  <2> QED
    BY <2>1, <2>2, <2>3, ListStill DEF Inductive
<1>3. InflightConnected'
  BY HubAssumption DEF SendFails, online, clips, transfers, writes, InflightConnected, Inductive, Typed, TypeOK, JobHeld, conns
<1>4. NoneForgotten' /\ OneAtATime'
  <2>1. UNCHANGED <<files, sent, via>>
    BY DEF SendFails, clips, transfers, writes
  <2>2. ASSUME NEW u \in Transfers, Accounted(u) PROVE Accounted(u)'
    <3>1. inflight'[u] = inflight[u] /\ answered' = answered /\ ended \subseteq ended'
      BY DEF SendFails, clips, transfers, writes
    <3>2. \A o \in Conns : AckMsg(u) \in written[o] \cup going[o] =>
            o \in ended' \/ AckMsg(u) \in written'[o] \cup going'[o]
      BY DEF SendFails, clips, transfers, writes, Inductive, Typed, TypeOK, JobHeld, AckMsg
    <3> QED
      BY <2>1, <2>2, <3>1, <3>2, AccountedKept
  <2>3. ASSUME NEW o \in Conns, stage'[o] = "routing", job'[o].m \in FileMessage
        PROVE  stage[o] = "routing" /\ job'[o] = job[o]
    BY <2>3 DEF SendFails, clips, transfers, writes, Inductive, Typed, TypeOK
  <2> QED
    BY <2>1, <2>2, <2>3, FilesStill DEF Inductive
<1>5. InOrder'
  BY HubAssumption DEF SendFails, online, clips, transfers, writes, InOrder, Inductive, Typed, TypeOK, JobHeld
<1> QED
  BY <1>1, <1>2, <1>3, <1>4, <1>5 DEF Inductive

LEMMA FailKeeps ==
  ASSUME Typed, Inductive, NEW c \in Conns, Fail(c)
  PROVE  Inductive'
<1>1. Offered'
  BY HubAssumption DEF Fail, NoJob, online, clips, transfers, Offered, Inductive, Typed, TypeOK, JobHeld, conns, ClipMsg
<1>2. ListOffered'
  <2>1. conns' = conns /\ load' = load /\ ended' = ended
    BY DEF Fail, conns, Typed, TypeOK
  <2>2. \A o \in Conns : stage'[o] \notin {"joined", "left"} => stage[o] \notin {"joined", "left"}
    BY DEF Fail, Typed, TypeOK
  <2>3. going' = going /\ \A o \in Conns : written[o] \subseteq written'[o]
    <3>1. CASE UNCHANGED written
      BY <3>1 DEF Fail
    <3>2. CASE written' = [written EXCEPT ![c] = @ \cup {AckMsg(job[c].m.t)}]
      BY <3>2 DEF Fail, Typed, TypeOK
    <3> QED
      BY <3>1, <3>2 DEF Fail
  <2> QED
    BY <2>1, <2>2, <2>3, ListStill DEF Inductive, conns
<1>3. InflightConnected'
  BY HubAssumption DEF Fail, NoJob, online, clips, transfers, InflightConnected, Inductive, Typed, TypeOK, JobHeld, conns
<1>4. NoneForgotten' /\ OneAtATime'
  <2>1. UNCHANGED <<files, sent, via, inflight, answered, ended, going>>
    BY DEF Fail, transfers
  <2>2. \A o \in Conns : written[o] \subseteq written'[o]
    <3>1. CASE UNCHANGED written
      BY <3>1
    <3>2. CASE written' = [written EXCEPT ![c] = @ \cup {AckMsg(job[c].m.t)}]
      BY <3>2 DEF Typed, TypeOK
    <3> QED
      BY <3>1, <3>2 DEF Fail
  <2>3. ASSUME NEW u \in Transfers, Accounted(u) PROVE Accounted(u)'
    BY <2>1, <2>2, <2>3, AccountedKept
  <2>4. ASSUME NEW o \in Conns, stage'[o] = "routing", job'[o].m \in FileMessage
        PROVE  stage[o] = "routing" /\ job'[o] = job[o]
    BY <2>4 DEF Fail, Typed, TypeOK
  <2> QED
    BY <2>1, <2>3, <2>4, FilesStill DEF Inductive
<1>5. InOrder'
  BY HubAssumption DEF Fail, NoJob, online, clips, transfers, InOrder, Inductive, Typed, TypeOK, JobHeld
<1> QED
  BY <1>1, <1>2, <1>3, <1>4, <1>5 DEF Inductive

LEMMA LeaveKeeps ==
  ASSUME Typed, Inductive, NEW c \in Conns, Leave(c)
  PROVE  Inductive'
<1>1. Offered'
  BY HubAssumption DEF Leave, NoJob, Orphaned, online, clips, Offered, Inductive, Typed, TypeOK, JobHeld, conns, ClipMsg
<1>2. ListOffered'
  BY HubAssumption DEF Leave, NoJob, Orphaned, online, clips, ListOffered, Inductive, Typed, TypeOK, JobHeld, conns, DevicesMsg
<1>3. InflightConnected'
  BY HubAssumption DEF Leave, NoJob, Orphaned, online, clips, InflightConnected, Inductive, Typed, TypeOK, JobHeld, conns
<1>4. NoneForgotten' /\ OneAtATime'
  <2>1. UNCHANGED <<files, sent, via, answered, ended, written>>
    BY DEF Leave, clips
  <2>2. ASSUME NEW u \in Transfers, Accounted(u) PROVE Accounted(u)'
    <3>1. \A o \in Conns : going[o] \subseteq going'[o]
      BY DEF Leave
    <3>2. CASE inflight[u] # None
      <4>1. via[u] \in Conns
        BY <3>2 DEF Inductive, InflightConnected, conns
      <4>2. CASE via[u] = c
        BY <2>1, <4>2 DEF Leave, Accounted
      <4>3. CASE via[u] # c /\ inflight[u] = c
        <5>1. AckMsg(u) \in going'[via[u]]
          BY <4>1, <4>3 DEF Leave, Orphaned
        <5> QED
          BY <2>1, <4>1, <5>1 DEF Accounted, AckMsg
      <4>4. CASE via[u] # c /\ inflight[u] # c
        BY <2>2, <3>2, <4>4 DEF Leave, Accounted
      <4> QED
        BY <4>2, <4>3, <4>4
    <3>3. CASE inflight[u] = None
      <4>1. inflight'[u] = inflight[u]
        BY <3>3 DEF Leave
      <4> QED
        BY <2>1, <2>2, <3>1, <4>1, AccountedKept
    <3> QED
      BY <3>2, <3>3
  <2>3. ASSUME NEW o \in Conns, stage'[o] = "routing", job'[o].m \in FileMessage
        PROVE  stage[o] = "routing" /\ job'[o] = job[o]
    BY <2>3 DEF Leave, Typed, TypeOK
  <2> QED
    BY <2>1, <2>2, <2>3, FilesStill DEF Inductive
<1>5. InOrder'
  BY HubAssumption DEF Leave, NoJob, Orphaned, online, clips, InOrder, Inductive, Typed, TypeOK, JobHeld
<1> QED
  BY <1>1, <1>2, <1>3, <1>4, <1>5 DEF Inductive

LEMMA FarewellKeeps ==
  ASSUME Typed, Inductive, NEW c \in Conns, Farewell(c)
  PROVE  Inductive'
<1>1. Offered'
  BY HubAssumption DEF Farewell, Listed, online, clips, transfers, Offered, Inductive, Typed, TypeOK, JobHeld, conns, ClipMsg
<1>2. ListOffered'
  <2>1. conns' = conns /\ load'.lists = load.lists
    BY DEF Farewell, clips, transfers, conns, Inductive, Typed, TypeOK
  <2>2. \A o \in Conns : Listed[o] \subseteq going'[o]
    BY DEF Farewell, clips, transfers, Inductive, Typed, TypeOK
  <2> QED
    BY <2>1, <2>2, ListSent
<1>3. InflightConnected'
  BY HubAssumption DEF Farewell, Listed, online, clips, transfers, InflightConnected, Inductive, Typed, TypeOK, JobHeld, conns
<1>4. NoneForgotten' /\ OneAtATime'
  <2>1. UNCHANGED <<files, sent, via>>
    BY DEF Farewell, Listed, clips, transfers
  <2>2. ASSUME NEW u \in Transfers, Accounted(u) PROVE Accounted(u)'
    <3>1. inflight'[u] = inflight[u] /\ answered' = answered /\ ended \subseteq ended'
      BY DEF Farewell, Listed, clips, transfers
    <3>2. \A o \in Conns : AckMsg(u) \in written[o] \cup going[o] =>
            o \in ended' \/ AckMsg(u) \in written'[o] \cup going'[o]
      BY DEF Farewell, Listed, clips, transfers, Inductive, Typed, TypeOK, JobHeld, AckMsg
    <3> QED
      BY <2>1, <2>2, <3>1, <3>2, AccountedKept
  <2>3. ASSUME NEW o \in Conns, stage'[o] = "routing", job'[o].m \in FileMessage
        PROVE  stage[o] = "routing" /\ job'[o] = job[o]
    BY <2>3 DEF Farewell, Listed, clips, transfers, Inductive, Typed, TypeOK
  <2> QED
    BY <2>1, <2>2, <2>3, FilesStill DEF Inductive
<1>5. InOrder'
  BY HubAssumption DEF Farewell, Listed, online, clips, transfers, InOrder, Inductive, Typed, TypeOK, JobHeld
<1> QED
  BY <1>1, <1>2, <1>3, <1>4, <1>5 DEF Inductive

LEMMA InitInductive == Init => Inductive
<1> SUFFICES ASSUME Init PROVE Inductive
  OBVIOUS
<1>1. conns = {}
  BY DEF Init, conns
<1>2. Offered /\ ListOffered
  BY <1>1 DEF Offered, ListOffered
<1>3. InflightConnected
  BY DEF Init, InflightConnected
<1>4. \A c \in Conns : files[c] = <<>> /\ stage[c] # "routing"
  BY DEF Init
<1>5. NoneForgotten /\ InOrder /\ OneAtATime
  BY <1>4 DEF NoneForgotten, InOrder, OneAtATime
<1> QED
  BY <1>2, <1>3, <1>5 DEF Inductive

LEMMA StepInductive ==
  ASSUME Typed, Inductive, [Next]_vars
  PROVE  Inductive'
<1>1. CASE UNCHANGED vars
  <2>1. UNCHANGED <<stage, held, job, ended, current, met, inflight, sent, via, answered,
                    files, going, written, load>>
    BY <1>1 DEF vars, handlers, clips, transfers, writes
  <2>2. conns' = conns /\ online' = online
    BY <2>1 DEF conns, online
  <2>3. Offered' /\ ListOffered' /\ InflightConnected' /\ InOrder'
    BY <2>1, <2>2 DEF Inductive, Offered, ListOffered, InflightConnected, InOrder,
       DevicesMsg, ClipMsg
  <2>4. \A t \in Transfers : Accounted(t) => Accounted(t)'
    BY <2>1, AccountedKept
  <2>5. NoneForgotten' /\ OneAtATime'
    BY <2>1, <2>4, FilesStill DEF Inductive
  <2> QED
    BY <2>3, <2>5 DEF Inductive
<1>2. ASSUME NEW c \in Conns, Sync(c) \/ Break(c) \/ Send(c) \/ Handle(c)
      PROVE  Inductive'
  BY <1>2, SyncKeeps, BreakKeeps, SendKeeps, AnnounceKeeps, SendFailsKeeps,
     FailKeeps, LeaveKeeps, FarewellKeeps DEF Handle
<1>3. ASSUME NEW c \in Conns, NEW m \in Traffic, ReadClip(c, m)
      PROVE  Inductive'
  BY <1>3, ReadClipKeeps
<1>4. ASSUME NEW c \in Conns, NEW m \in going[c], Write(c, m)
      PROVE  Inductive'
  BY <1>4, WriteKeeps
<1>5. ASSUME NEW c \in Conns, NEW t \in Transfers, ReadFile(c, t) \/ ReadAck(c, t)
      PROVE  Inductive'
  BY <1>5, ReadFileKeeps, ReadAckKeeps
<1>6. ASSUME NEW D, Kick(D)
      PROVE  Inductive'
  BY <1>6, KickKeeps
<1> QED
  BY <1>1, <1>2, <1>3, <1>4, <1>5, <1>6 DEF Next

-----------------------------------------------------------------------------
(* The theorems.                                                           *)

\* Every reachable state satisfies what the proofs carry along: the invariants
\* of the hub, with the order in which a handler passes on a file's messages.
THEOREM InductiveHolds == Spec => []Inductive
<1>1. Init => Typed /\ Inductive
  BY InitTyped, InitInductive
<1>2. Typed /\ Inductive /\ [Next]_vars => (Typed /\ Inductive)'
  BY StepTyped, StepInductive
<1> QED
  BY <1>1, <1>2, PTL DEF Spec

\* However clips, connections and writes interleave, a connection that lives
\* has the hub's newest clip, or is about to be sent it.
THEOREM OfferedHolds == Spec => []Offered
BY InductiveHolds, PTL DEF Inductive

\* Once every change has been announced, each connection that lives has been
\* sent the list of the devices connected now, or a goroutine is sending it.
THEOREM ListOfferedHolds == Spec => []ListOffered
BY InductiveHolds, PTL DEF Inductive

\* A transfer in flight has both its ends among the connections, so that the
\* one that leaves first ends it.
THEOREM InflightConnectedHolds == Spec => []InflightConnected
BY InductiveHolds, PTL DEF Inductive

\* A transfer whose start went out is in flight, answered, failed to its
\* sender, or has lost its sender.
THEOREM NoneForgottenHolds == Spec => []NoneForgotten
BY InductiveHolds, PTL DEF Inductive

\* The messages of a file reach a connection in the order they were sent.
THEOREM InOrderHolds == Spec => []InOrder
BY InductiveHolds, PTL DEF Inductive

-----------------------------------------------------------------------------
(* The senders: NoneLeftWaiting.                                           *)

LEMMA StepBegun ==
  ASSUME Typed, Begun, [Next]_vars
  PROVE  Begun'
<1>1. ASSUME UNCHANGED <<inflight, sent>> PROVE Begun'
  BY <1>1 DEF Begun
<1>2. CASE UNCHANGED vars
  BY <1>1, <1>2 DEF vars, transfers
<1>3. ASSUME NEW c \in Conns, Sync(c) \/ Break(c) \/ Send(c) \/ Announce(c) \/ SendFails(c)
                              \/ Fail(c) \/ Farewell(c)
      PROVE  Begun'
  BY <1>1, <1>3 DEF Sync, Break, Send, Announce, SendFails, Fail, Farewell, transfers
<1>4. ASSUME NEW c \in Conns, Leave(c) PROVE Begun'
  BY <1>4 DEF Leave, Begun
<1>5. ASSUME NEW c \in Conns, NEW t \in Transfers, ReadFile(c, t) PROVE Begun'
  BY <1>5 DEF ReadFile, Begun, Typed, TypeOK
<1>6. ASSUME NEW c \in Conns, NEW t \in Transfers, ReadAck(c, t) PROVE Begun'
  BY <1>6 DEF ReadAck, Begun, Typed, TypeOK
<1>7. ASSUME NEW c \in Conns, NEW m, ReadClip(c, m) \/ Write(c, m) PROVE Begun'
  BY <1>1, <1>7 DEF ReadClip, Write, transfers
<1>8. ASSUME NEW D, Kick(D) PROVE Begun'
  BY <1>1, <1>8 DEF Kick, transfers
<1> QED
  BY <1>2, <1>3, <1>4, <1>5, <1>6, <1>7, <1>8 DEF Next, Handle

\* What is told stays told while messages that are going are only written, or
\* their connection ends.
LEMMA ToldKept ==
  ASSUME NEW t \in Transfers, Told(t), via'[t] = via[t],
         answered \subseteq answered', ended \subseteq ended',
         \A c \in Conns : AckMsg(t) \in written[c] \cup going[c] =>
           AckMsg(t) \in written'[c] \cup going'[c] \/ c \in ended
  PROVE  Told(t)'
BY DEF Told, AckMsg

LEMMA StepTold ==
  ASSUME Typed, [Next]_vars
  PROVE  ToldStays
<1> SUFFICES ASSUME NEW t \in Transfers, sent[t] > 0, Told(t)
             PROVE  Told(t)'
  BY DEF ToldStays
<1>1. /\ going \in [Conns -> SUBSET Message] /\ written \in [Conns -> SUBSET Message]
      /\ via \in [Transfers -> Conns \cup {None}]
  BY DEF Typed, TypeOK
<1>2. CASE UNCHANGED vars
  BY <1>2, ToldKept DEF vars, transfers, writes
<1>3. ASSUME NEW c \in Conns, Sync(c) \/ Break(c) \/ SendFails(c)
      PROVE  Told(t)'
  BY <1>3, ToldKept DEF Sync, Break, SendFails, transfers, writes
<1>4. ASSUME NEW c \in Conns, Send(c) \/ Fail(c)
      PROVE  Told(t)'
  <2>1. /\ UNCHANGED <<via, answered, ended, going>>
        /\ \A o \in Conns : written[o] \subseteq written'[o]
    BY <1>1, <1>4 DEF Send, Fail, transfers
  <2> QED
    BY <2>1, ToldKept
<1>5. ASSUME NEW c \in Conns, Announce(c) \/ Leave(c) \/ Farewell(c)
      PROVE  Told(t)'
  <2>1. /\ UNCHANGED <<via, answered, ended, written>>
        /\ \A o \in Conns : going[o] \subseteq going'[o]
    BY <1>1, <1>5 DEF Announce, Leave, Farewell, transfers
  <2> QED
    BY <2>1, ToldKept
<1>6. ASSUME NEW c \in Conns, NEW m \in Traffic, ReadClip(c, m)
      PROVE  Told(t)'
  <2>1. /\ UNCHANGED <<via, answered, ended, written>>
        /\ \A o \in Conns : going[o] \subseteq going'[o]
    BY <1>1, <1>6 DEF ReadClip, transfers
  <2> QED
    BY <2>1, ToldKept
<1>7. ASSUME NEW c \in Conns, NEW m \in going[c], Write(c, m)
      PROVE  Told(t)'
  <2>1. AckMsg(t).type # "clip"
    BY DEF AckMsg
  <2>2. UNCHANGED <<via, answered, ended>>
    BY <1>7 DEF Write, transfers
  <2>3. \A o \in Conns : going'[o] = IF o = c THEN going[o] \ {m} ELSE going[o]
    BY <1>1, <1>7 DEF Write
  <2>4. CASE written' = [written EXCEPT ![c] = IF m.type = "clip" THEN @ ELSE @ \cup {m}]
    <3>1. \A o \in Conns : written[o] \subseteq written'[o]
      BY <1>1, <2>4
    <3>2. m.type # "clip" => m \in written'[c]
      BY <1>1, <2>4
    <3> QED
      BY <2>1, <2>2, <2>3, <3>1, <3>2, ToldKept
  <2>5. CASE c \in ended /\ UNCHANGED written
    BY <2>2, <2>3, <2>5, ToldKept
  <2> QED
    BY <1>7, <2>4, <2>5 DEF Write
<1>8. ASSUME NEW c \in Conns, NEW u \in Transfers, ReadFile(c, u)
      PROVE  Told(t)'
  <2>1. UNCHANGED <<answered, ended, written, going>>
    BY <1>8 DEF ReadFile, writes
  <2>2. via'[t] = via[t]
    BY <1>1, <1>8 DEF ReadFile
  <2> QED
    BY <2>1, <2>2, ToldKept
<1>9. ASSUME NEW c \in Conns, NEW u \in Transfers, ReadAck(c, u)
      PROVE  Told(t)'
  BY <1>9, ToldKept DEF ReadAck, writes
<1>10. ASSUME NEW D, Kick(D)
       PROVE  Told(t)'
  BY <1>10, ToldKept DEF Kick, transfers, writes
<1> QED
  BY <1>2, <1>3, <1>4, <1>5, <1>6, <1>7, <1>8, <1>9, <1>10 DEF Next, Handle

LEMMA StepLeft ==
  ASSUME Typed, Inductive, Begun, [Next]_vars
  PROVE  LeftTold
<1> SUFFICES ASSUME NEW t \in Transfers, inflight[t] # None, inflight'[t] # inflight[t]
             PROVE  Told(t)'
  BY DEF LeftTold
<1>1. /\ inflight \in [Transfers -> Conns \cup {None}]
      /\ sent[t] > 0 /\ {inflight[t], via[t]} \subseteq conns
  BY DEF Typed, TypeOK, Begun, Inductive, InflightConnected
<1>2. ~UNCHANGED inflight
  OBVIOUS
<1>3. ASSUME NEW c \in Conns, Leave(c)
      PROVE  Told(t)'
  <2>1. /\ c \in ended /\ UNCHANGED <<ended, via, written, answered>>
        /\ c = inflight[t] \/ c = via[t]
    BY <1>1, <1>3 DEF Leave
  <2>2. CASE c = via[t]
    BY <2>1, <2>2 DEF Told
  <2>3. CASE c = inflight[t]
    <3>1. via[t] \in Conns /\ t \in {s \in Orphaned(c) : via[s] = via[t]}
      BY <1>1, <2>3 DEF Orphaned, conns
    <3>2. AckMsg(t) \in going'[via[t]]
      BY <1>3, <3>1 DEF Leave
    <3> QED
      BY <2>1, <3>1, <3>2 DEF Told, AckMsg
  <2> QED
    BY <2>1, <2>2, <2>3
<1>4. ASSUME NEW c \in Conns, NEW u \in Transfers, ReadAck(c, u)
      PROVE  Told(t)'
  BY <1>1, <1>4 DEF ReadAck, Told
<1>5. ASSUME NEW c \in Conns, NEW u \in Transfers, ReadFile(c, u)
      PROVE  FALSE
  BY <1>1, <1>5 DEF ReadFile, Typed, TypeOK
<1>6. ASSUME NEW c \in Conns, Sync(c) \/ Break(c) \/ Send(c) \/ Announce(c) \/ SendFails(c)
                              \/ Fail(c) \/ Farewell(c)
      PROVE  FALSE
  BY <1>2, <1>6 DEF Sync, Break, Send, Announce, SendFails, Fail, Farewell, transfers
<1>7. ASSUME NEW c \in Conns, NEW m, ReadClip(c, m) \/ Write(c, m) PROVE FALSE
  BY <1>2, <1>7 DEF ReadClip, Write, transfers
<1>8. ASSUME NEW D, Kick(D) PROVE FALSE
  BY <1>2, <1>8 DEF Kick, transfers
<1>9. ~UNCHANGED vars
  BY <1>2 DEF vars, transfers
<1> QED
  BY <1>3, <1>4, <1>5, <1>6, <1>7, <1>8, <1>9 DEF Next, Handle

\* A step that ends a transfer in flight answers it, ends with its sender's
\* connection, or has its sender told (sync's end, failTransfer); and no write that
\* fails, no reconnection and no later message of the file takes that back.
THEOREM NoneLeftWaitingHolds == Spec => NoneLeftWaiting
<1>1. Init => Typed /\ Inductive /\ Begun
  <2>1. Init => Begun
    BY DEF Init, Begun
  <2> QED
    BY <2>1, InitTyped, InitInductive
<1>2. Typed /\ Inductive /\ Begun /\ [Next]_vars => (Typed /\ Inductive /\ Begun)'
  BY StepTyped, StepInductive, StepBegun
<1>3. Typed /\ Inductive /\ Begun /\ [Next]_vars => [LeftTold /\ ToldStays]_vars
  BY StepLeft, StepTold
<1> QED
  BY <1>1, <1>2, <1>3, PTL DEF Spec, NoneLeftWaiting
=============================================================================
