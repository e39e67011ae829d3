--------------------------- MODULE MCFileTransfer ---------------------------
(* Values for the constants of FileTransfer that a .cfg cannot write.      *)
EXTENDS FileTransfer, TLC

CONSTANTS t1, t2, l1, l2, phone, report, notes

OneSender == [l \in Links |-> phone]
SentByPhone == [t \in Transfers |-> phone]
SameNames == [t \in Transfers |-> report]

\* The names of both have one safe form.
Announced == (t1 :> report) @@ (t2 :> notes)
Alike == [t \in Transfers |-> report]

OneChunk == [t \in Transfers |-> 1]
TwoChunks == [t \in Transfers |-> 2]
FirstNode == [l \in Links |-> 1]
NodeEach == (l1 :> 1) @@ (l2 :> 2)

Limits(breaks, drops, cancels, changes) ==
  [breaks |-> breaks, drops |-> drops, cancels |-> cancels, changes |-> changes]

NoTrouble == Limits(0, 0, 0, 0)
Trouble == Limits(1, 1, 1, 1)
=============================================================================
