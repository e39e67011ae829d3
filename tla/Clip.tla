-------------------------------- MODULE Clip --------------------------------
(***************************************************************************)
(* Clips and their order: protocol.Message as far as a clip message uses   *)
(* it, and Message.Newer.  A clip is identified by its id (16 random bytes *)
(* in hex, compared as text: here a number), carries the device that       *)
(* stamped it and the stamp, and its content is one of a set of values     *)
(* that stand for the sealed bytes, type and mime.                         *)
(***************************************************************************)
EXTENDS Integers

CONSTANTS
  Devices,    \* identities of the devices of one sync group
  Contents,   \* what can be on a clipboard: two copies are equal iff Hash() is
  Ids,        \* ids NewID may draw
  NoClip      \* the nil message

Clip == [id : Ids, origin : Devices, time : Nat, content : Contents]

ASSUME ClipAssumption == Ids \subseteq Nat /\ NoClip \notin Clip

MaybeClip == Clip \cup {NoClip}

\* Mutant: ties between stamps are not broken.
NewerByTime(m, cur) == cur = NoClip \/ m.time > cur.time

\* Message.Newer: later stamp wins, the id breaks ties, any clip beats none.
Newer(m, cur) ==
  \/ cur = NoClip
  \/ m.time > cur.time
  \/ m.time = cur.time /\ m.id > cur.id

AtLeastAsNew(m, n) == m = n \/ Newer(m, n)

\* LocalCopy's stamp: the wall clock, pushed past the current clip.
Stamp(now, cur) == IF cur # NoClip /\ now <= cur.time THEN cur.time + 1 ELSE now
=============================================================================
