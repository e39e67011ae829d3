------------------------------- MODULE History -------------------------------
(***************************************************************************)
(* node.History: the recent clips of the tray menu, newest first, bounded  *)
(* by count and by total bytes.  An item is [clip, local].  Size gives the *)
(* bytes of a content.                                                     *)
(***************************************************************************)
EXTENDS Clip, SequencesExt

CONSTANTS
  MaxItems,   \* History.MaxItems
  MaxBytes,   \* History.MaxBytes
  Size        \* Size[c]: len(Content.Bytes())

ASSUME HistoryAssumption ==
  /\ MaxItems \in Nat
  /\ MaxBytes \in Nat
  /\ Size \in [Contents -> Nat]

HistoryItem == [clip : Clip, local : BOOLEAN]

\* Bytes[i]: the first i items together.
Bytes(h) ==
  LET upto[i \in 0..Len(h)] ==
        IF i = 0 THEN 0 ELSE upto[i - 1] + Size[h[i].clip.content]
  IN  upto

\* The loop that drops everything from the first item past a limit.
Fits(h, i) == i <= MaxItems /\ Bytes(h)[i] <= MaxBytes

Trim(h) ==
  LET over == {i \in 1..Len(h) : ~Fits(h, i)}
  IN  IF over = {} THEN h ELSE SubSeq(h, 1, Min(over) - 1)

\* Mutant: the earlier item stays.
WithoutNone(h, c) == h

\* The first earlier item with the same content goes: its copy is newest again.
Without(h, c) ==
  LET same == {i \in 1..Len(h) : h[i].clip.content = c}
  IN  IF same = {} THEN h ELSE RemoveAt(h, Min(same))

HistoryAdd(h, m, local) ==
  Trim(<<[clip |-> m, local |-> local]>> \o Without(h, m.content))
=============================================================================
