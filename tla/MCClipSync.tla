----------------------------- MODULE MCClipSync -----------------------------
(* Values for the constants of ClipSync that a .cfg cannot write.          *)
EXTENDS ClipSync

CONSTANTS d1, d2, x, y, c1, c2

Pair == (c1 :> d1) @@ (c2 :> d1)
PairTo == (c1 :> d2) @@ (c2 :> d2)

Single == c1 :> d1
SingleTo == c1 :> d2

AllReadable == [d \in Devices |-> Contents]
D2ReadsX == [d \in Devices |-> IF d = d2 THEN {x} ELSE Contents]
OneEach == [c \in Contents |-> 1]

Limits(copies, clips, connects, breaks, restarts, changes) ==
  [copies |-> copies, clips |-> clips, connects |-> connects, breaks |-> breaks,
   restarts |-> restarts, settings |-> changes]

PairLimits == Limits(2, 2, 2, 0, 1, 0)
PathLimits == Limits(2, 2, 1, 0, 0, 0)
NewestLimits == Limits(2, 4, 0, 0, 0, 0)
RefuseLimits == Limits(2, 2, 0, 1, 0, 1)
=============================================================================
