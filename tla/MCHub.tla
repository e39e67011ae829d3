------------------------------- MODULE MCHub -------------------------------
(* Values for the constants of Hub that a .cfg cannot write.               *)
EXTENDS Hub, TLC

CONSTANTS d1, d2, x, c1, c2, c3, t1, t2

\* Device d2 connects a second time, perhaps before its first connection ends.
Reconnect == (c1 :> d1) @@ (c2 :> d2) @@ (c3 :> d2)

\* Two clips of one stamp, ordered by their ids.
Stamped(i, d, when) == [id |-> i, origin |-> d, time |-> when, content |-> x]
TwoClips == {Stamped(1, d1, 1), Stamped(2, d2, 1)}

Sends == (t1 :> d1) @@ (t2 :> d2)
Gets == (t1 :> d2) @@ (t2 :> d1)
OneChunk == (t1 :> 1) @@ (t2 :> 0)

Load(C, F, lists, breaks, kicks) ==
  [clips |-> C, files |-> F, lists |-> lists, breaks |-> breaks, kicks |-> kicks]

HubLoads ==
  {Load(TwoClips, {}, FALSE, 0, 1), Load({}, {t1}, FALSE, 0, 1), Load({}, {}, TRUE, 1, 0),
   Load({}, {t2}, FALSE, 0, 1)}
=============================================================================
