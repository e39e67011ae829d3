----------------------------- MODULE NewestWins -----------------------------
(***************************************************************************)
(* What clip synchronisation promises, without links, locks or clipboards: *)
(* every device holds one register, the newest clip it knows.  The         *)
(* register moves by copying (a new clip, newer than the register),        *)
(* by adopting a newer clip somebody published, or is lost with the        *)
(* process.  Spec is the promise of the documentation.  LooseSpec adds the *)
(* one step the code also takes: a local copy published although a newer   *)
(* clip has reached the register since the copy was stamped.               *)
(***************************************************************************)
EXTENDS Clip

VARIABLES
  register,   \* register[d]: the newest clip d knows
  published   \* the clips some device has made its own register

nwVars == <<register, published>>

NewestTypeOK ==
  /\ register \in [Devices -> MaybeClip]
  /\ published \subseteq Clip

NewestInit ==
  /\ register = [d \in Devices |-> NoClip]
  /\ published = {}

Publish(d, m) ==
  /\ m.origin = d
  /\ \A n \in published : n.id # m.id
  /\ register' = [register EXCEPT ![d] = m]
  /\ published' = published \cup {m}

Copy(d, m) == Newer(m, register[d]) /\ Publish(d, m)

LateCopy(d, m) == ~Newer(m, register[d]) /\ Publish(d, m)

Adopt(d, m) ==
  /\ m \in published
  /\ Newer(m, register[d])
  /\ register' = [register EXCEPT ![d] = m]
  /\ UNCHANGED published

Reset(d) ==
  /\ register' = [register EXCEPT ![d] = NoClip]
  /\ UNCHANGED published

\* A clip that moves a register is published when the step is done, so the
\* steps range over published'.
NewestNext ==
  \E d \in Devices :
    \/ Reset(d)
    \/ \E m \in published' : Copy(d, m) \/ Adopt(d, m)

LooseNext ==
  \/ NewestNext
  \/ \E d \in Devices : \E m \in published' : LateCopy(d, m)

Spec == NewestInit /\ [][NewestNext]_nwVars

LooseSpec == NewestInit /\ [][LooseNext]_nwVars
=============================================================================
