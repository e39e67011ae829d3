--------------------------- MODULE AccountsProofs ---------------------------
(***************************************************************************)
(* Proofs about Accounts, for any accounts, devices, invites, tokens and   *)
(* requests, and for crashes and failed saves at any step: what a request  *)
(* was told stays true, invites make no more accounts than they may, and   *)
(* signing out reaches the connections.                                    *)
(***************************************************************************)
EXTENDS Accounts, FiniteSetTheorems, TLAPS

Keyed == Tokens \cup Requests

Core == TypeOK /\ Placed /\ Saving /\ Keys

Held == Core /\ CutGone /\ Issued /\ InviteLimit /\ LiveEntitled

Same == load' \in World /\ load'.ops = load.ops /\ load'.data = load.data

LEMMA OpFacts ==
  ASSUME load \in World, NEW r \in Requests
  PROVE  op(r) \in Op /\ Formed(op(r))
BY DEF World, op

LEMMA NoneFacts ==
  /\ None \notin Names /\ None \notin Devices /\ None \notin Codes /\ None \notin Keyed
  /\ None \notin Requests /\ None # Console /\ Console \notin Keyed
  /\ None \notin User /\ None \notin Session /\ None \notin BOOLEAN
  /\ \A k \in Requests : k \notin Tokens /\ k \notin Codes
BY AccountsAssumption DEF Keyed

LEMMA SameOps ==
  ASSUME load \in World, Same
  PROVE  /\ \A r : op(r)' = op(r)
         /\ \A k : Bound(k)' = Bound(k)
BY DEF Same, op, Bound

LEMMA UnchangedSame ==
  ASSUME TypeOK, UNCHANGED load
  PROVE  Same
BY DEF TypeOK, Same

LEMMA SpendSame ==
  ASSUME TypeOK, NEW b \in {"crashes", "failures", "shutdowns", "expiries"}, Spend(b)
  PROVE  Same
<1>1. load[b] \in Nat /\ load[b] > 0 /\ load' = [load EXCEPT ![b] = @ - 1]
  BY DEF TypeOK, World, Spend
<1>2. load[b] - 1 \in Nat
  BY <1>1
<1> QED
  BY <1>1, <1>2 DEF TypeOK, World, Same

LEMMA RightsFits ==
  ASSUME NEW o \in Op, o.do = "patch"
  PROVE  Rights(o) \in Stage /\ Fits(o, Rights(o)) /\ Rights(o) \in {"end", "rights"}
BY DEF Rights, Fits, Stage, Changes

LEMMA HandlerFits ==
  ASSUME NEW o \in Op, Formed(o)
  PROVE  /\ Handler(o) \in Stage \ {"auth", "refresh", "issue", "kick", "kickAll", "serve"}
         /\ Fits(o, Handler(o))
<1>1. CASE o.do = "patch"
  BY <1>1, RightsFits DEF Handler, Fits, Stage, Changes
<1>2. CASE o.do \in {"register", "login"}
  BY <1>2 DEF Handler, Fits, Stage, Changes
<1>3. CASE o.do \in {"logout", "revoke", "delete", "invite", "uninvite", "sync"}
  BY <1>3 DEF Handler, Fits, Stage, Changes
<1> QED
  BY <1>1, <1>2, <1>3 DEF Op

LEMMA StartFits ==
  ASSUME NEW o \in Op, Formed(o)
  PROVE  /\ Start(o) \in Stage /\ Fits(o, Start(o))
         /\ Start(o) \notin {"refresh", "issue", "kick", "kickAll", "serve"}
         /\ o.tok \in Keyed => Start(o) = "auth"
<1>1. CASE o.tok \in {None, Console}
  BY <1>1, HandlerFits, NoneFacts DEF Start
<1>2. CASE o.tok \in Keyed
  BY <1>2, NoneFacts DEF Start, Fits, Stage, Changes, Keyed
<1> QED
  BY <1>1, <1>2 DEF Op, Keyed

LEMMA AfterFits ==
  ASSUME NEW o \in Op, Formed(o), NEW s \in Stage \ {"end"}, Fits(o, s)
  PROVE  /\ After(o, s) \in Stage \ {"auth", "refresh"}
         /\ Fits(o, After(o, s))
         /\ o.do \in {"register", "login"} /\ After(o, s) = "end" => s \in {"count", "issue"}
<1>1. CASE s \in {"auth", "refresh"}
  <2>1. After(o, s) = Handler(o)
    BY <1>1 DEF After
  <2>2. o.do \in {"register", "login"} => Handler(o) = "limit"
    BY DEF Handler
  <2> QED
    BY <2>1, <2>2, HandlerFits
<1>2. CASE s = "disable"
  BY <1>2, RightsFits DEF After, Fits, Stage, Changes
<1>3. CASE s = "kickAll"
  BY <1>3, RightsFits DEF After, Fits, Stage, Changes
<1>4. CASE s \in {"limit", "first", "register", "check", "logout", "revoke", "delete", "connect", "serve"}
  BY <1>4 DEF After, Fits, Stage, Changes
<1>5. CASE s \in {"count", "issue", "kick", "rights", "invite", "uninvite", "touch"}
  <2>1. After(o, s) = "end"
    BY <1>5 DEF After
  <2> QED
    BY <1>5, <2>1 DEF Fits, Stage
<1> QED
  BY <1>1, <1>2, <1>3, <1>4, <1>5 DEF Stage, Changes

-----------------------------------------------------------------------------
(* What a step of one request does to where the requests are.              *)

Goes(r) ==
  /\ pc' \in [Requests -> Stage] /\ result' \in [Requests -> {"none", "ok", "error", "lost"}]
  /\ \A q \in Requests : q # r => pc'[q] = pc[q] /\ result'[q] = result[q]
  /\ pc[r] # "end" /\ result[r] = "none"
  /\ Fits(op(r), pc'[r]) /\ pc'[r] # "auth"
  /\ result'[r] # "none" => pc'[r] = "end"
  /\ result'[r] # "lost"
  /\ result'[r] = "ok" => pc[r] # "count" /\ After(op(r), pc[r]) = "end"

LEMMA AdvanceGoes ==
  ASSUME TypeOK, Placed, NEW r \in Requests, pc[r] \notin {"count", "end"}, Advance(r)
  PROVE  Goes(r) /\ pc'[r] = After(op(r), pc[r]) /\ pc'[r] # "refresh"
                 /\ (result'[r] = "ok" <=> pc'[r] = "end")
<1>1. op(r) \in Op /\ Formed(op(r)) /\ pc[r] \in Stage \ {"end"} /\ Fits(op(r), pc[r])
  BY OpFacts DEF TypeOK, Placed
<1>2. After(op(r), pc[r]) \in Stage \ {"auth", "refresh"} /\ Fits(op(r), After(op(r), pc[r]))
  BY <1>1, AfterFits
<1>3. result[r] = "none"
  BY DEF Placed
<1>4. /\ pc' \in [Requests -> Stage] /\ pc'[r] = After(op(r), pc[r])
      /\ \A q \in Requests : q # r => pc'[q] = pc[q]
  BY <1>2 DEF TypeOK, Advance
<1>5. /\ result' \in [Requests -> {"none", "ok", "error", "lost"}]
      /\ \A q \in Requests : q # r => result'[q] = result[q]
      /\ result'[r] = IF After(op(r), pc[r]) = "end" THEN "ok" ELSE "none"
  BY <1>3 DEF TypeOK, Advance
<1> QED
  BY <1>2, <1>3, <1>4, <1>5 DEF Goes

LEMMA RefuseGoes ==
  ASSUME TypeOK, Placed, NEW r \in Requests, pc[r] # "end", Refuse(r)
  PROVE  Goes(r) /\ pc'[r] = "end" /\ result'[r] = "error"
<1>1. result[r] = "none"
  BY DEF Placed
<1>2. pc' \in [Requests -> Stage] /\ pc'[r] = "end" /\ \A q \in Requests : q # r => pc'[q] = pc[q]
  BY DEF TypeOK, Refuse, Stage
<1>3. /\ result' \in [Requests -> {"none", "ok", "error", "lost"}] /\ result'[r] = "error"
      /\ \A q \in Requests : q # r => result'[q] = result[q]
  BY DEF TypeOK, Refuse
<1>4. Fits(op(r), "end")
  BY DEF Fits
<1> QED
  BY <1>1, <1>2, <1>3, <1>4 DEF Goes

LEMMA FailGoes ==
  ASSUME TypeOK, Placed, NEW r \in Requests, pc[r] \in {"check", "register"}, Fail(r)
  PROVE  Goes(r)
<1>1. result[r] = "none" /\ op(r).do \in {"register", "login"}
  BY DEF Placed, Fits
<1>2. pc' \in [Requests -> Stage] /\ pc'[r] = "count" /\ \A q \in Requests : q # r => pc'[q] = pc[q]
  BY DEF TypeOK, Fail, Stage
<1>3. result' = result
  BY DEF Fail
<1>4. Fits(op(r), "count")
  BY <1>1 DEF Fits
<1> QED
  BY <1>1, <1>2, <1>3, <1>4 DEF Goes, TypeOK

LEMMA PlacedKeeps ==
  ASSUME TypeOK, Placed, Same, NEW r \in Requests, Goes(r), live' \subseteq live \cup {r},
         r \in live' => pc'[r] = "serve",
         \/ who' = who /\ pc[r] # "auth"
         \/ /\ \A q \in Requests : q # r => who'[q] = who[q]
            /\ pc'[r] = "end" \/ (who'[r] \in Session /\ who'[r] = Bound(op(r).tok))
  PROVE  Placed'
<1>1. \A q \in Requests : op(q)' = op(q) /\ Bound(op(q).tok)' = Bound(op(q).tok)
  BY SameOps DEF TypeOK
<1> SUFFICES ASSUME NEW q \in Requests
             PROVE  /\ Fits(op(q), pc[q])'
                    /\ result'[q] # "none" => pc'[q] = "end"
                    /\ pc'[q] \notin {"auth", "end"} /\ op(q)'.tok \in Tokens \cup Requests =>
                         who'[q] \in Session /\ who'[q] = Bound(op(q).tok)'
                    /\ q \in live' => pc'[q] = "serve"
  BY DEF Placed
<1>2. op(q)' = op(q) /\ Bound(op(q).tok)' = Bound(op(q).tok)
  BY <1>1
<1>3. Fits(op(q), pc[q])' = Fits(op(q), pc'[q])
  BY <1>2 DEF Fits
<1>4. CASE q = r
  BY <1>2, <1>3, <1>4 DEF Placed, Goes
<1>5. CASE q # r
  BY <1>2, <1>3, <1>5 DEF Placed, Goes
<1> QED
  BY <1>4, <1>5

-----------------------------------------------------------------------------
(* Steps that leave the store and its file alone.                          *)

Still == UNCHANGED <<mem, disk, tmp, cut, unsaved>>

\* Of nothing that has no token yet.
LEMMA NoTokenYet ==
  ASSUME Core, CutGone, NEW r \in Requests, pc[r] # "end", ~(lock = r /\ pc[r] = "issue")
  PROVE  mem.sessions[r] = None /\ disk.sessions[r] = None /\ \A q \in Requests : r \notin cut[q]
BY DEF Core, Keys, CutGone

LEMMA LimitStays ==
  ASSUME InviteLimit, Same, mem' \in {mem, disk}, disk' \in {mem, disk}
  PROVE  InviteLimit'
<1>1. \A d \in {mem', disk'}, c \in Codes : Claims(d, c) <= Claims(load.data, c)
  BY DEF InviteLimit
<1>2. load'.data = load.data
  BY DEF Same
<1> QED
  BY <1>1, <1>2 DEF InviteLimit

LEMMA StillLimit ==
  ASSUME InviteLimit, UNCHANGED <<mem, disk>>, Same
  PROVE  InviteLimit'
BY LimitStays

\* A request that has no change to save takes a step.
LEMMA QuietKeeps ==
  ASSUME Core, CutGone, Issued, Same, Still, NEW r \in Requests, Goes(r),
         pc[r] \notin Changes \cup {"refresh"} \/ (lock = None /\ pc[r] # "issue"),
         lock' = lock \/ (lock = None /\ lock' = r /\ pc'[r] = "refresh")
  PROVE  Saving' /\ Keys' /\ CutGone' /\ Issued'
<1>1. lock # r /\ lock \in Requests \cup {None} /\ None \notin Requests
  BY NoneFacts DEF Core, Saving, TypeOK
<1>2. \A q \in Requests : q # r => pc'[q] = pc[q] /\ result'[q] = result[q]
  BY DEF Goes
<1>3. /\ pc[r] # "end" /\ pc[r] # "issue" /\ result[r] = "none" /\ result'[r] # "lost"
      /\ result'[r] = "ok" => pc[r] # "count" /\ After(op(r), pc[r]) = "end"
  BY DEF Goes, Changes
<1>4. mem.sessions[r] = None /\ disk.sessions[r] = None /\ \A q \in Requests : r \notin cut[q]
  BY <1>3, NoTokenYet
<1>5. \A k : Bound(k)' = Bound(k) /\ op(k)' = op(k)
  BY SameOps DEF Core, TypeOK
<1>6. Saving'
  BY <1>1, <1>2 DEF Core, Saving, Still, Changes
<1>7. Keys'
  BY <1>1, <1>2, <1>4, <1>5 DEF Core, Keys, Still
<1>8. CutGone'
  BY <1>1, <1>2, <1>3, <1>4 DEF CutGone, Still
<1>9. op(r).do \in {"register", "login"} => result'[r] # "ok"
  <2>1. op(r) \in Op /\ Formed(op(r)) /\ pc[r] \in Stage \ {"end"} /\ Fits(op(r), pc[r])
    BY <1>3, OpFacts DEF Core, TypeOK, Placed
  <2> QED
    BY <1>3, <2>1, AfterFits
<1>10. Issued'
  <2> SUFFICES ASSUME NEW q \in Requests
               PROVE  /\ lock' = q /\ pc'[q] = "issue" => mem'.sessions[q] # None
                      /\ op(q)'.do \in {"register", "login"} /\ result'[q] = "ok" /\ q \notin unsaved' =>
                           \/ mem'.sessions[q] # None /\ disk'.sessions[q] # None
                           \/ \E p \in Requests : q \in cut'[p]
    BY DEF Issued
  <2>1. CASE q = r
    BY <1>1, <1>5, <1>9, <2>1
  <2>2. CASE q # r
    BY <1>1, <1>2, <1>5, <2>2 DEF Issued, Still
  <2> QED
    BY <2>1, <2>2
<1> QED
  BY <1>6, <1>7, <1>8, <1>10

\* Something other than a request takes a step.
LEMMA OutsideKeeps ==
  ASSUME Held, Same, Still, UNCHANGED <<lock, pc, result, who>>, live' \subseteq live
  PROVE  Placed' /\ Saving' /\ Keys' /\ CutGone' /\ Issued' /\ InviteLimit'
<1>1. \A k : Bound(k)' = Bound(k) /\ op(k)' = op(k)
  BY SameOps DEF Held, Core, TypeOK
<1>2. Placed'
  BY <1>1 DEF Held, Core, Placed, Fits
<1>3. Saving' /\ Keys'
  BY <1>1 DEF Held, Core, Saving, Keys, Still
<1>4. CutGone' /\ Issued'
  BY <1>1 DEF Held, CutGone, Issued, Still
<1>5. InviteLimit'
  BY StillLimit DEF Held, Core, Still
<1> QED
  BY <1>2, <1>3, <1>4, <1>5

-----------------------------------------------------------------------------
(* Connections.                                                            *)

\* What a step of r would cancel, live or not.
Hits(r, step, c) ==
  \/ step = "kickAll" /\ who[c].user = op(r).name /\ who[c].dev \in Devices
  \/ step = "kick" /\ who[c].user = who[r].user
       /\ who[c].dev = IF op(r).do = "logout" THEN who[r].dev ELSE op(r).dev

LEMMA KickedHits ==
  ASSUME NEW r, NEW step, NEW c
  PROVE  c \in Kicked(r, step) <=> c \in live /\ Hits(r, step, c)
BY DEF Kicked, Of, Hits

LEMMA LiveServes ==
  ASSUME Core, NEW c \in live
  PROVE  c \in Requests /\ pc[c] = "serve" /\ who[c] \in Session /\ who[c] = Bound(op(c).tok)
         /\ op(c).tok \in Keyed
<1>1. c \in Requests /\ pc[c] = "serve" /\ Fits(op(c), pc[c])
  BY DEF Core, TypeOK, Placed
<1>2. op(c).tok \in Keyed
  BY <1>1, OpFacts DEF Core, TypeOK, Fits, Formed, Keyed
<1> QED
  BY <1>1, <1>2 DEF Core, Placed, Keyed

\* Nothing changes for those who are signed in.
LEMMA LiveKeeps ==
  ASSUME Core, LiveEntitled, Same, unsaved \subseteq unsaved', late \subseteq late', live' \subseteq live,
         mem'.users = mem.users, mem'.sessions = mem.sessions,
         \A c \in live : who'[c] = who[c],
         \A q \in Requests : Upcoming(q) \in {"kick", "kickAll"} =>
            Upcoming(q)' = Upcoming(q) /\ who'[q] = who[q]
  PROVE  LiveEntitled'
<1> SUFFICES ASSUME unsaved' = {}, NEW c \in live', c \notin late'
             PROVE  Entitled(who[c])' \/ KickComing(c)'
  BY DEF LiveEntitled
<1>1. c \in live /\ c \notin late /\ unsaved = {} /\ who'[c] = who[c]
  OBVIOUS
<1>2. CASE Entitled(who[c])
  BY <1>1, <1>2 DEF Entitled
<1>3. CASE KickComing(c)
  <2>1. PICK q \in Requests : c \in Kicked(q, Upcoming(q))
    BY <1>3 DEF KickComing
  <2>2. Hits(q, Upcoming(q), c)
    BY <2>1, KickedHits
  <2>3. Upcoming(q)' = Upcoming(q) /\ who'[q] = who[q]
    BY <2>2 DEF Hits
  <2>4. op(q)' = op(q)
    BY SameOps DEF Core, TypeOK
  <2>5. (c \in Kicked(q, Upcoming(q)))'
    BY <1>1, <2>1, <2>3, <2>4 DEF Kicked, Of
  <2> QED
    BY <2>5 DEF KickComing
<1> QED
  BY <1>1, <1>2, <1>3 DEF LiveEntitled

-----------------------------------------------------------------------------
(* The steps of requests that change no store.                             *)

Frame ==
  /\ fails' \in Nat /\ closed' \in BOOLEAN /\ expired' \subseteq Codes
  /\ live' \subseteq Requests /\ late' \subseteq Requests

LEMMA UnchangedFrame ==
  ASSUME TypeOK, UNCHANGED <<closed, expired, fails, live, late>>
  PROVE  Frame
BY DEF TypeOK, Frame

LEMMA QuietType ==
  ASSUME TypeOK, Same, Still, Frame, NEW r \in Requests, Goes(r),
         lock' = lock \/ lock' = r, who' \in [Requests -> Session \cup {None}]
  PROVE  TypeOK'
BY DEF TypeOK, Same, Still, Frame, Goes

LEMMA QuietHeld ==
  ASSUME Held, Same, Still, Frame, NEW r \in Requests, Goes(r),
         pc[r] \notin Changes \cup {"refresh"} \/ (lock = None /\ pc[r] # "issue"), pc[r] # "auth",
         UNCHANGED <<lock, who>>, live' \subseteq live \cup {r}, r \in live' => pc'[r] = "serve"
  PROVE  Core' /\ CutGone' /\ Issued' /\ InviteLimit'
<1>1. TypeOK'
  BY QuietType DEF Held, Core, TypeOK
<1>2. Placed'
  BY PlacedKeeps DEF Held, Core
<1>3. Saving' /\ Keys' /\ CutGone' /\ Issued'
  BY QuietKeeps DEF Held
<1>4. InviteLimit'
  BY StillLimit DEF Held, Core, Still
<1> QED
  BY <1>1, <1>2, <1>3, <1>4 DEF Core

\* Where a request without the lock is headed.
LEMMA UpcomingFree ==
  ASSUME Core, NEW r \in Requests, pc[r] \notin Changes \cup {"refresh"}
  PROVE  lock # r /\ Upcoming(r) = pc[r]
BY NoneFacts DEF Core, Saving, Upcoming, Changes

LEMMA UpcomingOthers ==
  ASSUME Core, Same, NEW r \in Requests, Goes(r), lock' = lock \/ {lock, lock'} \subseteq {r, None}
  PROVE  \A q \in Requests : q # r => Upcoming(q)' = Upcoming(q)
<1>1. \A q : op(q)' = op(q)
  BY SameOps DEF Core, TypeOK
<1> SUFFICES ASSUME NEW q \in Requests, q # r PROVE Upcoming(q)' = Upcoming(q)
  OBVIOUS
<1>2. pc'[q] = pc[q] /\ op(q)' = op(q) /\ (lock' = q <=> lock = q)
  BY <1>1, NoneFacts DEF Goes
<1>3. After(op(q), pc[q])' = After(op(q), pc[q])
  BY <1>2 DEF After, Handler, Rights
<1> QED
  BY <1>2, <1>3 DEF Upcoming

LEMMA LimitKeeps ==
  ASSUME Held, NEW r \in Requests, Limit(r)
  PROVE  Held'
<1>1. pc[r] = "limit" /\ UNCHANGED <<mem, lock, disk, tmp, closed, who, live, fails, expired, load,
                                    cut, unsaved, late>>
  BY DEF Limit, store, file, history
<1>2. Goes(r)
  BY <1>1, AdvanceGoes, RefuseGoes DEF Held, Core, Limit
<1>3. Same /\ Still /\ Frame
  BY <1>1, UnchangedSame, UnchangedFrame DEF Held, Core, Still
<1>4. r \notin live
  BY <1>1, LiveServes DEF Held
<1>5. Core' /\ CutGone' /\ Issued' /\ InviteLimit'
  BY <1>1, <1>2, <1>3, <1>4, QuietHeld DEF Changes
<1>6. Upcoming(r) \notin {"kick", "kickAll"}
  BY <1>1, UpcomingFree DEF Held, Changes
<1>7. LiveEntitled'
  BY <1>1, <1>2, <1>3, <1>6, LiveKeeps, UpcomingOthers DEF Held
<1> QED
  BY <1>5, <1>7 DEF Held

LEMMA FirstKeeps ==
  ASSUME Held, NEW r \in Requests, First(r)
  PROVE  Held'
<1>1. pc[r] = "first" /\ UNCHANGED <<mem, lock, disk, tmp, closed, who, live, fails, expired, load,
                                    cut, unsaved, late>>
  BY DEF First, store, file, history
<1>2. Goes(r)
  BY <1>1, AdvanceGoes, RefuseGoes DEF Held, Core, First
<1>3. Same /\ Still /\ Frame
  BY <1>1, UnchangedSame, UnchangedFrame DEF Held, Core, Still
<1>4. r \notin live
  BY <1>1, LiveServes DEF Held
<1>5. Core' /\ CutGone' /\ Issued' /\ InviteLimit'
  BY <1>1, <1>2, <1>3, <1>4, QuietHeld DEF Changes
<1>6. Upcoming(r) \notin {"kick", "kickAll"}
  BY <1>1, UpcomingFree DEF Held, Changes
<1>7. LiveEntitled'
  BY <1>1, <1>2, <1>3, <1>6, LiveKeeps, UpcomingOthers DEF Held
<1> QED
  BY <1>5, <1>7 DEF Held

LEMMA CheckKeeps ==
  ASSUME Held, NEW r \in Requests, Check(r)
  PROVE  Held'
<1>1. pc[r] = "check" /\ UNCHANGED <<mem, lock, disk, tmp, closed, who, live, fails, expired, load,
                                    cut, unsaved, late>>
  BY DEF Check, store, file, history
<1>2. Goes(r)
  BY <1>1, AdvanceGoes, FailGoes DEF Held, Core, Check
<1>3. Same /\ Still /\ Frame
  BY <1>1, UnchangedSame, UnchangedFrame DEF Held, Core, Still
<1>4. r \notin live
  BY <1>1, LiveServes DEF Held
<1>5. Core' /\ CutGone' /\ Issued' /\ InviteLimit'
  BY <1>1, <1>2, <1>3, <1>4, QuietHeld DEF Changes
<1>6. Upcoming(r) \notin {"kick", "kickAll"}
  BY <1>1, UpcomingFree DEF Held, Changes
<1>7. LiveEntitled'
  BY <1>1, <1>2, <1>3, <1>6, LiveKeeps, UpcomingOthers DEF Held
<1> QED
  BY <1>5, <1>7 DEF Held

LEMMA CountKeeps ==
  ASSUME Held, NEW r \in Requests, Count(r)
  PROVE  Held'
<1>1. pc[r] = "count" /\ UNCHANGED <<mem, lock, disk, tmp, closed, who, live, expired, load,
                                    cut, unsaved, late>>
  BY DEF Count, store, file, history
<1>2. Goes(r)
  BY <1>1, RefuseGoes DEF Held, Core, Count
<1>3. Same /\ Still
  BY <1>1, UnchangedSame DEF Held, Core, Still
<1>4. r \notin live
  BY <1>1, LiveServes DEF Held
<1>5. Frame
  <2>1. fails' \in Nat
    BY DEF Held, Core, TypeOK, Count
  <2> QED
    BY <1>1, <2>1 DEF Held, Core, TypeOK, Frame
<1>6. Core' /\ CutGone' /\ Issued' /\ InviteLimit'
  BY <1>1, <1>2, <1>3, <1>4, <1>5, QuietHeld DEF Changes
<1>7. Upcoming(r) \notin {"kick", "kickAll"}
  BY <1>1, UpcomingFree DEF Held, Changes
<1>8. LiveEntitled'
  BY <1>1, <1>2, <1>3, <1>7, LiveKeeps, UpcomingOthers DEF Held
<1> QED
  BY <1>6, <1>8 DEF Held

LEMMA DisconnectKeeps ==
  ASSUME Held, NEW r \in Requests, Disconnect(r)
  PROVE  Held'
<1>1. /\ pc[r] = "serve" /\ live' = live \ {r} /\ Advance(r)
      /\ UNCHANGED <<mem, lock, disk, tmp, closed, who, fails, expired, load, cut, unsaved, late>>
  BY DEF Disconnect, store, file, history
<1>2. Goes(r)
  BY <1>1, AdvanceGoes DEF Held, Core
<1>3. Same /\ Still
  BY <1>1, UnchangedSame DEF Held, Core, Still
<1>4. Frame
  BY <1>1 DEF Held, Core, TypeOK, Frame
<1>5. Core' /\ CutGone' /\ Issued' /\ InviteLimit'
  BY <1>1, <1>2, <1>3, <1>4, QuietHeld DEF Changes
<1>6. Upcoming(r) \notin {"kick", "kickAll"}
  BY <1>1, UpcomingFree DEF Held, Changes
<1>7. LiveEntitled'
  BY <1>1, <1>2, <1>3, <1>6, LiveKeeps, UpcomingOthers DEF Held
<1> QED
  BY <1>5, <1>7 DEF Held

LEMMA ConnectKeeps ==
  ASSUME Held, NEW r \in Requests, Connect(r)
  PROVE  Held'
<1>1. /\ pc[r] = "connect" /\ live' \subseteq live \cup {r} /\ Advance(r)
      /\ late' = IF Entitled(who[r]) THEN late ELSE late \cup {r}
      /\ UNCHANGED <<mem, lock, disk, tmp, closed, who, fails, expired, load, cut, unsaved>>
  BY DEF Connect, store, file, Of
<1>2. Goes(r) /\ pc'[r] = "serve"
  BY <1>1, AdvanceGoes DEF Held, Core, After
<1>3. Same /\ Still
  BY <1>1, UnchangedSame DEF Held, Core, Still
<1>4. Frame
  BY <1>1 DEF Held, Core, TypeOK, Frame
<1>5. Core' /\ CutGone' /\ Issued' /\ InviteLimit'
  BY <1>1, <1>2, <1>3, <1>4, QuietHeld DEF Changes
<1>6. Upcoming(r) \notin {"kick", "kickAll"}
  BY <1>1, UpcomingFree DEF Held, Changes
<1>7. LiveEntitled'
  <2> SUFFICES ASSUME unsaved' = {}, NEW c \in live', c \notin late'
               PROVE  Entitled(who[c])' \/ KickComing(c)'
    BY DEF LiveEntitled
  <2>1. Entitled(who[c])' <=> Entitled(who[c])
    BY <1>1 DEF Entitled
  <2>2. CASE c = r
    BY <1>1, <2>1, <2>2 DEF Held, Core, TypeOK
  <2>3. CASE c # r
    <3>1. c \in live /\ c \notin late /\ unsaved = {}
      BY <1>1, <2>3 DEF Held, Core, TypeOK
    <3>2. CASE KickComing(c)
      <4>1. PICK q \in Requests : c \in Kicked(q, Upcoming(q))
        BY <3>2 DEF KickComing
      <4>2. Upcoming(q)' = Upcoming(q) /\ q # r
        BY <1>1, <1>2, <1>3, <1>6, <4>1, UpcomingOthers, KickedHits DEF Held, Hits
      <4>3. op(q)' = op(q)
        BY <1>3, SameOps DEF Held, Core, TypeOK
      <4>4. (c \in Kicked(q, Upcoming(q)))'
        BY <1>1, <4>1, <4>2, <4>3 DEF Kicked, Of
      <4> QED
        BY <4>4 DEF KickComing
    <3> QED
      BY <2>1, <3>1, <3>2 DEF Held, LiveEntitled
  <2> QED
    BY <2>2, <2>3
<1> QED
  BY <1>5, <1>7 DEF Held

LEMMA KickKeeps ==
  ASSUME Held, NEW r \in Requests, Kick(r)
  PROVE  Held'
<1>1. /\ pc[r] \in {"kick", "kickAll"} /\ live' = live \ Kicked(r, pc[r]) /\ Advance(r)
      /\ UNCHANGED <<mem, lock, disk, tmp, closed, who, fails, expired, load, cut, unsaved, late>>
  BY DEF Kick, store, file, history
<1>2. Goes(r)
  BY <1>1, AdvanceGoes DEF Held, Core
<1>3. Same /\ Still
  BY <1>1, UnchangedSame DEF Held, Core, Still
<1>4. Frame
  BY <1>1 DEF Held, Core, TypeOK, Frame
<1>5. r \notin live
  BY <1>1, LiveServes DEF Held
<1>6. Core' /\ CutGone' /\ Issued' /\ InviteLimit'
  BY <1>1, <1>2, <1>3, <1>4, <1>5, QuietHeld DEF Changes
<1>7. Upcoming(r) = pc[r]
  BY <1>1, UpcomingFree DEF Held, Changes
<1>8. LiveEntitled'
  <2> SUFFICES ASSUME unsaved' = {}, NEW c \in live', c \notin late'
               PROVE  Entitled(who[c])' \/ KickComing(c)'
    BY DEF LiveEntitled
  <2>1. Entitled(who[c])' <=> Entitled(who[c])
    BY <1>1 DEF Entitled
  <2>2. c \in live /\ c \notin late /\ unsaved = {} /\ c \notin Kicked(r, pc[r])
    BY <1>1
  <2>3. CASE KickComing(c)
    <3>1. PICK q \in Requests : c \in Kicked(q, Upcoming(q))
      BY <2>3 DEF KickComing
    <3>2. Upcoming(q)' = Upcoming(q) /\ q # r
      BY <1>1, <1>2, <1>3, <1>7, <2>2, <3>1, UpcomingOthers DEF Held
    <3>3. op(q)' = op(q)
      BY <1>3, SameOps DEF Held, Core, TypeOK
    <3>4. (c \in Kicked(q, Upcoming(q)))'
      BY <1>1, <3>1, <3>2, <3>3 DEF Kicked, Of
    <3> QED
      BY <3>4 DEF KickComing
  <2> QED
    BY <2>1, <2>2, <2>3 DEF Held, LiveEntitled
<1> QED
  BY <1>6, <1>8 DEF Held

LEMMA AuthKeeps ==
  ASSUME Held, NEW r \in Requests, Auth(r)
  PROVE  Held'
<1>1. /\ pc[r] = "auth" /\ lock = None
      /\ UNCHANGED <<mem, disk, tmp, closed, live, fails, expired, load, cut, unsaved, late>>
  BY DEF Auth, Free, file, history
<1>2. Same /\ Still /\ Frame
  BY <1>1, UnchangedSame, UnchangedFrame DEF Held, Core, Still
<1>3. op(r) \in Op /\ Formed(op(r)) /\ op(r).tok \in Keyed
  BY <1>1, OpFacts DEF Held, Core, TypeOK, Placed, Fits, Keyed
<1>4. /\ Goes(r) /\ who' \in [Requests -> Session \cup {None}]
      /\ \A q \in Requests : q # r => who'[q] = who[q]
      /\ lock' = lock \/ (lock' = r /\ pc'[r] = "refresh")
      /\ pc'[r] = "end" \/ (who'[r] \in Session /\ who'[r] = Bound(op(r).tok))
      /\ pc'[r] \in {"end", "refresh", Handler(op(r))}
  <2>1. CASE ~Admitted(r)
    <3>1. Refuse(r) /\ UNCHANGED <<who, lock>>
      BY <2>1 DEF Auth
    <3> QED
      BY <1>1, <3>1, RefuseGoes DEF Held, Core, TypeOK
  <2>2. CASE Admitted(r)
    <3> DEFINE se == mem.sessions[op(r).tok]
    <3>1. se # None
      BY <2>2 DEF Admitted
    <3>2. se \in Session /\ se = Bound(op(r).tok)
      BY <1>3, <3>1 DEF Held, Core, TypeOK, Data, Keys, Keyed
    <3>3. who' = [who EXCEPT ![r] = se]
      BY <2>2 DEF Auth
    <3> HIDE DEF se
    <3>4. /\ who' \in [Requests -> Session \cup {None}] /\ who'[r] = se
          /\ \A q \in Requests : q # r => who'[q] = who[q]
      BY <3>2, <3>3 DEF Held, Core, TypeOK
    <3>5. CASE Advance(r) /\ UNCHANGED lock
      <4>1. After(op(r), "auth") = Handler(op(r))
        BY DEF After
      <4> QED
        BY <1>1, <3>2, <3>4, <3>5, <4>1, AdvanceGoes DEF Held, Core
    <3>6. CASE pc' = [pc EXCEPT ![r] = "refresh"] /\ lock' = r /\ UNCHANGED result
      <4>1. /\ pc' \in [Requests -> Stage] /\ pc'[r] = "refresh"
            /\ \A q \in Requests : q # r => pc'[q] = pc[q]
        BY <3>6 DEF Held, Core, TypeOK, Stage
      <4>2. Fits(op(r), "refresh")
        BY <1>3 DEF Fits, Keyed
      <4>3. result[r] = "none"
        BY <1>1 DEF Held, Core, Placed
      <4>4. Goes(r)
        BY <1>1, <3>6, <4>1, <4>2, <4>3 DEF Goes, Held, Core, TypeOK
      <4> QED
        BY <3>2, <3>4, <3>6, <4>1, <4>4
    <3> QED
      BY <2>2, <3>5, <3>6 DEF Auth
  <2> QED
    BY <2>1, <2>2
<1>5. r \notin live
  BY <1>1, LiveServes DEF Held
<1>6. TypeOK'
  BY <1>2, <1>4, QuietType DEF Held, Core
<1>7. Placed'
  BY <1>1, <1>2, <1>4, <1>5, PlacedKeeps DEF Held, Core
<1>8. Saving' /\ Keys' /\ CutGone' /\ Issued'
  BY <1>1, <1>2, <1>4, QuietKeeps DEF Held, Changes
<1>9. InviteLimit'
  BY <1>2, StillLimit DEF Held, Core, Still
<1>10. Upcoming(r) \notin {"kick", "kickAll"}
  BY <1>1, UpcomingFree DEF Held, Changes
<1>11. LiveEntitled'
  <2>1. \A q \in Requests : q # r => Upcoming(q)' = Upcoming(q) /\ who'[q] = who[q]
    BY <1>1, <1>2, <1>4, UpcomingOthers DEF Held
  <2>2. \A c \in live : who'[c] = who[c]
    BY <1>4, <1>5, LiveServes DEF Held
  <2> QED
    BY <1>1, <1>2, <1>10, <2>1, <2>2, LiveKeeps DEF Held
<1> QED
  BY <1>6, <1>7, <1>8, <1>9, <1>11 DEF Held, Core

-----------------------------------------------------------------------------
(* Saving.                                                                 *)

LEMMA LockFacts ==
  ASSUME Held, NEW r \in Requests, lock = r
  PROVE  /\ pc[r] \in Changes \cup {"refresh"} /\ pc[r] \notin {"end", "serve", "auth"}
         /\ lock # None /\ result[r] = "none" /\ r \notin live
<1>1. pc[r] \in Changes \cup {"refresh"} /\ lock # None
  BY NoneFacts DEF Held, Core, Saving
<1>2. pc[r] \notin {"end", "serve", "auth"}
  BY <1>1 DEF Changes
<1> QED
  BY <1>1, <1>2 DEF Held, Core, Placed

\* The temporary file is written.
LEMMA TmpKeeps ==
  ASSUME Held, lock \in Requests, tmp' \in {Torn, mem},
         UNCHANGED <<store, disk, closed, pc, result, who, live, fails, expired, load, history>>
  PROVE  Held'
<1>1. UNCHANGED <<mem, lock, disk, closed, pc, result, who, live, fails, expired, load,
                  cut, unsaved, late>>
  BY DEF store, history
<1>2. Same /\ \A k : Bound(k)' = Bound(k) /\ op(k)' = op(k)
  BY <1>1, UnchangedSame, SameOps DEF Held, Core, TypeOK
<1>3. TypeOK'
  BY <1>1 DEF Held, Core, TypeOK
<1>4. Placed'
  BY <1>1, <1>2 DEF Held, Core, Placed, Fits
<1>5. Saving' /\ Keys'
  BY <1>1, <1>2, NoneFacts DEF Held, Core, Saving, Keys
<1>6. CutGone' /\ Issued'
  BY <1>1, <1>2 DEF Held, CutGone, Issued
<1>7. InviteLimit'
  BY <1>1, <1>2, StillLimit DEF Held
<1>8. \A q \in Requests : Upcoming(q)' = Upcoming(q)
  BY <1>1, <1>2 DEF Upcoming, After, Handler, Rights
<1>9. LiveEntitled'
  BY <1>1, <1>2, <1>8, LiveKeeps DEF Held
<1> QED
  BY <1>3, <1>4, <1>5, <1>6, <1>7, <1>9 DEF Held, Core

\* The lock is released by a request whose change is in the file, or failed.
LEMMA SavedKeeps ==
  ASSUME Held, NEW r \in Requests, lock = r, Same, Goes(r), tmp' = None, lock' = None,
         UNCHANGED <<mem, closed, who, live, fails, expired, cut, late>>,
         \/ disk' = mem /\ unsaved' = unsaved
         \/ disk' = disk /\ unsaved' = unsaved \cup {r},
         pc[r] = "issue" => pc'[r] = "end"
  PROVE  Core' /\ CutGone' /\ Issued' /\ InviteLimit'
<1>1. /\ pc[r] \in Changes \cup {"refresh"} /\ pc[r] \notin {"end", "serve", "auth"}
      /\ lock # None /\ result[r] = "none" /\ r \notin live
  BY LockFacts
<1>2. \A k : Bound(k)' = Bound(k) /\ op(k)' = op(k)
  BY SameOps DEF Held, Core, TypeOK
<1>3. /\ \A q \in Requests : q # r => pc'[q] = pc[q] /\ result'[q] = result[q]
      /\ result'[r] # "lost" /\ (result'[r] = "ok" => pc[r] # "count" /\ After(op(r), pc[r]) = "end")
  BY DEF Goes
<1>4. TypeOK'
  BY DEF Held, Core, TypeOK, Same, Goes
<1>5. Placed'
  BY <1>1, PlacedKeeps DEF Held, Core
<1>6. Saving'
  BY DEF Saving
<1>7. mem.sessions[r] # None => pc[r] = "issue"
  BY <1>1 DEF Held, Core, Keys
<1>8. disk.sessions[r] # None => pc[r] = "issue"
  BY <1>1 DEF Held, Core, Keys
<1>9. Keys'
  BY <1>2, <1>3, <1>7, <1>8, NoneFacts DEF Held, Core, Keys
<1>10. \A q \in Requests : r \notin cut[q]
  BY <1>1 DEF Held, CutGone
<1>11. CutGone'
  <2> SUFFICES ASSUME NEW q \in Requests, NEW k \in cut'[q]
               PROVE  /\ k \in Requests => pc'[k] = "end"
                      /\ q \notin unsaved' /\ result'[q] # "lost" =>
                           /\ mem'.sessions[k] = None
                           /\ lock' # q => disk'.sessions[k] = None
    BY DEF CutGone
  <2>1. k \in cut[q] /\ k # r
    BY <1>10
  <2>2. k \in Requests => pc'[k] = "end"
    BY <1>3, <2>1 DEF Held, CutGone
  <2>3. CASE q = r
    BY <1>1, <2>1, <2>2, <2>3 DEF Held, CutGone
  <2>4. CASE q # r
    BY <1>3, <2>1, <2>2, <2>4 DEF Held, CutGone
  <2> QED
    BY <2>3, <2>4
<1>12. Issued'
  <2> SUFFICES ASSUME NEW q \in Requests
               PROVE  /\ lock' = q /\ pc'[q] = "issue" => mem'.sessions[q] # None
                      /\ op(q)'.do \in {"register", "login"} /\ result'[q] = "ok" /\ q \notin unsaved' =>
                           \/ mem'.sessions[q] # None /\ disk'.sessions[q] # None
                           \/ \E p \in Requests : q \in cut'[p]
    BY DEF Issued
  <2>1. lock' # q
    BY NoneFacts
  <2>2. CASE q = r
    <3> SUFFICES ASSUME op(r)'.do \in {"register", "login"}, result'[r] = "ok", r \notin unsaved'
                 PROVE  mem'.sessions[r] # None /\ disk'.sessions[r] # None
      BY <2>1, <2>2
    <3>1. op(r) \in Op /\ Formed(op(r)) /\ pc[r] \in Stage \ {"end"} /\ Fits(op(r), pc[r])
      BY <1>1, OpFacts DEF Held, Core, TypeOK, Placed
    <3>2. pc[r] = "issue"
      BY <1>2, <1>3, <3>1, AfterFits
    <3>3. mem.sessions[r] # None
      BY <3>2 DEF Held, Issued
    <3> QED
      BY <3>3
  <2>3. CASE q # r
    BY <1>2, <1>3, <2>1, <2>3 DEF Held, Issued
  <2> QED
    BY <2>2, <2>3
<1>13. InviteLimit'
  BY LimitStays DEF Held
<1> QED
  BY <1>4, <1>5, <1>6, <1>9, <1>11, <1>12, <1>13 DEF Core

LEMMA SaveRenameKeeps ==
  ASSUME Held, NEW r \in Requests, SaveRename(r)
  PROVE  Held'
<1>1. /\ lock = r /\ disk' = mem /\ tmp' = None /\ lock' = None /\ Advance(r)
      /\ UNCHANGED <<mem, closed, who, live, fails, expired, load, cut, unsaved, late>>
  BY DEF SaveRename, history, Held, Core, Saving
<1>2. /\ pc[r] \in Changes \cup {"refresh"} /\ pc[r] \notin {"end", "serve", "auth"}
      /\ lock # None /\ result[r] = "none" /\ r \notin live
  BY <1>1, LockFacts
<1>3. Goes(r) /\ pc'[r] = After(op(r), pc[r])
  BY <1>1, <1>2, AdvanceGoes DEF Held, Core, Changes
<1>4. Same
  BY <1>1, UnchangedSame DEF Held, Core
<1>5. pc[r] = "issue" => pc'[r] = "end"
  BY <1>3 DEF After
<1>6. Core' /\ CutGone' /\ Issued' /\ InviteLimit'
  BY <1>1, <1>3, <1>4, <1>5, SavedKeeps
<1>7. Upcoming(r)' = Upcoming(r)
  BY <1>1, <1>3, NoneFacts DEF Upcoming
<1>8. LiveEntitled'
  BY <1>1, <1>3, <1>4, <1>7, UpcomingOthers, LiveKeeps DEF Held
<1> QED
  BY <1>6, <1>8 DEF Held

LEMMA SaveFailsKeeps ==
  ASSUME Held, NEW r \in Requests, SaveFails(r)
  PROVE  Held'
<1>1. /\ lock = r /\ tmp' = None /\ lock' = None /\ unsaved' = unsaved \cup {r}
      /\ UNCHANGED <<mem, disk, closed, who, live, fails, expired, cut, late>>
  BY DEF SaveFails
<1>2. /\ pc[r] \in Changes \cup {"refresh"} /\ pc[r] \notin {"end", "serve", "auth"}
  BY <1>1, LockFacts
<1>3. Goes(r) /\ (pc[r] = "issue" => pc'[r] = "end")
  BY <1>2, AdvanceGoes, RefuseGoes DEF SaveFails, Careless, Held, Core
<1>4. Same
  BY SpendSame DEF SaveFails, Held, Core
<1>5. Core' /\ CutGone' /\ Issued' /\ InviteLimit'
  BY <1>1, <1>3, <1>4, SavedKeeps
<1>6. LiveEntitled'
  BY <1>1 DEF LiveEntitled
<1> QED
  BY <1>5, <1>6 DEF Held

-----------------------------------------------------------------------------
(* The process and time.                                                   *)

LEMMA CrashKeeps ==
  ASSUME Held, Crash
  PROVE  Held'
<1>1. /\ mem' = disk /\ tmp' = None /\ lock' = None /\ closed' = FALSE
      /\ live' = {} /\ fails' = 0
      /\ UNCHANGED <<disk, who, expired, cut, unsaved, late>>
  BY DEF Crash, history
<1>2. Same
  BY SpendSame DEF Crash, Held, Core
<1>3. \A k : Bound(k)' = Bound(k) /\ op(k)' = op(k)
  BY <1>2, SameOps DEF Held, Core, TypeOK
<1>4. /\ pc' = [r \in Requests |-> IF Begun(r) THEN "end" ELSE pc[r]]
      /\ result' = [r \in Requests |-> IF Begun(r) /\ pc[r] # "end" THEN "lost" ELSE result[r]]
  BY DEF Crash
<1>5. \A r \in Requests :
        /\ pc'[r] \in {"end", pc[r]} /\ pc'[r] \in Stage
        /\ pc[r] = "end" => pc'[r] = "end"
        /\ result'[r] \in {"lost", result[r]}
        /\ result'[r] = "lost" => pc'[r] = "end"
        /\ lock = r => result'[r] = "lost"
        /\ pc'[r] # "end" => lock # r /\ pc'[r] = Start(op(r))
  <2> SUFFICES ASSUME NEW r \in Requests
               PROVE  /\ pc'[r] \in {"end", pc[r]} /\ pc'[r] \in Stage
                      /\ pc[r] = "end" => pc'[r] = "end"
                      /\ result'[r] \in {"lost", result[r]}
                      /\ result'[r] = "lost" => pc'[r] = "end"
                      /\ lock = r => result'[r] = "lost"
                      /\ pc'[r] # "end" => lock # r /\ pc'[r] = Start(op(r))
    OBVIOUS
  <2>1. pc[r] \in Stage /\ "end" \in Stage /\ (result[r] = "lost" => pc[r] = "end")
    BY DEF Held, Core, TypeOK, Placed, Stage
  <2>2. lock = r => pc[r] # "end"
    BY LockFacts
  <2>3. /\ pc'[r] = IF Begun(r) THEN "end" ELSE pc[r]
        /\ result'[r] = IF Begun(r) /\ pc[r] # "end" THEN "lost" ELSE result[r]
    BY <1>4
  <2>4. Begun(r) <=> pc[r] # Start(op(r)) \/ lock = r
    BY DEF Begun
  <2> QED
    BY <2>1, <2>2, <2>3, <2>4
<1>6. TypeOK'
  <2>1. pc' \in [Requests -> Stage]
    BY <1>4, <1>5
  <2>2. result' \in [Requests -> {"none", "ok", "error", "lost"}]
    BY <1>4, <1>5 DEF Held, Core, TypeOK
  <2> QED
    BY <1>1, <1>2, <2>1, <2>2 DEF Held, Core, TypeOK, Same
<1>7. Placed'
  <2> SUFFICES ASSUME NEW r \in Requests
               PROVE  /\ Fits(op(r), pc[r])'
                      /\ result'[r] # "none" => pc'[r] = "end"
                      /\ pc'[r] \notin {"auth", "end"} /\ op(r)'.tok \in Tokens \cup Requests =>
                           who'[r] \in Session /\ who'[r] = Bound(op(r).tok)'
                      /\ r \in live' => pc'[r] = "serve"
    BY DEF Placed
  <2>1. op(r)' = op(r) /\ Bound(op(r).tok)' = Bound(op(r).tok)
    BY <1>3
  <2>2. Fits(op(r), "end") /\ Fits(op(r), pc[r])
    BY DEF Held, Core, Placed, Fits
  <2>3. Fits(op(r), pc[r])' = Fits(op(r), pc'[r])
    BY <2>1 DEF Fits
  <2> QED
    BY <1>1, <1>5, <2>1, <2>2, <2>3 DEF Held, Core, Placed
<1>8. Saving'
  BY <1>1 DEF Saving
<1>9. Keys'
  <2> SUFFICES ASSUME NEW k \in Tokens \cup Requests, disk.sessions[k] # None
               PROVE  disk.sessions[k] = Bound(k)' /\ (k \in Requests => pc'[k] = "end")
    BY <1>1 DEF Keys
  <2>1. /\ disk.sessions[k] = Bound(k)
        /\ k \in Requests => pc[k] = "end" \/ (lock = k /\ pc[k] = "issue")
    BY DEF Held, Core, Keys
  <2> QED
    BY <1>3, <1>5, <2>1
<1>10. CutGone'
  <2> SUFFICES ASSUME NEW r \in Requests, NEW k \in cut'[r]
               PROVE  /\ k \in Requests => pc'[k] = "end"
                      /\ r \notin unsaved' /\ result'[r] # "lost" =>
                           /\ mem'.sessions[k] = None
                           /\ lock' # r => disk'.sessions[k] = None
    BY DEF CutGone
  <2>1. k \in cut[r] /\ (k \in Requests => pc'[k] = "end")
    BY <1>1, <1>5 DEF Held, CutGone
  <2>2. r \notin unsaved' /\ result'[r] # "lost" => disk.sessions[k] = None
    BY <1>1, <1>5, <2>1 DEF Held, CutGone
  <2> QED
    BY <1>1, <2>1, <2>2
<1>11. Issued'
  <2> SUFFICES ASSUME NEW r \in Requests
               PROVE  /\ lock' # r
                      /\ op(r)'.do \in {"register", "login"} /\ result'[r] = "ok" /\ r \notin unsaved' =>
                           \/ mem'.sessions[r] # None /\ disk'.sessions[r] # None
                           \/ \E q \in Requests : r \in cut'[q]
    BY DEF Issued
  <2>1. lock' # r
    BY <1>1, NoneFacts
  <2>2. result'[r] = "ok" => result[r] = "ok"
    BY <1>5
  <2> QED
    BY <1>1, <1>3, <2>1, <2>2 DEF Held, Issued
<1>12. InviteLimit'
  BY <1>1, <1>2, LimitStays DEF Held
<1>13. LiveEntitled'
  BY <1>1 DEF LiveEntitled
<1> QED
  BY <1>6, <1>7, <1>8, <1>9, <1>10, <1>11, <1>12, <1>13 DEF Held, Core

\* What happens beside the requests and leaves the store alone.
LEMMA BesideKeeps ==
  ASSUME Held, Same, Still, UNCHANGED <<lock, pc, result, who, live, late>>,
         fails' \in Nat, closed' \in BOOLEAN, expired' \subseteq Codes
  PROVE  Held'
<1>1. TypeOK'
  BY DEF Held, Core, TypeOK, Still, Same
<1>2. Placed' /\ Saving' /\ Keys' /\ CutGone' /\ Issued' /\ InviteLimit'
  BY OutsideKeeps
<1>3. \A q \in Requests : Upcoming(q)' = Upcoming(q)
  BY SameOps DEF Held, Core, TypeOK, Upcoming, After, Handler, Rights
<1>4. LiveEntitled'
  BY <1>3, LiveKeeps DEF Held, Still
<1> QED
  BY <1>1, <1>2, <1>4 DEF Held, Core

LEMMA ShutdownKeeps ==
  ASSUME Held, Shutdown
  PROVE  Held'
<1>1. Same
  BY SpendSame DEF Shutdown, Held, Core
<1>2. closed' \in BOOLEAN /\ fails' \in Nat /\ expired' \subseteq Codes
  BY DEF Shutdown, Held, Core, TypeOK
<1> QED
  BY <1>1, <1>2, BesideKeeps DEF Shutdown, store, file, history, Still

LEMMA ExpireKeeps ==
  ASSUME Held, NEW c \in Codes, Expire(c)
  PROVE  Held'
<1>1. Same
  BY SpendSame DEF Expire, Held, Core
<1>2. closed' \in BOOLEAN /\ fails' \in Nat /\ expired' \subseteq Codes
  BY DEF Expire, Held, Core, TypeOK
<1> QED
  BY <1>1, <1>2, BesideKeeps DEF Expire, store, file, history, Still

LEMMA ForgiveKeeps ==
  ASSUME Held, Forgive
  PROVE  Held'
<1>1. Same
  BY UnchangedSame DEF Forgive, Held, Core
<1>2. closed' \in BOOLEAN /\ fails' \in Nat /\ expired' \subseteq Codes
  BY DEF Forgive, Held, Core, TypeOK
<1> QED
  BY <1>1, <1>2, BesideKeeps DEF Forgive, store, file, history, Still

LEMMA StutterKeeps ==
  ASSUME Held, UNCHANGED vars
  PROVE  Held'
<1>1. UNCHANGED load /\ Same
  BY UnchangedSame DEF vars, Held, Core
<1>2. closed' \in BOOLEAN /\ fails' \in Nat /\ expired' \subseteq Codes
  BY DEF vars, Held, Core, TypeOK
<1> QED
  BY <1>1, <1>2, BesideKeeps DEF vars, store, file, history, Still

-----------------------------------------------------------------------------
(* Invites and the accounts made by them.                                  *)

Made(d, c) == {n \in Names : d.users[n] # None /\ d.users[n].invite = c}

LEMMA MadeFinite ==
  ASSUME NEW d, NEW c
  PROVE  IsFiniteSet(Made(d, c)) /\ Cardinality(Made(d, c)) \in Nat
BY AccountsAssumption, FS_Subset, FS_CardinalityType DEF Made

\* No more accounts by it and no more uses left: no more claims.
LEMMA ClaimsShrink ==
  ASSUME NEW d, NEW e, NEW c, d.invites[c] \in Nat, e.invites[c] \in Nat,
         e.invites[c] <= d.invites[c], Made(e, c) \subseteq Made(d, c)
  PROVE  Claims(e, c) <= Claims(d, c) /\ Claims(e, c) \in Nat /\ Claims(d, c) \in Nat
<1>1. Cardinality(Made(e, c)) <= Cardinality(Made(d, c))
  BY MadeFinite, FS_Subset
<1>2. Cardinality(Made(e, c)) \in Nat /\ Cardinality(Made(d, c)) \in Nat
  BY MadeFinite
<1> QED
  BY <1>1, <1>2 DEF Claims, Made

\* One use becomes one account.
LEMMA ClaimsUsed ==
  ASSUME NEW d, NEW e, NEW c, NEW n, d.invites[c] \in Nat, d.invites[c] > 0,
         e.invites[c] = d.invites[c] - 1, Made(e, c) \subseteq Made(d, c) \cup {n}
  PROVE  Claims(e, c) <= Claims(d, c)
<1>1. IsFiniteSet(Made(d, c) \cup {n}) /\ Cardinality(Made(d, c) \cup {n}) <= Cardinality(Made(d, c)) + 1
  <2> DEFINE S == Made(d, c)
  <2>1. IsFiniteSet(S) /\ Cardinality(S) \in Nat
    BY MadeFinite
  <2> HIDE DEF S
  <2>2. /\ IsFiniteSet(S \cup {n})
        /\ Cardinality(S \cup {n}) = IF n \in S THEN Cardinality(S) ELSE Cardinality(S) + 1
    BY <2>1, FS_AddElement
  <2>3. Cardinality(S \cup {n}) <= Cardinality(S) + 1
    BY <2>1, <2>2
  <2> QED
    BY <2>2, <2>3 DEF S
<1>2. Cardinality(Made(e, c)) <= Cardinality(Made(d, c) \cup {n})
  BY <1>1, FS_Subset
<1>3. /\ Cardinality(Made(e, c)) \in Nat /\ Cardinality(Made(d, c)) \in Nat
      /\ Cardinality(Made(d, c) \cup {n}) \in Nat
  BY <1>1, MadeFinite, FS_CardinalityType
<1>4. Cardinality(Made(e, c)) <= Cardinality(Made(d, c)) + 1
  BY <1>1, <1>2, <1>3
<1> QED
  BY <1>3, <1>4 DEF Claims, Made

LEMMA ClaimsNat ==
  ASSUME NEW d \in Data, NEW c \in Codes
  PROVE  Claims(d, c) \in Nat
<1>1. d.invites[c] \in Nat
  BY DEF Data
<1>2. Claims(d, c) = d.invites[c] + Cardinality(Made(d, c))
  BY DEF Claims, Made
<1> QED
  BY <1>1, <1>2, MadeFinite

\* What is no more than memory claims is no more than may be claimed.
LEMMA LimitKept ==
  ASSUME TypeOK, InviteLimit, Same, disk' = disk, mem' \in Data,
         \A c \in Codes : Claims(mem', c) <= Claims(mem, c)
  PROVE  InviteLimit'
<1>1. load.data \in Data /\ load'.data = load.data
  BY DEF TypeOK, World, Same
<1>2. ASSUME NEW c \in Codes
      PROVE  Claims(mem', c) <= Claims(load.data, c) /\ Claims(disk, c) <= Claims(load.data, c)
  <2>1. Claims(mem', c) \in Nat /\ Claims(mem, c) \in Nat /\ Claims(load.data, c) \in Nat
    BY <1>1, ClaimsNat DEF TypeOK
  <2>2. Claims(mem, c) <= Claims(load.data, c) /\ Claims(disk, c) <= Claims(load.data, c)
    BY DEF InviteLimit
  <2>3. Claims(mem', c) <= Claims(mem, c)
    OBVIOUS
  <2> QED
    BY <2>1, <2>2, <2>3
<1>3. \A d \in {mem', disk'}, c \in Codes : Claims(d, c) <= Claims(load.data, c)
  BY <1>2
<1> QED
  BY <1>1, <1>3 DEF InviteLimit

LEMMA InvitesKeeps ==
  ASSUME Held, Invites
  PROVE  Held'
<1>1. /\ lock = None
      /\ mem' = [mem EXCEPT !.invites = [c \in DOMAIN @ |-> IF c \in expired THEN 0 ELSE @[c]]]
      /\ UNCHANGED <<lock, disk, tmp, closed, pc, result, who, live, fails, expired, load,
                     cut, unsaved, late>>
  BY DEF Invites, Free, file, history
<1>2. mem \in Data
  BY DEF Held, Core, TypeOK
<1>3. /\ mem' \in Data /\ mem'.users = mem.users /\ mem'.sessions = mem.sessions
      /\ \A c \in Codes : mem'.invites[c] = IF c \in expired THEN 0 ELSE mem.invites[c]
  BY <1>1, <1>2 DEF Data
<1>4. Same /\ \A k : Bound(k)' = Bound(k) /\ op(k)' = op(k)
  BY <1>1, UnchangedSame, SameOps DEF Held, Core, TypeOK
<1>5. TypeOK'
  BY <1>1, <1>3 DEF Held, Core, TypeOK
<1>6. Placed'
  BY <1>1, <1>4 DEF Held, Core, Placed, Fits
<1>7. Saving' /\ Keys'
  BY <1>1, <1>3, <1>4 DEF Held, Core, Saving, Keys
<1>8. CutGone' /\ Issued'
  BY <1>1, <1>3, <1>4 DEF Held, CutGone, Issued
<1>9. \A c \in Codes : Claims(mem', c) <= Claims(mem, c)
  <2> SUFFICES ASSUME NEW c \in Codes PROVE Claims(mem', c) <= Claims(mem, c)
    OBVIOUS
  <2>1. mem.invites[c] \in Nat /\ mem'.invites[c] \in Nat
    BY <1>2, <1>3 DEF Data
  <2>2. mem'.invites[c] <= mem.invites[c]
    BY <1>3, <2>1
  <2>3. Made(mem', c) = Made(mem, c)
    BY <1>3 DEF Made
  <2> QED
    BY <2>1, <2>2, <2>3, ClaimsShrink
<1>10. InviteLimit'
  BY <1>1, <1>3, <1>4, <1>9, LimitKept DEF Held, Core
<1>11. \A q \in Requests : Upcoming(q)' = Upcoming(q)
  BY <1>1, <1>4 DEF Upcoming, After, Handler, Rights
<1>12. LiveEntitled'
  BY <1>1, <1>3, <1>4, <1>11, LiveKeeps DEF Held
<1> QED
  BY <1>5, <1>6, <1>7, <1>8, <1>10, <1>12 DEF Held, Core

-----------------------------------------------------------------------------
(* What an operation makes of the store.                                   *)

\* The tokens after an operation: those it removes are gone, and issue adds
\* the request's own.
NewSessions(r, K, m) ==
  \A k \in Keyed : m.sessions[k] =
    IF pc[r] = "issue" /\ k = r THEN [user |-> op(r).name, dev |-> op(r).dev]
    ELSE IF k \in K THEN None ELSE mem.sessions[k]

LEMMA RemovesFacts ==
  ASSUME mem \in Data, NEW r \in Requests, NEW step \in Changes
  PROVE  /\ Removes(step, r, mem) \subseteq Keyed
         /\ \A k \in Removes(step, r, mem) : mem.sessions[k] # None
         /\ step \notin {"issue", "revoke", "logout", "delete"} => Removes(step, r, mem) = {}
BY DEF Data, Keyed, Removes, Changes

LEMMA WithoutFacts ==
  ASSUME mem \in Data, NEW K
  PROVE  /\ Without(mem, K) \in [Keyed -> Session \cup {None}]
         /\ \A k \in Keyed : Without(mem, K)[k] = IF k \in K THEN None ELSE mem.sessions[k]
BY DEF Data, Keyed, Without

LEMMA RegisteredFacts ==
  ASSUME mem \in Data, NEW r \in Requests, op(r) \in Op, op(r).name \in Names, expired \subseteq Codes,
         ~BadInvite(r, mem), mem.users[op(r).name] = None
  PROVE  /\ Registered(r, mem) \in Data
         /\ Registered(r, mem).sessions = mem.sessions
         /\ \A n \in Names : n # op(r).name => Registered(r, mem).users[n] = mem.users[n]
         /\ \A c \in Codes : Claims(Registered(r, mem), c) <= Claims(mem, c)
<1> DEFINE code == IF NeedInvite(mem) THEN op(r).code ELSE None
           u == [admin |-> NoUsers(mem), disabled |-> FALSE, invite |-> code]
           inv == [i \in DOMAIN mem.invites |-> IF i = code THEN mem.invites[i] - 1 ELSE mem.invites[i]]
           new == Registered(r, mem)
<1>1. code \in Codes \cup {None} /\ (code # None => mem.invites[code] \in Nat /\ mem.invites[code] > 0)
  BY NoneFacts DEF BadInvite, Op, Data
<1>2. u \in User /\ u.invite = code
  BY <1>1 DEF User, NoUsers
<1>3. inv \in [Codes \cup Requests -> Nat]
  <2> SUFFICES ASSUME NEW i \in Codes \cup Requests
               PROVE  (IF i = code THEN mem.invites[i] - 1 ELSE mem.invites[i]) \in Nat
    BY DEF Data
  <2>1. mem.invites[i] \in Nat
    BY DEF Data
  <2>2. i = code => mem.invites[i] > 0
    BY <1>1, NoneFacts
  <2> QED
    BY <2>1, <2>2
<1>4. \A i \in Codes : inv[i] = IF i = code THEN mem.invites[i] - 1 ELSE mem.invites[i]
  BY DEF Data
<1> HIDE DEF code, u, inv
<1>5. new = [mem EXCEPT !.users[op(r).name] = u, !.invites = inv]
  BY DEF Registered, u, inv, code
<1>6. /\ new.users = [mem.users EXCEPT ![op(r).name] = u] /\ new.invites = inv
      /\ new.sessions = mem.sessions /\ new \in Data
  <2> DEFINE us == [mem.users EXCEPT ![op(r).name] = u]
  <2>1. us \in [Names -> User \cup {None}]
    BY <1>2 DEF Data
  <2>2. new = [mem EXCEPT !.users = us, !.invites = inv]
    BY <1>5 DEF Data
  <2> HIDE DEF us, new
  <2>3. new \in Data /\ new.users = us /\ new.invites = inv /\ new.sessions = mem.sessions
    BY <1>3, <2>1, <2>2 DEF Data
  <2> QED
    BY <2>3 DEF us
<1> HIDE DEF new
<1>7. \A n \in Names : new.users[n] = IF n = op(r).name THEN u ELSE mem.users[n]
  BY <1>6 DEF Data
<1>8. \A c \in Codes : Claims(new, c) <= Claims(mem, c)
  <2> SUFFICES ASSUME NEW c \in Codes PROVE Claims(new, c) <= Claims(mem, c)
    OBVIOUS
  <2>1. mem.invites[c] \in Nat
    BY DEF Data
  <2>2. CASE c = code
    <3>1. Made(new, c) \subseteq Made(mem, c) \cup {op(r).name}
      BY <1>7 DEF Made
    <3>2. new.invites[c] = mem.invites[c] - 1 /\ mem.invites[c] > 0
      BY <1>1, <1>4, <1>6, <2>2, NoneFacts
    <3> QED
      BY <2>1, <3>1, <3>2, ClaimsUsed
  <2>3. CASE c # code
    <3>1. Made(new, c) \subseteq Made(mem, c)
      BY <1>2, <1>7, <2>3 DEF Made
    <3>2. new.invites[c] = mem.invites[c]
      BY <1>4, <1>6, <2>3
    <3> QED
      BY <2>1, <3>1, <3>2, ClaimsShrink
  <2> QED
    BY <2>2, <2>3
<1> QED
  BY <1>6, <1>7, <1>8 DEF new

\* An account that stays, and stays enabled.
Enabled(d, n) == d.users[n] # None /\ ~d.users[n].disabled

Locked(r, n) ==
  n = op(r).name /\ (pc[r] = "delete" \/ (pc[r] = "disable" /\ op(r).disabled = TRUE))

NewStore(r, m) ==
  /\ m \in Data
  /\ NewSessions(r, Removes(pc[r], r, mem), m)
  /\ \A c \in Codes : Claims(m, c) <= Claims(mem, c)
  /\ \A n \in Names : Enabled(mem, n) => Enabled(m, n) \/ Locked(r, n)

LEMMA SameClaims ==
  ASSUME mem \in Data, NEW m \in Data, NEW c \in Codes, m.invites[c] <= mem.invites[c],
         Made(m, c) \subseteq Made(mem, c)
  PROVE  Claims(m, c) <= Claims(mem, c)
<1>1. m.invites[c] \in Nat /\ mem.invites[c] \in Nat
  BY DEF Data
<1> QED
  BY <1>1, ClaimsShrink

\* Operations on the tokens alone.
LEMMA TokensChanged ==
  ASSUME mem \in Data, NEW r \in Requests, NEW ses \in [Keyed -> Session \cup {None}],
         NEW m, m = [mem EXCEPT !.sessions = ses]
  PROVE  /\ m \in Data /\ m.sessions = ses
         /\ \A c \in Codes : Claims(m, c) <= Claims(mem, c)
         /\ \A n \in Names : Enabled(mem, n) => Enabled(m, n)
<1>1. m \in Data /\ m.sessions = ses /\ m.users = mem.users /\ m.invites = mem.invites
  BY DEF Data, Keyed
<1>2. \A n \in Names : Enabled(mem, n) => Enabled(m, n)
  BY <1>1 DEF Enabled
<1>3. \A c \in Codes : Claims(m, c) <= Claims(mem, c)
  <2> SUFFICES ASSUME NEW c \in Codes PROVE Claims(m, c) <= Claims(mem, c)
    OBVIOUS
  <2>1. m.invites[c] <= mem.invites[c]
    BY <1>1 DEF Data
  <2>2. Made(m, c) = Made(mem, c)
    BY <1>1 DEF Made
  <2> QED
    BY <1>1, <2>1, <2>2, SameClaims
<1> QED
  BY <1>1, <1>2, <1>3

\* Operations on one account.
Remade(name, u, ses) == [mem EXCEPT !.users = [mem.users EXCEPT ![name] = u], !.sessions = ses]

LEMMA AccountChanged ==
  ASSUME mem \in Data, NEW name \in Names, NEW u \in User \cup {None}, NEW m,
         mem.users[name] # None,
         NEW ses \in [Keyed -> Session \cup {None}],
         m = Remade(name, u, ses),
         u # None => u.invite = mem.users[name].invite
  PROVE  /\ m \in Data /\ m.sessions = ses
         /\ \A c \in Codes : Claims(m, c) <= Claims(mem, c)
         /\ \A n \in Names : n # name /\ Enabled(mem, n) => Enabled(m, n)
         /\ m.users[name] = u
<1> DEFINE us == [mem.users EXCEPT ![name] = u]
<1>1. us \in [Names -> User \cup {None}]
  BY DEF Data
<1>2. \A n \in Names : us[n] = IF n = name THEN u ELSE mem.users[n]
  BY DEF Data
<1> HIDE DEF us
<1>3. m = [mem EXCEPT !.users = us, !.sessions = ses]
  BY DEF Remade, us
<1>4. m \in Data /\ m.sessions = ses /\ m.users = us /\ m.invites = mem.invites
  BY <1>1, <1>3 DEF Data, Keyed
<1>5. \A n \in Names : n # name /\ Enabled(mem, n) => Enabled(m, n)
  BY <1>2, <1>4 DEF Enabled
<1>6. \A c \in Codes : Claims(m, c) <= Claims(mem, c)
  <2> SUFFICES ASSUME NEW c \in Codes PROVE Claims(m, c) <= Claims(mem, c)
    OBVIOUS
  <2>1. m.invites[c] <= mem.invites[c]
    BY <1>4 DEF Data
  <2>2. Made(m, c) \subseteq Made(mem, c)
    BY <1>2, <1>4 DEF Made
  <2> QED
    BY <1>4, <2>1, <2>2, SameClaims
<1> QED
  BY <1>2, <1>4, <1>5, <1>6

\* Operations on one invite.
LEMMA InviteChanged ==
  ASSUME mem \in Data, NEW i \in Codes \cup Requests, NEW uses \in Nat, NEW m,
         m = [mem EXCEPT !.invites = [mem.invites EXCEPT ![i] = uses]],
         i \in Codes => uses <= mem.invites[i]
  PROVE  /\ m \in Data /\ m.sessions = mem.sessions
         /\ \A c \in Codes : Claims(m, c) <= Claims(mem, c)
         /\ \A n \in Names : Enabled(mem, n) => Enabled(m, n)
<1> DEFINE inv == [mem.invites EXCEPT ![i] = uses]
<1>1. inv \in [Codes \cup Requests -> Nat]
  BY DEF Data
<1>2. \A c \in Codes : inv[c] <= mem.invites[c]
  BY DEF Data
<1> HIDE DEF inv
<1>3. m = [mem EXCEPT !.invites = inv]
  BY DEF inv
<1>4. m \in Data /\ m.sessions = mem.sessions /\ m.users = mem.users /\ m.invites = inv
  BY <1>1, <1>3 DEF Data
<1>5. \A n \in Names : Enabled(mem, n) => Enabled(m, n)
  BY <1>4 DEF Enabled
<1>6. \A c \in Codes : Claims(m, c) <= Claims(mem, c)
  <2> SUFFICES ASSUME NEW c \in Codes PROVE Claims(m, c) <= Claims(mem, c)
    OBVIOUS
  <2>1. Made(m, c) = Made(mem, c)
    BY <1>4 DEF Made
  <2> QED
    BY <1>2, <1>4, <2>1, SameClaims
<1> QED
  BY <1>4, <1>5, <1>6

LEMMA ChangedFacts ==
  ASSUME Core, NEW r \in Requests, pc[r] \in Changes, ~Refused(pc[r], r, mem)
  PROVE  NewStore(r, Changed(pc[r], r, mem))
<1> DEFINE K == Removes(pc[r], r, mem)
           m == Changed(pc[r], r, mem)
           s == Without(mem, K)
<1>1. mem \in Data /\ expired \subseteq Codes
  BY DEF Core, TypeOK
<1>2. op(r) \in Op /\ Formed(op(r)) /\ Fits(op(r), pc[r])
  BY OpFacts DEF Core, TypeOK, Placed
<1>3. K \subseteq Keyed /\ (pc[r] \notin {"issue", "revoke", "logout", "delete"} => K = {})
  BY <1>1, RemovesFacts
<1>4. /\ s \in [Keyed -> Session \cup {None}]
      /\ \A k \in Keyed : s[k] = IF k \in K THEN None ELSE mem.sessions[k]
  BY <1>1, WithoutFacts
<1>5. mem.sessions \in [Keyed -> Session \cup {None}]
  BY <1>1 DEF Data, Keyed
<1> HIDE DEF K, s
<1>6. CASE pc[r] = "register"
  <2>1. ~BadInvite(r, mem) /\ mem.users[op(r).name] = None
    BY <1>6 DEF Refused
  <2>2. op(r).name \in Names
    BY <1>2, <1>6 DEF Formed, Fits
  <2>3. m = Registered(r, mem)
    BY <1>6 DEF Changed
  <2> HIDE DEF m
  <2>4. /\ m \in Data /\ m.sessions = mem.sessions
        /\ \A n \in Names : n # op(r).name => m.users[n] = mem.users[n]
        /\ \A c \in Codes : Claims(m, c) <= Claims(mem, c)
    BY <1>1, <1>2, <2>1, <2>2, <2>3, RegisteredFacts
  <2>5. NewSessions(r, K, m)
    BY <1>3, <1>6, <2>4 DEF NewSessions
  <2>6. \A n \in Names : Enabled(mem, n) => Enabled(m, n)
    BY <2>1, <2>4 DEF Enabled
  <2> QED
    BY <2>4, <2>5, <2>6 DEF NewStore, K, m
<1>7. CASE pc[r] = "issue"
  <2> DEFINE x == [user |-> op(r).name, dev |-> op(r).dev]
             t == [s EXCEPT ![r] = x]
  <2>1. x \in Session
    BY <1>2, <1>7 DEF Formed, Fits, Session
  <2>2. r \in Keyed
    BY DEF Keyed
  <2>3. t \in [Keyed -> Session \cup {None}] /\ \A k \in Keyed : t[k] = IF k = r THEN x ELSE s[k]
    BY <1>4, <2>1, <2>2
  <2> HIDE DEF t
  <2>4. m = [mem EXCEPT !.sessions = t]
    BY <1>7 DEF Changed, t, s, K
  <2> HIDE DEF m
  <2>5. /\ m \in Data /\ m.sessions = t
        /\ \A c \in Codes : Claims(m, c) <= Claims(mem, c)
        /\ \A n \in Names : Enabled(mem, n) => Enabled(m, n)
    BY <1>1, <2>3, <2>4, TokensChanged
  <2>6. NewSessions(r, K, m)
    BY <1>4, <1>7, <2>3, <2>5 DEF NewSessions
  <2> QED
    BY <2>5, <2>6 DEF NewStore, K, m
<1>8. CASE pc[r] \in {"logout", "revoke", "touch"}
  <2>1. m = [mem EXCEPT !.sessions = s]
    BY <1>8 DEF Changed, s, K
  <2> HIDE DEF m
  <2>2. /\ m \in Data /\ m.sessions = s
        /\ \A c \in Codes : Claims(m, c) <= Claims(mem, c)
        /\ \A n \in Names : Enabled(mem, n) => Enabled(m, n)
    BY <1>1, <1>4, <2>1, TokensChanged
  <2>3. NewSessions(r, K, m)
    BY <1>4, <1>8, <2>2 DEF NewSessions
  <2> QED
    BY <2>2, <2>3 DEF NewStore, K, m
<1>9. CASE pc[r] = "delete"
  <2>1. op(r).name \in Names /\ mem.users[op(r).name] # None
    BY <1>2, <1>9 DEF Formed, Fits, Refused
  <2>2. m = Remade(op(r).name, None, s)
    BY <1>1, <1>9 DEF Changed, Remade, s, K, Data
  <2> HIDE DEF m
  <2>3. /\ m \in Data /\ m.sessions = s
        /\ \A c \in Codes : Claims(m, c) <= Claims(mem, c)
        /\ \A n \in Names : n # op(r).name /\ Enabled(mem, n) => Enabled(m, n)
    BY <1>1, <1>4, <2>1, <2>2, AccountChanged
  <2>4. NewSessions(r, K, m)
    BY <1>4, <1>9, <2>3 DEF NewSessions
  <2> QED
    BY <1>9, <2>3, <2>4 DEF NewStore, Locked, K, m
<1>10. CASE pc[r] = "disable"
  <2> DEFINE u == [mem.users[op(r).name] EXCEPT !.disabled = op(r).disabled]
  <2>1. op(r).name \in Names /\ mem.users[op(r).name] # None /\ op(r).disabled # None
    BY <1>2, <1>10 DEF Formed, Fits, Refused
  <2>2. mem.users[op(r).name] \in User /\ op(r).disabled \in BOOLEAN
    BY <1>1, <1>2, <2>1 DEF Data, Op
  <2>3. u \in User /\ u.invite = mem.users[op(r).name].invite /\ u.disabled = op(r).disabled
    BY <2>2 DEF User
  <2>4. u # None
    BY <2>3, NoneFacts
  <2>5. m = Remade(op(r).name, u, mem.sessions)
    BY <1>1, <1>10 DEF Changed, Remade, Data
  <2> HIDE DEF m, u
  <2>6. /\ m \in Data /\ m.sessions = mem.sessions
        /\ \A c \in Codes : Claims(m, c) <= Claims(mem, c)
        /\ \A n \in Names : n # op(r).name /\ Enabled(mem, n) => Enabled(m, n)
        /\ m.users[op(r).name] = u
    BY <1>1, <1>5, <2>1, <2>3, <2>5, AccountChanged
  <2>7. NewSessions(r, K, m)
    BY <1>3, <1>10, <2>6 DEF NewSessions
  <2>8. Enabled(m, op(r).name) \/ op(r).disabled = TRUE
    BY <2>2, <2>3, <2>4, <2>6 DEF Enabled
  <2> QED
    BY <1>10, <2>6, <2>7, <2>8 DEF NewStore, Locked, K, m
<1>11. CASE pc[r] = "rights"
  <2> DEFINE u == [mem.users[op(r).name] EXCEPT !.admin = op(r).admin]
  <2>1. op(r).name \in Names /\ mem.users[op(r).name] # None /\ op(r).admin # None
    BY <1>2, <1>11 DEF Formed, Fits, Refused
  <2>2. mem.users[op(r).name] \in User /\ op(r).admin \in BOOLEAN
    BY <1>1, <1>2, <2>1 DEF Data, Op
  <2>3. /\ u \in User /\ u.invite = mem.users[op(r).name].invite
        /\ u.disabled = mem.users[op(r).name].disabled
    BY <2>2 DEF User
  <2>4. u # None
    BY <2>3, NoneFacts
  <2>5. m = Remade(op(r).name, u, mem.sessions)
    BY <1>1, <1>11 DEF Changed, Remade, Data
  <2> HIDE DEF m, u
  <2>6. /\ m \in Data /\ m.sessions = mem.sessions
        /\ \A c \in Codes : Claims(m, c) <= Claims(mem, c)
        /\ \A n \in Names : n # op(r).name /\ Enabled(mem, n) => Enabled(m, n)
        /\ m.users[op(r).name] = u
    BY <1>1, <1>5, <2>1, <2>3, <2>5, AccountChanged
  <2>7. NewSessions(r, K, m)
    BY <1>3, <1>11, <2>6 DEF NewSessions
  <2>8. Enabled(mem, op(r).name) => Enabled(m, op(r).name)
    BY <2>3, <2>4, <2>6 DEF Enabled
  <2> QED
    BY <2>6, <2>7, <2>8 DEF NewStore, K, m
<1>12. CASE pc[r] \in {"invite", "uninvite"}
  <2> DEFINE i == IF pc[r] = "invite" THEN r ELSE op(r).code
             uses == IF pc[r] = "invite" THEN Uses(op(r)) ELSE 0
  <2>1. i \in Codes \cup Requests /\ uses \in Nat
    BY <1>2, <1>12 DEF Formed, Fits, Op, Uses
  <2>2. i \in Codes => uses <= mem.invites[i]
    <3> SUFFICES ASSUME i \in Codes PROVE uses <= mem.invites[i]
      OBVIOUS
    <3>1. uses = 0
      BY NoneFacts
    <3>2. mem.invites[i] \in Nat
      BY <1>1 DEF Data
    <3> QED
      BY <3>1, <3>2
  <2>3. m = [mem EXCEPT !.invites = [mem.invites EXCEPT ![i] = uses]]
    BY <1>1, <1>12 DEF Changed, Data
  <2> HIDE DEF m, i, uses
  <2>4. /\ m \in Data /\ m.sessions = mem.sessions
        /\ \A c \in Codes : Claims(m, c) <= Claims(mem, c)
        /\ \A n \in Names : Enabled(mem, n) => Enabled(m, n)
    BY <1>1, <2>1, <2>2, <2>3, InviteChanged
  <2>5. NewSessions(r, K, m)
    BY <1>3, <1>12, <2>4 DEF NewSessions
  <2> QED
    BY <2>4, <2>5 DEF NewStore, K, m
<1> QED
  BY <1>6, <1>7, <1>8, <1>9, <1>10, <1>11, <1>12 DEF Changes

-----------------------------------------------------------------------------
(* Changes.                                                                *)

LEMMA RefusedKeeps ==
  ASSUME Held, NEW r \in Requests, Change(r), Refused(pc[r], r, mem)
  PROVE  Held'
<1>1. /\ pc[r] \in Changes /\ lock = None
      /\ IF pc[r] = "register" /\ BadInvite(r, mem) THEN Fail(r) ELSE Refuse(r)
      /\ UNCHANGED <<mem, lock, disk, tmp, closed, who, live, fails, expired, load, cut, unsaved, late>>
  BY DEF Change, Free, file, store
<1>2. pc[r] # "issue" /\ pc[r] \notin {"auth", "end", "serve", "kick", "kickAll"}
  BY <1>1 DEF Refused, Changes
<1>3. Goes(r)
  BY <1>1, <1>2, FailGoes, RefuseGoes DEF Held, Core
<1>4. Same /\ Still
  BY <1>1, UnchangedSame DEF Held, Core, Still
<1>5. Frame
  BY <1>1, UnchangedFrame DEF Held, Core
<1>6. r \notin live
  BY <1>2, LiveServes DEF Held
<1>7. Core' /\ CutGone' /\ Issued' /\ InviteLimit'
  BY <1>1, <1>2, <1>3, <1>4, <1>5, <1>6, QuietHeld
<1>8. Upcoming(r) \notin {"kick", "kickAll"}
  BY <1>1, <1>2, NoneFacts DEF Upcoming
<1>9. LiveEntitled'
  BY <1>1, <1>3, <1>4, <1>8, LiveKeeps, UpcomingOthers DEF Held
<1> QED
  BY <1>7, <1>9 DEF Held

\* A change is made: the request saves it, or the store is closed, or there
\* was nothing to change.
Changing(r) ==
  /\ pc[r] \in Changes /\ lock = None
  /\ ~Refused(pc[r], r, mem)
  /\ mem' = Changed(pc[r], r, mem)
  /\ cut' = [cut EXCEPT ![r] = @ \cup Removes(pc[r], r, mem)]
  /\ \/ /\ Goes(r) /\ pc'[r] = After(op(r), pc[r]) /\ lock' = None
        /\ \/ closed /\ unsaved' = unsaved \cup {r}
           \/ pc[r] = "touch" /\ unsaved' = unsaved
     \/ lock' = r /\ UNCHANGED <<pc, result, unsaved>>
  /\ UNCHANGED <<disk, tmp, closed, who, live, fails, expired, load, late>>

LEMMA ChangeChanging ==
  ASSUME Held, NEW r \in Requests, Change(r), ~Refused(pc[r], r, mem)
  PROVE  Changing(r)
<1>1. /\ pc[r] \in Changes /\ lock = None
      /\ mem' = Changed(pc[r], r, mem)
      /\ cut' = [cut EXCEPT ![r] = @ \cup Removes(pc[r], r, mem)]
      /\ UNCHANGED <<disk, tmp, closed, who, live, fails, expired, load, late>>
  BY DEF Change, Free, file
<1>2. CASE closed \/ Idle(pc[r], r, mem)
  <2>1. /\ Advance(r) /\ UNCHANGED lock
        /\ unsaved' = IF closed THEN unsaved \cup {r} ELSE unsaved
    BY <1>2 DEF Change
  <2>2. pc[r] \notin {"count", "end"}
    BY <1>1 DEF Changes
  <2>3. Goes(r) /\ pc'[r] = After(op(r), pc[r])
    BY <2>1, <2>2, AdvanceGoes DEF Held, Core
  <2> QED
    BY <1>1, <1>2, <2>1, <2>3 DEF Changing, Idle
<1>3. CASE ~(closed \/ Idle(pc[r], r, mem))
  <2>1. lock' = r /\ UNCHANGED <<pc, result, unsaved>>
    BY <1>3 DEF Change
  <2> QED
    BY <1>1, <2>1 DEF Changing
<1> QED
  BY <1>2, <1>3

\* What the rest of the proof uses of a change.
LEMMA ChangingFacts ==
  ASSUME Held, NEW r \in Requests, Changing(r)
  PROVE  /\ NewStore(r, mem') /\ Same
         /\ \A k : Bound(k)' = Bound(k) /\ op(k)' = op(k)
         /\ pc[r] \notin {"end", "auth", "serve", "kick", "kickAll"} /\ result[r] = "none" /\ r \notin live
         /\ \A q \in Requests : q # r => pc'[q] = pc[q] /\ result'[q] = result[q]
         /\ result'[r] # "lost"
         /\ Removes(pc[r], r, mem) \subseteq Keyed
         /\ \A k \in Removes(pc[r], r, mem) : mem.sessions[k] # None
         /\ \A q \in Requests : cut'[q] =
              IF q = r THEN cut[r] \cup Removes(pc[r], r, mem) ELSE cut[q]
         /\ mem.sessions[r] = None /\ disk.sessions[r] = None /\ \A q \in Requests : r \notin cut[q]
         /\ \A k \in Requests : mem.sessions[k] # None \/ disk.sessions[k] # None => pc[k] = "end"
<1>1. NewStore(r, mem')
  BY ChangedFacts DEF Changing, Held
<1>2. Same /\ \A k : Bound(k)' = Bound(k) /\ op(k)' = op(k)
  BY UnchangedSame, SameOps DEF Changing, Held, Core, TypeOK
<1>3. pc[r] \notin {"end", "auth", "serve", "kick", "kickAll"}
  BY DEF Changing, Changes
<1>4. result[r] = "none" /\ r \notin live
  BY <1>3 DEF Held, Core, Placed
<1>5. /\ \A q \in Requests : q # r => pc'[q] = pc[q] /\ result'[q] = result[q]
      /\ result'[r] # "lost"
  BY <1>4 DEF Changing, Goes
<1>6. /\ Removes(pc[r], r, mem) \subseteq Keyed
      /\ \A k \in Removes(pc[r], r, mem) : mem.sessions[k] # None
  BY RemovesFacts DEF Changing, Held, Core, TypeOK
<1>7. \A q \in Requests : cut'[q] =
              IF q = r THEN cut[r] \cup Removes(pc[r], r, mem) ELSE cut[q]
  BY DEF Changing, Held, Core, TypeOK
<1>8. \A k \in Requests : mem.sessions[k] # None \/ disk.sessions[k] # None => pc[k] = "end"
  BY NoneFacts DEF Changing, Held, Core, Keys
<1>9. mem.sessions[r] = None /\ disk.sessions[r] = None /\ \A q \in Requests : r \notin cut[q]
  BY <1>3, <1>8 DEF Held, CutGone
<1> QED
  BY <1>1, <1>2, <1>3, <1>4, <1>5, <1>6, <1>7, <1>8, <1>9

LEMMA ChangingCore ==
  ASSUME Held, NEW r \in Requests, Changing(r)
  PROVE  Core'
<1> DEFINE K == Removes(pc[r], r, mem)
<1>1. /\ NewStore(r, mem') /\ Same
      /\ \A k : Bound(k)' = Bound(k) /\ op(k)' = op(k)
      /\ pc[r] \notin {"end", "auth", "serve", "kick", "kickAll"} /\ r \notin live
      /\ \A q \in Requests : q # r => pc'[q] = pc[q] /\ result'[q] = result[q]
      /\ K \subseteq Keyed
      /\ \A q \in Requests : cut'[q] = IF q = r THEN cut[r] \cup K ELSE cut[q]
      /\ mem.sessions[r] = None /\ disk.sessions[r] = None
      /\ \A k \in Requests : mem.sessions[k] # None \/ disk.sessions[k] # None => pc[k] = "end"
  BY ChangingFacts
<1> HIDE DEF K
<1>2. /\ \/ Goes(r) /\ pc'[r] = After(op(r), pc[r]) /\ lock' = None
         \/ lock' = r /\ UNCHANGED <<pc, result>>
      /\ pc[r] \in Changes /\ lock = None
      /\ UNCHANGED <<disk, tmp, closed, who, live, fails, expired, load, late>>
      /\ unsaved' \in {unsaved, unsaved \cup {r}}
  BY DEF Changing
<1>3. TypeOK'
  <2>1. cut' \in [Requests -> SUBSET (Tokens \cup Requests)]
    <3>1. cut' = [cut EXCEPT ![r] = @ \cup K]
      BY DEF Changing, K
    <3> QED
      BY <1>1, <3>1 DEF Held, Core, TypeOK, Keyed
  <2>2. /\ pc' \in [Requests -> Stage] /\ result' \in [Requests -> {"none", "ok", "error", "lost"}]
        /\ lock' \in Requests \cup {None}
    BY <1>2 DEF Goes, Held, Core, TypeOK
  <2>3. mem' \in Data
    BY <1>1 DEF NewStore
  <2> QED
    BY <1>1, <1>2, <2>1, <2>2, <2>3 DEF Held, Core, TypeOK, Same
<1>4. Placed'
  <2>1. CASE Goes(r)
    BY <1>1, <1>2, <2>1, PlacedKeeps DEF Held, Core
  <2>2. CASE UNCHANGED <<pc, result>>
    BY <1>1, <1>2, <2>2 DEF Held, Core, Placed, Fits
  <2> QED
    BY <1>2, <2>1, <2>2
<1>5. Saving'
  BY <1>2 DEF Held, Core, Saving
<1>6. Keys'
  <2> SUFFICES ASSUME NEW d \in {mem', disk'}, NEW k \in Keyed, d.sessions[k] # None
               PROVE  /\ d.sessions[k] = Bound(k)
                      /\ k \in Requests => pc'[k] = "end" \/ (lock' = k /\ pc'[k] = "issue")
    BY <1>1 DEF Keys, Keyed
  <2>1. CASE k = r
    <3>1. d = mem' /\ pc[r] = "issue" /\ d.sessions[k] = Bound(k)
      BY <1>1, <1>2, <2>1 DEF NewStore, NewSessions, Bound
    <3>2. pc'[r] = "end" \/ (lock' = r /\ pc'[r] = "issue")
      BY <1>2, <3>1 DEF After
    <3> QED
      BY <2>1, <3>1, <3>2
  <2>2. CASE k # r
    <3>1. d.sessions[k] \in {mem.sessions[k], disk.sessions[k]}
      BY <1>1, <1>2, <2>2 DEF NewStore, NewSessions
    <3>2. d.sessions[k] = Bound(k)
      BY <3>1 DEF Held, Core, Keys, Keyed
    <3>3. k \in Requests => pc'[k] = "end"
      BY <1>1, <2>2, <3>1
    <3> QED
      BY <3>2, <3>3
  <2> QED
    BY <2>1, <2>2
<1> QED
  BY <1>3, <1>4, <1>5, <1>6 DEF Core

LEMMA ChangingKept ==
  ASSUME Held, NEW r \in Requests, Changing(r)
  PROVE  CutGone' /\ Issued' /\ InviteLimit'
<1> DEFINE K == Removes(pc[r], r, mem)
<1>1. /\ NewStore(r, mem') /\ Same
      /\ \A k : Bound(k)' = Bound(k) /\ op(k)' = op(k)
      /\ result[r] = "none" /\ result'[r] # "lost"
      /\ \A q \in Requests : q # r => pc'[q] = pc[q] /\ result'[q] = result[q]
      /\ K \subseteq Keyed /\ \A k \in K : mem.sessions[k] # None
      /\ \A q \in Requests : cut'[q] = IF q = r THEN cut[r] \cup K ELSE cut[q]
      /\ mem.sessions[r] = None /\ disk.sessions[r] = None /\ \A q \in Requests : r \notin cut[q]
      /\ \A k \in Requests : mem.sessions[k] # None \/ disk.sessions[k] # None => pc[k] = "end"
  BY ChangingFacts
<1>2. /\ \/ /\ lock' = None
            /\ r \in unsaved' \/ pc[r] = "touch"
         \/ lock' = r /\ UNCHANGED <<pc, result>>
      /\ lock = None /\ disk' = disk
      /\ unsaved \subseteq unsaved' /\ unsaved' \subseteq unsaved \cup {r}
      /\ None \notin Requests
  BY NoneFacts DEF Changing
<1>3. \A k \in Keyed : k # r => mem'.sessions[k] = IF k \in K THEN None ELSE mem.sessions[k]
  BY <1>1 DEF NewStore, NewSessions, K
<1>4. pc[r] = "touch" => K = {}
  BY RemovesFacts DEF K, Changing, Held, Core, TypeOK
<1>5. pc[r] = "issue" => mem'.sessions[r] # None
  <2> SUFFICES ASSUME pc[r] = "issue" PROVE mem'.sessions[r] # None
    OBVIOUS
  <2>1. mem'.sessions[r] = [user |-> op(r).name, dev |-> op(r).dev]
    BY <1>1 DEF NewStore, NewSessions, Keyed
  <2>2. op(r).name \in Names /\ op(r).dev \in Devices
    BY OpFacts DEF Held, Core, TypeOK, Placed, Fits, Formed
  <2>3. mem'.sessions[r] \in Session
    BY <2>1, <2>2 DEF Session
  <2> QED
    BY <2>3, NoneFacts
<1> HIDE DEF K
<1>6. CutGone'
  <2> SUFFICES ASSUME NEW q \in Requests, NEW k \in cut'[q]
               PROVE  /\ k \in Requests => pc'[k] = "end"
                      /\ q \notin unsaved' /\ result'[q] # "lost" =>
                           /\ mem'.sessions[k] = None
                           /\ lock' # q => disk'.sessions[k] = None
    BY DEF CutGone
  <2>1. CASE k \in cut[q]
    <3>1. k # r /\ k \in Keyed
      BY <1>1, <2>1 DEF Held, Core, TypeOK, Keyed
    <3>2. /\ k \in Requests => pc[k] = "end"
          /\ q \notin unsaved /\ result[q] # "lost" =>
               mem.sessions[k] = None /\ (lock # q => disk.sessions[k] = None)
      BY <2>1 DEF Held, CutGone
    <3>3. q \notin unsaved' /\ result'[q] # "lost" => q \notin unsaved /\ result[q] # "lost"
      BY <1>1, <1>2
    <3> QED
      BY <1>1, <1>2, <1>3, <3>1, <3>2, <3>3
  <2>2. CASE k \notin cut[q]
    <3>1. q = r /\ k \in K /\ k \in Keyed /\ k # r
      BY <1>1, <2>2
    <3>2. k \in Requests => pc'[k] = "end"
      BY <1>1, <3>1
    <3>3. mem'.sessions[k] = None
      BY <1>3, <3>1
    <3>4. q \notin unsaved' => lock' = q
      BY <1>2, <1>4, <3>1
    <3> QED
      BY <3>2, <3>3, <3>4
  <2> QED
    BY <2>1, <2>2
<1>7. Issued'
  <2> SUFFICES ASSUME NEW q \in Requests
               PROVE  /\ lock' = q /\ pc'[q] = "issue" => mem'.sessions[q] # None
                      /\ op(q)'.do \in {"register", "login"} /\ result'[q] = "ok" /\ q \notin unsaved' =>
                           \/ mem'.sessions[q] # None /\ disk'.sessions[q] # None
                           \/ \E p \in Requests : q \in cut'[p]
    BY DEF Issued
  <2>1. lock' = q /\ pc'[q] = "issue" => mem'.sessions[q] # None
    BY <1>2, <1>5
  <2> SUFFICES ASSUME op(q).do \in {"register", "login"}, result'[q] = "ok", q \notin unsaved'
               PROVE  \/ mem'.sessions[q] # None /\ disk'.sessions[q] # None
                      \/ \E p \in Requests : q \in cut'[p]
    BY <1>1, <2>1
  <2>2. CASE q = r
    <3>1. pc[r] = "touch"
      BY <1>1, <1>2, <2>2
    <3> QED
      BY <2>2, <3>1 DEF Held, Core, Placed, Fits
  <2>3. CASE q # r
    <3>1. result[q] = "ok" /\ q \notin unsaved
      BY <1>1, <1>2, <2>3
    <3>2. CASE \E p \in Requests : q \in cut[p]
      BY <1>1, <3>2
    <3>3. CASE mem.sessions[q] # None /\ disk.sessions[q] # None
      BY <1>1, <1>2, <1>3, <2>3, <3>3 DEF Keyed
    <3> QED
      BY <3>1, <3>2, <3>3 DEF Held, Issued
  <2> QED
    BY <2>2, <2>3
<1>8. InviteLimit'
  BY <1>1, <1>2, LimitKept DEF NewStore, Held, Core
<1> QED
  BY <1>6, <1>7, <1>8

\* Whoever loses his right to a connection is about to lose the connection.
LEMMA ChangingKicks ==
  ASSUME Held, NEW r \in Requests, Changing(r), unsaved' = {}, NEW c \in live, Entitled(who[c])
  PROVE  Entitled(who[c])' \/ c \in Kicked(r, Upcoming(r))'
<1> DEFINE K == Removes(pc[r], r, mem)
<1>1. /\ NewStore(r, mem') /\ Same
      /\ \A k : op(k)' = op(k)
      /\ mem.sessions[r] = None
  BY ChangingFacts
<1>2. /\ pc[r] \in Changes
      /\ pc[r] = "touch" \/ (lock' = r /\ pc' = pc)
      /\ UNCHANGED <<who, live>>
  BY DEF Changing
<1>3. /\ mem \in Data /\ mem' \in Data
      /\ who[c] \in Session /\ who[c].user \in Names /\ who[c].dev \in Devices
  BY <1>1, LiveServes DEF NewStore, Held, Core, TypeOK, Session
<1>4. pc[r] = "touch" => K = {}
  BY <1>2, <1>3, RemovesFacts
<1>5. op(r) \in Op /\ Formed(op(r)) /\ Fits(op(r), pc[r])
  BY OpFacts DEF Held, Core, TypeOK, Placed
<1>6. pc[r] # "touch" => Upcoming(r)' = After(op(r), pc[r])
  <2> SUFFICES ASSUME pc[r] # "touch" PROVE Upcoming(r)' = After(op(r), pc[r])
    OBVIOUS
  <2>1. lock' = r /\ pc'[r] = pc[r] /\ op(r)' = op(r)
    BY <1>1, <1>2
  <2> QED
    BY <2>1 DEF Upcoming, After, Handler, Rights
<1>7. CASE Locked(r, who[c].user)
  <2>1. After(op(r), pc[r]) = "kickAll" /\ pc[r] # "touch" /\ who[c].user = op(r).name
    BY <1>7 DEF Locked, After
  <2>2. Upcoming(r)' = "kickAll"
    BY <1>6, <2>1
  <2> QED
    BY <1>1, <1>2, <1>3, <2>1, <2>2 DEF Kicked, Of
<1>8. CASE ~Locked(r, who[c].user)
  <2>1. Enabled(mem, who[c].user) /\ \E k \in Keyed : mem.sessions[k] = who[c]
    BY <1>3 DEF Entitled, Enabled, Data, Keyed
  <2>2. Enabled(mem', who[c].user)
    BY <1>1, <1>3, <1>8, <2>1 DEF NewStore
  <2>3. PICK k \in Keyed : mem.sessions[k] = who[c]
    BY <2>1
  <2>4. (\E i \in Keyed : mem'.sessions[i] = who[c]) => Entitled(who[c])'
    BY <1>2, <1>3, <2>2 DEF Entitled, Enabled, Data, Keyed
  <2>5. CASE k \notin K
    <3>1. k # r
      BY <1>1, <1>3, <2>3, NoneFacts
    <3>2. mem'.sessions[k] = who[c]
      BY <1>1, <2>3, <2>5, <3>1 DEF NewStore, NewSessions
    <3> QED
      BY <2>4, <3>2
  <2>6. CASE k \in K
    <3>1. pc[r] \in {"issue", "revoke", "logout", "delete"}
      BY <1>2, <1>3, <2>6, RemovesFacts
    <3>2. CASE pc[r] = "issue"
      <4>1. op(r).do \in {"register", "login"}
        BY <1>5, <3>2 DEF Fits
      <4>2. who[c] = [user |-> op(r).name, dev |-> op(r).dev]
        BY <2>3, <2>6, <3>2, <4>1 DEF Removes, Owner
      <4>3. mem'.sessions[r] = who[c] /\ r \in Keyed
        BY <1>1, <3>2, <4>2 DEF NewStore, NewSessions, Keyed
      <4> QED
        BY <2>4, <4>3
    <3>3. CASE pc[r] = "delete"
      BY <1>8, <2>3, <2>6, <3>3 DEF Removes, Locked
    <3>4. CASE pc[r] \in {"revoke", "logout"}
      <4>1. op(r).do = pc[r] /\ Upcoming(r)' = "kick"
        BY <1>5, <1>6, <3>4 DEF Fits, After
      <4>2. who[r] \in Session /\ who[r] = Bound(op(r).tok) /\ op(r).tok \in Keyed
        BY <1>5, <3>4, <4>1 DEF Held, Core, Placed, Formed, Keyed
      <4>3. /\ who[c].user = who[r].user
            /\ who[c].dev = IF op(r).do = "logout" THEN who[r].dev ELSE op(r).dev
        <5>1. CASE pc[r] = "revoke"
          BY <2>3, <2>6, <4>1, <5>1 DEF Removes, Owner
        <5>2. CASE pc[r] = "logout"
          <6>1. mem.sessions[op(r).tok] = who[c] /\ who[c] # None
            BY <1>3, <2>3, <2>6, <5>2, NoneFacts DEF Removes
          <6>2. who[c] = who[r]
            BY <4>2, <6>1 DEF Held, Core, Keys, Keyed
          <6> QED
            BY <4>1, <5>2, <6>2
        <5> QED
          BY <3>4, <5>1, <5>2
      <4> QED
        BY <1>1, <1>2, <4>1, <4>3 DEF Kicked, Of
    <3> QED
      BY <3>1, <3>2, <3>3, <3>4
  <2> QED
    BY <2>5, <2>6
<1> QED
  BY <1>7, <1>8

LEMMA ChangeKeeps ==
  ASSUME Held, NEW r \in Requests, Change(r)
  PROVE  Held'
<1>1. CASE Refused(pc[r], r, mem)
  BY <1>1, RefusedKeeps
<1>2. CASE ~Refused(pc[r], r, mem)
  <2>1. Changing(r)
    BY <1>2, ChangeChanging
  <2>2. Core' /\ CutGone' /\ Issued' /\ InviteLimit'
    BY <2>1, ChangingCore, ChangingKept
  <2>3. LiveEntitled'
    <3> SUFFICES ASSUME unsaved' = {}, NEW c \in live', c \notin late'
                 PROVE  Entitled(who[c])' \/ KickComing(c)'
      BY DEF LiveEntitled
    <3>1. c \in live /\ c \notin late /\ unsaved = {} /\ UNCHANGED <<who, live>>
      BY <2>1 DEF Changing
    <3>2. CASE Entitled(who[c])
      BY <2>1, <3>1, <3>2, ChangingKicks DEF KickComing
    <3>3. CASE KickComing(c)
      <4>1. PICK q \in Requests : c \in Kicked(q, Upcoming(q))
        BY <3>3 DEF KickComing
      <4>2. Upcoming(q) \in {"kick", "kickAll"}
        BY <4>1, KickedHits DEF Hits
      <4>3. /\ \A k \in Requests : k # r => pc'[k] = pc[k]
            /\ \A k : op(k)' = op(k)
            /\ pc[r] \notin {"kick", "kickAll"}
        BY <2>1, ChangingFacts
      <4>4. lock = None /\ lock' \in {None, r} /\ None \notin Requests
        BY <2>1, NoneFacts DEF Changing
      <4>5. q # r /\ Upcoming(q)' = Upcoming(q) /\ op(q)' = op(q)
        BY <4>2, <4>3, <4>4 DEF Upcoming
      <4>6. (c \in Kicked(q, Upcoming(q)))'
        BY <3>1, <4>1, <4>5 DEF Kicked, Of
      <4> QED
        BY <4>6 DEF KickComing
    <3> QED
      BY <3>1, <3>2, <3>3 DEF Held, LiveEntitled
  <2> QED
    BY <2>2, <2>3 DEF Held
<1> QED
  BY <1>1, <1>2

-----------------------------------------------------------------------------
LEMMA InitHeld == Init => Held
<1> SUFFICES ASSUME Init PROVE Held
  OBVIOUS
<1>1. /\ load \in World /\ mem = load.data /\ disk = load.data /\ tmp = None /\ lock = None
      /\ closed = FALSE /\ pc = [r \in Requests |-> Start(load.ops[r])]
      /\ result = [r \in Requests |-> "none"] /\ who = [r \in Requests |-> None]
      /\ live = {} /\ fails = 0 /\ expired = {}
      /\ cut = [r \in Requests |-> {}] /\ unsaved = {} /\ late = {}
  BY AccountsAssumption DEF Init
<1>2. load.data \in Data /\ \A r \in Requests : load.data.sessions[r] = None
  BY <1>1 DEF World
<1>3. \A r \in Requests : pc[r] = Start(op(r)) /\ op(r) \in Op /\ Formed(op(r))
  BY <1>1, OpFacts DEF op
<1>4. \A r \in Requests : /\ pc[r] \in Stage /\ Fits(op(r), pc[r]) /\ pc[r] # "issue"
                          /\ op(r).tok \in Keyed => pc[r] = "auth"
  BY <1>3, StartFits
<1>5. TypeOK
  BY <1>1, <1>2, <1>4 DEF TypeOK
<1>6. Placed
  BY <1>1, <1>4 DEF Placed, Keyed
<1>7. Saving
  BY <1>1 DEF Saving
<1>8. Keys
  <2> SUFFICES ASSUME NEW k \in Keyed, load.data.sessions[k] # None
               PROVE  load.data.sessions[k] = Bound(k) /\ k \notin Requests
    BY <1>1 DEF Keys, Keyed
  <2> QED
    BY <1>2 DEF Bound, Keyed
<1>9. CutGone
  BY <1>1 DEF CutGone
<1>10. Issued
  BY <1>1, <1>4 DEF Issued
<1>11. InviteLimit
  <2> SUFFICES ASSUME NEW c \in Codes PROVE Claims(load.data, c) <= Claims(load.data, c)
    BY <1>1 DEF InviteLimit
  <2>1. Claims(load.data, c) \in Nat
    BY <1>2, ClaimsNat
  <2> QED
    BY <2>1
<1>12. LiveEntitled
  BY <1>1 DEF LiveEntitled
<1> QED
  BY <1>5, <1>6, <1>7, <1>8, <1>9, <1>10, <1>11, <1>12 DEF Held, Core

LEMMA NextHeld == Held /\ [Next]_vars => Held'
<1> SUFFICES ASSUME Held, [Next]_vars PROVE Held'
  OBVIOUS
<1>1. ASSUME NEW r \in Requests, Handle(r) PROVE Held'
  <2>1. CASE Auth(r) \/ Limit(r) \/ First(r) \/ Check(r) \/ Count(r) \/ Change(r)
    BY <2>1, AuthKeeps, LimitKeeps, FirstKeeps, CheckKeeps, CountKeeps, ChangeKeeps
  <2>2. CASE SaveOpen(r) \/ SaveWrite(r)
    BY <2>2, TmpKeeps DEF SaveOpen, SaveWrite
  <2>3. CASE SaveRename(r) \/ Connect(r) \/ Kick(r)
    BY <2>3, SaveRenameKeeps, ConnectKeeps, KickKeeps
  <2> QED
    BY <1>1, <2>1, <2>2, <2>3 DEF Handle
<1>2. CASE \E r \in Requests : SaveFails(r) \/ Disconnect(r)
  BY <1>2, SaveFailsKeeps, DisconnectKeeps
<1>3. CASE Crash \/ Shutdown \/ Invites \/ Forgive
  BY <1>3, CrashKeeps, ShutdownKeeps, InvitesKeeps, ForgiveKeeps
<1>4. CASE \E c \in Codes : Expire(c)
  BY <1>4, ExpireKeeps
<1>5. CASE UNCHANGED vars
  BY <1>5, StutterKeeps
<1> QED
  BY <1>1, <1>2, <1>3, <1>4, <1>5 DEF Next

\* The store, its file and every request stay in their types, whenever the
\* process dies: what a new process reads is a whole store.
THEOREM TypeCorrect == Spec => []TypeOK
<1>1. Held => TypeOK
  BY DEF Held, Core
<1> QED
  BY InitHeld, NextHeld, <1>1, PTL DEF Spec

\* Tokens stand for one session each, what is removed stays removed and what
\* is issued stays there, in memory and in the file, in every reachable state.
THEOREM InductiveHolds == Spec => []Inductive
<1>1. Held => Inductive
  BY DEF Held, Core, Inductive
<1> QED
  BY InitHeld, NextHeld, <1>1, PTL DEF Spec

\* What a request was told outlasts crashes, failed saves of others and
\* everything other requests do.
THEOREM AnswersDurableHolds == Spec => []AnswersDurable
<1>1. Held => AnswersDurable
  <2> SUFFICES ASSUME Held, NEW r \in Requests, r \notin unsaved, result[r] = "ok"
               PROVE  /\ cut[r] \cap (Sessions(mem) \cup Sessions(disk)) = {}
                      /\ op(r).do \in {"register", "login"} /\ (\A q \in Requests : r \notin cut[q]) =>
                           r \in Sessions(mem) \cap Sessions(disk)
    BY DEF AnswersDurable
  <2>1. pc[r] = "end"
    BY DEF Held, Core, Placed
  <2>2. lock # r
    BY <2>1, LockFacts
  <2>3. \A k \in cut[r] : mem.sessions[k] = None /\ disk.sessions[k] = None
    BY <2>2 DEF Held, CutGone
  <2>4. op(r).do \in {"register", "login"} /\ (\A q \in Requests : r \notin cut[q]) =>
          mem.sessions[r] # None /\ disk.sessions[r] # None
    BY DEF Held, Issued
  <2>5. r \in DOMAIN mem.sessions /\ r \in DOMAIN disk.sessions
    BY DEF Held, Core, TypeOK, Data
  <2> QED
    BY <2>3, <2>4, <2>5 DEF Sessions
<1> QED
  BY InitHeld, NextHeld, <1>1, PTL DEF Spec

\* The accounts made by an invite and the uses it has left never add up to
\* more than they did at the start, in memory or in the file.
THEOREM InviteLimitHolds == Spec => []InviteLimit
<1>1. Held => InviteLimit
  BY DEF Held
<1> QED
  BY InitHeld, NextHeld, <1>1, PTL DEF Spec

\* A connection whose device was signed out is about to be cancelled.
THEOREM LiveEntitledHolds == Spec => []LiveEntitled
<1>1. Held => LiveEntitled
  BY DEF Held
<1> QED
  BY InitHeld, NextHeld, <1>1, PTL DEF Spec
=============================================================================
