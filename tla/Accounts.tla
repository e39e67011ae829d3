------------------------------ MODULE Accounts ------------------------------
(***************************************************************************)
(* The server's accounts: server.Store with its file, and the requests of  *)
(* the HTTP API that read and change it, up to the connections they sign   *)
(* out.  The hub behind the connections is module Hub.                     *)
(*                                                                         *)
(* A request takes its steps in turn, each one hold of a lock; the store's *)
(* lock is kept while the file is rewritten, so a save is a few steps of   *)
(* its own between which the process may die.  What an account or a        *)
(* session says beyond who may do what is left out, and so are dates: a    *)
(* session's LastSeen matters only in that the file is written for it.     *)
(***************************************************************************)
EXTENDS Naturals, FiniteSets

CONSTANTS
  Names,      \* user names
  Devices,
  Codes,      \* invites that exist already; a request's invite is its own
  Tokens,     \* device tokens issued already; a request's token is its own
  Requests,   \* requests, each made once
  Console,    \* the token of a request from the server's own machine
  None,
  Torn,       \* a file of which only a part was written
  MaxFails,   \* failed logins before an address is blocked
  Open,       \* whether anyone may register (SignupOpen)
  Loads       \* what may happen: the store at the start, an operation for
              \* each request, and bounds: crashes, saves that fail,
              \* shutdowns, expiring invites and windows

User == [admin : BOOLEAN, disabled : BOOLEAN, invite : Codes \cup Requests \cup {None}]

Session == [user : Names, dev : Devices]

\* storeData.  invites[c] is UsesLeft, 0 for a code that does not exist.
Data == [users : [Names -> User \cup {None}],
         invites : [Codes \cup Requests -> Nat],
         sessions : [Tokens \cup Requests -> Session \cup {None}]]

Op == [do : {"register", "login", "logout", "revoke", "patch", "delete", "invite",
             "uninvite", "sync"},
       tok : Tokens \cup Requests \cup {Console, None}, name : Names \cup {None},
       dev : Devices \cup {None}, code : Codes \cup {None},
       disabled : BOOLEAN \cup {None}, admin : BOOLEAN \cup {None},
       uses : Nat, right : BOOLEAN, private : BOOLEAN]

\* What the routes and the handlers make sure of before the store is asked.
Formed(o) ==
  /\ o.do \in {"register", "login"} => o.name \in Names /\ o.dev \in Devices
  /\ o.do \in {"patch", "delete"} => o.name \in Names
  /\ o.do = "revoke" => o.dev \in Devices
  /\ o.do = "uninvite" => o.code \in Codes
  /\ o.do \in {"logout", "revoke", "sync"} => o.tok \in Tokens \cup Requests

World == [data : {d \in Data : \A r \in Requests : d.sessions[r] = None},
          ops : [Requests -> {o \in Op : Formed(o)}], refresh : BOOLEAN,
          crashes : Nat, failures : Nat, shutdowns : Nat, expiries : Nat]

ASSUME AccountsAssumption ==
  /\ IsFiniteSet(Names)
  /\ Codes \cap Requests = {} /\ Tokens \cap Requests = {}
  /\ Console \notin Tokens \cup Requests
  /\ None \notin Names \cup Devices \cup Codes \cup Tokens \cup Requests \cup BOOLEAN
  /\ None # Console /\ None \notin User \cup Session
  /\ MaxFails \in Nat \ {0} /\ Open \in BOOLEAN
  /\ Loads \subseteq World

VARIABLES
  mem,      \* Store.d
  disk,     \* the store's file
  tmp,      \* the file saveLocked writes first
  lock,     \* the request that is saving and keeps Store.mu, or None
  closed,   \* Store.closed
  pc,       \* pc[r]: the step request r takes next, "end" after the last
  result,   \* result[r]: its answer
  who,      \* who[r]: the session it was authenticated for
  live,     \* connections of the hub whose context is not cancelled
  fails,    \* limiter: failed attempts from the address of the requests
  expired,  \* invites whose date has passed
  load,     \* what is left to happen
  cut,      \* cut[r]: tokens r has removed
  unsaved,  \* requests that changed the store and did not write the file
  late      \* connections registered after their right to it had gone

file == <<disk, tmp>>
store == <<mem, lock>>
history == <<cut, unsaved, late>>
vars == <<store, file, closed, pc, result, who, live, fails, expired, load, history>>

-----------------------------------------------------------------------------
(* Requests.                                                               *)

op(r) == load.ops[r]

Rights(o) == IF o.admin = None THEN "end" ELSE "rights"

\* The first step of each handler.
Handler(o) ==
  CASE o.do \in {"register", "login"} -> "limit"
    [] o.do = "patch" -> IF o.disabled # None THEN "disable" ELSE Rights(o)
    [] o.do = "sync"  -> "connect"
    [] OTHER          -> o.do

Start(o) == IF o.tok \in {None, Console} THEN Handler(o) ELSE "auth"

\* The handlers' locks in order: the step that follows s.
After(o, s) ==
  CASE s \in {"auth", "refresh"}   -> Handler(o)
    [] s = "limit"                 -> IF o.do = "register" THEN "first" ELSE "check"
    [] s = "first"                 -> "register"
    [] s \in {"register", "check"} -> "issue"
    [] s \in {"logout", "revoke"}  -> "kick"
    [] s = "disable"               -> IF o.disabled = TRUE THEN "kickAll" ELSE Rights(o)
    [] s = "delete"                -> "kickAll"
    [] s = "kickAll"               -> IF o.do = "patch" THEN Rights(o) ELSE "end"
    [] s = "connect"               -> "serve"
    [] s = "serve"                 -> "touch"
    [] OTHER                       -> "end"

Changes == {"register", "issue", "logout", "revoke", "disable", "rights", "delete",
            "invite", "uninvite", "touch"}

Stage == Changes \cup {"auth", "refresh", "limit", "first", "check", "count", "kick", "kickAll",
                       "connect", "serve", "end"}

AdminOnly(o) == o.do \in {"patch", "delete", "invite", "uninvite"}

Begun(r) == pc[r] # Start(op(r)) \/ lock = r

\* Whenever the process dies, the file is a whole store.
TypeOK ==
  /\ mem \in Data /\ disk \in Data /\ tmp \in Data \cup {None, Torn}
  /\ lock \in Requests \cup {None} /\ closed \in BOOLEAN
  /\ load \in World /\ pc \in [Requests -> Stage]
  /\ result \in [Requests -> {"none", "ok", "error", "lost"}]
  /\ who \in [Requests -> Session \cup {None}]
  /\ live \subseteq Requests /\ fails \in Nat /\ expired \subseteq Codes
  /\ cut \in [Requests -> SUBSET (Tokens \cup Requests)]
  /\ unsaved \subseteq Requests /\ late \subseteq Requests

Init ==
  /\ load \in Loads
  /\ mem = load.data /\ disk = load.data /\ tmp = None /\ lock = None /\ closed = FALSE
  /\ pc = [r \in Requests |-> Start(load.ops[r])]
  /\ result = [r \in Requests |-> "none"] /\ who = [r \in Requests |-> None]
  /\ live = {} /\ fails = 0 /\ expired = {}
  /\ cut = [r \in Requests |-> {}] /\ unsaved = {} /\ late = {}

Spend(b) == load[b] > 0 /\ load' = [load EXCEPT ![b] = @ - 1]

\* The request goes on, or answers after its last step.
Advance(r) ==
  /\ pc' = [pc EXCEPT ![r] = After(op(r), @)]
  /\ result' = IF After(op(r), pc[r]) = "end" THEN [result EXCEPT ![r] = "ok"] ELSE result

\* writeErr and return.
Refuse(r) ==
  /\ pc' = [pc EXCEPT ![r] = "end"]
  /\ result' = [result EXCEPT ![r] = "error"]

Free == lock = None

-----------------------------------------------------------------------------
(* Steps that only read the store.                                         *)

Entitled(s) ==
  /\ mem.users[s.user] # None /\ ~mem.users[s.user].disabled
  /\ \E k \in DOMAIN mem.sessions : mem.sessions[k] = s

\* Store.Authenticate and the checks before the handler proper: an admin's
\* rights, and nobody disables, demotes or deletes himself.
Admitted(r) ==
  LET o == op(r)
      s == mem.sessions[o.tok]
  IN IF s = None THEN FALSE
     ELSE IF mem.users[s.user] = None THEN FALSE
     ELSE /\ ~mem.users[s.user].disabled
          /\ AdminOnly(o) => mem.users[s.user].admin
          /\ o.name = s.user => o.do # "delete" /\ o.disabled # TRUE /\ o.admin # FALSE

\* Authenticate may save the time of the visit, whatever comes of it.
Auth(r) ==
  /\ pc[r] = "auth" /\ Free
  /\ op(r).tok \in Requests => result[op(r).tok] = "ok"
  /\ IF ~Admitted(r)
     THEN Refuse(r) /\ UNCHANGED <<who, lock>>
     ELSE /\ who' = [who EXCEPT ![r] = mem.sessions[op(r).tok]]
          /\ \/ Advance(r) /\ UNCHANGED lock
             \/ /\ pc' = [pc EXCEPT ![r] = "refresh"]
                /\ lock' = r /\ ~closed /\ load.refresh /\ UNCHANGED result
  /\ UNCHANGED <<mem, file, closed, live, fails, expired, load, history>>

\* limiter.blocked, before the request touches the store.
Limit(r) ==
  /\ pc[r] = "limit"
  /\ IF fails >= MaxFails THEN Refuse(r) ELSE Advance(r)
  /\ UNCHANGED <<store, file, closed, who, live, fails, expired, load, history>>

NoUsers(d) == \A n \in Names : d.users[n] = None

\* register: the first account is made from the home network.
First(r) ==
  /\ pc[r] = "first" /\ Free
  /\ IF NoUsers(mem) /\ ~op(r).private THEN Refuse(r) ELSE Advance(r)
  /\ UNCHANGED <<store, file, closed, who, live, fails, expired, load, history>>

\* The attempt failed, and is still to be counted.
Fail(r) == pc' = [pc EXCEPT ![r] = "count"] /\ UNCHANGED result

\* Store.CheckLogin.
Check(r) ==
  /\ pc[r] = "check" /\ Free
  /\ LET u == mem.users[op(r).name]
         good == IF u = None THEN FALSE ELSE op(r).right /\ ~u.disabled
     IN IF good THEN Advance(r) ELSE Fail(r)
  /\ UNCHANGED <<store, file, closed, who, live, fails, expired, load, history>>

\* limiter.fail, under the limiter's lock, and the answer.
Count(r) ==
  /\ pc[r] = "count" /\ Refuse(r)
  /\ fails' = fails + 1
  /\ UNCHANGED <<store, file, closed, who, live, expired, load, history>>

-----------------------------------------------------------------------------
(* Steps that change the store.                                            *)

NeedInvite(d) == ~Open /\ ~NoUsers(d)

BadInvite(r, d) ==
  /\ NeedInvite(d)
  /\ op(r).code \notin {c \in Codes \ expired : d.invites[c] > 0}

\* What each operation of the store refuses.
Refused(step, r, d) ==
  LET o == op(r)
  IN CASE step = "register" -> BadInvite(r, d) \/ d.users[o.name] # None
       [] step = "revoke" -> \A k \in DOMAIN d.sessions : d.sessions[k] # [user |-> who[r].user, dev |-> o.dev]
       [] step \in {"disable", "rights", "delete"} -> d.users[o.name] = None
       [] step = "uninvite" -> d.invites[o.code] = 0
       [] OTHER -> FALSE

\* The user a login or registration is for, else the one authenticated.
Owner(r) == IF op(r).do \in {"register", "login"} THEN op(r).name ELSE who[r].user

\* The tokens an operation removes.
Removes(step, r, d) ==
  {k \in DOMAIN d.sessions : d.sessions[k] # None /\
     CASE step \in {"issue", "revoke"} -> d.sessions[k] = [user |-> Owner(r), dev |-> op(r).dev]
       [] step = "logout" -> k = op(r).tok
       [] step = "delete" -> d.sessions[k].user = op(r).name
       [] OTHER -> FALSE}

Without(d, K) == [k \in DOMAIN d.sessions |-> IF k \in K THEN None ELSE d.sessions[k]]

\* Mutant: a registration does not use up its invite.
RegisteredFree(r, d) ==
  [d EXCEPT !.users[op(r).name] =
     [admin |-> NoUsers(d), disabled |-> FALSE, invite |-> IF NeedInvite(d) THEN op(r).code ELSE None]]

\* The account of a registration and the use of its invite.
Registered(r, d) ==
  LET o == op(r)
      c == IF NeedInvite(d) THEN o.code ELSE None
  IN [d EXCEPT !.users[o.name] = [admin |-> NoUsers(d), disabled |-> FALSE, invite |-> c],
               !.invites = [i \in DOMAIN @ |-> IF i = c THEN @[i] - 1 ELSE @[i]]]

\* An invite for no use, or fewer (0 here), is for one.
Uses(o) == IF o.uses = 0 THEN 1 ELSE o.uses

\* What each operation of the store makes of its data.
Changed(step, r, d) ==
  LET o == op(r)
      s == Without(d, Removes(step, r, d))
  IN CASE step = "register" -> Registered(r, d)
       [] step = "issue"    -> [d EXCEPT !.sessions = [s EXCEPT ![r] = [user |-> o.name, dev |-> o.dev]]]
       [] step = "disable"  -> [d EXCEPT !.users[o.name].disabled = o.disabled]
       [] step = "rights"   -> [d EXCEPT !.users[o.name].admin = o.admin]
       [] step = "delete"   -> [d EXCEPT !.users[o.name] = None, !.sessions = s]
       [] step = "invite"   -> [d EXCEPT !.invites[r] = Uses(o)]
       [] step = "uninvite" -> [d EXCEPT !.invites[o.code] = 0]
       [] OTHER             -> [d EXCEPT !.sessions = s]

\* Touch saves only for a session that still exists.
Idle(step, r, d) == step = "touch" /\ d.sessions[op(r).tok] = None

\* Change and save, or nothing at all; a closed store is changed only in
\* memory, and an invite that is no good is a failed attempt.
Change(r) ==
  /\ pc[r] \in Changes /\ Free
  /\ LET step == pc[r]
     IN IF Refused(step, r, mem)
        THEN /\ IF step = "register" /\ BadInvite(r, mem) THEN Fail(r) ELSE Refuse(r)
             /\ UNCHANGED <<store, cut, unsaved>>
        ELSE /\ mem' = Changed(step, r, mem)
             /\ cut' = [cut EXCEPT ![r] = @ \cup Removes(step, r, mem)]
             /\ IF closed \/ Idle(step, r, mem)
                THEN /\ Advance(r) /\ UNCHANGED lock
                     /\ unsaved' = IF closed THEN unsaved \cup {r} ELSE unsaved
                ELSE lock' = r /\ UNCHANGED <<pc, result, unsaved>>
  /\ UNCHANGED <<file, closed, who, live, fails, expired, load, late>>

-----------------------------------------------------------------------------
(* saveLocked.  A temporary file left behind is overwritten by the next    *)
(* save and read by nobody.                                                *)

\* Mutant: the store's own file is written, in place.
SaveOpenInPlace(r) ==
  /\ lock = r /\ tmp = None
  /\ tmp' = Torn /\ disk' = Torn
  /\ UNCHANGED <<store, closed, pc, result, who, live, fails, expired, load, history>>

SaveOpen(r) ==
  /\ lock = r /\ tmp = None
  /\ tmp' = Torn
  /\ UNCHANGED <<store, disk, closed, pc, result, who, live, fails, expired, load, history>>

SaveWrite(r) ==
  /\ lock = r /\ tmp = Torn
  /\ tmp' = mem
  /\ UNCHANGED <<store, disk, closed, pc, result, who, live, fails, expired, load, history>>

\* Mutant: the answer does not wait for the new file to take its place.
SaveForgotten(r) ==
  /\ lock = r /\ tmp \notin {None, Torn}
  /\ tmp' = None /\ lock' = None
  /\ Advance(r)
  /\ UNCHANGED <<mem, disk, closed, who, live, fails, expired, load, history>>

\* The rename; the lock is released and the handler goes on.
SaveRename(r) ==
  /\ lock = r /\ tmp \notin {None, Torn}
  /\ disk' = tmp /\ tmp' = None /\ lock' = None
  /\ Advance(r)
  /\ UNCHANGED <<mem, closed, who, live, fails, expired, load, history>>

\* Saves whose error nobody looks at.
Careless == {"refresh", "logout", "touch"}

\* Writing or renaming fails: memory keeps the change, and the handler reports
\* the error and skips what should follow.
SaveFails(r) ==
  /\ lock = r /\ Spend("failures")
  /\ tmp' = None /\ lock' = None
  /\ IF pc[r] \in Careless THEN Advance(r) ELSE Refuse(r)
  /\ unsaved' = unsaved \cup {r}
  /\ UNCHANGED <<mem, disk, closed, who, live, fails, expired, cut, late>>

-----------------------------------------------------------------------------
(* Connections.                                                            *)

Of(u, D) == {c \in live : who[c].user = u /\ who[c].dev \in D}

\* sync registers the connection for the session it was authenticated for.
Connect(r) ==
  /\ pc[r] = "connect"
  /\ live' = (live \ Of(who[r].user, {who[r].dev})) \cup {r}
  /\ late' = IF Entitled(who[r]) THEN late ELSE late \cup {r}
  /\ Advance(r)
  /\ UNCHANGED <<store, file, closed, who, fails, expired, load, cut, unsaved>>

\* hub.kick and hub.kickAll: the connections a step of r cancels.
Kicked(r, step) ==
  CASE step = "kickAll" -> Of(op(r).name, Devices)
    [] step = "kick"    -> Of(who[r].user, {IF op(r).do = "logout" THEN who[r].dev ELSE op(r).dev})
    [] OTHER            -> {}

\* Mutant: nobody is signed out when an account is disabled or deleted.
KickOne(r) ==
  /\ pc[r] \in {"kick", "kickAll"}
  /\ live' = IF pc[r] = "kickAll" THEN live ELSE live \ Kicked(r, pc[r])
  /\ Advance(r)
  /\ UNCHANGED <<store, file, closed, who, fails, expired, load, history>>

Kick(r) ==
  /\ pc[r] \in {"kick", "kickAll"}
  /\ live' = live \ Kicked(r, pc[r])
  /\ Advance(r)
  /\ UNCHANGED <<store, file, closed, who, fails, expired, load, history>>

\* The connection ends, cancelled or by itself.
Disconnect(r) ==
  /\ pc[r] = "serve"
  /\ live' = live \ {r}
  /\ Advance(r)
  /\ UNCHANGED <<store, file, closed, who, fails, expired, load, history>>

-----------------------------------------------------------------------------
(* The process and time.                                                   *)

\* The process ends, at any moment, and a new one opens the file.
Crash ==
  /\ Spend("crashes")
  /\ disk # Torn
  /\ mem' = disk /\ tmp' = None /\ lock' = None /\ closed' = FALSE
  /\ pc' = [r \in Requests |-> IF Begun(r) THEN "end" ELSE pc[r]]
  /\ result' = [r \in Requests |-> IF Begun(r) /\ pc[r] # "end" THEN "lost" ELSE result[r]]
  /\ live' = {} /\ fails' = 0
  /\ UNCHANGED <<disk, who, expired, history>>

\* serve: the listener is shut down and the store is closed, while handlers
\* that Shutdown still waits for go on until the process exits.
Shutdown ==
  /\ Spend("shutdowns") /\ Free
  /\ closed' = TRUE
  /\ UNCHANGED <<store, file, pc, result, who, live, fails, expired, history>>

\* An invite's date passes.
Expire(c) ==
  /\ Spend("expiries")
  /\ expired' = expired \cup {c}
  /\ UNCHANGED <<store, file, closed, pc, result, who, live, fails, history>>

\* Store.Invites drops what has expired from memory, and saves nothing.
Invites ==
  /\ Free /\ \E c \in expired : mem.invites[c] > 0
  /\ mem' = [mem EXCEPT !.invites = [c \in DOMAIN @ |-> IF c \in expired THEN 0 ELSE @[c]]]
  /\ UNCHANGED <<lock, file, closed, pc, result, who, live, fails, expired, load, history>>

\* failWindow passes.
Forgive ==
  /\ fails > 0 /\ fails' = 0
  /\ UNCHANGED <<store, file, closed, pc, result, who, live, expired, load, history>>

-----------------------------------------------------------------------------
Handle(r) ==
  \/ Auth(r) \/ Limit(r) \/ First(r) \/ Check(r) \/ Count(r) \/ Change(r)
  \/ SaveOpen(r) \/ SaveWrite(r) \/ SaveRename(r)
  \/ Connect(r) \/ Kick(r)

Next ==
  \/ \E r \in Requests : Handle(r) \/ SaveFails(r) \/ Disconnect(r)
  \/ Crash \/ Shutdown \/ Invites \/ Forgive
  \/ \E c \in Codes : Expire(c)

Spec == Init /\ [][Next]_vars

-----------------------------------------------------------------------------
(* Properties.                                                             *)

Sessions(d) == {k \in DOMAIN d.sessions : d.sessions[k] # None}

\* What a request was told has happened survives every crash and every other
\* request: a token that it removed is never valid again, and a token that it
\* was given is valid until another request removes it.  Not if its own save
\* failed unnoticed (logout) or fell into a shutdown.
AnswersDurable ==
  \A r \in Requests \ unsaved : result[r] = "ok" =>
    /\ cut[r] \cap (Sessions(mem) \cup Sessions(disk)) = {}
    /\ op(r).do \in {"register", "login"} /\ (\A q \in Requests : r \notin cut[q]) =>
         r \in Sessions(mem) \cap Sessions(disk)

\* The uses an invite has left, and the accounts that exist by it.
Claims(d, c) ==
  d.invites[c] + Cardinality({n \in Names : d.users[n] # None /\ d.users[n].invite = c})

\* An invite makes no more accounts than it was made for, whatever crashes
\* and failed saves give back: the accounts that exist by it and the uses it
\* has left never add up to more.
InviteLimit ==
  \A d \in {mem, disk} : \A c \in Codes : Claims(d, c) <= Claims(load.data, c)

\* What r does next, as soon as its change is saved.
Upcoming(r) == IF lock = r THEN After(op(r), pc[r]) ELSE pc[r]

\* The next thing some request does is to cancel connection c.
KickComing(c) == \E r \in Requests : c \in Kicked(r, Upcoming(r))

\* Signing out reaches the connections: a live one belongs to a device that
\* has a session of an enabled account, or it is about to be cancelled.  Not
\* after a failed save, which skips the kick, and not a connection that was
\* authenticated before the session ended and registered after the kick.
LiveEntitled ==
  unsaved = {} => \A c \in live \ late : Entitled(who[c]) \/ KickComing(c)

-----------------------------------------------------------------------------
(* What else holds whenever a request is between two steps.                *)

\* The steps that can be a request's next one.
Fits(o, s) ==
  /\ s \in {"auth", "refresh"} => o.tok \in Tokens \cup Requests
  /\ s \in {"first", "register"} => o.do = "register"
  /\ s = "check" => o.do = "login"
  /\ s \in {"limit", "count", "issue"} => o.do \in {"register", "login"}
  /\ s = "disable" => o.do = "patch" /\ o.disabled # None
  /\ s = "rights" => o.do = "patch" /\ o.admin # None
  /\ s \in {"logout", "revoke", "delete", "invite", "uninvite"} => o.do = s
  /\ s = "kick" => o.do \in {"logout", "revoke"}
  /\ s = "kickAll" => o.do \in {"patch", "delete"}
  /\ s \in {"connect", "serve", "touch"} => o.do = "sync"

\* The session a token stands for, as long as it is valid.
Bound(k) == IF k \in Requests THEN [user |-> op(k).name, dev |-> op(k).dev] ELSE load.data.sessions[k]

\* A request is where its handler can be, is done once it has an answer, and
\* after auth knows its session.
Placed ==
  \A r \in Requests :
    /\ Fits(op(r), pc[r])
    /\ result[r] # "none" => pc[r] = "end"
    /\ pc[r] \notin {"auth", "end"} /\ op(r).tok \in Tokens \cup Requests =>
         who[r] \in Session /\ who[r] = Bound(op(r).tok)
    /\ r \in live => pc[r] = "serve"

\* The lock is held by a request that saves what memory holds.
Saving ==
  /\ lock # None => pc[lock] \in Changes \cup {"refresh"}
  /\ lock = None => tmp = None
  /\ tmp \in {None, Torn, mem}

\* A token stands for one session for good, and is made by the last step of
\* the request it is for.
Keys ==
  \A d \in {mem, disk} : \A k \in Tokens \cup Requests :
    d.sessions[k] # None =>
      /\ d.sessions[k] = Bound(k)
      /\ k \in Requests => pc[k] = "end" \/ (lock = k /\ pc[k] = "issue")

\* What a request has removed is gone from memory and, once it has saved,
\* from the file, unless the save failed or the process died before it.
CutGone ==
  \A r \in Requests : \A k \in cut[r] :
    /\ k \in Requests => pc[k] = "end"
    /\ r \notin unsaved /\ result[r] # "lost" =>
         /\ mem.sessions[k] = None
         /\ lock # r => disk.sessions[k] = None

\* A token is there from the moment it is made until somebody removes it.
Issued ==
  \A r \in Requests :
    /\ lock = r /\ pc[r] = "issue" => mem.sessions[r] # None
    /\ op(r).do \in {"register", "login"} /\ result[r] = "ok" /\ r \notin unsaved =>
         \/ mem.sessions[r] # None /\ disk.sessions[r] # None
         \/ \E q \in Requests : r \in cut[q]

Inductive == Placed /\ Saving /\ Keys /\ CutGone /\ Issued /\ InviteLimit /\ LiveEntitled
=============================================================================
