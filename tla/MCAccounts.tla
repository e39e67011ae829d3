----------------------------- MODULE MCAccounts -----------------------------
(* Values for the constants of Accounts that a .cfg cannot write.          *)
EXTENDS Accounts, TLC

CONSTANTS ann, bob, cat, d1, d2, c1, k1, k2, r1, r2, r3

Request(do) ==
  [do |-> do, tok |-> None, name |-> None, dev |-> None, code |-> None,
   disabled |-> None, admin |-> None, uses |-> 0, right |-> TRUE, private |-> TRUE]

Register(n, d, c) == [Request("register") EXCEPT !.name = n, !.dev = d, !.code = c]
Login(n, d, ok) == [Request("login") EXCEPT !.name = n, !.dev = d, !.right = ok]
By(k, do) == [Request(do) EXCEPT !.tok = k]
Revoke(k, d) == [By(k, "revoke") EXCEPT !.dev = d]
Patch(k, n, off, adm) == [By(k, "patch") EXCEPT !.name = n, !.disabled = off, !.admin = adm]
Delete(k, n) == [By(k, "delete") EXCEPT !.name = n]
Uninvite(k, c) == [By(k, "uninvite") EXCEPT !.code = c]

\* Ann is the admin and signed in at d1 (k1); Bob is signed in at d2 (k2).
Account(adm) == [admin |-> adm, disabled |-> FALSE, invite |-> None]
Known == [users |-> (ann :> Account(TRUE)) @@ (bob :> Account(FALSE)) @@ (cat :> None),
          invites |-> [c \in Codes \cup Requests |-> IF c = c1 THEN 1 ELSE 0],
          sessions |-> [k \in Tokens \cup Requests |->
             IF k = k1 THEN [user |-> ann, dev |-> d1]
             ELSE IF k = k2 THEN [user |-> bob, dev |-> d2] ELSE None]]
Empty == [users |-> [n \in Names |-> None], invites |-> [c \in Codes \cup Requests |-> 0],
          sessions |-> [k \in Tokens \cup Requests |-> None]]

Load(data, a, b, c, crashes, failures, shutdowns, expiries) ==
  [data |-> data, ops |-> (r1 :> a) @@ (r2 :> b) @@ (r3 :> c), refresh |-> FALSE,
   crashes |-> crashes, failures |-> failures, shutdowns |-> shutdowns, expiries |-> expiries]

\* A registration or login, a connection or a logout, and something an admin
\* or the user does to them, with a crash and a failing save; then the first
\* account of a server, a shutdown, and visits that are saved.
AccountLoads ==
  {Load(Known, a, b, c, 1, 1, 0, 1) :
     a \in {Login(bob, d2, TRUE), Login(ann, d1, FALSE), Register(cat, d1, c1), Register(bob, d1, c1)},
     b \in {By(k2, "sync"), By(r1, "sync"), By(k2, "logout"), Register(cat, d2, c1)},
     c \in {Revoke(k2, d2), Patch(k1, bob, TRUE, None), Patch(Console, bob, TRUE, TRUE),
            Delete(k1, bob), Delete(k1, ann), By(k1, "invite"), Uninvite(k1, c1)}}
  \cup
  {Load(Empty, Register(ann, d1, None), Register(bob, d2, None), By(Console, "invite"), 1, 0, 1, 0),
   [Load(Known, Login(ann, d2, TRUE), Delete(k1, bob), By(k2, "sync"), 1, 0, 1, 0)
      EXCEPT !.refresh = TRUE]}
=============================================================================
