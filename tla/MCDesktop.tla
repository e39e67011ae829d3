----------------------------- MODULE MCDesktop -----------------------------
(* Values for the constants of Desktop that a .cfg cannot write.           *)
EXTENDS Desktop

CONSTANTS code, t1, t2, p1

Join == [op |-> "join", group |-> code]
SignIn(t) == [op |-> "signin", group |-> t]
Plain(name) == [op |-> name]
OfPeer(name) == [op |-> name, peer |-> p1]

Load(platform, ops, atOnce, crashes, errors, cuts, turns) ==
  [platform |-> platform, ops |-> ops, atOnce |-> atOnce, crashes |-> crashes,
   errors |-> errors, cuts |-> cuts, turns |-> turns]

\* One call at a time, while devices are seen, the program dies, calls fail,
\* and the server comes and goes.
Window == Load("windows", {Join, SignIn(t1), OfPeer("seen"), Plain("pause")}, 1, 1, 0, 0, 0)
Account == Load("windows", {SignIn(t1), SignIn(t2)}, 1, 0, 0, 1, 2)
Options == Load("windows", {Join, Plain("settings"), Plain("pause"), OfPeer("seen"), OfPeer("forget")}, 1, 0, 0, 0, 0)
Broken == Load("windows", {Join, Plain("leave"), OfPeer("seen"), Plain("pause")}, 1, 0, 2, 0, 0)

\* One command at a time, and nothing remembered meanwhile.
Command1 == Load("linux", {Join, SignIn(t1), Plain("settings")}, 1, 1, 0, 0, 0)
Command2 == Load("linux", {SignIn(t1), Plain("leave"), OfPeer("forget")}, 1, 0, 0, 1, 0)
Command3 == Load("linux", {Join, Plain("settings"), OfPeer("seen"), OfPeer("forget")}, 1, 0, 1, 0, 0)

DesktopLoads == {Window, Account, Options, Broken, Command1, Command2, Command3}

\* Two calls of the window at the same time.
Twice == {Load("windows", {Join, Plain("settings")}, 2, 0, 0, 0, 0)}
=============================================================================
