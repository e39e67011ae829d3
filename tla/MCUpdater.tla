----------------------------- MODULE MCUpdater -----------------------------
(* Values for the constants of Updater that a .cfg cannot write.           *)
EXTENDS Updater

V(a, b, c) == [nums |-> <<a, b, c>>, pre |-> FALSE]
Beta == [nums |-> <<1, 0, 0>>, pre |-> TRUE]

\* Both a number that falls and one that rises, and a final after its beta.
MCVersions == {Beta, V(1, 0, 0), V(1, 1, 0), V(2, 0, 0)}

Load(platform, first, on, releases, failures, requests, uses, turns, starts, crashes) ==
  [platform |-> platform, first |-> first, auto |-> on, releases |-> releases,
   failures |-> failures, requests |-> requests, uses |-> uses, turns |-> turns,
   starts |-> starts, crashes |-> crashes]

\* On Linux either the loop installs or the user does.
UpdaterLoads ==
  {Load("windows", V(1, 0, 0), TRUE, 3, 1, 1, 1, 0, 0, 0),
   Load("windows", Beta, TRUE, 2, 2, 0, 1, 0, 1, 1),
   Load("windows", Beta, FALSE, 2, 1, 2, 0, 1, 1, 1),
   Load("linux", Beta, TRUE, 3, 2, 0, 2, 1, 0, 1),
   Load("linux", Beta, FALSE, 2, 2, 2, 1, 0, 0, 1)}
=============================================================================
