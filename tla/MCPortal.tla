------------------------------- MODULE MCPortal -------------------------------
(* Two tabs, two people and a worker, the forms of two needs, of a reset   *)
(* and of a status, and a release that makes the service read-only.        *)
EXTENDS Portal

CONSTANTS t1, t2, c1, c2, w1, n1, n2

MCTab == {t1, t2}
MCCase == {c1, c2}
MCWorker == {w1}
MCNeed == {n1, n2}
MCSid == 1..6

WithNeeds == {"supportNeeds", "resetProfile"}
WithStatus == {"resetProfile"}
WithNothing == {"readOnly", "resetProfile"}
MCFile == {WithNeeds, WithStatus, WithNothing}

Bounds(tabs, cases, pages, bad, new, files) ==
    [tabs |-> tabs, cases |-> cases, pages |-> pages, bad |-> bad,
     mishaps |-> 1, releases |-> new, files |-> files]
Calls == {"call"}
Sessions == {"session"}

(* One thing at a time: the list in two tabs, and in one with more people; *)
(* forms that share a key of the flash; every page with something failing; *)
(* the flags changing under a form in two tabs, and under the list; the    *)
(* session ending with pages of it still shown, and with two tabs.         *)
MCScenario ==
    { Bounds(MCTab, {c1}, {"assignPage"}, Calls, 0, {WithNeeds}),
      Bounds({t1}, MCCase, {"home", "assignPage"}, Calls, 0, {WithNeeds}),
      Bounds({t1}, {}, MCNeed, Calls, 0, {WithNeeds}),
      Bounds({t1}, {}, {"home", n1, Reset, Status}, Calls, 1, MCFile),
      Bounds(MCTab, {}, {"home", Reset}, {}, 1, {WithNeeds, WithNothing}),
      Bounds({t1}, {c1}, {"assignPage"}, Calls, 1, {WithNeeds, WithNothing}),
      Bounds({t1}, {c1}, {"assignPage", n1, "signOut"}, Calls \cup Sessions, 0, {WithNeeds}),
      Bounds(MCTab, {}, {"home"}, Sessions, 0, {WithNeeds}) }
=============================================================================
