---------------------------- MODULE MCSelfUpdate ----------------------------
(***************************************************************************)
(* Small instances of SelfUpdate: launchers 1.9, 1.10 and 1.10.1, released   *)
(* in this order; an update to 1.10, and one to 1.10.1 that 1.9 is too old   *)
(* for.                                                                      *)
(***************************************************************************)
EXTENDS SelfUpdate

CONSTANTS h2, h3, exe, jar, p1, p2

V9 == <<Number(1), Number(9)>>
V10 == <<Number(1), Number(10)>>
V10p1 == <<Number(1), Number(10), Number(1)>>

MCVersions == {V9, V10, V10p1}

MCReleased == [v \in MCVersions |-> CHOOSE i \in 1 .. 3 : <<V9, V10, V10p1>>[i] = v]

To(v, h, m) == [version |-> v, hash |-> h, min |-> m, ships |-> v, rollout |-> FALSE]

\* An image that announces version 1.10 and contains version 1.9.
Stale == [To(V10, h2, V9) EXCEPT !.ships = V9]

\* An update only some launchers may have.
Some == [To(V10, h2, V9) EXCEPT !.rollout = TRUE]

OneFeed == {<<To(V10, h2, V9)>>}

HonestFeeds == OneFeed \cup {<< >>, <<To(V10p1, h3, V10), To(V10, h2, V9)>>}

\* The honest feeds, and the one that lies.
AllFeeds == HonestFeeds \cup {<<Stale>>}

RolloutFeeds == HonestFeeds \cup {<<Some>>}

Off == {FALSE}
Any == BOOLEAN
NoEditor == {}
=============================================================================
