-------------------------------- MODULE Feed --------------------------------
(***************************************************************************)
(* What a dashboard may expect of the live events: from the moment it is   *)
(* connected it is shown the events in the one order they were announced   *)
(* in, none twice and none left out, until its connection ends.  It need   *)
(* not be shown all of them before that.                                   *)
(***************************************************************************)
EXTENDS Naturals, Sequences

CONSTANTS Viewer, Event

VARIABLES
    feed,  \* the events announced so far
    view,  \* view[v]: "none", "in" or "out"
    from,  \* from[v]: length of the feed when v was connected
    got    \* got[v]: what v was shown

feedVars == <<feed, view, from, got>>

FeedInit ==
    /\ feed = <<>>
    /\ view = [v \in Viewer |-> "none"]
    /\ from = [v \in Viewer |-> 0]
    /\ got = [v \in Viewer |-> <<>>]

Announce(e) == feed' = Append(feed, e) /\ UNCHANGED <<view, from, got>>

Join(v) ==
    /\ view[v] = "none"
    /\ view' = [view EXCEPT ![v] = "in"]
    /\ from' = [from EXCEPT ![v] = Len(feed)]
    /\ UNCHANGED <<feed, got>>

\* Some of the events that come next.
Show(v) ==
    /\ view[v] = "in"
    /\ \E n \in from[v] + Len(got[v]) + 1 .. Len(feed) :
          got' = [got EXCEPT ![v] = SubSeq(feed, from[v] + 1, n)]
    /\ UNCHANGED <<feed, view, from>>

Leave(v) ==
    /\ view[v] = "in"
    /\ view' = [view EXCEPT ![v] = "out"]
    /\ UNCHANGED <<feed, from, got>>

FeedNext ==
    \/ \E e \in Event : Announce(e)
    \/ \E v \in Viewer : Join(v) \/ Show(v) \/ Leave(v)

FeedSpec == FeedInit /\ [][FeedNext]_feedVars
=============================================================================
