----------------------------- MODULE MCHomeFeed -----------------------------
(* Three twysts on the server.                                             *)
EXTENDS HomeFeed

Feed(tabOf, drafts, maxTime, maxNotices) ==
    [tabOf |-> tabOf, drafts |-> drafts, maxTime |-> maxTime,
     maxNotices |-> maxNotices]

AllOn(tab) == [t \in Twysts |-> tab]

\* The friends' twysts with a draft among them; the private ones, with a draft
\* or with no action left but deletions; both lists in use, with no action left
\* but deletions; and either list with a twyst to be finalised and two
\* notifications at a time.
ServerFeeds ==
    {Feed(AllOn(tab), {3}, 3, 1) : tab \in {"twysted", "private"}}
    \cup {Feed(AllOn("private"), {}, 3, 1),
          Feed([AllOn("private") EXCEPT ![2] = "twysted"], {3}, 2, 2)}
    \cup {Feed(AllOn(tab), {2, 3}, 2, 2) : tab \in {"twysted", "private"}}
=============================================================================
