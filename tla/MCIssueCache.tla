---------------------------- MODULE MCIssueCache ----------------------------
(* Instances of IssueCache for TLC.                                        *)
EXTENDS IssueCache, TLC

CONSTANTS m1, r1, r2

\* Two updates at most, this client's and another's or two of others, of whom
\* r1 is the first: they are alike.
Begun == done \cup {u \in Updates : prev[u] # None} \cup {m \in Mutations : mutation[m].at # "unsent"}
Bound == Cardinality(Begun) <= 2 /\ (r2 \in Begun => r1 \in Begun)

\* Of a crossing only what becomes of it when the socket is lost is followed.
Mending == Drop \/ (socket # "registered" /\ Progress)

MCNext == ((~crossed /\ Next) \/ (crossed /\ Mending)) /\ Bound'
MCSpec == Init /\ [][MCNext]_vars /\ WF_vars(Progress)
=============================================================================
