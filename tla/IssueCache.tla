----------------------------- MODULE IssueCache -----------------------------
(***************************************************************************)
(* How one issue travels through the query cache of the web and desktop    *)
(* clients: the rules table of packages/core/issues/cache-coordinator.ts   *)
(* applied by the three writers that share it, an optimistic update with   *)
(* its success and its rollback (mutations.ts, useUpdateIssue) and the     *)
(* event issue:updated (ws-updaters.ts, onIssueUpdated), next to refetches *)
(* and reconnects (use-realtime-sync.ts).                                  *)
(*                                                                         *)
(* The cache holds a bucketed list and the issue's detail. The list is the *)
(* workspace's, a list of one assignee, or my:all, whose members only the  *)
(* server can tell; it has loaded a window of each bucket, so the card of  *)
(* the issue may lie beyond it and be counted in a total only. Of an issue *)
(* the status and whether the list's assignee holds it are kept. TanStack  *)
(* Query is modelled from how these files use it: setQueryData clears the  *)
(* mark of an invalidation, cancelQueries drops a request and keeps it.    *)
(*                                                                         *)
(* On the server an update (handler/issue.go, UpdateIssue) is a reading, a *)
(* commit, and after it the event and the answer; a new socket is          *)
(* acknowledged before the hub knows it (hub.go, HandleWebSocket).         *)
(***************************************************************************)
EXTENDS Integers, Sequences, FiniteSets

CONSTANTS
    Status,     \* the buckets
    First,      \* the issue's first status: the buckets are alike
    Mutations,  \* updates this client makes, each at most once
    Remotes,    \* updates other clients make, each at most once
    None,       \* no card, no detail, no snapshot, nothing read
    MaxDrops    \* bound: times the socket is lost

ASSUME IssueCacheAssumption ==
    /\ First \in Status
    /\ Mutations \cap Remotes = {}
    /\ MaxDrops \in Nat

Filters == {"workspace", "assignee", "all"}
Issue   == [status : Status, mine : BOOLEAN]
Dims    == [status : BOOLEAN, mine : BOOLEAN]
Patch   == [status : Status] \cup [mine : BOOLEAN]
Updates == Mutations \cup Remotes

ASSUME NoneIsNothing == None \notin Issue

VARIABLES
    filter,    \* which list this is; fixed
    window,    \* buckets whose loaded window reaches the issue; fixed
    involved,  \* is the issue in my:all whoever holds it; fixed
    server,    \* the issue
    prev,      \* what the handler of an update has read of it, or None
    done,      \* updates of others that are committed
    pending,   \* events and answers of committed updates, not yet sent
    wire,      \* events and answers on their way to the client
    socket,    \* lost, open (acknowledged) or registered with the hub
    list,      \* the cached list: the card or None, and the totals
    stale,     \* isInvalidated of the list
    fetch,     \* the request of the list: none, asked or answered
    detail,    \* the cached detail, or None
    dfetch,    \* its request
    dstale,    \* its isInvalidated
    mutation,  \* the updates of this client
    crossed,   \* has an update crossed another, a reading or a registration
               \* since everything was last read (history)
    misled,    \* has an event left out a change the list's filter is about,
               \* since everything was last read (history)
    drops

fixed  == <<filter, window, involved>>
cache  == <<list, stale, fetch, detail, dfetch, dstale>>
origin == <<server, prev, done>>
vars   == <<fixed, origin, pending, wire, socket, cache, mutation, crossed, misled, drops>>

Others == 1   \* other issues counted in each bucket

\* The list as the server answers it.
Belongs(i) ==
    \/ filter = "workspace"
    \/ i.mine
    \/ filter = "all" /\ involved

View(i) ==
    [card  |-> IF Belongs(i) /\ i.status \in window THEN i ELSE None,
     total |-> [s \in Status |-> IF Belongs(i) /\ s = i.status THEN Others + 1 ELSE Others]]

Unsent == [at |-> "unsent"]

Flight(m) == mutation[m].at \in {"sent", "committed"}

\* An update has been shown and not yet been committed.
Updating == \E m \in Mutations : mutation[m].at = "sent"

\* Nothing is on its way to the cache.
Settled ==
    /\ socket = "registered" /\ pending = <<>> /\ wire = <<>>
    /\ fetch = "none" /\ dfetch = "none" /\ ~Updating

TypeOK ==
    /\ filter \in Filters /\ window \in SUBSET Status /\ involved \in BOOLEAN
    /\ server \in Issue
    /\ prev \in [Updates -> Issue \cup {None}] /\ done \in SUBSET Remotes
    /\ socket \in {"lost", "open", "registered"}
    /\ list.card \in Issue \cup {None} /\ list.total \in [Status -> Nat]
    /\ stale \in BOOLEAN /\ fetch \in {"none", "asked", "answered"}
    /\ detail \in Issue \cup {None}
    /\ dstale \in BOOLEAN /\ dfetch \in {"none", "asked", "answered"}
    /\ \A m \in Mutations : mutation[m].at \in {"unsent", "sent", "committed", "done"}
    /\ crossed \in BOOLEAN /\ misled \in BOOLEAN
    /\ drops \in 0..MaxDrops

\* The list has been loaded, the detail may have been.
Init ==
    /\ filter \in Filters /\ window \in SUBSET Status
    /\ involved \in (IF filter = "all" THEN BOOLEAN ELSE {FALSE})
    /\ server \in {i \in Issue : i.status = First}
    /\ prev = [u \in Updates |-> None] /\ done = {}
    /\ pending = <<>> /\ wire = <<>> /\ socket = "registered"
    /\ list = View(server) /\ stale = FALSE /\ fetch = "none"
    /\ detail \in {server, None} /\ dstale = FALSE /\ dfetch = "none"
    /\ mutation = [m \in Mutations |-> Unsent]
    /\ crossed = FALSE /\ misled = FALSE /\ drops = 0

\* A crossing is remembered until everything is read again.
Crosses(condition) == crossed' = (crossed \/ condition)

-----------------------------------------------------------------------------
(* The rules table: surface/membership.ts, cache-helpers.ts,               *)
(* cache-coordinator.ts                                                    *)

\* { ...issue, ...patch }
Merged_PatchAlone(issue, patch) == patch
Merged(issue, patch) ==
    [f \in DOMAIN issue \cup DOMAIN patch |->
        IF f \in DOMAIN patch THEN patch[f] ELSE issue[f]]

\* issueChangedDims
Changed(patch, base) ==
    [f \in {"status", "mine"} |->
        f \in DOMAIN patch /\ (base = None \/ base[f] # patch[f])]

\* listFilterDependsOn
DependsOn(dims) == filter # "workspace" /\ dims.mine

\* issueMatchesListFilter
Matches(issue) ==
    CASE filter = "workspace" -> "yes"
      [] filter = "all" -> "unknown"
      [] filter = "assignee" ->
            IF "mine" \notin DOMAIN issue THEN "unknown"
            ELSE IF issue.mine THEN "yes" ELSE "no"

Less(n) == IF n = 0 THEN 0 ELSE n - 1

\* decrementBucketTotal, and the count of removeIssueFromBuckets
Decrement(total, s) == [total EXCEPT ![s] = Less(@)]

\* moveBucketTotal, and the counts of patchIssueInBuckets
Move(total, from, to) ==
    IF from = to THEN total ELSE [total EXCEPT ![from] = Less(@), ![to] = @ + 1]

Outcome(next, set, mark) == [list |-> next, set |-> set, stale |-> mark]

\* The card is loaded: patch it, or remove it when it left the list.
ApplyToCard(patch, dims) ==
    LET card    == list.card
        merged  == Merged(card, patch)
        touched == DependsOn(dims)
    IN  IF touched /\ Matches(merged) = "no"
        THEN Outcome([card |-> None, total |-> Decrement(list.total, card.status)], TRUE, FALSE)
        ELSE Outcome([card |-> merged, total |-> Move(list.total, card.status, merged.status)],
                     TRUE, touched /\ Matches(merged) = "unknown")

\* It is not: the totals follow where they are certain, else a refetch must.
ApplyToTotals_NoMark(patch, dims, base) ==
    LET was == IF base = None THEN "unknown" ELSE Matches(base)
        is  == Matches(IF base = None THEN patch ELSE Merged(base, patch))
    IN  IF was = "yes" /\ is = "yes" /\ dims.status /\ "status" \in DOMAIN patch
        THEN Outcome([list EXCEPT !.total = Move(@, base.status, patch.status)], TRUE, FALSE)
        ELSE Outcome(list, FALSE, TRUE)
ApplyToTotals(patch, dims, base) ==
    LET was == IF base = None THEN "unknown" ELSE Matches(base)
        is  == Matches(IF base = None THEN patch ELSE Merged(base, patch))
        same == Outcome(list, FALSE, FALSE)
    IN  IF (~DependsOn(dims) /\ ~dims.status) \/ (was = "no" /\ is = "no") THEN same
        ELSE IF was = "yes" /\ is = "yes" THEN
            IF ~dims.status \/ "status" \notin DOMAIN patch \/ base.status = patch.status
            THEN same
            ELSE Outcome([list EXCEPT !.total = Move(@, base.status, patch.status)], TRUE, TRUE)
        ELSE IF was = "yes" /\ is = "no"
        THEN Outcome([list EXCEPT !.total = Decrement(@, base.status)], TRUE, FALSE)
        ELSE Outcome(list, FALSE, TRUE)

\* applyIssueChange, the list's half
Apply(patch, dims, base) ==
    IF list.card # None THEN ApplyToCard(patch, dims) ELSE ApplyToTotals(patch, dims, base)

-----------------------------------------------------------------------------
(* The query cache                                                         *)

\* The messages of w at the places I, in their order.
Kept(w, I) ==
    LET Rank(i) == Cardinality({k \in I : k <= i})
    IN  [j \in 1..Cardinality(I) |-> w[CHOOSE i \in I : Rank(i) = j]]

Without(kind, w) == Kept(w, {i \in 1..Len(w) : w[i].kind # kind})

\* One of them is taken out.
Taken(w, i) == SubSeq(w, 1, i - 1) \o SubSeq(w, i + 1, Len(w))

\* setQueryData with the outcome of a change; marked keys are invalidated at
\* once by the event's handler and by a success, which starts a request over.
WriteList_OnlyMarks(out, invalidate, w) ==
    /\ list' = out.list
    /\ stale' = (invalidate \/ (stale /\ ~out.set))
    /\ UNCHANGED fetch /\ wire' = w
WriteList(out, invalidate, w) ==
    /\ list' = out.list
    /\ IF invalidate
       THEN stale' = TRUE /\ fetch' = "asked" /\ wire' = Without("list", w)
       ELSE stale' = (stale /\ ~out.set) /\ UNCHANGED fetch /\ wire' = w

WriteDetail(patch) ==
    /\ detail' = IF detail = None THEN None ELSE Merged(detail, patch)
    /\ dstale' = (dstale /\ detail = None)
    /\ UNCHANGED dfetch

-----------------------------------------------------------------------------
(* The server: UpdateIssue, and the answers to requests                    *)

\* The handler reads the issue (prevIssue) before anything else.
Read(u) ==
    /\ prev[u] = None
    /\ IF u \in Mutations THEN mutation[u].at = "sent" ELSE u \notin done
    /\ prev' = [prev EXCEPT ![u] = server]
    /\ UNCHANGED <<fixed, server, done, pending, wire, socket, cache, mutation, crossed,
                   misled, drops>>

\* The UPDATE: a status that is not given stays the row's, an assignee that is
\* not given is written back as it was read.
Written(old, patch) ==
    [status |-> IF "status" \in DOMAIN patch THEN patch.status ELSE server.status,
     mine   |-> IF "mine" \in DOMAIN patch THEN patch.mine ELSE old.mine]

\* The flags of the event compare with what was read; an explicit null, which
\* unassigns, counts as an assignee that is not given.
Flags(old, patch, new, null) ==
    [status |-> "status" \in DOMAIN patch /\ old.status # new.status,
     mine   |-> "mine" \in DOMAIN patch /\ ~null /\ old.mine # new.mine]

\* An update is committed; what it announces is still to be sent: an event, and
\* to this client an answer, before or after it.
Commit(u, patch, null, place) ==
    LET old    == prev[u]
        new    == Written(old, patch)
        event  == [kind |-> "event", issue |-> new, dims |-> Flags(old, patch, new, null)]
        answer == [kind |-> "answer", of |-> u, issue |-> new]
    IN  /\ old # None /\ (null => "mine" \in DOMAIN patch /\ ~patch.mine)
        /\ server' = new
        /\ prev' = [prev EXCEPT ![u] = None]
        /\ pending' = pending \o (CASE place = "alone" -> <<event>>
                                    [] place = "first" -> <<event, answer>>
                                    [] place = "last"  -> <<answer, event>>)
        /\ UNCHANGED <<fixed, wire, socket, cache, drops>>

\* Another client's. The list is misled when a change of the assignee is not
\* in the flags.
CommitOther(r) ==
    \E patch \in Patch \cup Issue, null \in BOOLEAN :
        /\ Commit(r, patch, null, "alone")
        /\ done' = done \cup {r}
        /\ Crosses(prev[r] # server \/ Updating \/ dfetch # "none")
        /\ misled' = (misled \/ (filter # "workspace" /\ null /\ server.mine))
        /\ UNCHANGED mutation

\* This client's: there is an answer too, by a connection of its own.
CommitOwn(m) ==
    /\ mutation[m].at = "sent"
    /\ \E null \in BOOLEAN, place \in {"first", "last"} :
          Commit(m, mutation[m].patch, null, place)
    /\ Crosses(prev[m] # server)
    /\ mutation' = [mutation EXCEPT ![m].at = "committed"]
    /\ UNCHANGED <<done, misled>>

\* An event goes to a registered socket, and to nobody otherwise.
Publish ==
    \E i \in 1..Len(pending) :
        LET unheard == pending[i].kind = "event" /\ socket # "registered"
        IN  /\ Crosses(i # 1 \/ (unheard /\ socket = "open"))
            /\ wire' = IF unheard THEN wire ELSE Append(wire, pending[i])
            /\ pending' = Taken(pending, i)
            /\ UNCHANGED <<fixed, origin, socket, cache, mutation, misled, drops>>

\* A reading between a commit and what it announces overtakes its event.
ReadList ==
    /\ fetch = "asked"
    /\ Crosses(pending # <<>>)
    /\ fetch' = "answered"
    /\ wire' = Append(wire, [kind |-> "list", view |-> View(server)])
    /\ UNCHANGED <<fixed, origin, pending, socket, list, stale, detail, dfetch, dstale,
                   mutation, misled, drops>>

ReadDetail ==
    /\ dfetch = "asked"
    /\ Crosses(pending # <<>>)
    /\ dfetch' = "answered"
    /\ wire' = Append(wire, [kind |-> "detail", issue |-> server])
    /\ UNCHANGED <<fixed, origin, pending, socket, list, stale, fetch, detail, dstale,
                   mutation, misled, drops>>

-----------------------------------------------------------------------------
(* The update: useUpdateIssue                                              *)

\* onMutate: requests of the list are cancelled, the patch is applied and what
\* it replaced is kept for a rollback.
Mutate(m) ==
    /\ mutation[m].at = "unsent"
    /\ Crosses(~Settled)
    /\ \E patch \in Patch :
        LET out == Apply(patch, Changed(patch, detail), detail)
        IN  /\ mutation' = [mutation EXCEPT ![m] =
                  [at |-> "sent", patch |-> patch, stale |-> out.stale,
                   list |-> IF out.set THEN <<list>> ELSE <<>>, detail |-> detail,
                   alone |-> \A n \in Mutations : ~Flight(n)]]
            /\ list' = out.list
            /\ stale' = (stale /\ ~out.set)
            /\ fetch' = "none" /\ wire' = Without("list", wire)
            /\ WriteDetail(patch)
    /\ UNCHANGED <<fixed, origin, pending, socket, misled, drops>>

\* What the client has been told since makes a rollback unclean.
Disturbed(mu) ==
    [m \in Mutations |->
        IF mu[m].at \in {"sent", "committed"} THEN [mu[m] EXCEPT !.alone = FALSE] ELSE mu[m]]

\* onSuccess and onSettled: the answer is patched in, marked lists are read
\* again.
Succeed(msg, rest) ==
    LET m   == msg.of
        out == Apply(msg.issue, [status |-> FALSE, mine |-> FALSE], msg.issue)
    IN  /\ WriteList(out, out.stale \/ mutation[m].stale, rest)
        /\ WriteDetail(msg.issue)
        /\ mutation' = [Disturbed(mutation) EXCEPT ![m] = [at |-> "done"]]

\* onError and onSettled: the snapshots are put back, marked lists are read
\* again. The server may have refused the update, or committed it and the
\* answer is lost.
Fail(m) ==
    /\ Flight(m)
    /\ Crosses(\/ mutation[m].at = "committed" \/ ~mutation[m].alone
               \/ \E n \in Mutations \ {m} : Flight(n))
    /\ LET mu   == mutation[m]
           Unanswered(w) == Kept(w, {i \in 1..Len(w) : w[i].kind = "answer" => w[i].of # m})
           back == IF mu.list = <<>> THEN Outcome(list, FALSE, mu.stale)
                   ELSE Outcome(mu.list[1], TRUE, mu.stale)
       IN  /\ WriteList(back, mu.stale, Unanswered(wire))
           /\ pending' = Unanswered(pending)
           /\ IF mu.detail = None
              THEN UNCHANGED <<detail, dstale, dfetch>>
              ELSE detail' = mu.detail /\ dstale' = FALSE /\ UNCHANGED dfetch
    /\ mutation' = [mutation EXCEPT ![m] = [at |-> "done"]]
    /\ prev' = [prev EXCEPT ![m] = None]
    /\ UNCHANGED <<fixed, server, done, socket, misled, drops>>

-----------------------------------------------------------------------------
(* What reaches the client                                                 *)

\* onIssueUpdated
OnIssueUpdated(msg, rest) ==
    LET out == Apply(msg.issue, msg.dims, detail)
    IN  /\ WriteList(out, out.stale, rest)
        /\ WriteDetail(msg.issue)
        /\ mutation' = Disturbed(mutation)

OnList(msg, rest) ==
    /\ list' = msg.view /\ stale' = FALSE /\ fetch' = "none"
    /\ wire' = rest
    /\ mutation' = Disturbed(mutation)
    /\ UNCHANGED <<detail, dfetch, dstale>>

OnDetail(msg, rest) ==
    /\ detail' = msg.issue /\ dstale' = FALSE /\ dfetch' = "none"
    /\ wire' = rest
    /\ mutation' = Disturbed(mutation)
    /\ UNCHANGED <<list, stale, fetch>>

\* Events come in the order of their socket; an answer may overtake what the
\* server sent before it, or fall behind.
Deliver ==
    \E i \in 1..Len(wire) :
        LET msg  == wire[i]
            rest == Taken(wire, i)
        IN  /\ msg.kind = "event" => \A j \in 1..(i - 1) : wire[j].kind # "event"
            /\ Crosses(i # 1)
            /\ \/ msg.kind = "event"  /\ OnIssueUpdated(msg, rest)
               \/ msg.kind = "answer" /\ Succeed(msg, rest)
               \/ msg.kind = "list"   /\ OnList(msg, rest)
               \/ msg.kind = "detail" /\ OnDetail(msg, rest)
            /\ UNCHANGED <<fixed, origin, pending, socket, misled, drops>>

\* The socket is lost, and with it the events on their way.
Drop ==
    /\ socket # "lost" /\ drops < MaxDrops
    /\ socket' = "lost"
    /\ wire' = Without("event", wire)
    /\ drops' = drops + 1
    /\ UNCHANGED <<fixed, origin, pending, cache, mutation, crossed, misled>>

\* onReconnect, as soon as the socket is acknowledged: everything of the
\* workspace is invalidated.
Reconnect_ListOnly ==
    /\ socket = "lost"
    /\ crossed' = (Updating \/ pending # <<>>) /\ misled' = FALSE
    /\ socket' = "open"
    /\ stale' = TRUE /\ fetch' = "asked"
    /\ wire' = Without("list", wire)
    /\ UNCHANGED <<fixed, origin, pending, list, detail, dfetch, dstale, mutation, drops>>
Reconnect ==
    /\ socket = "lost"
    /\ crossed' = (Updating \/ pending # <<>>) /\ misled' = FALSE
    /\ socket' = "open"
    /\ stale' = TRUE /\ fetch' = "asked"
    /\ dstale' = (detail # None)
    /\ dfetch' = IF detail = None THEN "none" ELSE "asked"
    /\ wire' = Without("list", Without("detail", wire))
    /\ UNCHANGED <<fixed, origin, pending, list, detail, mutation, drops>>

\* The hub takes the socket into its rooms.
Register ==
    /\ socket = "open"
    /\ socket' = "registered"
    /\ UNCHANGED <<fixed, origin, pending, wire, cache, mutation, crossed, misled, drops>>

-----------------------------------------------------------------------------

Next ==
    \/ Publish \/ ReadList \/ ReadDetail
    \/ Deliver \/ Drop \/ Reconnect \/ Register
    \/ \E u \in Updates : Read(u)
    \/ \E r \in Remotes : CommitOther(r)
    \/ \E m \in Mutations : Mutate(m) \/ CommitOwn(m) \/ Fail(m)

Spec == Init /\ [][Next]_vars

\* What is under way goes on: handlers, announcements, requests, messages, and
\* a lost socket is dialled again.
Progress ==
    \/ Publish \/ ReadList \/ ReadDetail \/ Deliver \/ Reconnect \/ Register
    \/ \E m \in Mutations : Read(m) \/ CommitOwn(m)

LiveSpec == Spec /\ WF_vars(Progress)

-----------------------------------------------------------------------------

\* Nothing is on its way and no update is in flight.
Quiet ==
    /\ socket = "registered" /\ pending = <<>> /\ wire = <<>>
    /\ \A m \in Mutations : ~Flight(m)

\* A list as good as a fresh answer: its totals are the server's, its card is
\* the issue, and a card it lacks lies beyond its windows.
Mirrors ==
    /\ list.total = View(server).total
    /\ IF list.card = None THEN View(server).card = None
       ELSE list.card = server /\ Belongs(server)

\* Once everything has arrived, the list mirrors the server or is being read
\* again: the rules table patches only what it can be certain of and marks the
\* rest, whichever of this client's updates, their echoes and the changes of
\* others came first (cache-coordinator.ts: "certain", else stale). Not so after
\* an event whose flags leave out an unassignment (misled), and not after a
\* crossing: an update whose handler read the issue before another was
\* committed, that met this client's uncommitted one or a detail being read;
\* announcements that overtook each other, or were overtaken by a reading; an
\* event between the acknowledgement of a socket and its registration; a failed
\* update that had been committed or disturbed. The next reconnect, which reads
\* everything again, mends them.
ListMirrors == Quiet /\ ~crossed /\ ~misled => Mirrors \/ fetch # "none"

\* The detail of the issue likewise; flags do not mislead it, it takes the
\* whole issue.
DetailMirrors == Quiet /\ ~crossed => detail \in {server, None} \/ dfetch # "none"

\* When from some time on no crossing and no such event is left unmended, the
\* user is shown the server's state in the end.
Converges == <>[](~crossed /\ ~misled) => <>[](Mirrors /\ detail \in {server, None})
=============================================================================
