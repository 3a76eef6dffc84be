------------------------- MODULE IssueCacheProofs -------------------------
(***************************************************************************)
(* Proofs about IssueCache, for every value of its constants: any buckets, *)
(* any number of updates of this client and of changes of others.          *)
(***************************************************************************)
EXTENDS IssueCache, FiniteSetTheorems, SequenceTheorems, TLAPS

-----------------------------------------------------------------------------
(* Types.                                                                  *)

Lists == [card : Issue \cup {None}, total : [Status -> Nat]]

\* What an update announces, and with the answers to requests what the client
\* is sent.
Announced ==
         [kind : {"event"}, issue : Issue, dims : Dims]
    \cup [kind : {"answer"}, of : Mutations, issue : Issue]

Message ==
    Announced
    \cup [kind : {"list"}, view : Lists]
    \cup [kind : {"detail"}, issue : Issue]

Records ==
         [at : {"unsent", "done"}]
    \cup [at : {"sent", "committed"}, patch : Patch, stale : BOOLEAN,
          list : {<<>>} \cup {<<l>> : l \in Lists}, detail : Issue \cup {None},
          alone : BOOLEAN]

Typed ==
    /\ TypeOK
    /\ list \in Lists
    /\ wire \in Seq(Message) /\ pending \in Seq(Announced)
    /\ mutation \in [Mutations -> Records]

-----------------------------------------------------------------------------
(* The inductive invariant. It is about what a connected client, none of   *)
(* whose updates has crossed anything, still has to hear: what is on the   *)
(* wire, and behind it what is still to be sent. There is one issue at     *)
(* every place of it, the one the server had when what is up to that place *)
(* was said, and the cache is where it begins.                             *)

Ahead == wire \o pending

\* After place i of the wire there is a message of this kind.
Waits(w, kind, i) == \E j \in 1..Len(w) : j > i /\ w[j].kind = kind

\* A list as good as an answer given when the issue was k.
MirrorsAt(l, k) ==
    /\ l.total = View(k).total
    /\ IF l.card = None THEN View(k).card = None ELSE l.card = k /\ Belongs(k)

\* These flags name at least what the list is about of what has changed.
Tells(dims, old, new) ==
    /\ old.status # new.status => dims.status
    /\ old.mine # new.mine /\ filter # "workspace" => dims.mine

\* st[i] is the issue at place i: only an event changes it, and an event, a
\* list and a detail show it. After the last place it is the server's. The
\* flags of an event tell, unless the list has been misled (z).
Steady(w, st) ==
    \A i, j \in 0..Len(w) :
        i <= j /\ (\A k \in 1..Len(w) : i < k /\ k <= j => w[k].kind # "event")
            => st[i] = st[j]

Shows(w, st, z) ==
    \A i \in 1..Len(w) :
        /\ w[i].kind = "event" => w[i].issue = st[i] /\ (z \/ Tells(w[i].dims, st[i - 1], st[i]))
        /\ w[i].kind = "list" => w[i].view = View(st[i])
        /\ w[i].kind = "detail" => w[i].issue = st[i]

Chain(w, st, last, z) ==
    /\ st \in [0..Len(w) -> Issue]
    /\ st[Len(w)] = last
    /\ Steady(w, st) /\ Shows(w, st, z)

\* An answer shows it too, or what it spoils is read again after it.
Answers(w, st, f, d, df) ==
    \A i \in 1..Len(w) : w[i].kind = "answer" =>
        /\ w[i].issue = st[i] \/ f = "asked" \/ Waits(w, "list", i)
        /\ w[i].issue = st[i] \/ d = None \/ df = "asked" \/ Waits(w, "detail", i)

\* The detail is the issue where the wire begins, or is read again. No detail
\* comes after an event: the one an event is judged against is never too new.
DetailFollows(w, k, d, df) == d \in {None, k} \/ df = "asked" \/ Waits(w, "detail", 0)

Judged(w, df) ==
    \A i \in 1..Len(w) : w[i].kind = "event" => df # "asked" /\ ~Waits(w, "detail", i)

\* The list mirrors the issue where the wire begins, or is read again, at the
\* latest when the answer of a marked update has arrived.
Marked(w, mu) ==
    \E i \in 1..Len(w) :
        w[i].kind = "answer" /\ mu[w[i].of].at = "committed" /\ mu[w[i].of].stale

ListFollows(w, k, f, l, mu, z) ==
    z \/ f = "asked" \/ Waits(w, "list", 0) \/ MirrorsAt(l, k) \/ Marked(w, mu)

Follows(w, last, f, l, d, df, mu, z) ==
    /\ Judged(w, df)
    /\ \E st \in [0..Len(w) -> Issue] :
          /\ Chain(w, st, last, z)
          /\ Answers(w, st, f, d, df)
          /\ DetailFollows(w, st[0], d, df)
          /\ ListFollows(w, st[0], f, l, mu, z)

\* While an update is in flight nothing else is: what it replaced mirrors the
\* server, what it shows mirrors the issue it will make.
Snapshot(m) == IF mutation[m].list = <<>> THEN list ELSE mutation[m].list[1]

Shown(m) ==
    /\ wire = <<>> /\ pending = <<>> /\ fetch = "none" /\ dfetch = "none"
    /\ \A n \in Mutations : mutation[n].at = "sent" => n = m
    /\ misled \/ MirrorsAt(Snapshot(m), server)
    /\ mutation[m].detail \in {None, server}
    /\ detail = IF mutation[m].detail = None THEN None
                ELSE Merged(server, mutation[m].patch)
    /\ misled \/ mutation[m].stale \/ MirrorsAt(list, Merged(server, mutation[m].patch))

\* A socket that is not registered brings no event, a request that starts over
\* no older answer; a detail that was never loaded is not read.
Wired ==
    /\ socket # "registered" => ~Waits(wire, "event", 0)
    /\ fetch = "asked" => ~Waits(wire, "list", 0)
    /\ dfetch = "asked" => ~Waits(wire, "detail", 0)
    /\ detail = None => dfetch = "none" /\ ~Waits(wire, "detail", 0)

Tracks ==
    socket # "lost" /\ ~crossed =>
        /\ \A m \in Mutations : mutation[m].at = "sent" => Shown(m)
        /\ ~Updating => Follows(Ahead, server, fetch, list, detail, dfetch, mutation, misled)

IInv == Typed /\ Wired /\ Tracks

-----------------------------------------------------------------------------
(* The operators of the rules table.                                       *)

\* A whole issue replaces the one it is merged into.
LEMMA MergedWhole ==
  ASSUME NEW old \in Issue, NEW new \in Issue
  PROVE  Merged(old, new) = new
BY DEF Merged, Issue

\* A patch changes one field and makes an issue again.
LEMMA MergedPatch ==
  ASSUME NEW old \in Issue, NEW p \in Patch
  PROVE  /\ Merged(old, p) \in Issue
         /\ DOMAIN p = {"status"} \/ DOMAIN p = {"mine"}
         /\ "status" \in DOMAIN p =>
              /\ p.status \in Status /\ Merged(old, p).status = p.status
              /\ Merged(old, p).mine = old.mine
         /\ "mine" \in DOMAIN p =>
              /\ p.mine \in BOOLEAN /\ Merged(old, p).mine = p.mine
              /\ Merged(old, p).status = old.status
BY DEF Merged, Issue, Patch

\* Either way: the merged issue is an issue, and has the patch's fields.
LEMMA MergedFacts ==
  ASSUME NEW old \in Issue, NEW p \in Issue \cup Patch
  PROVE  /\ Merged(old, p) \in Issue
         /\ "status" \in DOMAIN p => Merged(old, p).status = p.status
         /\ "status" \notin DOMAIN p => Merged(old, p).status = old.status
         /\ "mine" \in DOMAIN p => Merged(old, p).mine = p.mine
         /\ "mine" \notin DOMAIN p => Merged(old, p).mine = old.mine
<1>1. CASE p \in Issue
  <2>1. Merged(old, p) = p /\ DOMAIN p = {"status", "mine"}
    BY <1>1, MergedWhole DEF Issue
  <2> QED
    BY <1>1, <2>1
<1>2. CASE p \in Patch
  BY <1>2, MergedPatch
<1> QED
  BY <1>1, <1>2

\* The change flags computed from a base name what the patch changes in it.
LEMMA ChangedFacts ==
  ASSUME NEW p \in Issue \cup Patch, NEW old \in Issue, NEW base \in {None, old}
  PROVE  /\ Changed(p, base) \in Dims
         /\ Tells(Changed(p, base), old, Merged(old, p))
<1>1. Changed(p, base) \in Dims
  BY DEF Changed, Dims
<1> QED
  BY <1>1, MergedFacts, NoneIsNothing DEF Changed, Tells

\* The fields the proofs read of an issue.
LEMMA IssueFields ==
  ASSUME NEW i \in Issue
  PROVE  i.status \in Status /\ i.mine \in BOOLEAN /\ i # None
BY NoneIsNothing DEF Issue

\* What the server answers to a list request is a list.
LEMMA ViewTyped ==
  ASSUME NEW i \in Issue
  PROVE  /\ View(i) \in Lists
         /\ MirrorsAt(View(i), i)
<1>1. View(i).card \in Issue \cup {None} /\ View(i).total \in [Status -> Nat]
  BY DEF View, Others
<1>2. View(i) \in Lists
  BY <1>1 DEF View, Lists
<1> QED
  BY <1>2, NoneIsNothing DEF MirrorsAt, View

\* Totals keep their type.
LEMMA TotalsTyped ==
  ASSUME NEW t \in [Status -> Nat], NEW a, NEW b
  PROVE  Decrement(t, a) \in [Status -> Nat] /\ Move(t, a, b) \in [Status -> Nat]
<1>1. \A s \in Status : t[s] \in Nat /\ Less(t[s]) \in Nat
  BY DEF Less
<1>2. Decrement(t, a) = [s \in Status |-> IF s = a THEN Less(t[s]) ELSE t[s]]
  BY DEF Decrement
<1>3. Decrement(t, a) \in [Status -> Nat]
  BY <1>1, <1>2
<1>4. CASE a = b
  BY <1>3, <1>4 DEF Move
<1>5. CASE a # b
  <2>1. Move(t, a, b)
          = [s \in Status |-> IF s = b THEN t[s] + 1 ELSE IF s = a THEN Less(t[s]) ELSE t[s]]
    BY <1>5 DEF Move
  <2>2. \A s \in Status : t[s] + 1 \in Nat
    BY <1>1
  <2> QED
    BY <2>1, <2>2, <1>1, <1>3
<1> QED
  BY <1>4, <1>5

\* The totals of a list that holds the issue, and what becomes of them when it
\* moves to another bucket or leaves.
Counted(a) == [s \in Status |-> IF s = a THEN Others + 1 ELSE Others]

\* Totals that count the old issue count the new one after one step of the table.
LEMMA TotalsCounted ==
  ASSUME NEW a \in Status, NEW b \in Status
  PROVE  /\ Move(Counted(a), a, b) = Counted(b)
         /\ Decrement(Counted(a), a) = [s \in Status |-> Others]
<1>1. \A s \in Status : Counted(a)[s] = (IF s = a THEN 2 ELSE 1)
  BY DEF Counted, Others
<1>2. Decrement(Counted(a), a) = [s \in Status |-> IF s = a THEN Less(2) ELSE 1]
  BY <1>1 DEF Decrement, Counted
<1>3. Decrement(Counted(a), a) = [s \in Status |-> Others]
  BY <1>2 DEF Less, Others
<1>4. CASE a # b
  <2>1. Move(Counted(a), a, b) =
          [s \in Status |-> IF s = b THEN 1 + 1 ELSE IF s = a THEN Less(2) ELSE 1]
    BY <1>1, <1>4 DEF Move, Counted
  <2>2. Move(Counted(a), a, b) = Counted(b)
    BY <2>1, <1>4 DEF Less, Others, Counted
  <2> QED
    BY <2>2, <1>3
<1>5. CASE a = b
  BY <1>5, <1>3 DEF Move
<1> QED
  BY <1>4, <1>5

\* The server counts an issue in its own bucket, if it belongs to the list.
LEMMA ViewTotals ==
  ASSUME NEW i \in Issue
  PROVE  View(i).total = IF Belongs(i) THEN Counted(i.status) ELSE [s \in Status |-> Others]
BY DEF View, Counted

\* What a change makes of the list: a list again, changed only when it is said
\* to be written.
LEMMA ApplyTyped ==
  ASSUME TypeOK, list \in Lists, NEW p \in Issue \cup Patch, NEW dims \in Dims,
         NEW base \in Issue \cup {None}
  PROVE  LET out == Apply(p, dims, base)
         IN  /\ out.list \in Lists /\ out.set \in BOOLEAN /\ out.stale \in BOOLEAN
             /\ ~out.set => out.list = list
<1> DEFINE out == Apply(p, dims, base)
<1>1. CASE list.card # None
  <2>1. list.card \in Issue /\ list.total \in [Status -> Nat]
    BY <1>1 DEF Lists
  <2>2. Merged(list.card, p) \in Issue
    BY <2>1, MergedFacts
  <2> DEFINE t1 == Decrement(list.total, list.card.status)
             t2 == Move(list.total, list.card.status, Merged(list.card, p).status)
  <2>3. t1 \in [Status -> Nat] /\ t2 \in [Status -> Nat]
    BY <2>1, <2>2, TotalsTyped, IssueFields
  <2>4. /\ [card |-> None, total |-> t1] \in Lists
        /\ [card |-> Merged(list.card, p), total |-> t2] \in Lists
    BY <2>2, <2>3 DEF Lists
  <2>5. out = ApplyToCard(p, dims)
    BY <1>1 DEF Apply
  <2>6. DependsOn(dims) \in BOOLEAN
    BY DEF DependsOn, Dims
  <2>7. \/ out = Outcome([card |-> None, total |-> t1], TRUE, FALSE)
        \/ \E b \in BOOLEAN :
              out = Outcome([card |-> Merged(list.card, p), total |-> t2], TRUE, b)
    BY <2>5, <2>6 DEF ApplyToCard
  <2> HIDE DEF out, t1, t2
  <2>8. \E l \in Lists, b \in BOOLEAN : out = [list |-> l, set |-> TRUE, stale |-> b]
    BY <2>4, <2>7 DEF Outcome
  <2>9. out.list \in Lists /\ out.set = TRUE /\ out.stale \in BOOLEAN
    BY <2>8
  <2> QED
    BY <2>9 DEF out
<1>2. CASE list.card = None
  <2>1. out = ApplyToTotals(p, dims, base)
    BY <1>2 DEF Apply
  <2> DEFINE t1 == Move(list.total, base.status, p.status)
             t2 == Decrement(list.total, base.status)
             was == IF base = None THEN "unknown" ELSE Matches(base)
             is  == Matches(IF base = None THEN p ELSE Merged(base, p))
  <2>2. list.total \in [Status -> Nat] /\ list = [card |-> list.card, total |-> list.total]
    BY DEF Lists
  <2>3. t2 \in [Status -> Nat]
    BY <2>2, TotalsTyped
  <2>4. t1 \in [Status -> Nat]
    BY <2>2, TotalsTyped
  <2>5. /\ [list EXCEPT !.total = Move(@, base.status, p.status)] \in Lists
        /\ [list EXCEPT !.total = Decrement(@, base.status)] \in Lists
    BY <2>2, <2>3, <2>4 DEF Lists
  <2>6. \/ out = Outcome(list, FALSE, FALSE)
        \/ out = Outcome([list EXCEPT !.total = Move(@, base.status, p.status)], TRUE, TRUE)
        \/ out = Outcome([list EXCEPT !.total = Decrement(@, base.status)], TRUE, FALSE)
        \/ out = Outcome(list, FALSE, TRUE)
    BY <2>1 DEF ApplyToTotals
  <2> HIDE DEF out
  <2>7. \E l \in Lists, a \in BOOLEAN, b \in BOOLEAN :
           out = [list |-> l, set |-> a, stale |-> b] /\ (a = FALSE => l = list)
    BY <2>5, <2>6 DEF Outcome
  <2>8. out.list \in Lists /\ out.set \in BOOLEAN /\ out.stale \in BOOLEAN
        /\ (out.set = FALSE => out.list = list)
    BY <2>7
  <2> QED
    BY <2>8 DEF out
<1> QED
  BY <1>1, <1>2

\* The rules table is right: a list as good as the server's answer before a
\* change is as good as its answer after it, or is marked to be read again
\* (cache-coordinator.ts: membership "certain", else stale). The flags name at
\* least what has changed; the base, when it is known, is the issue before.
THEOREM ApplyMirrors ==
  ASSUME TypeOK, list \in Lists,
         NEW old \in Issue, NEW p \in Issue \cup Patch, NEW dims \in Dims,
         Tells(dims, old, Merged(old, p)),
         NEW base \in {None, old}, MirrorsAt(list, old)
  PROVE  LET out == Apply(p, dims, base)
         IN  out.stale \/ MirrorsAt(out.list, Merged(old, p))
<1> DEFINE out  == Apply(p, dims, base)
           new  == Merged(old, p)
           none == [s \in Status |-> Others]
<1> SUFFICES out.stale \/ MirrorsAt(out.list, new)
  OBVIOUS
<1>1. new \in Issue
  BY MergedFacts
<1>2. /\ old.status \in Status /\ old.mine \in BOOLEAN /\ old # None
      /\ new.status \in Status /\ new.mine \in BOOLEAN /\ new # None
  BY <1>1, IssueFields
<1>3. /\ list.total = IF Belongs(old) THEN Counted(old.status) ELSE none
      /\ View(new).total = IF Belongs(new) THEN Counted(new.status) ELSE none
  BY <1>1, ViewTotals DEF MirrorsAt
<1>4. /\ dims.status \in BOOLEAN /\ dims.mine \in BOOLEAN
      /\ old.status # new.status => dims.status
      /\ old.mine # new.mine /\ filter # "workspace" => dims.mine
  BY DEF Tells, Dims
<1>5. filter \in {"workspace", "assignee", "all"} /\ involved \in BOOLEAN
  BY DEF TypeOK, Filters
<1>6. Matches(old) = (IF filter = "workspace" THEN "yes" ELSE IF filter = "all" THEN "unknown"
                      ELSE IF old.mine THEN "yes" ELSE "no")
  BY <1>5 DEF Matches, Issue
<1>7. Matches(new) = (IF filter = "workspace" THEN "yes" ELSE IF filter = "all" THEN "unknown"
                      ELSE IF new.mine THEN "yes" ELSE "no")
  BY <1>5, <1>1 DEF Matches, Issue
<1>8. /\ Move(Counted(old.status), old.status, new.status) = Counted(new.status)
      /\ Decrement(Counted(old.status), old.status) = none
  BY <1>2, TotalsCounted
<1> HIDE DEF new, none
<1>9. CASE list.card # None
  <2>1. list.card = old /\ Belongs(old)
    BY <1>9 DEF MirrorsAt
  <2>2. out = ApplyToCard(p, dims)
    BY <1>9 DEF Apply
  <2> DEFINE total == Move(list.total, old.status, new.status)
  <2>3. CASE DependsOn(dims) /\ Matches(new) = "no"
    <3>1. out.list = [card |-> None, total |-> none]
      BY <2>1, <2>2, <2>3, <1>3, <1>8 DEF ApplyToCard, Outcome, new
    <3>2. ~Belongs(new)
      BY <2>3, <1>5, <1>7 DEF Belongs, DependsOn
    <3>3. View(new).card = None
      BY <3>2 DEF View
    <3> QED
      BY <3>1, <3>2, <3>3, <1>3 DEF MirrorsAt
  <2>4. CASE ~ (DependsOn(dims) /\ Matches(new) = "no")
    <3>1. /\ out.list = [card |-> new, total |-> Counted(new.status)]
          /\ out.stale = (DependsOn(dims) /\ Matches(new) = "unknown")
      <4>1. out = Outcome([card |-> new, total |-> total], TRUE,
                          DependsOn(dims) /\ Matches(new) = "unknown")
        BY <2>1, <2>2, <2>4 DEF ApplyToCard, new
      <4>2. total = Counted(new.status)
        BY <2>1, <1>3, <1>8
      <4> QED
        BY <4>1, <4>2 DEF Outcome
    <3>2. out.stale \/ Belongs(new)
      BY <3>1, <2>1, <2>4, <1>2, <1>4, <1>5, <1>7 DEF Belongs, DependsOn
    <3> QED
      BY <3>1, <3>2, <1>2, <1>3 DEF MirrorsAt
  <2> QED
    BY <2>3, <2>4
<1>10. CASE list.card = None
  <2>1. View(old).card = None
    BY <1>10 DEF MirrorsAt
  <2>2. out = ApplyToTotals(p, dims, base)
    BY <1>10 DEF Apply
  <2> DEFINE was == IF base = None THEN "unknown" ELSE Matches(base)
             is  == Matches(IF base = None THEN p ELSE Merged(base, p))
  <2>3. base # None => was = Matches(old) /\ is = Matches(new) /\ base = old
    BY DEF new
  <2>4. base = None => was = "unknown"
    OBVIOUS
  <2> HIDE DEF was, is
  <2>5. ASSUME out.list = list, Belongs(new) <=> Belongs(old),
               Belongs(old) => new.status = old.status
        PROVE  MirrorsAt(out.list, new)
    <3>1. View(new).card = None
      BY <2>1, <2>5, <1>2 DEF View
    <3> QED
      BY <3>1, <2>5, <1>3, <1>10 DEF MirrorsAt
  <2>6. CASE ~DependsOn(dims) /\ ~dims.status
    <3>1. out.list = list
      BY <2>2, <2>6 DEF ApplyToTotals, Outcome
    <3>2. (Belongs(new) <=> Belongs(old)) /\ new.status = old.status
      BY <2>6, <1>2, <1>4, <1>5 DEF Belongs, DependsOn
    <3> QED
      BY <3>1, <3>2, <2>5
  <2>7. CASE was = "no" /\ is = "no"
    <3>1. out.list = list
      BY <2>2, <2>7 DEF ApplyToTotals, Outcome, was, is
    <3>2. ~Belongs(new) /\ ~Belongs(old)
      BY <2>7, <2>3, <2>4, <1>2, <1>5, <1>6, <1>7 DEF Belongs
    <3> QED
      BY <3>1, <3>2, <2>5
  <2>8. CASE was = "yes" /\ is = "yes" /\ (DependsOn(dims) \/ dims.status)
    <3>1. /\ base = old /\ Belongs(old) /\ Belongs(new)
      BY <2>8, <2>3, <2>4, <1>2, <1>5, <1>6, <1>7 DEF Belongs
    <3>2. CASE ~dims.status \/ "status" \notin DOMAIN p \/ base.status = p.status
      <4>1. out.list = list
        BY <2>2, <2>8, <3>2 DEF ApplyToTotals, Outcome, was, is
      <4>2. new.status = old.status
        BY <3>1, <3>2, <1>2, <1>4, MergedFacts DEF new
      <4> QED
        BY <4>1, <4>2, <3>1, <2>5
    <3>3. CASE dims.status /\ "status" \in DOMAIN p /\ base.status # p.status
      <4>1. out = Outcome([list EXCEPT !.total = Move(@, base.status, p.status)], TRUE, TRUE)
        BY <2>2, <2>8, <3>3 DEF ApplyToTotals, was, is
      <4> QED
        BY <4>1 DEF Outcome
    <3> QED
      BY <3>2, <3>3
  <2>9. CASE was = "yes" /\ is = "no" /\ (DependsOn(dims) \/ dims.status)
    <3>1. base = old /\ Belongs(old) /\ ~Belongs(new)
      BY <2>9, <2>3, <2>4, <1>2, <1>5, <1>6, <1>7 DEF Belongs
    <3>2. out.list = [list EXCEPT !.total = Decrement(@, base.status)]
      BY <2>2, <2>9 DEF ApplyToTotals, Outcome, was, is
    <3>3. out.list.card = None /\ out.list.total = none
      BY <3>1, <3>2, <1>3, <1>8, <1>10 DEF Lists
    <3>4. View(new).card = None
      BY <3>1 DEF View
    <3> QED
      BY <3>1, <3>3, <3>4, <1>3 DEF MirrorsAt
  <2>10. CASE /\ DependsOn(dims) \/ dims.status
              /\ ~ (was = "no" /\ is = "no") /\ ~ (was = "yes" /\ is = "yes")
              /\ ~ (was = "yes" /\ is = "no")
    <3>1. out.stale = TRUE
      BY <2>2, <2>10 DEF ApplyToTotals, Outcome, was, is
    <3> QED
      BY <3>1
  <2> QED
    BY <2>6, <2>7, <2>8, <2>9, <2>10
<1> QED
  BY <1>9, <1>10

-----------------------------------------------------------------------------
(* The wire.                                                               *)

\* The rank of a place among those that are kept.
Rank(I, i) == Cardinality({k \in I : k <= i})

\* Every place has one of its own, and every rank is some place's.
LEMMA RankFacts ==
  ASSUME NEW n \in Nat, NEW I \in SUBSET (1..n)
  PROVE  /\ IsFiniteSet(I) /\ Cardinality(I) \in Nat
         /\ \A i \in I : Rank(I, i) \in 1..Cardinality(I)
         /\ \A i, k \in I : i < k => Rank(I, i) < Rank(I, k)
         /\ \A j \in 1..Cardinality(I) : \E i \in I : Rank(I, i) = j
<1> DEFINE c       == Cardinality(I)
           upto(i) == {k \in I : k <= i}
           rank    == [i \in I |-> Rank(I, i)]
<1>1. \A i \in I : i \in Nat
  OBVIOUS
<1>2. IsFiniteSet(I) /\ c \in Nat
  <2>1. IsFiniteSet(1..n)
    BY FS_Interval
  <2> QED
    BY <2>1, FS_Subset, FS_CardinalityType
<1>3. ASSUME NEW i \in I
      PROVE  IsFiniteSet(upto(i)) /\ Rank(I, i) = Cardinality(upto(i)) /\ Rank(I, i) \in 1..c
  <2>1. upto(i) \in SUBSET I /\ i \in upto(i)
    BY <1>1
  <2>2. IsFiniteSet(upto(i)) /\ Cardinality(upto(i)) <= c
    BY <2>1, <1>2, FS_Subset
  <2>3. Cardinality(upto(i)) \in Nat /\ Cardinality(upto(i)) # 0
    BY <2>1, <2>2, FS_CardinalityType, FS_EmptySet
  <2>4. Rank(I, i) = Cardinality(upto(i))
    BY DEF Rank
  <2> QED
    BY <2>2, <2>3, <2>4, <1>2
<1>4. ASSUME NEW i \in I, NEW k \in I, i < k
      PROVE  Rank(I, i) < Rank(I, k)
  <2> i \in Nat /\ k \in Nat
    BY <1>1
  <2>1. upto(i) \in SUBSET upto(k) /\ k \in upto(k) /\ k \notin upto(i)
    <3>1. (\A l \in I : l <= i => l <= k) /\ k <= k /\ ~ (k <= i)
      BY <1>1, <1>4
    <3> QED
      BY <3>1
  <2>2. Cardinality(upto(i)) <= Cardinality(upto(k)) /\ Cardinality(upto(i)) # Cardinality(upto(k))
    BY <2>1, <1>3, FS_Subset
  <2>3. Rank(I, i) \in 1..c /\ Rank(I, k) \in 1..c
    BY <1>3
  <2>4. Rank(I, i) <= Rank(I, k) /\ Rank(I, i) # Rank(I, k)
    BY <2>2, <1>3
  <2> HIDE DEF c
  <2> QED
    BY <2>3, <2>4, <1>2
<1>5. \A j \in 1..c : \E i \in I : Rank(I, i) = j
  <2>1. rank \in [I -> 1..c]
    BY <1>3
  <2>2. \A i, k \in I : rank[i] = rank[k] => i = k
    <3>1. SUFFICES ASSUME NEW i \in I, NEW k \in I, Rank(I, i) = Rank(I, k), i # k PROVE FALSE
      OBVIOUS
    <3>2. i < k \/ k < i
      <4>1. i \in Nat /\ k \in Nat
        BY <1>1
      <4> QED
        BY <4>1, <3>1
    <3>3. Rank(I, i) < Rank(I, k) \/ Rank(I, k) < Rank(I, i)
      BY <3>2, <1>4
    <3>4. Rank(I, i) \in 1..c /\ Rank(I, k) \in 1..c
      BY <1>3
    <3> HIDE DEF c
    <3> QED
      BY <3>1, <3>3, <3>4, <1>2
  <2>3. rank \in Injection(I, 1..c)
    BY <2>1, <2>2 DEF Injection, IsInjective
  <2>4. IsFiniteSet(1..c) /\ Cardinality(1..c) = c
    BY <1>2, FS_Interval
  <2>5. rank \in Surjection(I, 1..c)
    BY <2>3, <2>4, FS_Injection
  <2> QED
    BY <2>5 DEF Surjection
<1> QED
  BY <1>2, <1>3, <1>4, <1>5

\* What is kept of a sequence is a sequence, and there is an increasing map of
\* its places to the places that are kept: messages never change their order.
LEMMA KeptFacts ==
  ASSUME NEW S, NEW w \in Seq(S), NEW I \in SUBSET (1..Len(w))
  PROVE  /\ Kept(w, I) \in Seq(S)
         /\ \E h \in [1..Len(Kept(w, I)) -> 1..Len(w)] :
               /\ \A j \in 1..Len(Kept(w, I)) : Kept(w, I)[j] = w[h[j]] /\ h[j] \in I
               /\ \A i, j \in 1..Len(Kept(w, I)) : i < j => h[i] < h[j]
               /\ \A i \in I : \E j \in 1..Len(Kept(w, I)) : h[j] = i
<1> DEFINE n == Cardinality(I)
           h == [j \in 1..n |-> CHOOSE i \in I : Rank(I, i) = j]
<1>1. Len(w) \in Nat /\ (\A i \in 1..Len(w) : w[i] \in S) /\ \A i \in I : i \in Nat
  OBVIOUS
<1>2. IsFiniteSet(I) /\ n \in Nat
  BY <1>1, RankFacts
<1>3. \A i \in I : Rank(I, i) \in 1..n
  BY <1>1, RankFacts
<1>4. \A i, k \in I : i < k => Rank(I, i) < Rank(I, k)
  BY <1>1, RankFacts
<1>5. \A j \in 1..n : \E i \in I : Rank(I, i) = j
  BY <1>1, RankFacts
<1>6. h \in [1..n -> 1..Len(w)] /\ \A j \in 1..n : h[j] \in I /\ Rank(I, h[j]) = j
  BY <1>5
<1>7. Kept(w, I) = [j \in 1..n |-> w[h[j]]]
  BY DEF Kept, Rank
<1>8. Kept(w, I) \in Seq(S) /\ Len(Kept(w, I)) = n
  <2>1. \A j \in 1..n : w[h[j]] \in S
    BY <1>1, <1>6
  <2> HIDE DEF h, n
  <2>2. Kept(w, I) \in [1..n -> S]
    BY <2>1, <1>7
  <2>3. Kept(w, I) \in Seq(S)
    BY <2>2, <1>2, SeqDef
  <2> QED
    BY <2>2, <2>3, <1>2
<1>9. \A j \in 1..n : Kept(w, I)[j] = w[h[j]] /\ h[j] \in I
  BY <1>6, <1>7
<1>10. \A i, j \in 1..n : i < j => h[i] < h[j]
  <2>1. SUFFICES ASSUME NEW i \in 1..n, NEW j \in 1..n, i < j, ~ (h[i] < h[j]) PROVE FALSE
    OBVIOUS
  <2>2. h[i] \in I /\ h[j] \in I /\ Rank(I, h[i]) = i /\ Rank(I, h[j]) = j
    BY <1>6
  <2>3. h[j] < h[i] \/ h[j] = h[i]
    <3>1. h[i] \in Nat /\ h[j] \in Nat
      BY <2>2, <1>1
    <3> HIDE DEF h
    <3> QED
      BY <3>1, <2>1
  <2>4. h[j] < h[i] => Rank(I, h[j]) < Rank(I, h[i])
    BY <2>2, <1>4
  <2> HIDE DEF h
  <2> QED
    BY <2>1, <2>2, <2>3, <2>4, <1>2
<1>11. \A i \in I : \E j \in 1..n : h[j] = i
  <2>1. SUFFICES ASSUME NEW i \in I PROVE h[Rank(I, i)] = i /\ Rank(I, i) \in 1..n
    BY <1>3
  <2>2. Rank(I, i) \in 1..n
    BY <1>3
  <2>3. h[Rank(I, i)] \in I /\ Rank(I, h[Rank(I, i)]) = Rank(I, i)
    BY <2>2, <1>6
  <2>4. ASSUME h[Rank(I, i)] # i PROVE FALSE
    <3>1. h[Rank(I, i)] \in Nat /\ i \in Nat
      BY <2>3, <1>1
    <3> DEFINE k == h[Rank(I, i)]
    <3>2. k \in I /\ Rank(I, k) = Rank(I, i) /\ k # i /\ k \in Nat
      BY <3>1, <2>3, <2>4
    <3> HIDE DEF h, k
    <3>3. k < i \/ i < k
      BY <3>1, <3>2
    <3>4. Rank(I, k) < Rank(I, i) \/ Rank(I, i) < Rank(I, k)
      BY <3>2, <3>3, <1>4
    <3> QED
      BY <3>2, <3>4, <2>2, <1>2
  <2> QED
    BY <2>2, <2>4
<1> HIDE DEF h, n
<1> QED
  BY <1>6, <1>8, <1>9, <1>10, <1>11

\* A message by its kind.
LEMMA MessageFacts ==
  ASSUME NEW msg \in Message
  PROVE  /\ msg.kind \in {"event", "answer", "list", "detail"}
         /\ msg.kind = "event" => msg.issue \in Issue /\ msg.dims \in Dims
         /\ msg.kind = "answer" => msg.issue \in Issue /\ msg.of \in Mutations
         /\ msg.kind = "list" => msg.view \in Lists
         /\ msg.kind = "detail" => msg.issue \in Issue
BY DEF Message, Announced

\* What an update announces is an event or an answer.
LEMMA AnnouncedFacts ==
  ASSUME NEW msg \in Announced
  PROVE  msg \in Message /\ msg.kind \in {"event", "answer"}
BY DEF Message, Announced

\* Dropping the messages of one kind.
LEMMA WithoutFacts ==
  ASSUME NEW w \in Seq(Message), NEW kind
  PROVE  /\ Without(kind, w) \in Seq(Message)
         /\ ~Waits(Without(kind, w), kind, 0)
         /\ \A k : Waits(Without(kind, w), k, 0) => Waits(w, k, 0)
<1> DEFINE I == {i \in 1..Len(w) : w[i].kind # kind}
           v == Kept(w, I)
<1>1. PICK h \in [1..Len(v) -> 1..Len(w)] :
         \A j \in 1..Len(v) : v[j] = w[h[j]] /\ h[j] \in I
  BY KeptFacts
<1>2. v \in Seq(Message)
  BY KeptFacts
<1>3. \A j \in 1..Len(v) : h[j] > 0 /\ v[j] = w[h[j]] /\ v[j].kind # kind
  BY <1>1
<1>4. Without(kind, w) = v
  BY DEF Without
<1> HIDE DEF v, I
<1>5. ~Waits(v, kind, 0)
  BY <1>3 DEF Waits
<1>6. \A k : Waits(v, k, 0) => Waits(w, k, 0)
  BY <1>3 DEF Waits
<1> QED
  BY <1>2, <1>4, <1>5, <1>6

\* A message that has arrived is taken out of the wire.
LEMMA RestFacts ==
  ASSUME NEW S, NEW w \in Seq(S), NEW i \in 1..Len(w)
  PROVE  LET rest == Taken(w, i)
         IN  /\ rest \in Seq(S) /\ Len(rest) = Len(w) - 1
             /\ \A j \in 1..(Len(w) - 1) : rest[j] = IF j < i THEN w[j] ELSE w[j + 1]
<1> DEFINE a == SubSeq(w, 1, i - 1)
           b == SubSeq(w, i + 1, Len(w))
<1>1. a \in Seq(S) /\ Len(a) = i - 1 /\ \A j \in 1..(i - 1) : a[j] = w[j]
  OBVIOUS
<1>2. b \in Seq(S) /\ Len(b) = Len(w) - i /\ \A j \in 1..(Len(w) - i) : b[j] = w[i + j]
  OBVIOUS
<1> HIDE DEF a, b
<1> DEFINE rest == a \o b
<1>3. rest \in Seq(S) /\ Len(rest) = Len(w) - 1
  <2>1. rest \in Seq(S) /\ Len(rest) = Len(a) + Len(b)
    BY <1>1, <1>2, ConcatProperties
  <2>2. Len(w) \in Nat /\ i \in Nat
    OBVIOUS
  <2> QED
    BY <2>1, <2>2, <1>1, <1>2
<1>4. ASSUME NEW j \in 1..(Len(w) - 1), j < i
      PROVE  rest[j] = w[j]
  BY <1>1, <1>2, <1>4
<1>5. ASSUME NEW j \in 1..(Len(w) - 1), ~ (j < i)
      PROVE  rest[j] = w[j + 1]
  <2>1. rest[j] = b[j - (i - 1)] /\ j - (i - 1) \in 1..(Len(w) - i)
    BY <1>1, <1>2, <1>5
  <2> QED
    BY <2>1, <1>2
<1> QED
  BY <1>3, <1>4, <1>5 DEF a, b, Taken

\* No message of a kind is among what is left unless it was in the wire.
LEMMA RestWaits ==
  ASSUME NEW w \in Seq(Message), NEW i \in 1..Len(w)
  PROVE  \A k : Waits(Taken(w, i), k, 0) => Waits(w, k, 0)
<1> DEFINE rest == Taken(w, i)
<1>1. /\ Len(rest) = Len(w) - 1
      /\ \A j \in 1..(Len(w) - 1) : rest[j] = IF j < i THEN w[j] ELSE w[j + 1]
  BY RestFacts
<1> HIDE DEF rest
<1>2. ASSUME NEW k, NEW j \in 1..Len(rest), rest[j].kind = k
      PROVE  \E l \in 1..Len(w) : l > 0 /\ w[l].kind = k
  <2>1. j \in 1..(Len(w) - 1) /\ j \in 1..Len(w) /\ j + 1 \in 1..Len(w)
    BY <1>1
  <2>2. rest[j] = w[j] \/ rest[j] = w[j + 1]
    BY <1>1, <2>1
  <2> QED
    BY <1>2, <2>1, <2>2
<1>3. \A k : Waits(rest, k, 0) => Waits(w, k, 0)
  BY <1>2 DEF Waits
<1> QED
  BY <1>3 DEF rest

\* What is still to be sent, behind what is on the wire.
LEMMA JoinFacts ==
  ASSUME NEW w \in Seq(Message), NEW p \in Seq(Announced)
  PROVE  /\ w \o p \in Seq(Message) /\ Len(w \o p) = Len(w) + Len(p)
         /\ \A i \in 1..Len(w \o p) :
               (w \o p)[i] = IF i <= Len(w) THEN w[i] ELSE p[i - Len(w)]
         /\ p = <<>> => w \o p = w
         /\ w = <<>> => w \o p = p
         /\ \A i \in 1..Len(p) : p[i].kind \in {"event", "answer"}
         /\ \A k : Waits(w \o p, k, 0) <=> Waits(w, k, 0) \/ Waits(p, k, 0)
         /\ ~Waits(p, "list", 0) /\ ~Waits(p, "detail", 0)
<1>1. \A i \in 1..Len(p) : p[i] \in Message /\ p[i].kind \in {"event", "answer"}
  BY AnnouncedFacts
<1>2. p \in Seq(Message)
  <2>1. p \in [1..Len(p) -> Message] /\ Len(p) \in Nat
    BY <1>1
  <2> QED
    BY <2>1
<1> DEFINE v == w \o p
<1>3. /\ v \in Seq(Message) /\ Len(v) = Len(w) + Len(p)
      /\ \A i \in 1..Len(v) : v[i] = IF i <= Len(w) THEN w[i] ELSE p[i - Len(w)]
  BY <1>2, ConcatProperties
<1>4. (p = <<>> => v = w) /\ (w = <<>> => v = p)
  BY <1>2
<1> HIDE DEF v
<1>5. Len(w) \in Nat /\ Len(p) \in Nat
  OBVIOUS
<1>6. ASSUME NEW k
      PROVE  Waits(v, k, 0) <=> Waits(w, k, 0) \/ Waits(p, k, 0)
  <2>1. ASSUME NEW j \in 1..Len(v), v[j].kind = k
        PROVE  Waits(w, k, 0) \/ Waits(p, k, 0)
    <3>1. CASE j <= Len(w)
      <4>1. j \in 1..Len(w) /\ j > 0 /\ w[j].kind = k
        BY <3>1, <2>1, <1>3, <1>5
      <4> QED
        BY <4>1 DEF Waits
    <3>2. CASE ~ (j <= Len(w))
      <4>1. j - Len(w) \in 1..Len(p) /\ j - Len(w) > 0 /\ p[j - Len(w)].kind = k
        BY <3>2, <2>1, <1>3, <1>5
      <4> QED
        BY <4>1 DEF Waits
    <3> QED
      BY <3>1, <3>2
  <2>2. ASSUME NEW j \in 1..Len(w), w[j].kind = k
        PROVE  Waits(v, k, 0)
    <3>1. j \in 1..Len(v) /\ j > 0 /\ v[j].kind = k
      BY <2>2, <1>3, <1>5
    <3> QED
      BY <3>1 DEF Waits
  <2>3. ASSUME NEW j \in 1..Len(p), p[j].kind = k
        PROVE  Waits(v, k, 0)
    <3>1. /\ Len(w) + j \in 1..Len(v) /\ Len(w) + j > 0 /\ ~ (Len(w) + j <= Len(w))
          /\ (Len(w) + j) - Len(w) = j
      BY <1>3, <1>5
    <3>2. v[Len(w) + j].kind = k
      BY <3>1, <2>3, <1>3
    <3> QED
      BY <3>1, <3>2 DEF Waits
  <2> QED
    BY <2>1, <2>2, <2>3 DEF Waits
<1>7. ~Waits(p, "list", 0) /\ ~Waits(p, "detail", 0)
  BY <1>1 DEF Waits
<1> QED
  BY <1>1, <1>3, <1>4, <1>6, <1>7 DEF v

\* A request that starts over takes nothing from what is still to be sent.
LEMMA WithoutJoin ==
  ASSUME NEW w \in Seq(Message), NEW p \in Seq(Announced)
  PROVE  Without("list", w \o p) = Without("list", w) \o p
<1> DEFINE v == w \o p
           n == Len(w)
           q == Len(p)
           I == {i \in 1..n : w[i].kind # "list"}
           J == {i \in 1..Len(v) : v[i].kind # "list"}
           c == Cardinality(I)
           x == Without("list", w)
           y == Without("list", v)
<1>1. /\ v \in Seq(Message) /\ Len(v) = n + q
      /\ \A i \in 1..Len(v) : v[i] = IF i <= n THEN w[i] ELSE p[i - n]
      /\ \A i \in 1..q : p[i].kind # "list"
  <2>1. \A i \in 1..q : p[i].kind \in {"event", "answer"}
    BY JoinFacts
  <2>2. \A i \in 1..q : p[i].kind # "list"
    BY <2>1
  <2> QED
    BY <2>2, JoinFacts
<1>2. n \in Nat /\ q \in Nat
  OBVIOUS
<1>3. /\ x = [j \in 1..c |-> w[CHOOSE i \in I : Rank(I, i) = j]]
      /\ y = [j \in 1..Cardinality(J) |-> v[CHOOSE i \in J : Rank(J, i) = j]]
  BY DEF Without, Kept, Rank
<1>4. /\ I \subseteq 1..n
      /\ \A i : i \in J <=> i \in I \/ i \in (n + 1)..(n + q)
      /\ \A i \in I : i \notin (n + 1)..(n + q)
  <2> HIDE DEF v, n, q
  <2>1. ASSUME NEW i \in 1..n
        PROVE  i \in 1..Len(v) /\ i \notin (n + 1)..(n + q) /\ v[i] = w[i]
    BY <1>1, <1>2
  <2>2. ASSUME NEW i \in (n + 1)..(n + q)
        PROVE  i \in 1..Len(v) /\ i \notin 1..n /\ v[i] = p[i - n] /\ i - n \in 1..q
    BY <1>1, <1>2
  <2>3. \A i \in 1..Len(v) : i \in 1..n \/ i \in (n + 1)..(n + q)
    BY <1>1, <1>2
  <2> QED
    BY <2>1, <2>2, <2>3, <1>1
<1>5. /\ x \in Seq(Message) /\ y \in Seq(Message) /\ x \o p \in Seq(Message)
      /\ Len(x \o p) = Len(x) + q
      /\ \A i \in 1..Len(x \o p) : (x \o p)[i] = IF i <= Len(x) THEN x[i] ELSE p[i - Len(x)]
  <2>1. x \in Seq(Message) /\ y \in Seq(Message)
    BY <1>1, WithoutFacts
  <2> HIDE DEF x, y
  <2> QED
    BY <2>1, JoinFacts
<1> HIDE DEF v, n, q, I, J, c, x, y
<1>6. /\ IsFiniteSet(I) /\ c \in Nat
      /\ \A j \in 1..c : \E i \in I : Rank(I, i) = j
      /\ \A i \in I : Rank(I, i) \in 1..c
  BY <1>2, <1>4, RankFacts DEF c
<1>7. \A i \in I : Rank(J, i) = Rank(I, i)
  <2>1. ASSUME NEW i \in I
        PROVE  {k \in J : k <= i} = {k \in I : k <= i}
    <3>1. i \in 1..n /\ \A k \in (n + 1)..(n + q) : ~ (k <= i)
      BY <1>2, <1>4
    <3> QED
      BY <3>1, <1>4
  <2> QED
    BY <2>1 DEF Rank
<1>8. ASSUME NEW m \in Nat, m <= q
      PROVE  Cardinality(I \cup (n + 1)..(n + m)) = c + m
  <2>1. IsFiniteSet((n + 1)..(n + m)) /\ Cardinality((n + 1)..(n + m)) = m
    <3>1. n + 1 \in Int /\ n + m \in Int /\ (n + m) - (n + 1) + 1 = m
      BY <1>2
    <3>2. CASE m = 0
      <4>1. (n + 1)..(n + m) = {}
        BY <3>2, <1>2
      <4> QED
        BY <4>1, <3>2, FS_EmptySet
    <3>3. CASE m # 0
      <4>1. n + 1 <= n + m
        BY <3>3, <1>2
      <4> QED
        BY <4>1, <3>1, FS_Interval
    <3> QED
      BY <3>2, <3>3
  <2>2. I \cap (n + 1)..(n + m) = {}
    <3>1. \A i \in (n + 1)..(n + m) : i \in (n + 1)..(n + q)
      BY <1>2, <1>8
    <3> QED
      BY <3>1, <1>4
  <2>3. Cardinality(I \cup (n + 1)..(n + m)) = c + m - Cardinality(I \cap (n + 1)..(n + m))
    BY <2>1, <1>6, FS_Union DEF c
  <2>4. Cardinality(I \cap (n + 1)..(n + m)) = 0
    BY <2>2, FS_EmptySet
  <2> QED
    BY <2>3, <2>4, <1>6
<1>9. Cardinality(J) = c + q
  <2>1. J = I \cup (n + 1)..(n + q)
    BY <1>4
  <2>2. q <= q
    BY <1>2
  <2> QED
    BY <2>1, <2>2, <1>2, <1>8
<1>10. \A i \in (n + 1)..(n + q) : Rank(J, i) = c + (i - n)
  <2>1. SUFFICES ASSUME NEW i \in (n + 1)..(n + q) PROVE Rank(J, i) = c + (i - n)
    OBVIOUS
  <2>2. i - n \in Nat /\ i - n <= q /\ n + (i - n) = i
    BY <1>2
  <2>3. {k \in J : k <= i} = I \cup (n + 1)..(n + (i - n))
    <3>1. \A k \in I : k <= i
      BY <1>2, <1>4
    <3>2. \A k \in (n + 1)..(n + q) : k <= i <=> k \in (n + 1)..i
      BY <1>2
    <3>3. \A k \in (n + 1)..i : k \in (n + 1)..(n + q)
      BY <1>2
    <3> QED
      BY <3>1, <3>2, <3>3, <2>2, <1>4
  <2> QED
    BY <2>2, <2>3, <1>8 DEF Rank
<1>11. \A j \in 1..c : (CHOOSE i \in J : Rank(J, i) = j) = (CHOOSE i \in I : Rank(I, i) = j)
  <2>1. SUFFICES ASSUME NEW j \in 1..c
                 PROVE  (CHOOSE i \in J : Rank(J, i) = j) = (CHOOSE i \in I : Rank(I, i) = j)
    OBVIOUS
  <2>2. \A i \in (n + 1)..(n + q) : Rank(J, i) # j
    BY <1>2, <1>6, <1>10
  <2>3. \A i : (i \in J /\ Rank(J, i) = j) <=> (i \in I /\ Rank(I, i) = j)
    BY <2>2, <1>4, <1>7
  <2> QED
    BY <2>3, Zenon
<1>12. \A j \in 1..q : (CHOOSE i \in J : Rank(J, i) = c + j) = n + j
  <2>1. SUFFICES ASSUME NEW j \in 1..q
                 PROVE  (CHOOSE i \in J : Rank(J, i) = c + j) = n + j
    OBVIOUS
  <2>2. n + j \in (n + 1)..(n + q) /\ c + ((n + j) - n) = c + j
    BY <1>2, <1>6
  <2>3. n + j \in J /\ Rank(J, n + j) = c + j
    BY <2>2, <1>4, <1>10
  <2>4. ASSUME NEW i \in J, Rank(J, i) = c + j
        PROVE  i = n + j
    <3>1. i \notin I
      <4>1. ASSUME i \in I
            PROVE  FALSE
        <5>1. Rank(J, i) \in 1..c
          BY <4>1, <1>6, <1>7
        <5> QED
          BY <5>1, <2>4, <1>2, <1>6
      <4> QED
        BY <4>1
    <3>2. i \in (n + 1)..(n + q)
      BY <3>1, <1>4
    <3>3. c + (i - n) = c + j
      BY <3>2, <2>4, <1>10
    <3> QED
      BY <3>2, <3>3, <1>2, <1>6
  <2> QED
    BY <2>3, <2>4
<1>13. Len(x) = c /\ Len(y) = c + q
  BY <1>2, <1>3, <1>5, <1>6, <1>9
<1>14. ASSUME NEW j \in 1..(c + q)
       PROVE  y[j] = (x \o p)[j]
  <2>1. y[j] = v[CHOOSE i \in J : Rank(J, i) = j] /\ j \in 1..Len(x \o p)
    BY <1>3, <1>5, <1>9, <1>13
  <2>2. CASE j \in 1..c
    <3> DEFINE i == CHOOSE k \in I : Rank(I, k) = j
    <3>1. i \in I
      BY <2>2, <1>6
    <3>2. i \in 1..Len(v) /\ i <= n
      <4> HIDE DEF i
      <4> QED
        BY <3>1, <1>1, <1>2, <1>4
    <3>3. y[j] = v[i] /\ x[j] = w[i]
      BY <2>1, <2>2, <1>3, <1>11
    <3>4. (x \o p)[j] = x[j]
      BY <2>1, <2>2, <1>5, <1>13
    <3> HIDE DEF i
    <3> QED
      BY <3>2, <3>3, <3>4, <1>1
  <2>3. CASE j \notin 1..c
    <3>1. j - c \in 1..q /\ c + (j - c) = j /\ ~ (j <= c)
      BY <2>3, <1>2, <1>6
    <3>2. (CHOOSE i \in J : Rank(J, i) = j) = n + (j - c)
      BY <3>1, <1>12
    <3>3. n + (j - c) \in 1..Len(v) /\ ~ (n + (j - c) <= n) /\ (n + (j - c)) - n = j - c
      BY <3>1, <1>1, <1>2, <1>6
    <3>4. y[j] = p[j - c]
      BY <3>2, <3>3, <2>1, <1>1
    <3> QED
      BY <3>1, <3>4, <2>1, <1>5, <1>13
  <2> QED
    BY <2>2, <2>3
<1>15. x \o p = y
  BY <1>5, <1>13, <1>14, SeqEqual
<1> QED
  BY <1>15 DEF x, y, v

-----------------------------------------------------------------------------
(* Moving along the wire.                                                  *)

\* Dropping messages that are not events leaves the issue at the places of the
\* others what it was.
LEMMA ChainKept ==
  ASSUME NEW w \in Seq(Message), NEW I \in SUBSET (1..Len(w)),
         \A i \in 1..Len(w) : w[i].kind = "event" => i \in I,
         NEW z, NEW st, NEW last, Chain(w, st, last, z)
  PROVE  \E h \in [1..Len(Kept(w, I)) -> 1..Len(w)], t \in [0..Len(Kept(w, I)) -> Issue] :
            /\ \A j \in 1..Len(Kept(w, I)) :
                  Kept(w, I)[j] = w[h[j]] /\ h[j] \in I /\ t[j] = st[h[j]]
            /\ \A i, j \in 1..Len(Kept(w, I)) : i < j => h[i] < h[j]
            /\ \A i \in I : \E j \in 1..Len(Kept(w, I)) : h[j] = i
            /\ t[0] = st[0]
            /\ Chain(Kept(w, I), t, last, z)
<1> DEFINE v == Kept(w, I)
<1>1. v \in Seq(Message)
  BY KeptFacts
<1>2. PICK h \in [1..Len(v) -> 1..Len(w)] :
         /\ \A j \in 1..Len(v) : v[j] = w[h[j]] /\ h[j] \in I
         /\ \A i, j \in 1..Len(v) : i < j => h[i] < h[j]
         /\ \A i \in I : \E j \in 1..Len(v) : h[j] = i
  BY KeptFacts
<1> HIDE DEF v
<1> DEFINE g == [j \in 0..Len(v) |-> IF j = 0 THEN 0 ELSE h[j]]
           t == [j \in 0..Len(v) |-> st[g[j]]]
<1>3. Len(v) \in Nat /\ Len(w) \in Nat
  BY <1>1
<1>4. /\ g \in [0..Len(v) -> 0..Len(w)] /\ g[0] = 0
      /\ \A j \in 1..Len(v) : g[j] = h[j] /\ g[j] > 0 /\ v[j] = w[g[j]]
  BY <1>2, <1>3
<1>5. \A i, j \in 0..Len(v) : i < j => g[i] < g[j]
  BY <1>2, <1>3, <1>4
<1>6. \A i \in 1..Len(w) : w[i].kind = "event" => \E j \in 1..Len(v) : g[j] = i
  BY <1>2, <1>4
<1> HIDE DEF g
<1>7. st \in [0..Len(w) -> Issue] /\ st[Len(w)] = last /\ Steady(w, st) /\ Shows(w, st, z)
  BY DEF Chain
<1>8. t \in [0..Len(v) -> Issue] /\ t[0] = st[0]
  BY <1>3, <1>4, <1>7
<1>9. \A j \in 0..Len(v) : t[j] = st[g[j]]
  OBVIOUS
<1> HIDE DEF t
\* Between two kept places that follow each other nothing changes the issue.
<1>10. ASSUME NEW i \in 0..Len(v), NEW l \in 0..Len(w), g[i] <= l,
              \A k \in 1..Len(v) : i < k /\ g[k] <= l => v[k].kind # "event"
       PROVE  st[l] = st[g[i]]
  <2>1. ASSUME NEW k \in 1..Len(w), g[i] < k, k <= l, w[k].kind = "event"
        PROVE  FALSE
    <3>1. PICK j \in 1..Len(v) : g[j] = k
      BY <2>1, <1>6
    <3>2. v[j].kind = "event"
      BY <3>1, <2>1, <1>4
    <3>3. i < j
      <4>1. j \in 0..Len(v) /\ (j < i => g[j] < g[i])
        BY <1>3, <1>5
      <4> QED
        BY <4>1, <3>1, <2>1, <1>3, <1>4
    <3> QED
      BY <3>1, <3>2, <3>3, <2>1, <1>10
  <2>2. g[i] \in 0..Len(w)
    BY <1>4
  <2> QED
    BY <2>1, <2>2, <1>7, <1>10 DEF Steady
<1>11. t[Len(v)] = last
  <2>1. Len(v) \in 0..Len(v) /\ Len(w) \in 0..Len(w) /\ g[Len(v)] <= Len(w)
    BY <1>3, <1>4
  <2>2. \A k \in 1..Len(v) : ~ (Len(v) < k)
    BY <1>3
  <2>3. st[Len(w)] = st[g[Len(v)]]
    BY <2>1, <2>2, <1>10
  <2> QED
    BY <2>1, <2>3, <1>7, <1>9
<1>12. Steady(v, t)
  <2>1. SUFFICES ASSUME NEW i \in 0..Len(v), NEW j \in 0..Len(v), i <= j,
                        \A k \in 1..Len(v) : i < k /\ k <= j => v[k].kind # "event"
                 PROVE  t[i] = t[j]
    BY DEF Steady
  <2>2. g[j] \in 0..Len(w) /\ g[i] \in 0..Len(w) /\ g[i] <= g[j]
    BY <2>1, <1>3, <1>4, <1>5
  <2>3. ASSUME NEW k \in 1..Len(v), g[k] <= g[j]
        PROVE  k <= j
    <3>1. k \in 0..Len(v) /\ g[k] \in 0..Len(w) /\ (j < k => g[j] < g[k])
      BY <1>3, <1>4, <1>5
    <3> QED
      BY <3>1, <2>2, <2>3, <1>3
  <2>4. st[g[j]] = st[g[i]]
    BY <2>1, <2>2, <2>3, <1>10
  <2> QED
    BY <2>4, <1>9
<1>13. Shows(v, t, z)
  <2>1. SUFFICES ASSUME NEW j \in 1..Len(v)
                 PROVE  /\ v[j].kind = "event" =>
                             v[j].issue = t[j] /\ (z \/ Tells(v[j].dims, t[j - 1], t[j]))
                        /\ v[j].kind = "list" => v[j].view = View(t[j])
                        /\ v[j].kind = "detail" => v[j].issue = t[j]
    BY DEF Shows
  <2>2. /\ j \in 0..Len(v) /\ j - 1 \in 0..Len(v)
        /\ g[j] \in 1..Len(w) /\ g[j] - 1 \in 0..Len(w) /\ g[j - 1] \in 0..Len(w)
        /\ g[j - 1] <= g[j] - 1
    <3>1. j \in 0..Len(v) /\ j - 1 \in 0..Len(v) /\ j - 1 < j
      BY <1>3
    <3>2. g[j] \in 0..Len(w) /\ g[j - 1] \in 0..Len(w) /\ g[j - 1] < g[j] /\ g[j] > 0
      BY <3>1, <1>4, <1>5
    <3> QED
      BY <3>1, <3>2, <1>3
  <2>3. ASSUME NEW k \in 1..Len(v), j - 1 < k, g[k] <= g[j] - 1
        PROVE  FALSE
    <3>1. k \in 0..Len(v) /\ g[k] \in 0..Len(w) /\ (j < k => g[j] < g[k])
      <4>1. k \in 0..Len(v)
        BY <1>3
      <4> QED
        BY <4>1, <2>2, <1>4, <1>5
    <3>2. k = j \/ j < k
      BY <2>3, <1>3
    <3> QED
      BY <3>1, <3>2, <2>2, <2>3, <1>3
  <2>4. st[g[j] - 1] = st[g[j - 1]]
    BY <2>2, <2>3, <1>10
  <2>5. t[j] = st[g[j]] /\ t[j - 1] = st[g[j] - 1] /\ v[j] = w[g[j]]
    BY <2>2, <2>4, <1>4, <1>9
  <2> QED
    BY <2>2, <2>5, <1>7 DEF Shows
<1>14. Chain(v, t, last, z)
  BY <1>8, <1>11, <1>12, <1>13 DEF Chain
<1>15. \A j \in 1..Len(v) : t[j] = st[h[j]]
  BY <1>3, <1>4, <1>9
<1> QED
  BY <1>2, <1>8, <1>14, <1>15 DEF v

\* A message is taken from the head of the wire: the issue is then what it was
\* after that message, and the cache follows what is left if it follows it there.
LEMMA HeadTaken ==
  ASSUME NEW w \in Seq(Message), 1 \in 1..Len(w), NEW rest \in Seq(Message),
         Len(rest) = Len(w) - 1, \A j \in 1..(Len(w) - 1) : rest[j] = w[j + 1],
         NEW z, NEW st, NEW last, Chain(w, st, last, z)
  PROVE  LET t == [j \in 0..Len(rest) |-> st[j + 1]]
         IN  /\ Chain(rest, t, last, z) /\ t[0] = st[1]
             /\ \A j \in 0..Len(rest) : t[j] = st[j + 1]
             /\ st[0] \in Issue /\ st[1] \in Issue
             /\ w[1].kind # "event" => st[1] = st[0]
             /\ \A k : \A i \in 0..Len(rest) : Waits(rest, k, i) <=> Waits(w, k, i + 1)
<1> DEFINE t == [j \in 0..Len(rest) |-> st[j + 1]]
<1>1. Len(w) \in Nat /\ Len(rest) \in Nat /\ Len(w) = Len(rest) + 1
  OBVIOUS
<1>2. st \in [0..Len(w) -> Issue] /\ st[Len(w)] = last /\ Steady(w, st) /\ Shows(w, st, z)
  BY DEF Chain
<1>3. \A j \in 0..Len(rest) : j + 1 \in 0..Len(w) /\ j + 1 \in 1..Len(w) /\ t[j] = st[j + 1]
  BY <1>1
<1>4. t \in [0..Len(rest) -> Issue]
  BY <1>2, <1>3
<1>5. \A j \in 1..Len(rest) :
         j + 1 \in 1..Len(w) /\ j - 1 \in 0..Len(rest) /\ j \in 0..Len(rest) /\ rest[j] = w[j + 1]
  BY <1>1
<1> HIDE DEF t
<1>6. t[Len(rest)] = last /\ t[0] = st[1]
  BY <1>1, <1>2, <1>3
<1>7. Steady(rest, t)
  <2>1. SUFFICES ASSUME NEW i \in 0..Len(rest), NEW j \in 0..Len(rest), i <= j,
                        \A k \in 1..Len(rest) : i < k /\ k <= j => rest[k].kind # "event"
                 PROVE  t[i] = t[j]
    BY DEF Steady
  <2>2. ASSUME NEW k \in 1..Len(w), i + 1 < k, k <= j + 1
        PROVE  w[k].kind # "event"
    <3>1. k - 1 \in 1..Len(rest) /\ i < k - 1 /\ k - 1 <= j /\ (k - 1) + 1 = k
      BY <2>2, <1>1
    <3> QED
      BY <3>1, <2>1, <1>5
  <2>3. i + 1 <= j + 1 /\ i + 1 \in 0..Len(w) /\ j + 1 \in 0..Len(w)
    BY <2>1, <1>1
  <2>4. st[i + 1] = st[j + 1]
    BY <2>2, <2>3, <1>2 DEF Steady
  <2> QED
    BY <2>4, <1>3
<1>8. Shows(rest, t, z)
  <2>1. SUFFICES ASSUME NEW j \in 1..Len(rest)
                 PROVE  /\ rest[j].kind = "event" =>
                             rest[j].issue = t[j] /\ (z \/ Tells(rest[j].dims, t[j - 1], t[j]))
                        /\ rest[j].kind = "list" => rest[j].view = View(t[j])
                        /\ rest[j].kind = "detail" => rest[j].issue = t[j]
    BY DEF Shows
  <2>2. j \in Nat /\ (j - 1) + 1 = j /\ (j + 1) - 1 = j
    BY <1>1
  <2>3. t[j] = st[j + 1] /\ t[j - 1] = st[(j + 1) - 1] /\ rest[j] = w[j + 1]
    BY <2>2, <1>3, <1>5
  <2> QED
    BY <2>3, <1>2, <1>5 DEF Shows
<1>9. st[0] \in Issue /\ st[1] \in Issue
  BY <1>1, <1>2
<1>10. w[1].kind # "event" => st[1] = st[0]
  <2>1. SUFFICES ASSUME w[1].kind # "event" PROVE st[0] = st[1]
    OBVIOUS
  <2>2. 0 \in 0..Len(w) /\ 1 \in 0..Len(w) /\ 0 <= 1
    BY <1>1
  <2>3. \A k \in 1..Len(w) : 0 < k /\ k <= 1 => w[k].kind # "event"
    <3>1. \A k \in 1..Len(w) : k <= 1 => k = 1
      BY <1>1
    <3> QED
      BY <3>1, <2>1
  <2> QED
    BY <2>2, <2>3, <1>2 DEF Steady
<1>11. ASSUME NEW k, NEW i \in 0..Len(rest)
       PROVE  Waits(rest, k, i) <=> Waits(w, k, i + 1)
  <2>1. ASSUME NEW j \in 1..Len(rest), j > i, rest[j].kind = k
        PROVE  Waits(w, k, i + 1)
    <3>1. j + 1 \in 1..Len(w) /\ j + 1 > i + 1 /\ w[j + 1].kind = k
      BY <2>1, <1>1, <1>5
    <3> QED
      BY <3>1 DEF Waits
  <2>2. ASSUME NEW j \in 1..Len(w), j > i + 1, w[j].kind = k
        PROVE  Waits(rest, k, i)
    <3>1. j - 1 \in 1..Len(rest) /\ j - 1 > i /\ (j - 1) + 1 = j
      BY <2>2, <1>1
    <3>2. rest[j - 1].kind = k
      BY <3>1, <2>2, <1>5
    <3> QED
      BY <3>1, <3>2 DEF Waits
  <2> QED
    BY <2>1, <2>2 DEF Waits
<1>12. Chain(rest, t, last, z)
  BY <1>4, <1>6, <1>7, <1>8 DEF Chain
<1> QED
  BY <1>3, <1>6, <1>9, <1>10, <1>11, <1>12 DEF t

\* Nothing on the wire changes the issue any more.
LEMMA FollowsStill ==
  ASSUME NEW w \in Seq(Message), NEW k \in Issue, NEW f, NEW l, NEW d, NEW df, NEW mu, NEW z,
         \A i \in 1..Len(w) :
            /\ w[i].kind \in {"event", "answer"}
            /\ w[i].kind = "event" => w[i].issue = k /\ df # "asked"
            /\ w[i].kind = "answer" =>
                  w[i].issue = k \/ (f = "asked" /\ (d = None \/ df = "asked")),
         d \in {None, k} \/ df = "asked",
         ListFollows(w, k, f, l, mu, z)
  PROVE  Follows(w, k, f, l, d, df, mu, z)
<1> DEFINE st == [j \in 0..Len(w) |-> k]
<1>1. Len(w) \in Nat
  OBVIOUS
<1>2. st \in [0..Len(w) -> Issue]
  OBVIOUS
<1>3. \A j \in 0..Len(w) : st[j] = k
  OBVIOUS
<1>4. \A j \in 1..Len(w) : j \in 0..Len(w) /\ j - 1 \in 0..Len(w)
  BY <1>1
<1> HIDE DEF st
<1>5. st[Len(w)] = k /\ st[0] = k
  BY <1>1, <1>3
<1>6. Steady(w, st)
  BY <1>3 DEF Steady
<1>7. Shows(w, st, z)
  BY <1>3, <1>4 DEF Shows, Tells
<1>8. Chain(w, st, k, z)
  BY <1>2, <1>5, <1>6, <1>7 DEF Chain
<1>9. Answers(w, st, f, d, df)
  BY <1>3, <1>4 DEF Answers
<1>10. Judged(w, df)
  BY DEF Judged, Waits
<1> QED
  BY <1>2, <1>5, <1>8, <1>9, <1>10 DEF Follows, DetailFollows

\* The list is read again: the messages of its last request are dropped.
LEMMA FollowsAsked ==
  ASSUME NEW w \in Seq(Message), NEW last, NEW f, NEW l, NEW d, NEW df, NEW mu, NEW z,
         Follows(w, last, f, l, d, df, mu, z), NEW l2, NEW mu2
  PROVE  Follows(Without("list", w), last, "asked", l2, d, df, mu2, z)
<1> DEFINE I == {i \in 1..Len(w) : w[i].kind # "list"}
           v == Kept(w, I)
<1>1. PICK st \in [0..Len(w) -> Issue] :
         /\ Chain(w, st, last, z)
         /\ Answers(w, st, f, d, df)
         /\ DetailFollows(w, st[0], d, df)
  BY DEF Follows
<1>2. Judged(w, df)
  BY DEF Follows
<1>3. PICK h \in [1..Len(v) -> 1..Len(w)], t \in [0..Len(v) -> Issue] :
         /\ \A j \in 1..Len(v) : v[j] = w[h[j]] /\ h[j] \in I /\ t[j] = st[h[j]]
         /\ \A i, j \in 1..Len(v) : i < j => h[i] < h[j]
         /\ \A i \in I : \E j \in 1..Len(v) : h[j] = i
         /\ t[0] = st[0]
         /\ Chain(v, t, last, z)
  BY <1>1, ChainKept
<1>4. v \in Seq(Message)
  BY KeptFacts
<1>5. \A i \in 1..Len(w) : w[i].kind = "detail" => \E j \in 1..Len(v) : h[j] = i
  BY <1>3
<1>6. Without("list", w) = v
  BY DEF Without
<1> HIDE DEF I, v
<1>7. Len(v) \in Nat /\ Len(w) \in Nat
  BY <1>4
<1>8. ASSUME NEW j \in 1..Len(v)
      PROVE  Waits(v, "detail", j) <=> Waits(w, "detail", h[j])
  <2>1. ASSUME NEW i \in 1..Len(v), i > j, v[i].kind = "detail"
        PROVE  Waits(w, "detail", h[j])
    <3>1. h[i] \in 1..Len(w) /\ h[i] > h[j] /\ w[h[i]].kind = "detail"
      BY <2>1, <1>3, <1>7
    <3> QED
      BY <3>1 DEF Waits
  <2>2. ASSUME NEW l3 \in 1..Len(w), l3 > h[j], w[l3].kind = "detail"
        PROVE  Waits(v, "detail", j)
    <3>1. PICK i \in 1..Len(v) : h[i] = l3
      BY <2>2, <1>5
    <3>2. i > j
      <4>1. i \in Nat /\ j \in Nat /\ h[i] \in Nat /\ h[j] \in Nat
        BY <1>7
      <4>2. i < j => h[i] < h[j]
        BY <1>3
      <4>3. i = j => h[i] = h[j]
        OBVIOUS
      <4> QED
        BY <4>1, <4>2, <4>3, <3>1, <2>2
    <3>3. v[i].kind = "detail"
      BY <3>1, <2>2, <1>3
    <3> QED
      BY <3>2, <3>3 DEF Waits
  <2> QED
    BY <2>1, <2>2 DEF Waits
<1>9. Waits(w, "detail", 0) => Waits(v, "detail", 0)
  <2>1. ASSUME NEW i \in 1..Len(w), w[i].kind = "detail"
        PROVE  Waits(v, "detail", 0)
    <3>1. PICK j \in 1..Len(v) : h[j] = i
      BY <2>1, <1>5
    <3>2. v[j].kind = "detail" /\ j > 0
      BY <3>1, <2>1, <1>3, <1>7
    <3> QED
      BY <3>2 DEF Waits
  <2> QED
    BY <2>1 DEF Waits
<1>10. Answers(v, t, "asked", d, df)
  <2>1. SUFFICES ASSUME NEW j \in 1..Len(v), v[j].kind = "answer"
                 PROVE  v[j].issue = t[j] \/ d = None \/ df = "asked" \/ Waits(v, "detail", j)
    BY DEF Answers
  <2>2. w[h[j]].kind = "answer" /\ h[j] \in 1..Len(w) /\ v[j] = w[h[j]] /\ t[j] = st[h[j]]
    BY <2>1, <1>3
  <2>3. \/ w[h[j]].issue = st[h[j]] \/ d = None \/ df = "asked"
        \/ Waits(w, "detail", h[j])
    BY <2>2, <1>1 DEF Answers
  <2> QED
    BY <2>2, <2>3, <1>8
<1>11. Judged(v, df)
  <2>1. SUFFICES ASSUME NEW j \in 1..Len(v), v[j].kind = "event"
                 PROVE  df # "asked" /\ ~Waits(v, "detail", j)
    BY DEF Judged
  <2>2. h[j] \in 1..Len(w) /\ w[h[j]].kind = "event"
    BY <2>1, <1>3
  <2>3. df # "asked" /\ ~Waits(w, "detail", h[j])
    BY <2>2, <1>2 DEF Judged
  <2> QED
    BY <2>3, <1>8
<1>12. DetailFollows(v, t[0], d, df)
  BY <1>1, <1>3, <1>9 DEF DetailFollows
<1>13. ListFollows(v, t[0], "asked", l2, mu2, z)
  BY DEF ListFollows
<1> QED
  BY <1>3, <1>6, <1>10, <1>11, <1>12, <1>13 DEF Follows

\* The server sends an event, or answers one of the requests.
LEMMA FollowsSent ==
  ASSUME NEW w \in Seq(Message), NEW last, NEW f, NEW l, NEW d, NEW df, NEW mu, NEW z,
         Follows(w, last, f, l, d, df, mu, z),
         NEW msg \in Message, NEW new \in Issue, NEW f2, NEW df2,
         msg.kind # "answer",
         msg.kind = "event" => 
            msg.issue = new /\ (z \/ Tells(msg.dims, last, new)) /\ df # "asked",
         msg.kind # "event" => new = last,
         msg.kind = "list" => msg.view = View(last),
         msg.kind = "detail" => msg.issue = last /\ df = "asked",
         f2 = f \/ msg.kind = "list",
         df2 = df \/ (msg.kind = "detail" /\ df2 # "asked")
  PROVE  Follows(Append(w, msg), new, f2, l, d, df2, mu, z)
<1> DEFINE v == Append(w, msg)
           n == Len(w)
<1>1. PICK st \in [0..n -> Issue] :
         /\ Chain(w, st, last, z)
         /\ Answers(w, st, f, d, df)
         /\ DetailFollows(w, st[0], d, df)
         /\ ListFollows(w, st[0], f, l, mu, z)
  BY DEF Follows
<1>2. Judged(w, df)
  BY DEF Follows
<1>3. /\ v \in Seq(Message) /\ n \in Nat /\ Len(v) = n + 1
      /\ v[n + 1] = msg /\ \A j \in 1..n : v[j] = w[j]
  OBVIOUS
<1> HIDE DEF v
<1> DEFINE t == [j \in 0..(n + 1) |-> IF j = n + 1 THEN new ELSE st[j]]
<1>4. t \in [0..Len(v) -> Issue]
  BY <1>1, <1>3
<1>5. /\ t[n + 1] = new /\ t[0] = st[0] /\ t[n] = last
      /\ \A j \in 0..n : t[j] = st[j]
  BY <1>1, <1>3 DEF Chain
<1> HIDE DEF t
<1>6. \A k : \A j \in 0..n : Waits(w, k, j) => Waits(v, k, j)
  <2>1. SUFFICES ASSUME NEW k, NEW j \in 0..n, NEW i \in 1..n, i > j, w[i].kind = k
                 PROVE  Waits(v, k, j)
    BY DEF Waits
  <2>2. i \in 1..Len(v) /\ v[i].kind = k
    BY <2>1, <1>3
  <2> QED
    BY <2>1, <2>2 DEF Waits
<1>7. \A k : \A j \in 0..n : msg.kind = k => Waits(v, k, j)
  <2>1. SUFFICES ASSUME NEW k, NEW j \in 0..n, msg.kind = k PROVE Waits(v, k, j)
    OBVIOUS
  <2>2. n + 1 \in 1..Len(v) /\ n + 1 > j /\ v[n + 1].kind = k
    BY <2>1, <1>3
  <2> QED
    BY <2>2 DEF Waits
<1>8. \A j \in 1..Len(v) : j \in 1..n \/ j = n + 1
  BY <1>3
<1>9. Steady(v, t)
  <2>1. SUFFICES ASSUME NEW i \in 0..Len(v), NEW j \in 0..Len(v), i <= j,
                        \A k \in 1..Len(v) : i < k /\ k <= j => v[k].kind # "event"
                 PROVE  t[i] = t[j]
    BY DEF Steady
  <2>2. ASSUME NEW a \in 0..n, i <= a, a <= j
        PROVE  i \in 0..n /\ st[i] = st[a]
    <3>1. i \in 0..n
      BY <2>2, <1>3
    <3>2. ASSUME NEW k \in 1..n, i < k, k <= a
          PROVE  w[k].kind # "event"
      <4>1. k \in 1..Len(v) /\ k <= j /\ v[k] = w[k]
        BY <2>2, <3>2, <1>3
      <4> QED
        BY <4>1, <3>2, <2>1
    <3> QED
      BY <3>1, <3>2, <2>2, <1>1 DEF Chain, Steady
  <2>3. CASE j \in 0..n
    <3>1. j <= j
      BY <1>3
    <3> QED
      BY <3>1, <2>1, <2>2, <2>3, <1>5
  <2>4. CASE j = n + 1 /\ i = n + 1
    BY <2>4
  <2>5. CASE j = n + 1 /\ i \in 0..n
    <3>1. n \in 0..n /\ i <= n /\ n <= j
      BY <2>5, <1>3
    <3>2. st[i] = st[n]
      BY <3>1, <2>2
    <3>3. msg.kind # "event"
      <4>1. n + 1 \in 1..Len(v) /\ i < n + 1 /\ n + 1 <= j
        BY <2>5, <1>3
      <4> QED
        BY <4>1, <2>1, <1>3
    <3> QED
      BY <3>1, <3>2, <3>3, <2>5, <1>5
  <2>6. (j \in 0..n \/ j = n + 1) /\ (i \in 0..n \/ i = n + 1)
    BY <1>3
  <2> QED
    BY <2>1, <2>3, <2>4, <2>5, <2>6, <1>3
<1>10. Shows(v, t, z)
  <2>1. SUFFICES ASSUME NEW j \in 1..Len(v)
                 PROVE  /\ v[j].kind = "event" =>
                             v[j].issue = t[j] /\ (z \/ Tells(v[j].dims, t[j - 1], t[j]))
                        /\ v[j].kind = "list" => v[j].view = View(t[j])
                        /\ v[j].kind = "detail" => v[j].issue = t[j]
    BY DEF Shows
  <2>2. CASE j \in 1..n
    <3>1. j \in 0..n /\ j - 1 \in 0..n
      BY <2>2, <1>3
    <3>2. v[j] = w[j] /\ t[j] = st[j] /\ t[j - 1] = st[j - 1]
      BY <3>1, <2>2, <1>3, <1>5
    <3> QED
      BY <3>2, <2>2, <1>1 DEF Chain, Shows
  <2>3. CASE j = n + 1
    <3>1. (n + 1) - 1 = n
      BY <1>3
    <3>2. v[j] = msg /\ t[j] = new /\ t[j - 1] = last
      BY <3>1, <2>3, <1>3, <1>5
    <3> QED
      BY <3>2
  <2> QED
    BY <2>2, <2>3, <1>8
<1>11. Chain(v, t, new, z)
  BY <1>3, <1>4, <1>5, <1>9, <1>10 DEF Chain
<1>12. Answers(v, t, f2, d, df2)
  <2>1. SUFFICES ASSUME NEW j \in 1..Len(v), v[j].kind = "answer"
                 PROVE  /\ v[j].issue = t[j] \/ f2 = "asked" \/ Waits(v, "list", j)
                        /\ \/ v[j].issue = t[j] \/ d = None
                           \/ df2 = "asked" \/ Waits(v, "detail", j)
    BY DEF Answers
  <2>2. j \in 1..n /\ j \in 0..n
    BY <2>1, <1>3, <1>8
  <2>3. v[j] = w[j] /\ t[j] = st[j]
    BY <2>2, <1>3, <1>5
  <2>4. /\ w[j].issue = st[j] \/ f = "asked" \/ Waits(w, "list", j)
        /\ w[j].issue = st[j] \/ d = None \/ df = "asked" \/ Waits(w, "detail", j)
    BY <2>1, <2>2, <2>3, <1>1 DEF Answers
  <2>5. f = "asked" => f2 = "asked" \/ Waits(v, "list", j)
    BY <2>2, <1>7
  <2>6. df = "asked" => df2 = "asked" \/ Waits(v, "detail", j)
    BY <2>2, <1>7
  <2> QED
    BY <2>2, <2>3, <2>4, <2>5, <2>6, <1>6
<1>13. Judged(v, df2)
  <2>1. SUFFICES ASSUME NEW j \in 1..Len(v), v[j].kind = "event"
                 PROVE  df2 # "asked" /\ ~Waits(v, "detail", j)
    BY DEF Judged
  <2>2. CASE j \in 1..n
    <3>1. w[j].kind = "event" /\ df # "asked" /\ ~Waits(w, "detail", j)
      BY <2>1, <2>2, <1>2, <1>3 DEF Judged
    <3>2. msg.kind # "detail" /\ df2 = df
      BY <3>1
    <3>3. ASSUME NEW i \in 1..Len(v), i > j, v[i].kind = "detail"
          PROVE  FALSE
      <4>1. i \in 1..n /\ w[i].kind = "detail"
        BY <3>2, <3>3, <1>3, <1>8
      <4> QED
        BY <4>1, <3>1, <3>3 DEF Waits
    <3> QED
      BY <3>1, <3>2, <3>3 DEF Waits
  <2>3. CASE j = n + 1
    <3>1. msg.kind = "event" /\ df2 = df /\ df # "asked"
      BY <2>1, <2>3, <1>3
    <3>2. \A i \in 1..Len(v) : ~ (i > j)
      BY <2>3, <1>3
    <3> QED
      BY <3>1, <3>2 DEF Waits
  <2> QED
    BY <2>2, <2>3, <1>8
<1>14. 0 \in 0..n
  BY <1>3
<1>15. DetailFollows(v, t[0], d, df2)
  BY <1>1, <1>5, <1>6, <1>7, <1>14 DEF DetailFollows
<1>16. Marked(w, mu) => Marked(v, mu)
  <2>1. \A j \in 1..n : j \in 1..Len(v) /\ v[j] = w[j]
    BY <1>3
  <2> QED
    BY <2>1 DEF Marked
<1>17. ListFollows(v, t[0], f2, l, mu, z)
  BY <1>1, <1>5, <1>6, <1>7, <1>14, <1>16 DEF ListFollows
<1> QED
  BY <1>4, <1>11, <1>12, <1>13, <1>15, <1>17 DEF Follows, v

\* The head of the wire arrives: what the cache was told of before it, what the
\* message says, and what the cache must be to follow the rest.
Heard(w, rest, f, l, d, df, mu, old, new, z) ==
    /\ w[1].kind # "event" => new = old
    /\ w[1].kind = "event" =>
          /\ w[1].issue = new /\ (z \/ Tells(w[1].dims, old, new))
          /\ d \in {None, old} /\ df # "asked"
    /\ w[1].kind = "answer" =>
          /\ w[1].issue = new \/ f = "asked" \/ Waits(rest, "list", 0)
          /\ w[1].issue = new \/ d = None \/ df = "asked" \/ Waits(rest, "detail", 0)
    /\ w[1].kind = "list" => w[1].view = View(new)
    /\ w[1].kind = "detail" => w[1].issue = new
    /\ DetailFollows(w, old, d, df)
    /\ ListFollows(w, old, f, l, mu, z)

\* A message that is taken leaves a cache that follows the rest of the wire.
LEMMA FollowsTaken ==
  ASSUME NEW w \in Seq(Message), 1 \in 1..Len(w), NEW rest \in Seq(Message),
         Len(rest) = Len(w) - 1, \A j \in 1..(Len(w) - 1) : rest[j] = w[j + 1],
         NEW last, NEW f, NEW l, NEW d, NEW df, NEW mu, NEW z,
         Follows(w, last, f, l, d, df, mu, z)
  PROVE  /\ \A k : w[1].kind # k /\ Waits(w, k, 0) => Waits(rest, k, 0)
         /\ Marked(w, mu) => Marked(rest, mu) \/ (w[1].kind = "answer" /\ mu[w[1].of].stale)
         /\ \E old \in Issue, new \in Issue :
            /\ Heard(w, rest, f, l, d, df, mu, old, new, z)
            /\ \A f2, l2, d2, df2, mu2 :
                  /\ f = "asked" => f2 = "asked"
                  /\ d = None => d2 = None
                  /\ df = "asked" <=> df2 = "asked"
                  /\ DetailFollows(rest, new, d2, df2)
                  /\ ListFollows(rest, new, f2, l2, mu2, z)
                  => Follows(rest, last, f2, l2, d2, df2, mu2, z)
<1>1. PICK st \in [0..Len(w) -> Issue] :
         /\ Chain(w, st, last, z)
         /\ Answers(w, st, f, d, df)
         /\ DetailFollows(w, st[0], d, df)
         /\ ListFollows(w, st[0], f, l, mu, z)
  BY DEF Follows
<1>2. Judged(w, df)
  BY DEF Follows
<1> DEFINE t == [j \in 0..Len(rest) |-> st[j + 1]]
<1>3. /\ Chain(rest, t, last, z) /\ t[0] = st[1]
      /\ \A j \in 0..Len(rest) : t[j] = st[j + 1]
      /\ st[0] \in Issue /\ st[1] \in Issue
      /\ w[1].kind # "event" => st[1] = st[0]
      /\ \A k : \A i \in 0..Len(rest) : Waits(rest, k, i) <=> Waits(w, k, i + 1)
  BY <1>1, HeadTaken
<1> HIDE DEF t
<1>4. Len(w) \in Nat /\ Len(rest) \in Nat /\ Len(w) = Len(rest) + 1 /\ 0 \in 0..Len(rest)
  OBVIOUS
<1>5. \A k : Waits(rest, k, 0) <=> Waits(w, k, 1)
  BY <1>3, <1>4
<1>6. \A k : w[1].kind # k /\ Waits(w, k, 0) => Waits(w, k, 1)
  <2>1. SUFFICES ASSUME NEW k, w[1].kind # k, NEW j \in 1..Len(w), w[j].kind = k
                 PROVE  Waits(w, k, 1)
    BY DEF Waits
  <2>2. j > 1
    BY <2>1, <1>4
  <2> QED
    BY <2>1, <2>2 DEF Waits
<1>7. Heard(w, rest, f, l, d, df, mu, st[0], st[1], z)
  <2>1. /\ w[1].kind = "list" => w[1].view = View(st[1])
        /\ w[1].kind = "detail" => w[1].issue = st[1]
        /\ w[1].kind = "event" => w[1].issue = st[1] /\ (z \/ Tells(w[1].dims, st[0], st[1]))
    <3>1. 1 - 1 = 0
      OBVIOUS
    <3> QED
      BY <3>1, <1>1 DEF Chain, Shows
  <2>2. w[1].kind = "event" => d \in {None, st[0]} /\ df # "asked"
    BY <1>1, <1>2, <1>6 DEF Judged, DetailFollows
  <2>3. w[1].kind = "answer" =>
          /\ w[1].issue = st[1] \/ f = "asked" \/ Waits(rest, "list", 0)
          /\ w[1].issue = st[1] \/ d = None \/ df = "asked" \/ Waits(rest, "detail", 0)
    BY <1>1, <1>5 DEF Answers
  <2> QED
    BY <1>1, <1>3, <2>1, <2>2, <2>3 DEF Heard
<1>8. ASSUME NEW f2, NEW l2, NEW d2, NEW df2, NEW mu2,
             f = "asked" => f2 = "asked",
             d = None => d2 = None,
             df = "asked" <=> df2 = "asked",
             DetailFollows(rest, st[1], d2, df2),
             ListFollows(rest, st[1], f2, l2, mu2, z)
      PROVE  Follows(rest, last, f2, l2, d2, df2, mu2, z)
  <2>1. \A j \in 1..Len(rest) :
          /\ j \in 0..Len(rest) /\ j + 1 \in 1..Len(w)
          /\ rest[j] = w[j + 1] /\ t[j] = st[j + 1]
    BY <1>3, <1>4
  <2>2. Answers(rest, t, f2, d2, df2)
    <3>1. SUFFICES ASSUME NEW j \in 1..Len(rest), rest[j].kind = "answer"
                   PROVE  /\ rest[j].issue = t[j] \/ f2 = "asked" \/ Waits(rest, "list", j)
                          /\ \/ rest[j].issue = t[j] \/ d2 = None
                             \/ df2 = "asked" \/ Waits(rest, "detail", j)
      BY DEF Answers
    <3>2. /\ \/ w[j + 1].issue = st[j + 1] \/ f = "asked" \/ Waits(w, "list", j + 1)
          /\ \/ w[j + 1].issue = st[j + 1] \/ d = None
             \/ df = "asked" \/ Waits(w, "detail", j + 1)
      BY <3>1, <2>1, <1>1 DEF Answers
    <3> QED
      BY <3>2, <2>1, <1>3, <1>8
  <2>3. Judged(rest, df2)
    <3>1. SUFFICES ASSUME NEW j \in 1..Len(rest), rest[j].kind = "event"
                   PROVE  df2 # "asked" /\ ~Waits(rest, "detail", j)
      BY DEF Judged
    <3>2. df # "asked" /\ ~Waits(w, "detail", j + 1)
      BY <3>1, <2>1, <1>2 DEF Judged
    <3> QED
      BY <3>2, <2>1, <1>3, <1>8
  <2>4. t \in [0..Len(rest) -> Issue]
    BY <1>3 DEF Chain
  <2> QED
    BY <2>2, <2>3, <2>4, <1>3, <1>8 DEF Follows
<1>9. Marked(w, mu) => Marked(rest, mu) \/ (w[1].kind = "answer" /\ mu[w[1].of].stale)
  <2>1. SUFFICES ASSUME NEW i \in 1..Len(w), w[i].kind = "answer",
                        mu[w[i].of].at = "committed", mu[w[i].of].stale, i # 1
                 PROVE  Marked(rest, mu)
    BY DEF Marked
  <2>2. i - 1 \in 1..Len(rest) /\ (i - 1) + 1 = i
    BY <2>1, <1>4
  <2>3. rest[i - 1] = w[i]
    BY <2>2
  <2> QED
    BY <2>1, <2>2, <2>3 DEF Marked
<1> QED
  BY <1>3, <1>5, <1>6, <1>7, <1>8, <1>9

-----------------------------------------------------------------------------
(* What the steps have in common.                                          *)

\* Which list this is never changes, so what mirrors an issue does so later.
LEMMA FixedKept ==
  ASSUME UNCHANGED fixed
  PROVE  /\ \A k : View(k)' = View(k) /\ (Belongs(k)' <=> Belongs(k))
         /\ \A l, k : MirrorsAt(l, k)' <=> MirrorsAt(l, k)
         /\ \A w, last, f, l, d, df, mu, z :
               Follows(w, last, f, l, d, df, mu, z)' <=> Follows(w, last, f, l, d, df, mu, z)
<1>1. \A k : Belongs(k)' <=> Belongs(k)
  BY DEF fixed, Belongs
<1>2. \A k : View(k)' = View(k)
  BY <1>1 DEF fixed, View
<1>3. \A l, k : MirrorsAt(l, k)' <=> MirrorsAt(l, k)
  BY <1>1, <1>2 DEF MirrorsAt
<1>4. \A w, st, z : Shows(w, st, z)' <=> Shows(w, st, z)
  BY <1>2 DEF Shows, Tells, fixed
<1>5. \A w, st, last, z : Chain(w, st, last, z)' <=> Chain(w, st, last, z)
  BY <1>4 DEF Chain
<1>6. \A w, k, f, l, mu, z : ListFollows(w, k, f, l, mu, z)' <=> ListFollows(w, k, f, l, mu, z)
  BY <1>3 DEF ListFollows
<1>7. \A w, last, f, l, d, df, mu, z :
         Follows(w, last, f, l, d, df, mu, z)' <=> Follows(w, last, f, l, d, df, mu, z)
  BY <1>5, <1>6 DEF Follows
<1> QED
  BY <1>1, <1>2, <1>3, <1>7

\* The record of an update.
LEMMA UpdateFacts ==
  ASSUME NEW u \in Records
  PROVE  /\ u.at \in {"unsent", "sent", "committed", "done"}
         /\ u.at \in {"sent", "committed"} =>
              /\ u.patch \in Patch /\ u.stale \in BOOLEAN /\ u.detail \in Issue \cup {None}
              /\ u.list = <<>> \/ u.list[1] \in Lists
              /\ [u EXCEPT !.alone = FALSE] \in Records
              /\ [u EXCEPT !.alone = FALSE].at = u.at
              /\ [u EXCEPT !.alone = FALSE].stale = u.stale
              /\ [u EXCEPT !.at = "committed"] \in Records
              /\ [u EXCEPT !.at = "committed"].at = "committed"
              /\ [u EXCEPT !.at = "committed"].stale = u.stale
<1>1. u.at \in {"unsent", "sent", "committed", "done"}
  BY DEF Records
<1>2. ASSUME u.at \in {"sent", "committed"}
      PROVE  u \in [at : {"sent", "committed"}, patch : Patch, stale : BOOLEAN,
                    list : {<<>>} \cup {<<l>> : l \in Lists}, detail : Issue \cup {None},
                    alone : BOOLEAN]
  BY <1>2 DEF Records
<1>3. ASSUME u.at \in {"sent", "committed"}
      PROVE  u.list = <<>> \/ u.list[1] \in Lists
  BY <1>2, <1>3
<1>4. ASSUME u.at \in {"sent", "committed"}
      PROVE  /\ [u EXCEPT !.alone = FALSE] \in Records
             /\ [u EXCEPT !.alone = FALSE].at = u.at
             /\ [u EXCEPT !.alone = FALSE].stale = u.stale
  BY <1>2, <1>4 DEF Records
<1>5. ASSUME u.at \in {"sent", "committed"}
      PROVE  /\ [u EXCEPT !.at = "committed"] \in Records
             /\ [u EXCEPT !.at = "committed"].at = "committed"
             /\ [u EXCEPT !.at = "committed"].stale = u.stale
  BY <1>2, <1>5 DEF Records
<1>6. u.at \in {"sent", "committed"} =>
         u.patch \in Patch /\ u.stale \in BOOLEAN /\ u.detail \in Issue \cup {None}
  BY <1>2
<1> QED
  BY <1>1, <1>3, <1>4, <1>5, <1>6

\* A disturbance takes nothing from an update but its solitude.
LEMMA DisturbedFacts ==
  ASSUME NEW mu \in [Mutations -> Records]
  PROVE  /\ Disturbed(mu) \in [Mutations -> Records]
         /\ \A m \in Mutations :
              /\ Disturbed(mu)[m].at = mu[m].at
              /\ mu[m].at = "committed" => Disturbed(mu)[m].stale = mu[m].stale
         /\ \A w \in Seq(Message) : Marked(w, mu) => Marked(w, Disturbed(mu))
<1>1. ASSUME NEW m \in Mutations
      PROVE  /\ Disturbed(mu)[m] \in Records
             /\ Disturbed(mu)[m].at = mu[m].at
             /\ mu[m].at = "committed" => Disturbed(mu)[m].stale = mu[m].stale
  BY <1>1, UpdateFacts DEF Disturbed
<1>2. Disturbed(mu) \in [Mutations -> Records]
  BY <1>1 DEF Disturbed
<1>3. ASSUME NEW w \in Seq(Message), Marked(w, mu)
      PROVE  Marked(w, Disturbed(mu))
  <2>1. PICK i \in 1..Len(w) :
           w[i].kind = "answer" /\ mu[w[i].of].at = "committed" /\ mu[w[i].of].stale
    BY <1>3 DEF Marked
  <2>2. w[i].of \in Mutations
    BY <2>1, MessageFacts
  <2> QED
    BY <2>1, <2>2, <1>1 DEF Marked
<1> QED
  BY <1>1, <1>2, <1>3

\* What a sent message adds to the wire.
LEMMA AppendFacts ==
  ASSUME NEW w \in Seq(Message), NEW msg \in Message
  PROVE  /\ Append(w, msg) \in Seq(Message)
         /\ \A k : Waits(Append(w, msg), k, 0) => Waits(w, k, 0) \/ msg.kind = k
<1> DEFINE v == Append(w, msg)
<1>1. /\ v \in Seq(Message) /\ Len(v) = Len(w) + 1
      /\ \A i \in 1..Len(v) : (i \in 1..Len(w) /\ v[i] = w[i]) \/ v[i] = msg
  OBVIOUS
<1> HIDE DEF v
<1>2. \A k : Waits(v, k, 0) => Waits(w, k, 0) \/ msg.kind = k
  BY <1>1 DEF Waits
<1> QED
  BY <1>1, <1>2 DEF v

\* What is added behind everything else, and what is sent next, stay in order.
LEMMA JoinOrder ==
  ASSUME NEW w \in Seq(Message), NEW p \in Seq(Announced)
  PROVE  /\ \A e \in Announced : /\ p \o <<e>> \in Seq(Announced)
                                 /\ w \o (p \o <<e>>) = Append(w \o p, e)
         /\ 1 \in 1..Len(p) => Append(w, p[1]) \o Taken(p, 1) = w \o p
<1>1. p \in Seq(Message) /\ w \o p \in Seq(Message)
  <2>1. w \o p = w \o p /\ <<>> \in Seq(Message)
    OBVIOUS
  <2> QED
    BY <2>1, JoinFacts
<1>2. ASSUME NEW e \in Announced
      PROVE  /\ p \o <<e>> \in Seq(Announced)
             /\ w \o (p \o <<e>>) = Append(w \o p, e)
  <2>1. e \in Message
    BY AnnouncedFacts
  <2> QED
    BY <2>1, <1>1
<1>3. ASSUME 1 \in 1..Len(p)
      PROVE  Append(w, p[1]) \o Taken(p, 1) = w \o p
  <2> DEFINE t == Taken(p, 1)
             a == Append(w, p[1])
  <2>1. /\ t \in Seq(Announced) /\ Len(t) = Len(p) - 1
        /\ \A j \in 1..(Len(p) - 1) : t[j] = p[j + 1]
    <3>1. /\ t \in Seq(Announced) /\ Len(t) = Len(p) - 1
          /\ \A j \in 1..(Len(p) - 1) : t[j] = IF j < 1 THEN p[j] ELSE p[j + 1]
      BY <1>3, RestFacts
    <3> QED
      BY <3>1
  <2>2. /\ a \in Seq(Message) /\ Len(a) = Len(w) + 1
        /\ \A j \in 1..Len(w) : a[j] = w[j]
        /\ a[Len(w) + 1] = p[1]
    <3>1. p[1] \in Message
      BY <1>1, <1>3
    <3> QED
      BY <3>1
  <2> HIDE DEF a, t
  <2>3. /\ a \o t \in Seq(Message) /\ Len(a \o t) = Len(a) + Len(t)
        /\ \A i \in 1..Len(a \o t) : (a \o t)[i] = IF i <= Len(a) THEN a[i] ELSE t[i - Len(a)]
    BY <2>1, <2>2, JoinFacts
  <2>4. /\ Len(w \o p) = Len(w) + Len(p)
        /\ \A i \in 1..Len(w \o p) : (w \o p)[i] = IF i <= Len(w) THEN w[i] ELSE p[i - Len(w)]
    BY JoinFacts
  <2>5. Len(w) \in Nat /\ Len(p) \in Nat /\ Len(p) > 0 /\ Len(a \o t) = Len(w \o p)
    BY <2>1, <2>2, <2>3, <2>4, <1>3
  <2>6. ASSUME NEW i \in 1..Len(w \o p)
        PROVE  (a \o t)[i] = (w \o p)[i]
    <3>1. CASE i <= Len(w)
      <4>1. i \in 1..Len(w) /\ i <= Len(a) /\ i \in 1..Len(a \o t)
        BY <3>1, <2>2, <2>5
      <4> QED
        BY <4>1, <2>2, <2>3, <2>4
    <3>2. CASE i = Len(w) + 1
      <4>1. i <= Len(a) /\ i \in 1..Len(a \o t) /\ ~ (i <= Len(w)) /\ i - Len(w) = 1
        BY <3>2, <2>2, <2>5
      <4> QED
        BY <4>1, <3>2, <2>2, <2>3, <2>4
    <3>3. CASE i > Len(w) + 1
      <4>1. /\ ~ (i <= Len(a)) /\ i \in 1..Len(a \o t) /\ ~ (i <= Len(w))
            /\ i - Len(a) \in 1..(Len(p) - 1) /\ (i - Len(a)) + 1 = i - Len(w)
        BY <3>3, <2>2, <2>4, <2>5
      <4>2. (a \o t)[i] = t[i - Len(a)]
        BY <4>1, <2>3
      <4>3. t[i - Len(a)] = p[i - Len(w)]
        BY <4>1, <2>1
      <4> QED
        BY <4>1, <4>2, <4>3, <2>4
    <3> QED
      BY <3>1, <3>2, <3>3, <2>4, <2>5
  <2> QED
    BY <2>3, <2>5, <2>6, <1>1, SeqEqual DEF a, t
<1> QED
  BY <1>2, <1>3

\* The UPDATE makes an issue; when nothing came between it is the one that was
\* asked for, and the flags tell of it unless the assignee was taken away.
LEMMA WrittenFacts ==
  ASSUME server \in Issue, NEW old \in Issue, NEW p \in Patch \cup Issue
  PROVE  /\ Written(old, p) \in Issue
         /\ old = server => Written(old, p) = Merged(server, p)
<1>1. DOMAIN p \in {{"status"}, {"mine"}, {"status", "mine"}}
  BY DEF Patch, Issue
<1>2. /\ "status" \in DOMAIN p => p.status \in Status
      /\ "mine" \in DOMAIN p => p.mine \in BOOLEAN
      /\ server.status \in Status /\ server.mine \in BOOLEAN /\ old.mine \in BOOLEAN
  BY DEF Patch, Issue
<1>3. Written(old, p) \in Issue
  BY <1>2 DEF Written, Issue
<1>4. ASSUME old = server
      PROVE  Written(old, p) = Merged(server, p)
  <2>1. Merged(server, p) \in Issue
    BY MergedFacts
  <2>2. /\ Merged(server, p).status = Written(old, p).status
        /\ Merged(server, p).mine = Written(old, p).mine
    BY <1>4, MergedFacts DEF Written
  <2> QED
    BY <2>1, <2>2, <1>3 DEF Issue
<1> QED
  BY <1>3, <1>4

LEMMA FlagsTell ==
  ASSUME server \in Issue, NEW p \in Patch \cup Issue, NEW null \in BOOLEAN,
         null => "mine" \in DOMAIN p /\ ~p.mine
  PROVE  LET new == Written(server, p)
         IN  /\ Flags(server, p, new, null) \in Dims
             /\ \/ Tells(Flags(server, p, new, null), server, new)
                \/ filter # "workspace" /\ null /\ server.mine
<1> DEFINE new == Written(server, p)
           dims == Flags(server, p, new, null)
<1>1. dims \in Dims
  BY DEF Flags, Dims
<1>2. server.status # new.status => dims.status
  BY DEF Written, Flags
<1>3. server.mine # new.mine => "mine" \in DOMAIN p
  BY DEF Written
<1>4. CASE null
  <2>1. server.mine \in BOOLEAN /\ new.mine = p.mine /\ ~p.mine
    BY <1>4 DEF Written, Issue
  <2>2. p.mine \in BOOLEAN
    BY <1>4 DEF Patch, Issue
  <2>3. new.mine = FALSE
    BY <2>1, <2>2
  <2> HIDE DEF new, dims
  <2>4. CASE server.mine = TRUE
    <3>1. Tells(dims, server, new) \/ (filter # "workspace" /\ null /\ server.mine)
      BY <2>4, <1>2, <1>4 DEF Tells
    <3> QED
      BY <3>1, <1>1 DEF new, dims
  <2>5. CASE server.mine = FALSE
    <3>1. server.mine = new.mine
      BY <2>3, <2>5
    <3>2. Tells(dims, server, new)
      BY <3>1, <1>2 DEF Tells
    <3> QED
      BY <3>2, <1>1 DEF new, dims
  <2> QED
    BY <2>1, <2>4, <2>5 DEF new, dims
<1>5. CASE ~null
  <2>1. server.mine # new.mine => dims.mine
    BY <1>3, <1>5 DEF Flags
  <2> QED
    BY <2>1, <1>1, <1>2 DEF Tells
<1> QED
  BY <1>4, <1>5

\* Nobody waits on an empty wire.
LEMMA EmptyFacts ==
  /\ <<>> \in Seq(Message) /\ <<>> \in Seq(Announced) /\ Len(<<>>) = 0
  /\ \A k : ~Waits(<<>>, k, 0)
BY DEF Waits

-----------------------------------------------------------------------------
(* The invariant holds at first.                                           *)

LEMMA InitHolds ==
  ASSUME Init
  PROVE  IInv
<1>1. /\ filter \in Filters /\ window \in SUBSET Status /\ involved \in BOOLEAN
      /\ server \in Issue /\ wire = <<>> /\ pending = <<>> /\ socket = "registered"
      /\ prev = [u \in Updates |-> None] /\ done = {}
      /\ list = View(server) /\ stale = FALSE /\ fetch = "none"
      /\ detail \in {server, None} /\ dstale = FALSE /\ dfetch = "none"
      /\ mutation = [m \in Mutations |-> Unsent]
      /\ crossed = FALSE /\ misled = FALSE /\ drops = 0
  BY DEF Init
<1>2. list \in Lists /\ MirrorsAt(list, server)
  BY <1>1, ViewTyped
<1>3. \A m \in Mutations : mutation[m] \in Records /\ mutation[m].at = "unsent"
  BY <1>1 DEF Unsent, Records
<1>4. mutation \in [Mutations -> Records]
  BY <1>1, <1>3
<1>5. list.card \in Issue \cup {None} /\ list.total \in [Status -> Nat]
  BY <1>2 DEF Lists
<1>6. Typed
  <2>1. drops \in 0..MaxDrops /\ prev \in [Updates -> Issue \cup {None}]
    BY <1>1, IssueCacheAssumption
  <2>2. wire \in Seq(Message) /\ pending \in Seq(Announced)
    BY <1>1, EmptyFacts
  <2> QED
    BY <1>1, <1>2, <1>3, <1>4, <1>5, <2>1, <2>2 DEF Typed, TypeOK
<1>7. Wired
  BY <1>1, EmptyFacts DEF Wired
<1>8. Follows(Ahead, server, fetch, list, detail, dfetch, mutation, misled)
  <2>1. ListFollows(Ahead, server, fetch, list, mutation, misled)
    BY <1>2 DEF ListFollows
  <2>2. Ahead \in Seq(Message) /\ Len(Ahead) = 0
    BY <1>1, EmptyFacts, JoinFacts DEF Ahead
  <2>3. \A i \in 1..Len(Ahead) : FALSE
    BY <2>2
  <2> QED
    BY <1>1, <2>1, <2>2, <2>3, FollowsStill
<1>9. Tracks
  BY <1>3, <1>8 DEF Tracks
<1> QED
  BY <1>6, <1>7, <1>9 DEF IInv

-----------------------------------------------------------------------------
(* Every step preserves it: the server's steps.                            *)

\* Is an update in flight, afterwards.
LEMMA UpdatingSame ==
  ASSUME \A m \in Mutations : mutation'[m].at = "sent" <=> mutation[m].at = "sent"
  PROVE  Updating' <=> Updating
BY DEF Updating

\* A step changes nothing of what the client holds or has still to hear.
LEMMA SameHolds ==
  ASSUME IInv, Typed', UNCHANGED fixed,
         server' = server, pending' = pending, wire' = wire,
         list' = list, fetch' = fetch, detail' = detail, dfetch' = dfetch,
         mutation' = mutation, crossed' = crossed, misled' = misled,
         socket' = socket \/ (socket = "open" /\ socket' = "registered")
  PROVE  IInv'
<1>1. Wired'
  BY DEF IInv, Wired
<1>2. Ahead' = Ahead
  BY DEF Ahead
<1>3. Tracks'
  <2>1. Updating' <=> Updating
    BY UpdatingSame
  <2> QED
    BY <2>1, <1>2, FixedKept DEF IInv, Tracks, Shown, Snapshot
<1> QED
  BY <1>1, <1>3 DEF IInv

\* A stuttering step changes nothing the invariant reads.
LEMMA StutterHolds ==
  ASSUME IInv, UNCHANGED vars
  PROVE  IInv'
<1>1. /\ UNCHANGED fixed
      /\ server' = server /\ prev' = prev /\ done' = done
      /\ pending' = pending /\ wire' = wire /\ socket' = socket
      /\ list' = list /\ stale' = stale /\ fetch' = fetch
      /\ detail' = detail /\ dfetch' = dfetch /\ dstale' = dstale
      /\ mutation' = mutation /\ crossed' = crossed /\ misled' = misled /\ drops' = drops
  BY DEF vars, cache, origin
<1>2. Typed'
  BY <1>1 DEF IInv, Typed, TypeOK, fixed
<1> QED
  BY <1>1, <1>2, SameHolds

\* The handler of an update reads the issue: nothing is said of it yet.
LEMMA ReadHolds ==
  ASSUME IInv, NEW u \in Updates, Read(u)
  PROVE  IInv'
<1>1. /\ UNCHANGED fixed
      /\ server' = server /\ prev' = [prev EXCEPT ![u] = server] /\ done' = done
      /\ pending' = pending /\ wire' = wire /\ socket' = socket
      /\ list' = list /\ stale' = stale /\ fetch' = fetch
      /\ detail' = detail /\ dfetch' = dfetch /\ dstale' = dstale
      /\ mutation' = mutation /\ crossed' = crossed /\ misled' = misled /\ drops' = drops
  BY DEF Read, cache
<1>2. Typed'
  <2>1. prev \in [Updates -> Issue \cup {None}] /\ server \in Issue
    BY DEF IInv, Typed, TypeOK
  <2>2. prev' \in [Updates -> Issue \cup {None}]
    BY <2>1, <1>1
  <2> QED
    BY <2>2, <1>1 DEF IInv, Typed, TypeOK, fixed
<1> QED
  BY <1>1, <1>2, SameHolds

\* The hub takes the socket: what is under way is what it was.
LEMMA RegisterHolds ==
  ASSUME IInv, Register
  PROVE  IInv'
<1>1. /\ UNCHANGED fixed
      /\ server' = server /\ prev' = prev /\ done' = done
      /\ pending' = pending /\ wire' = wire /\ socket = "open" /\ socket' = "registered"
      /\ list' = list /\ stale' = stale /\ fetch' = fetch
      /\ detail' = detail /\ dfetch' = dfetch /\ dstale' = dstale
      /\ mutation' = mutation /\ crossed' = crossed /\ misled' = misled /\ drops' = drops
  BY DEF Register, cache, origin
<1>2. Typed'
  BY <1>1 DEF IInv, Typed, TypeOK, fixed
<1> QED
  BY <1>1, <1>2, SameHolds

\* A list that has been misled is asked for less.
LEMMA FollowsMisled ==
  ASSUME NEW w, NEW last, NEW f, NEW l, NEW d, NEW df, NEW mu, NEW z,
         Follows(w, last, f, l, d, df, mu, z)
  PROVE  Follows(w, last, f, l, d, df, mu, TRUE)
<1>1. PICK st \in [0..Len(w) -> Issue] :
         /\ Chain(w, st, last, z)
         /\ Answers(w, st, f, d, df)
         /\ DetailFollows(w, st[0], d, df)
         /\ ListFollows(w, st[0], f, l, mu, z)
  BY DEF Follows
<1>2. Chain(w, st, last, TRUE)
  BY <1>1 DEF Chain, Shows
<1>3. ListFollows(w, st[0], f, l, mu, TRUE)
  BY DEF ListFollows
<1>4. Judged(w, df)
  BY DEF Follows
<1> QED
  BY <1>1, <1>2, <1>3, <1>4 DEF Follows

\* What an update announces to its own client: two messages.
LEMMA PairFacts ==
  ASSUME NEW S, NEW s \in Seq(S), NEW a \in S, NEW b \in S
  PROVE  /\ s \o <<a, b>> \in Seq(S)
         /\ s = <<>> => s \o <<a, b>> = <<a, b>>
         /\ \A i \in 1..Len(<<a, b>>) : <<a, b>>[i] \in {a, b}
         /\ \E i \in 1..Len(<<a, b>>) : <<a, b>>[i] = a
         /\ \E i \in 1..Len(<<a, b>>) : <<a, b>>[i] = b
<1>1. <<a, b>> \in Seq(S) /\ Len(<<a, b>>) = 2 /\ <<a, b>>[1] = a /\ <<a, b>>[2] = b
  OBVIOUS
<1> DEFINE v == <<a, b>>
<1>2. v \in Seq(S) /\ Len(v) = 2 /\ v[1] = a /\ v[2] = b
  BY <1>1
<1> HIDE DEF v
<1>3. s \o v \in Seq(S)
  BY <1>2, ConcatProperties
<1>4. s = <<>> => s \o v = v
  BY <1>2, ConcatEmptySeq
<1>5. \A i \in 1..Len(v) : i = 1 \/ i = 2
  BY <1>2
<1>6. 1 \in 1..Len(v) /\ 2 \in 1..Len(v)
  BY <1>2
<1>7. \A i \in 1..Len(v) : v[i] \in {a, b}
  BY <1>2, <1>5
<1> QED
  BY <1>2, <1>3, <1>4, <1>6, <1>7 DEF v

\* Another client's update: its event is the last of what is ahead.
LEMMA CommitOtherHolds ==
  ASSUME IInv, NEW r \in Remotes, CommitOther(r)
  PROVE  IInv'
<1>1. PICK p \in Patch \cup Issue, null \in BOOLEAN :
         /\ Commit(r, p, null, "alone")
         /\ done' = done \cup {r}
         /\ Crosses(prev[r] # server \/ Updating \/ dfetch # "none")
         /\ misled' = (misled \/ (filter # "workspace" /\ null /\ server.mine))
         /\ UNCHANGED mutation
  BY DEF CommitOther
<1> DEFINE old  == prev[r]
           new  == Written(old, p)
           dims == Flags(old, p, new, null)
           ev   == [kind |-> "event", issue |-> new, dims |-> dims]
<1>2. /\ old # None /\ (null => "mine" \in DOMAIN p /\ ~p.mine)
      /\ server' = new /\ prev' = [prev EXCEPT ![r] = None] /\ pending' = pending \o <<ev>>
  BY <1>1 DEF Commit
<1>3. /\ UNCHANGED fixed /\ filter' = filter /\ window' = window /\ involved' = involved
      /\ wire' = wire /\ socket' = socket /\ list' = list /\ stale' = stale /\ fetch' = fetch
      /\ detail' = detail /\ dfetch' = dfetch /\ dstale' = dstale
      /\ mutation' = mutation /\ drops' = drops
      /\ crossed' = (crossed \/ (prev[r] # server \/ Updating \/ dfetch # "none"))
  BY <1>1 DEF Commit, Crosses, fixed, cache
<1>4. /\ Typed /\ TypeOK /\ server \in Issue /\ wire \in Seq(Message)
      /\ pending \in Seq(Announced) /\ prev \in [Updates -> Issue \cup {None}]
      /\ r \in Updates /\ misled \in BOOLEAN
  BY DEF IInv, Typed, TypeOK, Updates
<1>5. old \in Issue
  BY <1>2, <1>4
<1>6. new \in Issue
  BY <1>4, <1>5, WrittenFacts
<1>7. dims \in Dims
  BY DEF Flags, Dims
<1>8. old = server => misled' \/ Tells(dims, server, new)
  BY <1>1, <1>2, <1>4, FlagsTell
<1> HIDE DEF new, dims
<1>9. ev \in Announced /\ ev \in Message /\ ev.kind = "event" /\ ev.issue = new /\ ev.dims = dims
  BY <1>6, <1>7 DEF Announced, Message
<1> HIDE DEF ev
<1>10. pending' \in Seq(Announced) /\ Ahead' = Append(Ahead, ev) /\ Ahead \in Seq(Message)
  BY <1>2, <1>3, <1>4, <1>9, JoinOrder, JoinFacts DEF Ahead
<1>11. Typed'
  <2>1. prev' \in [Updates -> Issue \cup {None}] /\ done' \in SUBSET Remotes
    BY <1>1, <1>2, <1>4 DEF TypeOK
  <2>2. crossed' \in BOOLEAN /\ misled' \in BOOLEAN
    BY <1>1, <1>3
  <2> QED
    BY <1>2, <1>3, <1>4, <1>6, <1>10, <2>1, <2>2 DEF Typed, TypeOK
<1>12. Wired'
  BY <1>3 DEF IInv, Wired
<1>13. Tracks'
  <2>1. Updating' <=> Updating
    BY <1>3, UpdatingSame
  <2>2. SUFFICES ASSUME socket # "lost", ~crossed'
                 PROVE  /\ \A m \in Mutations : mutation'[m].at # "sent"
                        /\ Follows(Ahead', server', fetch', list', detail', dfetch', mutation', misled')
    BY <1>3, FixedKept DEF Tracks
  <2>3. socket # "lost" /\ ~crossed /\ ~Updating /\ dfetch = "none" /\ old = server
    BY <2>2, <1>3
  <2>4. Follows(Ahead, server, fetch, list, detail, dfetch, mutation, misled)
    BY <2>3 DEF IInv, Tracks
  <2>5. misled' = misled \/ misled' = TRUE
    BY <1>1, <1>4
  <2>6. Follows(Ahead, server, fetch, list, detail, dfetch, mutation, misled')
    BY <2>4, <2>5, FollowsMisled
  <2>7. Follows(Append(Ahead, ev), new, fetch, list, detail, dfetch, mutation, misled')
    BY <2>3, <2>6, <1>6, <1>8, <1>9, <1>10, FollowsSent
  <2> QED
    BY <2>3, <2>7, <1>2, <1>3, <1>10 DEF Updating
<1> QED
  BY <1>11, <1>12, <1>13 DEF IInv

\* An announcement is sent: what is ahead stays what it was, in order.
LEMMA PublishHolds ==
  ASSUME IInv, Publish
  PROVE  IInv'
<1>1. PICK i \in 1..Len(pending) :
        LET unheard == pending[i].kind = "event" /\ socket # "registered"
        IN  /\ Crosses(i # 1 \/ (unheard /\ socket = "open"))
            /\ wire' = IF unheard THEN wire ELSE Append(wire, pending[i])
            /\ pending' = Taken(pending, i)
            /\ UNCHANGED <<fixed, origin, socket, cache, mutation, misled, drops>>
  BY DEF Publish
<1> DEFINE msg == pending[i]
           unheard == msg.kind = "event" /\ socket # "registered"
<1>2. /\ UNCHANGED fixed /\ filter' = filter /\ window' = window /\ involved' = involved
      /\ server' = server /\ prev' = prev /\ done' = done
      /\ socket' = socket /\ list' = list /\ stale' = stale /\ fetch' = fetch
      /\ detail' = detail /\ dfetch' = dfetch /\ dstale' = dstale
      /\ mutation' = mutation /\ misled' = misled /\ drops' = drops
      /\ crossed' = (crossed \/ (i # 1 \/ (unheard /\ socket = "open")))
      /\ wire' = (IF unheard THEN wire ELSE Append(wire, msg))
      /\ pending' = Taken(pending, i)
  BY <1>1 DEF Crosses, fixed, origin, cache
<1>3. /\ Typed /\ TypeOK /\ server \in Issue /\ wire \in Seq(Message)
      /\ pending \in Seq(Announced) /\ socket \in {"lost", "open", "registered"}
  BY DEF IInv, Typed, TypeOK
<1>4. msg \in Message /\ msg.kind \in {"event", "answer"}
  BY <1>3, AnnouncedFacts
<1>5. pending' \in Seq(Announced)
  BY <1>2, <1>3, RestFacts
<1>6. /\ wire' \in Seq(Message)
      /\ \A k : Waits(wire', k, 0) => Waits(wire, k, 0) \/ (~unheard /\ msg.kind = k)
  <2> HIDE DEF msg
  <2>1. CASE unheard
    BY <2>1, <1>2, <1>3
  <2>2. CASE ~unheard
    BY <2>2, <1>2, <1>3, <1>4, AppendFacts
  <2> QED
    BY <2>1, <2>2
<1>7. Typed'
  <2>1. crossed' \in BOOLEAN
    BY <1>2
  <2> QED
    BY <1>2, <1>3, <1>5, <1>6, <2>1 DEF Typed, TypeOK
<1>8. Wired'
  BY <1>2, <1>4, <1>6 DEF IInv, Wired
<1>9. Tracks'
  <2>1. Updating' <=> Updating
    BY <1>2, UpdatingSame
  <2>2. SUFFICES ASSUME socket # "lost", ~crossed'
                 PROVE  /\ \A m \in Mutations : mutation[m].at # "sent"
                        /\ Follows(Ahead', server, fetch, list, detail, dfetch, mutation, misled)
    BY <1>2, FixedKept DEF Tracks
  <2>3. i = 1 /\ ~crossed /\ ~unheard
    BY <2>2, <1>2, <1>3
  <2>4. pending # <<>>
    BY <1>1, EmptyFacts
  <2>5. \A m \in Mutations : mutation[m].at # "sent"
    BY <2>2, <2>3, <2>4 DEF IInv, Tracks, Shown
  <2>6. Ahead' = Ahead
    <3>1. wire' = Append(wire, pending[1]) /\ pending' = Taken(pending, 1) /\ 1 \in 1..Len(pending)
      BY <2>3, <1>2
    <3> QED
      BY <3>1, <1>3, JoinOrder DEF Ahead
  <2> QED
    BY <2>2, <2>3, <2>5, <2>6 DEF IInv, Tracks, Updating
<1> QED
  BY <1>7, <1>8, <1>9 DEF IInv

\* A list is answered as the issue is now, behind everything it has announced.
LEMMA ReadListHolds ==
  ASSUME IInv, ReadList
  PROVE  IInv'
<1> DEFINE msg == [kind |-> "list", view |-> View(server)]
<1>1. /\ UNCHANGED fixed /\ filter' = filter /\ window' = window /\ involved' = involved
      /\ fetch = "asked" /\ fetch' = "answered" /\ wire' = Append(wire, msg)
      /\ server' = server /\ prev' = prev /\ done' = done /\ pending' = pending
      /\ socket' = socket /\ list' = list /\ stale' = stale
      /\ detail' = detail /\ dfetch' = dfetch /\ dstale' = dstale
      /\ mutation' = mutation /\ misled' = misled /\ drops' = drops
      /\ crossed' = (crossed \/ pending # <<>>)
  BY DEF ReadList, Crosses, fixed, origin
<1>2. /\ Typed /\ TypeOK /\ server \in Issue /\ wire \in Seq(Message)
      /\ pending \in Seq(Announced)
  BY DEF IInv, Typed, TypeOK
<1>3. msg \in Message /\ msg.kind = "list" /\ msg.view = View(server)
  BY <1>2, ViewTyped DEF Message
<1> HIDE DEF msg
<1>4. wire' \in Seq(Message) /\ (\A k : Waits(wire', k, 0) => Waits(wire, k, 0) \/ k = "list")
  BY <1>1, <1>2, <1>3, AppendFacts
<1>5. Typed'
  <2>1. crossed' \in BOOLEAN
    BY <1>1
  <2> QED
    BY <1>1, <1>2, <1>4, <2>1 DEF Typed, TypeOK
<1>6. Wired'
  BY <1>1, <1>4 DEF IInv, Wired
<1>7. Tracks'
  <2>1. Updating' <=> Updating
    BY <1>1, UpdatingSame
  <2>2. SUFFICES ASSUME socket # "lost", ~crossed'
                 PROVE  /\ \A m \in Mutations : mutation[m].at # "sent"
                        /\ Follows(Ahead', server, fetch', list, detail, dfetch, mutation, misled)
    BY <1>1, FixedKept DEF Tracks
  <2>3. ~crossed /\ Ahead = wire /\ Ahead' = wire'
    BY <2>2, <1>1, <1>2, <1>4, JoinFacts DEF Ahead
  <2>4. \A m \in Mutations : mutation[m].at # "sent"
    BY <2>2, <2>3, <1>1 DEF IInv, Tracks, Shown
  <2>5. Follows(wire, server, fetch, list, detail, dfetch, mutation, misled)
    BY <2>2, <2>3, <2>4 DEF IInv, Tracks, Updating
  <2>6. Follows(Append(wire, msg), server, "answered", list, detail, dfetch, mutation, misled)
    BY <2>5, <1>2, <1>3, FollowsSent
  <2> QED
    BY <2>3, <2>4, <2>6, <1>1
<1> QED
  BY <1>5, <1>6, <1>7 DEF IInv

\* So is the detail.
LEMMA ReadDetailHolds ==
  ASSUME IInv, ReadDetail
  PROVE  IInv'
<1> DEFINE msg == [kind |-> "detail", issue |-> server]
<1>1. /\ UNCHANGED fixed /\ filter' = filter /\ window' = window /\ involved' = involved
      /\ dfetch = "asked" /\ dfetch' = "answered" /\ wire' = Append(wire, msg)
      /\ server' = server /\ prev' = prev /\ done' = done /\ pending' = pending
      /\ socket' = socket /\ list' = list /\ stale' = stale
      /\ detail' = detail /\ fetch' = fetch /\ dstale' = dstale
      /\ mutation' = mutation /\ misled' = misled /\ drops' = drops
      /\ crossed' = (crossed \/ pending # <<>>)
  BY DEF ReadDetail, Crosses, fixed, origin
<1>2. /\ Typed /\ TypeOK /\ server \in Issue /\ wire \in Seq(Message)
      /\ pending \in Seq(Announced)
  BY DEF IInv, Typed, TypeOK
<1>3. msg \in Message /\ msg.kind = "detail" /\ msg.issue = server
  BY <1>2 DEF Message
<1> HIDE DEF msg
<1>4. wire' \in Seq(Message) /\ (\A k : Waits(wire', k, 0) => Waits(wire, k, 0) \/ k = "detail")
  BY <1>1, <1>2, <1>3, AppendFacts
<1>5. Typed'
  <2>1. crossed' \in BOOLEAN
    BY <1>1
  <2> QED
    BY <1>1, <1>2, <1>4, <2>1 DEF Typed, TypeOK
<1>6. Wired'
  BY <1>1, <1>4 DEF IInv, Wired
<1>7. Tracks'
  <2>1. Updating' <=> Updating
    BY <1>1, UpdatingSame
  <2>2. SUFFICES ASSUME socket # "lost", ~crossed'
                 PROVE  /\ \A m \in Mutations : mutation[m].at # "sent"
                        /\ Follows(Ahead', server, fetch, list, detail, dfetch', mutation, misled)
    BY <1>1, FixedKept DEF Tracks
  <2>3. ~crossed /\ Ahead = wire /\ Ahead' = wire'
    BY <2>2, <1>1, <1>2, <1>4, JoinFacts DEF Ahead
  <2>4. \A m \in Mutations : mutation[m].at # "sent"
    BY <2>2, <2>3, <1>1 DEF IInv, Tracks, Shown
  <2>5. Follows(wire, server, fetch, list, detail, dfetch, mutation, misled)
    BY <2>2, <2>3, <2>4 DEF IInv, Tracks, Updating
  <2>6. Follows(Append(wire, msg), server, fetch, list, detail, "answered", mutation, misled)
    BY <2>5, <1>1, <1>2, <1>3, FollowsSent
  <2> QED
    BY <2>3, <2>4, <2>6, <1>1
<1> QED
  BY <1>5, <1>6, <1>7 DEF IInv

\* The server commits this client's update: echo and answer show the issue it
\* made, whichever of them is ahead of the other.
LEMMA CommitOwnHolds ==
  ASSUME IInv, NEW m \in Mutations, CommitOwn(m)
  PROVE  IInv'
<1> DEFINE p == mutation[m].patch
<1>1. PICK null \in BOOLEAN, place \in {"first", "last"} :
         Commit(m, p, null, place)
  BY DEF CommitOwn
<1> DEFINE old == prev[m]
           new == Written(old, p)
           dims == Flags(old, p, new, null)
           ev  == [kind |-> "event", issue |-> new, dims |-> dims]
           an  == [kind |-> "answer", of |-> m, issue |-> new]
<1>2. /\ mutation[m].at = "sent" /\ old # None /\ server' = new
      /\ prev' = [prev EXCEPT ![m] = None]
      /\ pending' = pending \o <<ev, an>> \/ pending' = pending \o <<an, ev>>
      /\ mutation' = [mutation EXCEPT ![m].at = "committed"]
  BY <1>1 DEF Commit, CommitOwn
<1>3. /\ UNCHANGED fixed /\ filter' = filter /\ window' = window /\ involved' = involved
      /\ wire' = wire /\ socket' = socket /\ list' = list /\ stale' = stale /\ fetch' = fetch
      /\ detail' = detail /\ dfetch' = dfetch /\ dstale' = dstale
      /\ done' = done /\ misled' = misled /\ drops' = drops
      /\ crossed' = (crossed \/ prev[m] # server)
  BY <1>1 DEF Commit, CommitOwn, Crosses, fixed, cache
<1>4. /\ Typed /\ TypeOK /\ server \in Issue /\ wire \in Seq(Message)
      /\ pending \in Seq(Announced) /\ prev \in [Updates -> Issue \cup {None}] /\ m \in Updates
      /\ mutation \in [Mutations -> Records] /\ mutation[m] \in Records
  BY DEF IInv, Typed, TypeOK, Updates
<1>5. old \in Issue /\ p \in Patch
  <2>1. mutation[m].at = "sent" /\ old # None
    BY <1>1 DEF Commit, CommitOwn
  <2>2. mutation[m].patch \in Patch
    BY <2>1, <1>4, UpdateFacts
  <2>3. prev[m] \in Issue
    BY <2>1, <1>4
  <2> QED
    BY <2>2, <2>3
<1>6. new \in Issue /\ (old = server => new = Merged(server, p))
  BY <1>4, <1>5, WrittenFacts
<1>7. dims \in Dims
  BY DEF Flags, Dims
<1> HIDE DEF new, dims, p
<1>8. /\ an \in Announced /\ an.kind = "answer" /\ an.issue = new /\ an.of = m
      /\ ev \in Announced /\ ev.kind = "event" /\ ev.issue = new
  BY <1>6, <1>7 DEF Announced
<1> HIDE DEF an, ev
<1>9. pending' \in Seq(Announced)
  <2>1. pending \o <<ev, an>> \in Seq(Announced) /\ pending \o <<an, ev>> \in Seq(Announced)
    BY <1>4, <1>8, PairFacts
  <2> QED
    BY <2>1, <1>2
<1>10. /\ mutation' \in [Mutations -> Records]
       /\ mutation'[m].at = "committed" /\ mutation'[m].stale = mutation[m].stale
       /\ \A n \in Mutations : n # m => mutation'[n] = mutation[n]
  BY <1>2, <1>4, UpdateFacts
<1>11. Typed'
  <2>1. \A n \in Mutations : mutation'[n].at \in {"unsent", "sent", "committed", "done"}
    BY <1>10, UpdateFacts
  <2>2. prev' \in [Updates -> Issue \cup {None}] /\ crossed' \in BOOLEAN
    BY <1>2, <1>3, <1>4
  <2> QED
    BY <1>2, <1>3, <1>4, <1>6, <1>9, <1>10, <2>1, <2>2 DEF Typed, TypeOK
<1>12. Wired'
  BY <1>3 DEF IInv, Wired
<1>13. Tracks'
  <2>1. SUFFICES ASSUME socket # "lost", ~crossed'
                 PROVE  /\ \A n \in Mutations : mutation'[n].at # "sent"
                        /\ Follows(Ahead', new, fetch, list, detail, dfetch, mutation', misled)
    BY <1>2, <1>3, FixedKept DEF Tracks
  <2>2. Shown(m) /\ old = server
    BY <2>1, <1>2, <1>3 DEF IInv, Tracks
  <2>3. \A n \in Mutations : mutation'[n].at # "sent"
    BY <2>2, <1>10 DEF Shown
  <2>4. Ahead' = <<ev, an>> \/ Ahead' = <<an, ev>>
    <3>1. wire = <<>> /\ pending = <<>>
      BY <2>2 DEF Shown
    <3>2. pending' = <<ev, an>> \/ pending' = <<an, ev>>
      BY <3>1, <1>2, <1>4, <1>8, PairFacts
    <3>3. Ahead' = pending'
      BY <3>1, <1>3, <1>4, <1>9, JoinFacts DEF Ahead
    <3> QED
      BY <3>2, <3>3
  <2>5. /\ Ahead' \in Seq(Message) /\ \A i \in 1..Len(Ahead') : Ahead'[i] \in {ev, an}
        /\ \E i \in 1..Len(Ahead') : Ahead'[i] = an
    <3>1. an \in Message /\ ev \in Message
      BY <1>8, AnnouncedFacts
    <3>2. /\ \A i \in 1..Len(Ahead') : Ahead'[i] \in {ev, an}
          /\ \E i \in 1..Len(Ahead') : Ahead'[i] = an
      <4>1. CASE Ahead' = <<ev, an>>
        BY <4>1, <1>4, <1>8, PairFacts
      <4>2. CASE Ahead' = <<an, ev>>
        BY <4>2, <1>4, <1>8, PairFacts
      <4> QED
        BY <4>1, <4>2, <2>4
    <3>3. pending' \in Seq(Announced) /\ wire' \in Seq(Message)
      BY <1>3, <1>4, <1>9
    <3> QED
      BY <3>2, <3>3, JoinFacts DEF Ahead
  <2>6. detail \in {None, new} /\ dfetch = "none"
    BY <2>2, <1>6 DEF Shown, p
  <2>7. ListFollows(Ahead', new, fetch, list, mutation', misled)
    <3>1. CASE mutation[m].stale
      BY <3>1, <2>5, <1>8, <1>10 DEF ListFollows, Marked
    <3>2. CASE MirrorsAt(list, new) \/ misled
      BY <3>2 DEF ListFollows
    <3> QED
      BY <3>1, <3>2, <2>2, <1>6 DEF Shown, p
  <2>8. Follows(Ahead', new, fetch, list, detail, dfetch, mutation', misled)
    BY <2>5, <2>6, <2>7, <1>6, <1>8, FollowsStill
  <2> QED
    BY <2>3, <2>8
<1> QED
  BY <1>11, <1>12, <1>13 DEF IInv

-----------------------------------------------------------------------------
(* The client's steps.                                                     *)

\* There is nothing to drop from an empty wire.
LEMMA WithoutEmpty ==
  ASSUME NEW kind
  PROVE  Without(kind, <<>>) = <<>>
<1> DEFINE v == Without(kind, <<>>)
<1>1. v \in Seq(Message) /\ \A k : Waits(v, k, 0) => Waits(<<>>, k, 0)
  BY EmptyFacts, WithoutFacts
<1>2. \A k : ~Waits(v, k, 0)
  BY <1>1, EmptyFacts
<1> HIDE DEF v
<1>3. ~ (1 \in 1..Len(v))
  <2>1. 1 \in 1..Len(v) => Waits(v, v[1].kind, 0)
    BY DEF Waits
  <2> QED
    BY <2>1, <1>2
<1>4. v = <<>>
  BY <1>1, <1>3
<1> QED
  BY <1>4 DEF v

\* The optimistic update: what it replaces mirrors the server, what it shows
\* mirrors the issue to be.
LEMMA MutateHolds ==
  ASSUME IInv, NEW m \in Mutations, Mutate(m)
  PROVE  IInv'
<1>1. PICK patch \in Patch :
        LET out == Apply(patch, Changed(patch, detail), detail)
        IN  /\ mutation' = [mutation EXCEPT ![m] =
                  [at |-> "sent", patch |-> patch, stale |-> out.stale,
                   list |-> IF out.set THEN <<list>> ELSE <<>>, detail |-> detail,
                   alone |-> \A n \in Mutations : ~Flight(n)]]
            /\ list' = out.list
            /\ stale' = (stale /\ ~out.set)
            /\ fetch' = "none" /\ wire' = Without("list", wire)
            /\ WriteDetail(patch)
  BY DEF Mutate
<1> DEFINE dims == Changed(patch, detail)
           out  == Apply(patch, dims, detail)
           alone == \A n \in Mutations : ~Flight(n)
           u    == [at |-> "sent", patch |-> patch, stale |-> out.stale,
                    list |-> IF out.set THEN <<list>> ELSE <<>>, detail |-> detail,
                    alone |-> alone]
<1>2. /\ UNCHANGED fixed /\ filter' = filter /\ window' = window /\ involved' = involved
      /\ server' = server /\ prev' = prev /\ done' = done /\ pending' = pending
      /\ socket' = socket /\ misled' = misled /\ drops' = drops
      /\ mutation[m].at = "unsent" /\ crossed' = (crossed \/ ~Settled)
  BY DEF Mutate, Crosses, fixed, origin
<1>3. /\ list' = out.list /\ stale' = (stale /\ ~out.set) /\ fetch' = "none"
      /\ wire' = Without("list", wire) /\ mutation' = [mutation EXCEPT ![m] = u]
      /\ detail' = (IF detail = None THEN None ELSE Merged(detail, patch))
      /\ dstale' = (dstale /\ detail = None) /\ dfetch' = dfetch
  BY <1>1 DEF WriteDetail
<1>4. /\ Typed /\ TypeOK /\ server \in Issue /\ wire \in Seq(Message) /\ list \in Lists
      /\ mutation \in [Mutations -> Records] /\ detail \in Issue \cup {None}
  BY DEF IInv, Typed, TypeOK
<1>5. dims \in Dims
  BY DEF Changed, Dims
<1>6. /\ out.list \in Lists /\ out.set \in BOOLEAN /\ out.stale \in BOOLEAN
      /\ ~out.set => out.list = list
  BY <1>4, <1>5, ApplyTyped
<1>7. alone \in BOOLEAN
  OBVIOUS
<1> HIDE DEF out, dims, alone
<1>8. /\ u \in Records /\ u.at = "sent" /\ u.patch = patch /\ u.stale = out.stale
      /\ u.detail = detail
      /\ out.set => u.list # <<>> /\ u.list[1] = list
      /\ ~out.set => u.list = <<>>
  BY <1>4, <1>6, <1>7 DEF Records
<1> HIDE DEF u
<1>9. /\ mutation' \in [Mutations -> Records] /\ mutation'[m] = u
      /\ \A n \in Mutations : n # m => mutation'[n] = mutation[n]
  BY <1>3, <1>4, <1>8
<1>10. detail' \in Issue \cup {None} /\ (detail' = None <=> detail = None)
  BY <1>3, <1>4, MergedPatch, NoneIsNothing
<1>11. wire' \in Seq(Message) /\ \A k : Waits(wire', k, 0) => Waits(wire, k, 0)
  BY <1>3, <1>4, WithoutFacts
<1>12. Typed'
  <2>1. \A n \in Mutations : mutation'[n].at \in {"unsent", "sent", "committed", "done"}
    BY <1>9, UpdateFacts
  <2>2. list' \in Lists /\ list'.card \in Issue \cup {None} /\ list'.total \in [Status -> Nat]
    BY <1>3, <1>6 DEF Lists
  <2>3. stale' \in BOOLEAN /\ dstale' \in BOOLEAN /\ crossed' \in BOOLEAN
    BY <1>2, <1>3
  <2>4. fetch' \in {"none", "asked", "answered"} /\ dfetch' \in {"none", "asked", "answered"}
    BY <1>3, <1>4 DEF TypeOK
  <2> QED
    BY <1>2, <1>4, <1>9, <1>10, <1>11, <2>1, <2>2, <2>3, <2>4 DEF Typed, TypeOK
<1>13. Wired'
  BY <1>2, <1>3, <1>10, <1>11 DEF IInv, Wired
<1>14. Tracks'
  <2>1. SUFFICES ASSUME socket' # "lost", ~crossed'
                 PROVE  Updating' /\ \A n \in Mutations : mutation'[n].at = "sent" => Shown(n)'
    BY DEF Tracks
  <2>2. /\ socket # "lost" /\ ~crossed /\ wire = <<>> /\ pending = <<>>
        /\ fetch = "none" /\ dfetch = "none"
        /\ \A n \in Mutations : mutation[n].at # "sent"
    BY <2>1, <1>2 DEF Settled, Updating
  <2>3. Follows(<<>>, server, fetch, list, detail, dfetch, mutation, misled)
    <3>1. Ahead = <<>>
      BY <2>2, EmptyFacts, JoinFacts DEF Ahead
    <3> QED
      BY <3>1, <2>2 DEF IInv, Tracks, Updating
  <2>4. (misled \/ MirrorsAt(list, server)) /\ detail \in {None, server}
    <3>1. PICK st \in [0..Len(<<>>) -> Issue] :
             /\ Chain(<<>>, st, server, misled)
             /\ DetailFollows(<<>>, st[0], detail, dfetch)
             /\ ListFollows(<<>>, st[0], fetch, list, mutation, misled)
      BY <2>3 DEF Follows
    <3>2. st[0] = server
      BY <3>1, EmptyFacts DEF Chain
    <3>3. ~Marked(<<>>, mutation)
      BY EmptyFacts DEF Marked
    <3> QED
      BY <3>1, <3>2, <3>3, <2>2, EmptyFacts DEF DetailFollows, ListFollows
  <2>5. misled \/ out.stale \/ MirrorsAt(out.list, Merged(server, patch))
    <3>1. Tells(dims, server, Merged(server, patch))
      BY <2>4, <1>4, ChangedFacts DEF dims
    <3> QED
      BY <3>1, <2>4, <1>4, <1>5, ApplyMirrors DEF out
  <2>6. wire' = <<>>
    BY <2>2, <1>3, WithoutEmpty
  <2>7. \A n \in Mutations : mutation'[n].at = "sent" => n = m
    BY <2>2, <1>9
  <2>8. (IF mutation'[m].list = <<>> THEN list' ELSE mutation'[m].list[1]) = list
    BY <1>3, <1>6, <1>8, <1>9
  <2>9. detail' = IF mutation'[m].detail = None THEN None
                  ELSE Merged(server, mutation'[m].patch)
    BY <2>4, <1>3, <1>8, <1>9
  <2>10. misled \/ mutation'[m].stale \/ MirrorsAt(list', Merged(server, mutation'[m].patch))
    BY <2>5, <1>3, <1>8, <1>9
  <2>11. mutation'[m].detail \in {None, server'}
    BY <2>4, <1>2, <1>8, <1>9
  <2>12. Shown(m)'
    BY <2>2, <2>4, <2>6, <2>7, <2>8, <2>9, <2>10, <2>11, <1>2, <1>3, FixedKept
       DEF Shown, Snapshot
  <2> QED
    BY <2>7, <2>12, <1>8, <1>9 DEF Updating
<1> QED
  BY <1>12, <1>13, <1>14 DEF IInv

\* The rollback puts back what mirrors the server.
LEMMA FailHolds ==
  ASSUME IInv, NEW m \in Mutations, Fail(m)
  PROVE  IInv'
<1> DEFINE mu   == mutation[m]
           I    == {i \in 1..Len(wire) : wire[i].kind = "answer" => wire[i].of # m}
           rest == Kept(wire, I)
           J    == {i \in 1..Len(pending) : pending[i].kind = "answer" => pending[i].of # m}
           left == Kept(pending, J)
           back == IF mu.list = <<>> THEN Outcome(list, FALSE, mu.stale)
                   ELSE Outcome(mu.list[1], TRUE, mu.stale)
<1>1. /\ Flight(m) /\ WriteList(back, mu.stale, rest)
      /\ IF mu.detail = None
         THEN UNCHANGED <<detail, dstale, dfetch>>
         ELSE detail' = mu.detail /\ dstale' = FALSE /\ UNCHANGED dfetch
      /\ mutation' = [mutation EXCEPT ![m] = [at |-> "done"]]
      /\ pending' = left /\ prev' = [prev EXCEPT ![m] = None]
  BY DEF Fail
<1>2. /\ UNCHANGED fixed /\ filter' = filter /\ window' = window /\ involved' = involved
      /\ server' = server /\ done' = done /\ socket' = socket
      /\ misled' = misled /\ drops' = drops
      /\ crossed' = (crossed \/ (\/ mutation[m].at = "committed" \/ ~mutation[m].alone
                                 \/ \E n \in Mutations \ {m} : Flight(n)))
  BY DEF Fail, Crosses, fixed
<1>3. /\ Typed /\ TypeOK /\ server \in Issue /\ wire \in Seq(Message) /\ list \in Lists
      /\ mutation \in [Mutations -> Records] /\ detail \in Issue \cup {None}
      /\ mutation[m] \in Records /\ pending \in Seq(Announced)
      /\ prev \in [Updates -> Issue \cup {None}]
  BY DEF IInv, Typed, TypeOK
<1>4. /\ mu.stale \in BOOLEAN /\ mu.detail \in Issue \cup {None}
      /\ mu.list = <<>> \/ mu.list[1] \in Lists
  BY <1>1, <1>3, UpdateFacts DEF Flight
<1>5. /\ list' = Snapshot(m) /\ list' \in Lists
      /\ mu.stale => stale' = TRUE /\ fetch' = "asked" /\ wire' = Without("list", rest)
      /\ ~mu.stale => stale' \in BOOLEAN /\ fetch' = fetch /\ wire' = rest
  <2>1. back.list = Snapshot(m) /\ back.list \in Lists /\ back.set \in BOOLEAN
    BY <1>3, <1>4 DEF Outcome, Snapshot
  <2>2. stale \in BOOLEAN
    BY <1>3 DEF TypeOK
  <2> HIDE DEF back, rest
  <2> QED
    BY <2>1, <2>2, <1>1, <1>4 DEF WriteList
<1>6. /\ detail' = (IF mu.detail = None THEN detail ELSE mu.detail) /\ dfetch' = dfetch
      /\ dstale' \in BOOLEAN
  <2>1. dstale \in BOOLEAN
    BY <1>3 DEF TypeOK
  <2> HIDE DEF mu
  <2>2. CASE mu.detail = None
    BY <2>1, <2>2, <1>1
  <2>3. CASE mu.detail # None
    BY <2>3, <1>1
  <2> QED
    BY <2>2, <2>3
<1>7. PICK h \in [1..Len(rest) -> 1..Len(wire)] :
         \A j \in 1..Len(rest) : rest[j] = wire[h[j]]
  <2>1. I \in SUBSET (1..Len(wire))
    OBVIOUS
  <2> HIDE DEF I
  <2> QED
    BY <2>1, <1>3, KeptFacts
<1>8. rest \in Seq(Message)
  <2>1. I \in SUBSET (1..Len(wire))
    OBVIOUS
  <2> HIDE DEF I
  <2> QED
    BY <2>1, <1>3, KeptFacts
<1>15. left \in Seq(Announced) /\ (pending = <<>> => left = <<>>)
  <2>1. J \in SUBSET (1..Len(pending))
    OBVIOUS
  <2> HIDE DEF J
  <2>2. /\ left \in Seq(Announced)
        /\ \E g \in [1..Len(left) -> 1..Len(pending)] : TRUE
    BY <2>1, <1>3, KeptFacts
  <2> HIDE DEF left
  <2>3. ASSUME pending = <<>>
        PROVE  left = <<>>
    <3>1. \A j \in 1..Len(left) : FALSE
      BY <2>2, <2>3, EmptyFacts
    <3> QED
      BY <3>1, <2>2
  <2> QED
    BY <2>2, <2>3
<1> HIDE DEF rest, back, I, mu, left, J
<1>9. \A k : Waits(rest, k, 0) => Waits(wire, k, 0)
  <2>1. \A j \in 1..Len(rest) : h[j] > 0 /\ rest[j] = wire[h[j]]
    BY <1>7
  <2> QED
    BY <2>1 DEF Waits
<1>10. /\ wire' \in Seq(Message)
       /\ \A k : Waits(wire', k, 0) => Waits(wire, k, 0)
       /\ mu.stale => ~Waits(wire', "list", 0)
  BY <1>4, <1>5, <1>8, <1>9, WithoutFacts
<1>11. /\ mutation' \in [Mutations -> Records]
       /\ \A n \in Mutations : mutation'[n].at = "sent" => n # m /\ mutation[n].at = "sent"
  <2>1. [at |-> "done"] \in Records
    BY DEF Records
  <2> QED
    BY <2>1, <1>1, <1>3
<1>12. Typed'
  <2>1. \A n \in Mutations : mutation'[n].at \in {"unsent", "sent", "committed", "done"}
    BY <1>11, UpdateFacts
  <2>2. list'.card \in Issue \cup {None} /\ list'.total \in [Status -> Nat]
    BY <1>5 DEF Lists
  <2>3. stale' \in BOOLEAN /\ crossed' \in BOOLEAN
    BY <1>2, <1>4, <1>5
  <2>4. fetch' \in {"none", "asked", "answered"} /\ dfetch' \in {"none", "asked", "answered"}
    BY <1>3, <1>4, <1>5, <1>6 DEF TypeOK
  <2>5. detail' \in Issue \cup {None}
    BY <1>3, <1>4, <1>6
  <2>6. pending' \in Seq(Announced) /\ prev' \in [Updates -> Issue \cup {None}]
    BY <1>1, <1>3, <1>15
  <2> QED
    BY <1>2, <1>3, <1>5, <1>6, <1>10, <1>11, <2>1, <2>2, <2>3, <2>4, <2>5, <2>6
       DEF Typed, TypeOK
<1>13. Wired'
  <2>1. detail' = None => detail = None
    BY <1>6
  <2> QED
    BY <2>1, <1>2, <1>4, <1>5, <1>6, <1>10 DEF IInv, Wired
<1>14. Tracks'
  <2>1. SUFFICES ASSUME socket # "lost", ~crossed'
                 PROVE  /\ \A n \in Mutations : mutation'[n].at # "sent"
                        /\ Follows(Ahead', server, fetch', list', detail', dfetch', mutation', misled)
    BY <1>2, FixedKept DEF Tracks
  <2>2. mutation[m].at = "sent" /\ ~crossed
    BY <2>1, <1>1, <1>2 DEF Flight
  <2>3. Shown(m)
    BY <2>1, <2>2 DEF IInv, Tracks
  <2>4. \A n \in Mutations : mutation'[n].at # "sent"
    BY <2>3, <1>11 DEF Shown
  <2>5. rest = <<>>
    <3>1. \A k : ~Waits(rest, k, 0)
      BY <2>3, <1>9, EmptyFacts DEF Shown
    <3>2. 1 \in 1..Len(rest) => Waits(rest, rest[1].kind, 0)
      BY DEF Waits
    <3> QED
      BY <3>1, <3>2, <1>8
  <2>6. Ahead' = <<>>
    <3>1. wire' = <<>>
      BY <2>5, <1>4, <1>5, WithoutEmpty
    <3>2. pending' = <<>>
      BY <2>3, <1>1, <1>15 DEF Shown
    <3> QED
      BY <3>1, <3>2, EmptyFacts, JoinFacts DEF Ahead
  <2>7. misled \/ MirrorsAt(list', server)
    BY <2>3, <1>5 DEF Shown
  <2>8. detail' \in {None, server}
    BY <2>3, <1>6 DEF Shown, mu
  <2>9. ListFollows(Ahead', server, fetch', list', mutation', misled)
    BY <2>7 DEF ListFollows
  <2>10. Ahead' \in Seq(Message) /\ \A i \in 1..Len(Ahead') : FALSE
    BY <2>6, EmptyFacts
  <2> QED
    BY <2>4, <2>8, <2>9, <2>10, <1>3, FollowsStill
<1> QED
  BY <1>12, <1>13, <1>14 DEF IInv

\* A lost socket: nothing is claimed of a client that is not connected.
LEMMA DropHolds ==
  ASSUME IInv, Drop
  PROVE  IInv'
<1>1. /\ UNCHANGED fixed /\ filter' = filter /\ window' = window /\ involved' = involved
      /\ server' = server /\ prev' = prev /\ done' = done /\ pending' = pending
      /\ socket' = "lost" /\ wire' = Without("event", wire)
      /\ list' = list /\ stale' = stale /\ fetch' = fetch
      /\ detail' = detail /\ dfetch' = dfetch /\ dstale' = dstale
      /\ mutation' = mutation /\ crossed' = crossed /\ misled' = misled
      /\ drops < MaxDrops /\ drops' = drops + 1
  BY DEF Drop, fixed, origin, cache
<1>2. Typed /\ TypeOK /\ wire \in Seq(Message)
  BY DEF IInv, Typed
<1>3. /\ wire' \in Seq(Message) /\ ~Waits(wire', "event", 0)
      /\ \A k : Waits(wire', k, 0) => Waits(wire, k, 0)
  BY <1>1, <1>2, WithoutFacts
<1>4. Typed'
  <2>1. drops' \in 0..MaxDrops
    BY <1>1, <1>2, IssueCacheAssumption DEF TypeOK
  <2> QED
    BY <1>1, <1>2, <1>3, <2>1 DEF Typed, TypeOK
<1>5. Wired'
  BY <1>1, <1>3 DEF IInv, Wired
<1>6. Tracks'
  BY <1>1 DEF Tracks
<1> QED
  BY <1>4, <1>5, <1>6 DEF IInv

\* The refetch of a reconnect reads list and detail again.
LEMMA ReconnectHolds ==
  ASSUME IInv, Reconnect
  PROVE  IInv'
<1> DEFINE rest == Without("detail", wire)
<1>1. /\ UNCHANGED fixed /\ filter' = filter /\ window' = window /\ involved' = involved
      /\ socket = "lost" /\ socket' = "open"
      /\ crossed' = (Updating \/ pending # <<>>) /\ misled' = FALSE
      /\ stale' = TRUE /\ fetch' = "asked" /\ dstale' = (detail # None)
      /\ dfetch' = (IF detail = None THEN "none" ELSE "asked")
      /\ wire' = Without("list", rest)
      /\ server' = server /\ prev' = prev /\ done' = done /\ pending' = pending
      /\ list' = list /\ detail' = detail /\ mutation' = mutation /\ drops' = drops
  BY DEF Reconnect, fixed, origin
<1>2. /\ Typed /\ TypeOK /\ server \in Issue /\ wire \in Seq(Message)
      /\ detail \in Issue \cup {None} /\ pending \in Seq(Announced)
  BY DEF IInv, Typed, TypeOK
<1>3. /\ rest \in Seq(Message) /\ ~Waits(rest, "detail", 0)
      /\ \A k : Waits(rest, k, 0) => Waits(wire, k, 0)
  BY <1>2, WithoutFacts
<1> HIDE DEF rest
<1>4. /\ wire' \in Seq(Message) /\ ~Waits(wire', "list", 0)
      /\ \A k : Waits(wire', k, 0) => Waits(rest, k, 0)
  BY <1>1, <1>3, WithoutFacts
<1>5. ~Waits(wire', "detail", 0) /\ ~Waits(wire', "event", 0)
  BY <1>1, <1>3, <1>4 DEF IInv, Wired
<1>6. Typed'
  <2>1. dstale' \in BOOLEAN /\ crossed' \in BOOLEAN
    BY <1>1 DEF Updating
  <2> QED
    BY <1>1, <1>2, <1>4, <2>1 DEF Typed, TypeOK
<1>7. Wired'
  BY <1>1, <1>4, <1>5 DEF IInv, Wired
<1>8. Tracks'
  <2>1. Updating' <=> Updating
    BY <1>1, UpdatingSame
  <2>2. SUFFICES ASSUME ~Updating, pending = <<>>
                 PROVE  Follows(Ahead', server, fetch', list', detail', dfetch', mutation', FALSE)
    BY <2>1, <1>1, FixedKept DEF Tracks, Updating
  <2>6. Ahead' = wire'
    BY <2>2, <1>1, <1>2, <1>4, JoinFacts DEF Ahead
  <2>3. ASSUME NEW i \in 1..Len(wire')
        PROVE  wire'[i].kind = "answer"
    <3>1. i > 0 /\ wire'[i] \in Message
      BY <1>4
    <3>2. Waits(wire', wire'[i].kind, 0)
      BY <3>1 DEF Waits
    <3> QED
      BY <3>1, <3>2, <1>4, <1>5, MessageFacts
  <2>4. ListFollows(wire', server, fetch', list', mutation', FALSE)
    BY <1>1 DEF ListFollows
  <2>5. detail' = None \/ dfetch' = "asked"
    BY <1>1
  <2> QED
    BY <2>3, <2>4, <2>5, <2>6, <1>1, <1>2, <1>4, FollowsStill
<1> QED
  BY <1>6, <1>7, <1>8 DEF IInv

-----------------------------------------------------------------------------
(* What reaches the client.                                                *)

\* The wire without message i, and what is then ahead.
Rest(i) == Taken(wire, i)
Left(i) == Rest(i) \o pending

\* What is left when a message is taken consists of messages.
LEMMA RestTyped ==
  ASSUME IInv, NEW i \in 1..Len(wire)
  PROVE  /\ wire \in Seq(Message) /\ wire[i] \in Message /\ pending \in Seq(Announced)
         /\ Rest(i) \in Seq(Message) /\ Left(i) \in Seq(Message)
         /\ \A k : Waits(Rest(i), k, 0) => Waits(wire, k, 0)
         /\ Ahead \in Seq(Message)
         /\ i = 1 => /\ 1 \in 1..Len(Ahead) /\ Ahead[1] = wire[1]
                     /\ Len(Left(i)) = Len(Ahead) - 1
                     /\ \A j \in 1..(Len(Ahead) - 1) : Left(i)[j] = Ahead[j + 1]
<1> DEFINE n == Len(wire)
           q == Len(pending)
           rest == Rest(i)
           left == Left(i)
<1>1. wire \in Seq(Message) /\ pending \in Seq(Announced)
  BY DEF IInv, Typed
<1>2. wire[i] \in Message /\ n \in Nat /\ q \in Nat
  BY <1>1
<1>3. /\ rest \in Seq(Message) /\ Len(rest) = n - 1
      /\ \A j \in 1..(n - 1) : rest[j] = IF j < i THEN wire[j] ELSE wire[j + 1]
  BY <1>1, RestFacts DEF Rest
<1>4. \A k : Waits(rest, k, 0) => Waits(wire, k, 0)
  BY <1>1, RestWaits DEF Rest
<1> HIDE DEF rest
<1>5. /\ left \in Seq(Message) /\ Len(left) = (n - 1) + q
      /\ \A j \in 1..Len(left) : left[j] = IF j <= n - 1 THEN rest[j] ELSE pending[j - (n - 1)]
  <2>1. left = rest \o pending
    BY DEF Left, rest
  <2> HIDE DEF left, n, q
  <2>2. /\ left \in Seq(Message) /\ Len(left) = Len(rest) + Len(pending)
        /\ \A j \in 1..Len(left) :
              left[j] = IF j <= Len(rest) THEN rest[j] ELSE pending[j - Len(rest)]
    BY <2>1, <1>1, <1>3, JoinFacts
  <2> QED
    BY <2>2, <1>3 DEF q
<1>6. /\ Ahead \in Seq(Message) /\ Len(Ahead) = n + q
      /\ \A j \in 1..Len(Ahead) : Ahead[j] = IF j <= n THEN wire[j] ELSE pending[j - n]
  BY <1>1, JoinFacts DEF Ahead
<1> HIDE DEF n, q, left
<1>7. ASSUME i = 1
      PROVE  /\ 1 \in 1..Len(Ahead) /\ Ahead[1] = wire[1]
             /\ Len(left) = Len(Ahead) - 1
             /\ \A j \in 1..(Len(Ahead) - 1) : left[j] = Ahead[j + 1]
  <2>1. n > 0
    BY <1>2, <1>7 DEF n
  <2>2. 1 \in 1..Len(Ahead) /\ 1 <= n /\ Len(left) = Len(Ahead) - 1
    BY <2>1, <1>2, <1>5, <1>6
  <2>3. ASSUME NEW j \in 1..(Len(Ahead) - 1)
        PROVE  left[j] = Ahead[j + 1]
    <3>1. j \in 1..Len(left) /\ j + 1 \in 1..Len(Ahead) /\ j \in Nat
      BY <1>2, <1>5, <1>6
    <3>2. CASE j <= n - 1
      <4>1. j \in 1..(n - 1) /\ ~ (j < i) /\ j + 1 <= n
        BY <3>1, <3>2, <1>2, <1>7
      <4>2. left[j] = rest[j] /\ rest[j] = wire[j + 1] /\ Ahead[j + 1] = wire[j + 1]
        BY <4>1, <3>1, <3>2, <1>3, <1>5, <1>6 DEF n
      <4> QED
        BY <4>2
    <3>3. CASE ~ (j <= n - 1)
      <4>1. ~ (j + 1 <= n) /\ j - (n - 1) = (j + 1) - n
        BY <3>1, <3>3, <1>2
      <4>2. left[j] = pending[j - (n - 1)] /\ Ahead[j + 1] = pending[(j + 1) - n]
        BY <4>1, <3>1, <3>3, <1>5, <1>6
      <4> QED
        BY <4>1, <4>2
    <3> QED
      BY <3>2, <3>3
  <2> QED
    BY <2>2, <2>3, <1>6
<1> QED
  BY <1>1, <1>2, <1>3, <1>4, <1>5, <1>6, <1>7 DEF rest, left

\* What arrives in order finds no update in flight and the cache where it was.
LEMMA InOrder ==
  ASSUME IInv, NEW i \in 1..Len(wire), socket # "lost", ~crossed, i = 1
  PROVE  /\ Ahead[1] = wire[i]
         /\ \A m \in Mutations : mutation[m].at # "sent"
         /\ \A k : wire[i].kind # k /\ Waits(Ahead, k, 0) => Waits(Left(i), k, 0)
         /\ Marked(Ahead, mutation) =>
              Marked(Left(i), mutation) \/ (wire[i].kind = "answer" /\ mutation[wire[i].of].stale)
         /\ \E old \in Issue, new \in Issue :
              /\ Heard(Ahead, Left(i), fetch, list, detail, dfetch, mutation, old, new, misled)
              /\ \A f2, l2, d2, df2, mu2 :
                    /\ fetch = "asked" => f2 = "asked"
                    /\ detail = None => d2 = None
                    /\ dfetch = "asked" <=> df2 = "asked"
                    /\ DetailFollows(Left(i), new, d2, df2)
                    /\ ListFollows(Left(i), new, f2, l2, mu2, misled)
                    => Follows(Left(i), server, f2, l2, d2, df2, mu2, misled)
<1>1. wire # <<>>
  BY EmptyFacts
<1>2. \A m \in Mutations : mutation[m].at # "sent"
  BY <1>1 DEF IInv, Tracks, Shown
<1>3. Follows(Ahead, server, fetch, list, detail, dfetch, mutation, misled)
  BY <1>2 DEF IInv, Tracks, Updating
<1>4. /\ Ahead \in Seq(Message) /\ Left(i) \in Seq(Message) /\ 1 \in 1..Len(Ahead)
      /\ Ahead[1] = wire[i] /\ Len(Left(i)) = Len(Ahead) - 1
      /\ \A j \in 1..(Len(Ahead) - 1) : Left(i)[j] = Ahead[j + 1]
  BY RestTyped
<1> QED
  BY <1>2, <1>3, <1>4, FollowsTaken

\* An outcome is written, and the list read again when it is invalidated.
LEMMA ListWritten ==
  ASSUME NEW rest \in Seq(Message), NEW out, NEW inv \in BOOLEAN,
         stale \in BOOLEAN, out.set \in BOOLEAN,
         WriteList(out, inv, rest)
  PROVE  /\ list' = out.list /\ stale' \in BOOLEAN
         /\ inv => fetch' = "asked" /\ wire' = Without("list", rest)
         /\ ~inv => fetch' = fetch /\ wire' = rest
         /\ wire' \in Seq(Message)
         /\ \A k : Waits(wire', k, 0) => Waits(rest, k, 0)
         /\ inv => ~Waits(wire', "list", 0)
<1>1. /\ list' = out.list /\ stale' \in BOOLEAN
      /\ inv => fetch' = "asked" /\ wire' = Without("list", rest)
      /\ ~inv => fetch' = fetch /\ wire' = rest
  BY DEF WriteList
<1> QED
  BY <1>1, WithoutFacts

\* After that the cache follows, if it would with the list as it is written or
\* asked for.
LEMMA WrittenFollows ==
  ASSUME NEW rest \in Seq(Message), NEW left, left = rest \o pending,
         pending \in Seq(Announced), pending' = pending,
         NEW inv \in BOOLEAN, NEW new, NEW last,
         inv => fetch' = "asked" /\ wire' = Without("list", rest),
         ~inv => fetch' = fetch /\ wire' = rest,
         ~inv => ListFollows(left, new, fetch, list', mutation', misled),
         \A f2 : /\ fetch = "asked" => f2 = "asked"
                 /\ ListFollows(left, new, f2, list', mutation', misled)
                 => Follows(left, last, f2, list', detail', dfetch', mutation', misled)
  PROVE  Follows(Ahead', last, fetch', list', detail', dfetch', mutation', misled)
<1>1. CASE inv
  <2>1. ListFollows(left, new, "asked", list', mutation', misled)
    BY DEF ListFollows
  <2>2. Follows(left, last, "asked", list', detail', dfetch', mutation', misled)
    BY <2>1
  <2>3. left \in Seq(Message)
    BY JoinFacts
  <2>4. Follows(Without("list", left), last, "asked", list', detail', dfetch', mutation', misled)
    BY <2>2, <2>3, FollowsAsked
  <2>5. Ahead' = Without("list", left)
    BY <1>1, WithoutJoin DEF Ahead
  <2> QED
    BY <2>4, <2>5, <1>1
<1>2. CASE ~inv
  <2>1. Ahead' = left
    BY <1>2 DEF Ahead
  <2> QED
    BY <2>1, <1>2
<1> QED
  BY <1>1, <1>2

\* An event is judged against a detail that is its predecessor or unknown.
LEMMA EventHolds ==
  ASSUME IInv, NEW i \in 1..Len(wire), Crosses(i # 1), wire[i].kind = "event",
         OnIssueUpdated(wire[i], Rest(i)),
         UNCHANGED <<fixed, origin, pending, socket, misled, drops>>
  PROVE  IInv'
<1> DEFINE msg == wire[i]
           rest == Rest(i)
           left == Left(i)
           out == Apply(msg.issue, msg.dims, detail)
<1>1. /\ WriteList(out, out.stale, rest)
      /\ detail' = (IF detail = None THEN None ELSE Merged(detail, msg.issue))
      /\ dstale' = (dstale /\ detail = None) /\ dfetch' = dfetch
      /\ mutation' = Disturbed(mutation)
  BY DEF OnIssueUpdated, WriteDetail
<1>2. /\ UNCHANGED fixed /\ filter' = filter /\ window' = window /\ involved' = involved
      /\ server' = server /\ prev' = prev /\ done' = done /\ pending' = pending
      /\ socket' = socket /\ misled' = misled /\ drops' = drops
      /\ crossed' = (crossed \/ i # 1)
  BY DEF Crosses, fixed, origin
<1>3. /\ Typed /\ TypeOK /\ server \in Issue /\ list \in Lists
      /\ mutation \in [Mutations -> Records] /\ detail \in Issue \cup {None}
      /\ stale \in BOOLEAN
  BY DEF IInv, Typed, TypeOK
<1>4. /\ wire \in Seq(Message) /\ rest \in Seq(Message)
      /\ pending \in Seq(Announced) /\ left \in Seq(Message) /\ left = rest \o pending
      /\ \A k : Waits(rest, k, 0) => Waits(wire, k, 0)
      /\ msg.issue \in Issue /\ msg.dims \in Dims
  BY RestTyped, MessageFacts DEF Left
<1>5. out.list \in Lists /\ out.set \in BOOLEAN /\ out.stale \in BOOLEAN
  BY <1>3, <1>4, ApplyTyped
<1>6. detail' = IF detail = None THEN None ELSE msg.issue
  BY <1>1, <1>3, <1>4, MergedWhole
<1> HIDE DEF out, msg, rest, left
<1>7. /\ list' = out.list /\ stale' \in BOOLEAN
      /\ out.stale => fetch' = "asked" /\ wire' = Without("list", rest)
      /\ ~out.stale => fetch' = fetch /\ wire' = rest
      /\ wire' \in Seq(Message)
      /\ \A k : Waits(wire', k, 0) => Waits(rest, k, 0)
      /\ out.stale => ~Waits(wire', "list", 0)
  BY <1>1, <1>3, <1>4, <1>5, ListWritten
<1>8. /\ mutation' \in [Mutations -> Records]
      /\ \A m \in Mutations : mutation'[m].at = mutation[m].at
      /\ Marked(left, mutation) => Marked(left, mutation')
  BY <1>1, <1>3, <1>4, DisturbedFacts
<1>9. Typed'
  <2>1. \A m \in Mutations : mutation'[m].at \in {"unsent", "sent", "committed", "done"}
    BY <1>8, UpdateFacts
  <2>2. list' \in Lists /\ list'.card \in Issue \cup {None} /\ list'.total \in [Status -> Nat]
    BY <1>5, <1>7 DEF Lists
  <2>3. dstale' \in BOOLEAN /\ crossed' \in BOOLEAN
    BY <1>1, <1>2
  <2>4. fetch' \in {"none", "asked", "answered"} /\ dfetch' \in {"none", "asked", "answered"}
    BY <1>1, <1>3, <1>5, <1>7 DEF TypeOK
  <2>5. detail' \in Issue \cup {None}
    BY <1>4, <1>6
  <2> QED
    BY <1>2, <1>3, <1>7, <1>8, <2>1, <2>2, <2>3, <2>4, <2>5 DEF Typed, TypeOK
<1>10. Wired'
  <2>1. detail' = None => detail = None
    BY <1>4, <1>6, NoneIsNothing
  <2> QED
    BY <2>1, <1>1, <1>2, <1>4, <1>5, <1>7 DEF IInv, Wired
<1>11. Tracks'
  <2>1. SUFFICES ASSUME socket # "lost", ~crossed, i = 1
                 PROVE  /\ \A m \in Mutations : mutation'[m].at # "sent"
                        /\ Follows(Ahead', server, fetch', list', detail', dfetch', mutation', misled)
    BY <1>2, FixedKept DEF Tracks
  <2>2. PICK old \in Issue, new \in Issue :
          /\ Heard(Ahead, left, fetch, list, detail, dfetch, mutation, old, new, misled)
          /\ \A f2, l2, d2, df2, mu2 :
                /\ fetch = "asked" => f2 = "asked"
                /\ detail = None => d2 = None
                /\ dfetch = "asked" <=> df2 = "asked"
                /\ DetailFollows(left, new, d2, df2)
                /\ ListFollows(left, new, f2, l2, mu2, misled)
                => Follows(left, server, f2, l2, d2, df2, mu2, misled)
    BY <2>1, InOrder DEF left
  <2>3. /\ msg.issue = new /\ (misled \/ Tells(msg.dims, old, new)) /\ detail \in {None, old}
        /\ ListFollows(Ahead, old, fetch, list, mutation, misled)
    BY <2>1, <2>2, InOrder DEF Heard, msg
  <2>4. /\ Waits(Ahead, "list", 0) => Waits(left, "list", 0)
        /\ Marked(Ahead, mutation) => Marked(left, mutation)
    BY <2>1, InOrder DEF left
  <2>5. DetailFollows(left, new, detail', dfetch')
    BY <2>3, <1>6 DEF DetailFollows
  <2>6. MirrorsAt(list, old) => misled \/ out.stale \/ MirrorsAt(list', new)
    <3>1. Merged(old, msg.issue) = new
      BY <2>3, MergedWhole
    <3> QED
      BY <3>1, <2>3, <1>3, <1>4, <1>7, ApplyMirrors DEF out
  <2>7. ~out.stale => ListFollows(left, new, fetch, list', mutation', misled)
    BY <2>3, <2>4, <2>6, <1>8 DEF ListFollows
  <2>8. \A f2 : /\ fetch = "asked" => f2 = "asked"
                /\ ListFollows(left, new, f2, list', mutation', misled)
                => Follows(left, server, f2, list', detail', dfetch', mutation', misled)
    BY <2>2, <2>5, <1>1, <1>6
  <2>9. Follows(Ahead', server, fetch', list', detail', dfetch', mutation', misled)
    BY <2>7, <2>8, <1>2, <1>4, <1>5, <1>7, WrittenFollows
  <2>10. \A m \in Mutations : mutation'[m].at # "sent"
    BY <2>1, <1>8, InOrder
  <2> QED
    BY <2>9, <2>10
<1> QED
  BY <1>9, <1>10, <1>11 DEF IInv

\* The answer of an update: card, totals and detail catch up, or are read again.
LEMMA AnswerHolds ==
  ASSUME IInv, NEW i \in 1..Len(wire), Crosses(i # 1), wire[i].kind = "answer",
         Succeed(wire[i], Rest(i)),
         UNCHANGED <<fixed, origin, pending, socket, misled, drops>>
  PROVE  IInv'
<1> DEFINE msg == wire[i]
           rest == Rest(i)
           left == Left(i)
           m   == msg.of
           dims == [status |-> FALSE, mine |-> FALSE]
           out == Apply(msg.issue, dims, msg.issue)
           inv == out.stale \/ mutation[m].stale
<1>1. /\ WriteList(out, inv, rest)
      /\ detail' = (IF detail = None THEN None ELSE Merged(detail, msg.issue))
      /\ dstale' = (dstale /\ detail = None) /\ dfetch' = dfetch
      /\ mutation' = [Disturbed(mutation) EXCEPT ![m] = [at |-> "done"]]
  BY DEF Succeed, WriteDetail
<1>2. /\ UNCHANGED fixed /\ filter' = filter /\ window' = window /\ involved' = involved
      /\ server' = server /\ prev' = prev /\ done' = done /\ pending' = pending
      /\ socket' = socket /\ misled' = misled /\ drops' = drops
      /\ crossed' = (crossed \/ i # 1)
  BY DEF Crosses, fixed, origin
<1>3. /\ Typed /\ TypeOK /\ server \in Issue /\ list \in Lists
      /\ mutation \in [Mutations -> Records] /\ detail \in Issue \cup {None}
      /\ stale \in BOOLEAN
  BY DEF IInv, Typed, TypeOK
<1>4. /\ wire \in Seq(Message) /\ rest \in Seq(Message)
      /\ pending \in Seq(Announced) /\ left \in Seq(Message) /\ left = rest \o pending
      /\ \A k : Waits(rest, k, 0) => Waits(wire, k, 0)
      /\ msg.issue \in Issue /\ m \in Mutations
  BY RestTyped, MessageFacts DEF Left
<1>5. out.list \in Lists /\ out.set \in BOOLEAN /\ out.stale \in BOOLEAN
  <2>1. dims \in Dims
    BY DEF Dims
  <2> HIDE DEF dims
  <2> QED
    BY <2>1, <1>3, <1>4, ApplyTyped
<1> inv \in BOOLEAN
  OBVIOUS
<1>6. detail' = IF detail = None THEN None ELSE msg.issue
  BY <1>1, <1>3, <1>4, MergedWhole
<1> HIDE DEF out, msg, rest, left, dims, inv, m
<1>7. /\ list' = out.list /\ stale' \in BOOLEAN
      /\ inv => fetch' = "asked" /\ wire' = Without("list", rest)
      /\ ~inv => fetch' = fetch /\ wire' = rest
      /\ wire' \in Seq(Message)
      /\ \A k : Waits(wire', k, 0) => Waits(rest, k, 0)
      /\ inv => ~Waits(wire', "list", 0)
  BY <1>1, <1>3, <1>4, <1>5, ListWritten
<1>8. /\ mutation' \in [Mutations -> Records]
      /\ \A n \in Mutations : mutation'[n].at = "sent" => mutation[n].at = "sent"
      /\ ~inv /\ Marked(left, mutation) => Marked(left, mutation')
  <2>1. [at |-> "done"] \in Records /\ [at |-> "done"].at = "done"
    BY DEF Records
  <2>2. /\ Disturbed(mutation) \in [Mutations -> Records]
        /\ \A n \in Mutations :
              /\ Disturbed(mutation)[n].at = mutation[n].at
              /\ mutation[n].at = "committed" =>
                    Disturbed(mutation)[n].stale = mutation[n].stale
    BY <1>3, DisturbedFacts
  <2>3. /\ mutation' \in [Mutations -> Records] /\ mutation'[m].at = "done"
        /\ \A n \in Mutations : n # m => mutation'[n] = Disturbed(mutation)[n]
    BY <2>1, <2>2, <1>1, <1>4
  <2>4. ASSUME ~inv, Marked(left, mutation)
        PROVE  Marked(left, mutation')
    <3>1. PICK j \in 1..Len(left) :
             /\ left[j].kind = "answer"
             /\ mutation[left[j].of].at = "committed" /\ mutation[left[j].of].stale
      BY <2>4 DEF Marked
    <3>2. left[j].of \in Mutations
      BY <3>1, <1>4, MessageFacts
    <3>3. left[j].of # m
      BY <3>1, <2>4 DEF inv
    <3>4. mutation'[left[j].of].at = "committed" /\ mutation'[left[j].of].stale
      BY <3>1, <3>2, <3>3, <2>2, <2>3
    <3> QED
      BY <3>1, <3>4 DEF Marked
  <2> QED
    BY <2>2, <2>3, <2>4
<1>9. Typed'
  <2>1. \A n \in Mutations : mutation'[n].at \in {"unsent", "sent", "committed", "done"}
    BY <1>8, UpdateFacts
  <2>2. list' \in Lists /\ list'.card \in Issue \cup {None} /\ list'.total \in [Status -> Nat]
    BY <1>5, <1>7 DEF Lists
  <2>3. dstale' \in BOOLEAN /\ crossed' \in BOOLEAN
    BY <1>1, <1>2
  <2>4. fetch' \in {"none", "asked", "answered"} /\ dfetch' \in {"none", "asked", "answered"}
    BY <1>1, <1>3, <1>5, <1>7 DEF TypeOK
  <2>5. detail' \in Issue \cup {None}
    BY <1>4, <1>6
  <2> QED
    BY <1>2, <1>3, <1>7, <1>8, <2>1, <2>2, <2>3, <2>4, <2>5 DEF Typed, TypeOK
<1>10. Wired'
  <2>1. detail' = None => detail = None
    BY <1>4, <1>6, NoneIsNothing
  <2> QED
    BY <2>1, <1>1, <1>2, <1>4, <1>5, <1>7 DEF IInv, Wired
<1>11. Tracks'
  <2>1. SUFFICES ASSUME socket # "lost", ~crossed, i = 1
                 PROVE  /\ \A n \in Mutations : mutation'[n].at # "sent"
                        /\ Follows(Ahead', server, fetch', list', detail', dfetch', mutation', misled)
    BY <1>2, FixedKept DEF Tracks
  <2>2. PICK old \in Issue, new \in Issue :
          /\ Heard(Ahead, left, fetch, list, detail, dfetch, mutation, old, new, misled)
          /\ \A f2, l2, d2, df2, mu2 :
                /\ fetch = "asked" => f2 = "asked"
                /\ detail = None => d2 = None
                /\ dfetch = "asked" <=> df2 = "asked"
                /\ DetailFollows(left, new, d2, df2)
                /\ ListFollows(left, new, f2, l2, mu2, misled)
                => Follows(left, server, f2, l2, d2, df2, mu2, misled)
    BY <2>1, InOrder DEF left
  <2>3. /\ old = new
        /\ msg.issue = new \/ fetch = "asked" \/ Waits(left, "list", 0)
        /\ msg.issue = new \/ detail = None \/ dfetch = "asked" \/ Waits(left, "detail", 0)
        /\ ListFollows(Ahead, old, fetch, list, mutation, misled)
    BY <2>1, <2>2, InOrder DEF Heard, msg
  <2>4. /\ Waits(Ahead, "list", 0) => Waits(left, "list", 0)
        /\ Marked(Ahead, mutation) => Marked(left, mutation) \/ inv
    <3>1. /\ Waits(Ahead, "list", 0) => Waits(left, "list", 0)
          /\ Marked(Ahead, mutation) => Marked(left, mutation) \/ mutation[m].stale
      BY <2>1, InOrder DEF left, msg, m
    <3> QED
      BY <3>1 DEF inv
  <2>5. DetailFollows(left, new, detail', dfetch')
    BY <2>3, <1>1, <1>6 DEF DetailFollows
  <2>6. msg.issue = new /\ MirrorsAt(list, new) => inv \/ MirrorsAt(list', new)
    <3>1. SUFFICES ASSUME msg.issue = new, MirrorsAt(list, new)
                   PROVE  out.stale \/ MirrorsAt(out.list, new)
      BY <1>7 DEF inv
    <3>2. Merged(new, new) = new /\ Tells(dims, new, new) /\ dims \in Dims
      BY MergedWhole DEF Tells, dims, Dims
    <3> QED
      BY <3>1, <3>2, <1>3, ApplyMirrors DEF out
  <2>7. ~inv => ListFollows(left, new, fetch, list', mutation', misled)
    BY <2>3, <2>4, <2>6, <1>8 DEF ListFollows
  <2>8. \A f2 : /\ fetch = "asked" => f2 = "asked"
                /\ ListFollows(left, new, f2, list', mutation', misled)
                => Follows(left, server, f2, list', detail', dfetch', mutation', misled)
    BY <2>2, <2>5, <1>1, <1>6
  <2>9. Follows(Ahead', server, fetch', list', detail', dfetch', mutation', misled)
    BY <2>7, <2>8, <1>2, <1>4, <1>5, <1>7, WrittenFollows
  <2>10. \A n \in Mutations : mutation'[n].at # "sent"
    BY <2>1, <1>8, InOrder
  <2> QED
    BY <2>9, <2>10
<1> QED
  BY <1>9, <1>10, <1>11 DEF IInv

\* A list's answer replaces the cached one.
LEMMA ListHolds ==
  ASSUME IInv, NEW i \in 1..Len(wire), Crosses(i # 1), wire[i].kind = "list",
         OnList(wire[i], Rest(i)),
         UNCHANGED <<fixed, origin, pending, socket, misled, drops>>
  PROVE  IInv'
<1> DEFINE msg == wire[i]
           rest == Rest(i)
           left == Left(i)
<1>1. /\ list' = msg.view /\ stale' = FALSE /\ fetch' = "none" /\ wire' = rest
      /\ mutation' = Disturbed(mutation)
      /\ detail' = detail /\ dfetch' = dfetch /\ dstale' = dstale
  BY DEF OnList
<1>2. /\ UNCHANGED fixed /\ filter' = filter /\ window' = window /\ involved' = involved
      /\ server' = server /\ prev' = prev /\ done' = done /\ pending' = pending
      /\ socket' = socket /\ misled' = misled /\ drops' = drops
      /\ crossed' = (crossed \/ i # 1)
  BY DEF Crosses, fixed, origin
<1>3. Typed /\ TypeOK /\ mutation \in [Mutations -> Records]
  BY DEF IInv, Typed
<1>4. /\ pending \in Seq(Announced) /\ left \in Seq(Message) /\ left = rest \o pending
      /\ rest \in Seq(Message) /\ msg.view \in Lists
      /\ \A k : Waits(rest, k, 0) => Waits(wire, k, 0)
  BY RestTyped, MessageFacts DEF Left
<1>5. fetch # "asked"
  <2>1. Waits(wire, "list", 0)
    <3>1. i > 0
      BY DEF IInv, Typed
    <3> QED
      BY <3>1 DEF Waits
  <2> QED
    BY <2>1 DEF IInv, Wired
<1> HIDE DEF msg, rest, left
<1>6. /\ mutation' \in [Mutations -> Records]
      /\ \A m \in Mutations : mutation'[m].at = mutation[m].at
  BY <1>1, <1>3, DisturbedFacts
<1>7. Typed'
  <2>1. \A m \in Mutations : mutation'[m].at \in {"unsent", "sent", "committed", "done"}
    BY <1>6, UpdateFacts
  <2>2. list' \in Lists /\ list'.card \in Issue \cup {None} /\ list'.total \in [Status -> Nat]
    BY <1>1, <1>4 DEF Lists
  <2>3. crossed' \in BOOLEAN
    BY <1>2
  <2> QED
    BY <1>1, <1>2, <1>3, <1>4, <1>6, <2>1, <2>2, <2>3 DEF Typed, TypeOK
<1>8. Wired'
  BY <1>1, <1>2, <1>4 DEF IInv, Wired
<1>9. Tracks'
  <2>1. SUFFICES ASSUME socket # "lost", ~crossed, i = 1
                 PROVE  /\ \A m \in Mutations : mutation'[m].at # "sent"
                        /\ Follows(left, server, "none", list', detail, dfetch, mutation', misled)
    BY <1>1, <1>2, <1>4, FixedKept DEF Tracks, Ahead
  <2>2. PICK old \in Issue, new \in Issue :
          /\ Heard(Ahead, left, fetch, list, detail, dfetch, mutation, old, new, misled)
          /\ \A f2, l2, d2, df2, mu2 :
                /\ fetch = "asked" => f2 = "asked"
                /\ detail = None => d2 = None
                /\ dfetch = "asked" <=> df2 = "asked"
                /\ DetailFollows(left, new, d2, df2)
                /\ ListFollows(left, new, f2, l2, mu2, misled)
                => Follows(left, server, f2, l2, d2, df2, mu2, misled)
    BY <2>1, InOrder DEF left
  <2>3. old = new /\ msg.view = View(new) /\ DetailFollows(Ahead, old, detail, dfetch)
    BY <2>1, <2>2, InOrder DEF Heard, msg
  <2>4. Waits(Ahead, "detail", 0) => Waits(left, "detail", 0)
    BY <2>1, InOrder DEF left
  <2>5. DetailFollows(left, new, detail, dfetch)
    BY <2>3, <2>4 DEF DetailFollows
  <2>6. ListFollows(left, new, "none", list', mutation', misled)
    BY <2>3, <1>1, ViewTyped DEF ListFollows
  <2>7. Follows(left, server, "none", list', detail, dfetch, mutation', misled)
    BY <2>2, <2>5, <2>6, <1>5
  <2>8. \A m \in Mutations : mutation'[m].at # "sent"
    BY <2>1, <1>6, InOrder
  <2> QED
    BY <2>7, <2>8
<1> QED
  BY <1>7, <1>8, <1>9 DEF IInv

\* A detail's answer replaces the cached one.
LEMMA DetailHolds ==
  ASSUME IInv, NEW i \in 1..Len(wire), Crosses(i # 1), wire[i].kind = "detail",
         OnDetail(wire[i], Rest(i)),
         UNCHANGED <<fixed, origin, pending, socket, misled, drops>>
  PROVE  IInv'
<1> DEFINE msg == wire[i]
           rest == Rest(i)
           left == Left(i)
<1>1. /\ detail' = msg.issue /\ dstale' = FALSE /\ dfetch' = "none" /\ wire' = rest
      /\ mutation' = Disturbed(mutation)
      /\ list' = list /\ fetch' = fetch /\ stale' = stale
  BY DEF OnDetail
<1>2. /\ UNCHANGED fixed /\ filter' = filter /\ window' = window /\ involved' = involved
      /\ server' = server /\ prev' = prev /\ done' = done /\ pending' = pending
      /\ socket' = socket /\ misled' = misled /\ drops' = drops
      /\ crossed' = (crossed \/ i # 1)
  BY DEF Crosses, fixed, origin
<1>3. Typed /\ TypeOK /\ mutation \in [Mutations -> Records]
  BY DEF IInv, Typed
<1>4. /\ pending \in Seq(Announced) /\ left \in Seq(Message) /\ left = rest \o pending
      /\ rest \in Seq(Message) /\ msg.issue \in Issue
      /\ \A k : Waits(rest, k, 0) => Waits(wire, k, 0)
  BY RestTyped, MessageFacts DEF Left
<1>5. dfetch # "asked" /\ detail # None
  <2>1. Waits(wire, "detail", 0)
    <3>1. i > 0
      BY DEF IInv, Typed
    <3> QED
      BY <3>1 DEF Waits
  <2> QED
    BY <2>1 DEF IInv, Wired
<1> HIDE DEF msg, rest, left
<1>6. /\ mutation' \in [Mutations -> Records]
      /\ \A m \in Mutations : mutation'[m].at = mutation[m].at
      /\ Marked(left, mutation) => Marked(left, mutation')
  BY <1>1, <1>3, <1>4, DisturbedFacts
<1>7. Typed'
  <2>1. \A m \in Mutations : mutation'[m].at \in {"unsent", "sent", "committed", "done"}
    BY <1>6, UpdateFacts
  <2>2. crossed' \in BOOLEAN
    BY <1>2
  <2> QED
    BY <1>1, <1>2, <1>3, <1>4, <1>6, <2>1, <2>2 DEF Typed, TypeOK
<1>8. Wired'
  <2>1. detail' # None
    BY <1>1, <1>4, NoneIsNothing
  <2> QED
    BY <2>1, <1>1, <1>2, <1>4 DEF IInv, Wired
<1>9. Tracks'
  <2>1. SUFFICES ASSUME socket # "lost", ~crossed, i = 1
                 PROVE  /\ \A m \in Mutations : mutation'[m].at # "sent"
                        /\ Follows(left, server, fetch, list, detail', "none", mutation', misled)
    BY <1>1, <1>2, <1>4, FixedKept DEF Tracks, Ahead
  <2>2. PICK old \in Issue, new \in Issue :
          /\ Heard(Ahead, left, fetch, list, detail, dfetch, mutation, old, new, misled)
          /\ \A f2, l2, d2, df2, mu2 :
                /\ fetch = "asked" => f2 = "asked"
                /\ detail = None => d2 = None
                /\ dfetch = "asked" <=> df2 = "asked"
                /\ DetailFollows(left, new, d2, df2)
                /\ ListFollows(left, new, f2, l2, mu2, misled)
                => Follows(left, server, f2, l2, d2, df2, mu2, misled)
    BY <2>1, InOrder DEF left
  <2>3. old = new /\ msg.issue = new /\ ListFollows(Ahead, old, fetch, list, mutation, misled)
    BY <2>1, <2>2, InOrder DEF Heard, msg
  <2>4. /\ Waits(Ahead, "list", 0) => Waits(left, "list", 0)
        /\ Marked(Ahead, mutation) => Marked(left, mutation)
    BY <2>1, InOrder DEF left
  <2>5. DetailFollows(left, new, detail', "none")
    BY <2>3, <1>1 DEF DetailFollows
  <2>6. ListFollows(left, new, fetch, list, mutation', misled)
    BY <2>3, <2>4, <1>6 DEF ListFollows
  <2>7. Follows(left, server, fetch, list, detail', "none", mutation', misled)
    BY <2>2, <2>5, <2>6, <1>5
  <2>8. \A m \in Mutations : mutation'[m].at # "sent"
    BY <2>1, <1>6, InOrder
  <2> QED
    BY <2>7, <2>8
<1> QED
  BY <1>7, <1>8, <1>9 DEF IInv

-----------------------------------------------------------------------------
(* The theorems.                                                           *)

LEMMA NextHolds ==
  ASSUME IInv, [Next]_vars
  PROVE  IInv'
<1>1. CASE Deliver
  <2>1. PICK i \in 1..Len(wire) :
          /\ Crosses(i # 1)
          /\ \/ wire[i].kind = "event"  /\ OnIssueUpdated(wire[i], Rest(i))
             \/ wire[i].kind = "answer" /\ Succeed(wire[i], Rest(i))
             \/ wire[i].kind = "list"   /\ OnList(wire[i], Rest(i))
             \/ wire[i].kind = "detail" /\ OnDetail(wire[i], Rest(i))
          /\ UNCHANGED <<fixed, origin, pending, socket, misled, drops>>
    BY <1>1 DEF Deliver, Rest
  <2> QED
    BY <2>1, EventHolds, AnswerHolds, ListHolds, DetailHolds
<1>2. CASE Publish \/ ReadList \/ ReadDetail \/ \E r \in Remotes : CommitOther(r)
  BY <1>2, PublishHolds, ReadListHolds, ReadDetailHolds, CommitOtherHolds
<1>3. CASE Drop \/ Reconnect \/ Register \/ \E u \in Updates : Read(u)
  BY <1>3, DropHolds, ReconnectHolds, RegisterHolds, ReadHolds
<1>4. CASE \E m \in Mutations : Mutate(m) \/ CommitOwn(m) \/ Fail(m)
  BY <1>4, MutateHolds, CommitOwnHolds, FailHolds
<1> QED
  BY <1>1, <1>2, <1>3, <1>4, StutterHolds DEF Next

\* The inductive invariant is one.
THEOREM Invariance == Spec => []IInv
BY InitHolds, NextHolds, PTL DEF Spec

\* The cache and the records of this client's updates keep their types
\* (cache-helpers.ts, mutations.ts).
THEOREM TypeCorrect == Spec => []TypeOK
<1>1. IInv => TypeOK
  BY DEF IInv, Typed
<1> QED
  BY <1>1, Invariance, PTL

\* At rest nothing is ahead of the client.
LEMMA RestFollows ==
  ASSUME IInv, Quiet, ~crossed
  PROVE  Follows(<<>>, server, fetch, list, detail, dfetch, mutation, misled)
<1>1. Ahead = <<>>
  BY EmptyFacts, JoinFacts DEF Quiet, Ahead
<1> QED
  BY <1>1 DEF IInv, Tracks, Quiet, Updating, Flight

\* Once everything has arrived in order, the list mirrors the server or is
\* being read again, whatever the list, its windows, the patches, the flags that
\* tell and the changes of others (cache-coordinator.ts, applyIssueChange;
\* handler/issue.go, UpdateIssue).
THEOREM ListEndsAsServer == Spec => []ListMirrors
<1>1. IInv => ListMirrors
  <2>1. SUFFICES ASSUME IInv, Quiet, ~crossed, ~misled
                 PROVE  Mirrors \/ fetch # "none"
    BY DEF ListMirrors
  <2>2. PICK st \in [0..Len(<<>>) -> Issue] :
          /\ Chain(<<>>, st, server, misled)
          /\ ListFollows(<<>>, st[0], fetch, list, mutation, misled)
    BY <2>1, RestFollows DEF Follows
  <2>3. st[0] = server
    BY <2>2, EmptyFacts DEF Chain
  <2>4. ~Marked(<<>>, mutation)
    BY EmptyFacts DEF Marked
  <2> QED
    BY <2>1, <2>2, <2>3, <2>4, EmptyFacts DEF ListFollows, MirrorsAt, Mirrors
<1> QED
  BY <1>1, Invariance, PTL

\* The detail of the issue likewise, also when the flags of an event have left
\* out a change (cache-coordinator.ts, use-realtime-sync.ts).
THEOREM DetailEndsAsServer == Spec => []DetailMirrors
<1>1. IInv => DetailMirrors
  <2>1. SUFFICES ASSUME IInv, Quiet, ~crossed
                 PROVE  detail \in {server, None} \/ dfetch # "none"
    BY DEF DetailMirrors
  <2>2. PICK st \in [0..Len(<<>>) -> Issue] :
          /\ Chain(<<>>, st, server, misled)
          /\ DetailFollows(<<>>, st[0], detail, dfetch)
    BY <2>1, RestFollows DEF Follows
  <2>3. st[0] = server
    BY <2>2, EmptyFacts DEF Chain
  <2> QED
    BY <2>2, <2>3, EmptyFacts DEF DetailFollows
<1> QED
  BY <1>1, Invariance, PTL

=============================================================================
