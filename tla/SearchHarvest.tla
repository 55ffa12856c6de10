------------------------------ MODULE SearchHarvest ------------------------------
(***************************************************************************)
(* One query of the search-harvest ledger and the ticks of the two login   *)
(* slots that run it.  A tick claims the ledger row, reads the result list *)
(* page by page, opens the rows whose body is not held, committing its     *)
(* place after every one, and at the last page decides whether the query   *)
(* is done, must be split, or has to be read once more.  A tick stops when *)
(* its time is up, when the login is lost, or dies; the next one goes on   *)
(* from the cursor.  A query that is done is opened again: with a gap, at  *)
(* once or after six hours; one for a reporter's whole year, from the      *)
(* start, when its turn comes (nothing else waits in its share, and it is  *)
(* among the four of the newest years that have rested six hours).         *)
(*                                                                         *)
(* The locks of a tick's slot and login are those of module SessionLock;   *)
(* here a slot runs one tick at a time.  The search form has no page       *)
(* field, as PakistanLawSite's has not: it opens a list at its first page. *)
(* A page lists a row once, so there are no phantom gaps.  Fewer than      *)
(* GAPPED_REOPEN_LIMIT queries of a share have gaps.  Annexure stubs are   *)
(* left out.  Splitting adds other ledger rows, which are not followed.    *)
(***************************************************************************)
EXTENDS Integers, Sequences, FiniteSets, Functions

CONSTANTS
  Tick, Owner,          \* the slots' ticks, and the one whose share the query is in
  Row, None,            \* rows of result lists
  Linked,               \* rows with a link to a body
  Keyed, Matched,       \* rows with a citation or a case name; those it finds the body of, once held
  Others,               \* rows whose body another query may stage
  Stuck,                \* rows whose body the site never serves
  Blank,                \* rows whose body is no judgment
  Lists,                \* what the site may list: its pages, the total it shows or None; is the query
                        \* for a reporter's year, can it be split; bounds: fetches that fail, early stops
  Cap,                  \* the site's result cap
  Tolerated,            \* rows without a link that do not count as an error
  Limit                 \* UNRESOLVED_SAMPLES_LIMIT: names of missing rows in the ledger row

ASSUME RowAssumption  == Stuck \subseteq Linked /\ Blank \subseteq Linked /\ Linked \subseteq Row /\ None \notin Row
ASSUME KeyAssumption  == Matched \subseteq Keyed /\ Keyed \subseteq Row /\ Others \subseteq Linked \ (Stuck \cup Blank)
ASSUME TickAssumption == Owner \in Tick /\ None \notin Tick
ASSUME CapAssumption  == Cap \in Nat /\ Tolerated \in Nat /\ Limit \in Nat
ASSUME ListAssumption ==
  \A l \in Lists : /\ l.pages \in Seq(Seq(Row)) /\ l.pages # <<>>
                   /\ \A n \in DOMAIN l.pages : IsInjective(l.pages[n])
                   /\ l.total \in Nat \cup {None} /\ l.fails \in Nat /\ l.stops \in Nat
                   /\ l.base \in BOOLEAN

VARIABLES
  list,          \* what the site lists
  held,          \* rows whose body is in the corpus or in staging
  row,           \* the ledger row as committed
  cool,          \* is its last run six hours ago, and has its turn come ("due")
  lock,          \* the Redis lock of the ledger row
  pc, mem,       \* of a tick: where it is, and what it has in memory
  fails, stops

vars == <<list, held, row, cool, lock, pc, mem, fails, stops>>

\* row_index 0 is the first row; next is the page of next_url, 0 without one.
Start == [page |-> 1, idx |-> 0, next |-> 0, unlinked |-> {}, samples |-> {}, tries |-> 0, totalTries |-> 0]

\* The variables of a run: the page that is open, its cursor and counters, what the page has brought.
NoMem == [at |-> 1, c |-> Start, rereading |-> FALSE, confirms |-> FALSE,
          pages |-> 0, seen |-> 0, known |-> 0, total |-> None,
          seenBefore |-> 0, knownBefore |-> 0, unlinkedBefore |-> {},
          met |-> {}, repeats |-> 0, fresh |-> {}, new |-> {}, resolved |-> 0, start |-> 0]

Open == {"pending", "in_progress"}

TypeOK ==
  /\ list \in Lists /\ held \subseteq Row /\ cool \in {"no", "yes", "due"}
  /\ row.status \in Open \cup {"done", "split", "failed"} /\ row.err \in {"none", "other", "linked", "total"}
  /\ row.cursor.samples \subseteq Row \X Nat /\ row.cursor.unlinked \subseteq Row \ Linked
  /\ row.known \in 0..row.seen /\ row.gap \in Nat
  /\ lock \in Tick \cup {None}
  /\ pc \in [Tick -> {"idle", "begin", "page", "turn", "leave", "dead"}]
  /\ fails \in 0..list.fails /\ stops \in 0..list.stops
  /\ \A t \in Tick : pc[t] # "idle" <=> lock = t

RowsOf(n) == Range(list.pages[n])
Listed    == UNION {RowsOf(n) : n \in DOMAIN list.pages}

\* What the site serves, and the lists may name.
Served == (Listed \cap Linked) \ (Stuck \cup Blank)

Init ==
  /\ list \in Lists /\ held \in SUBSET (Listed \ (Stuck \cup Blank))
  /\ row = [status |-> "pending", err |-> "none", gap |-> 0, pages |-> 0, seen |-> 0, known |-> 0,
            total |-> None, cursor |-> Start]
  /\ cool = "yes" /\ lock = None
  /\ pc = [t \in Tick |-> "idle"] /\ mem = [t \in Tick |-> NoMem]
  /\ fails = 0 /\ stops = 0
--------------------------------------------------------------------------------
Least(m, n) == IF m < n THEN m ELSE n
Size(S) == Cardinality(S)

Finished(r) == r.status \in {"done", "done_unlinked"}


\* What a tick opens again in its own share: a query with a gap, at once unless the gap has been looked
\* at twice, and the query of a reporter's year, from the start, when its turn has come.
Reopened(r) ==
  IF Finished(r) /\ r.gap > 0 /\ (cool # "no" \/ r.err \notin {"linked", "total"})
    THEN [r EXCEPT !.status = "pending", !.err = "other"]
  ELSE IF Finished(r) /\ list.base /\ cool = "due"
    THEN [r EXCEPT !.status = "pending", !.err = "other", !.gap = 0, !.pages = 0, !.seen = 0, !.known = 0,
                   !.cursor = [Start EXCEPT !.samples = r.cursor.samples]]
  ELSE r

ForTick(t) == IF t = Owner THEN Reopened(row) ELSE row

\* The row is claimed whether or not another tick runs it.
BeginTick_NoLock(t) ==
  /\ pc[t] = "idle"
  /\ IF ForTick(t).status \in Open
       THEN /\ row' = [ForTick(t) EXCEPT !.status = "in_progress"]
            /\ lock' = t /\ pc' = [pc EXCEPT ![t] = "begin"] /\ cool' = "no"
       ELSE row' = ForTick(t) /\ UNCHANGED <<lock, pc, cool>>
  /\ UNCHANGED <<list, held, mem, fails, stops>>

\* A tick of the owner's slot, or of the other one when it takes over the share.
BeginTick(t) ==
  /\ pc[t] = "idle"
  /\ IF lock = None /\ ForTick(t).status \in Open
       THEN /\ row' = [ForTick(t) EXCEPT !.status = "in_progress"]
            /\ lock' = t /\ pc' = [pc EXCEPT ![t] = "begin"] /\ cool' = "no"
       ELSE row' = ForTick(t) /\ UNCHANGED <<lock, pc, cool>>
  /\ UNCHANGED <<list, held, mem, fails, stops>>

Goes(t, where) == pc' = [pc EXCEPT ![t] = where]
--------------------------------------------------------------------------------
(* A page. *)

\* A row is met again, and its body is known to be held, by its keys; a row without keys is always new.
Fresh(w) == RowsOf(w.at) \ (w.met \cap Keyed)
New(w)   == Fresh(w) \ (held \cap Matched)

\* The one page of a list, read again to confirm that it is the last.
Confirms(w) == w.rereading /\ w.pages <= 1 /\ w.c.page = 1
Replaces(w) == Confirms(w) /\ Fresh(w) # {} /\ New(w) = {}

EntriesOf(samples, r) == {e \in samples : e[1] = r}

\* The rows that a list of entries <<row, which of its entries>> names.
Named(samples) == {e[1] : e \in samples}

\* remember_unmatched_gap_row, for the rows in S of a page in their order: a row with a link has one
\* entry, a row without gets another each time, and a full list takes no more.
Remembered(samples, page, S) ==
  LET due   == {i \in DOMAIN page : page[i] \in S \ (Linked \cap Named(samples))}
      taken == {i \in due : Size({j \in due : j < i}) < Limit - Size(samples)}
  IN  samples \cup {<<page[i], Size(EntriesOf(samples, page[i])) + 1>> : i \in taken}

\* A page is added to the counters unless it is being read again; rows that have no body yet are
\* named, and the rows before the cursor count as resolved.
Reads(w) ==
  [w EXCEPT
     !.met = @ \cup RowsOf(w.at), !.fresh = Fresh(w), !.new = New(w), !.confirms = Confirms(w),
     !.repeats = IF RowsOf(w.at) # {} /\ Fresh(w) = {} THEN @ + 1 ELSE 0,
     !.total = IF @ = None THEN list.total ELSE @,
     !.seenBefore = w.seen, !.knownBefore = w.known, !.unlinkedBefore = w.c.unlinked,
     !.seen = IF Replaces(w) THEN Size(Fresh(w)) ELSE IF w.rereading THEN @ ELSE @ + Size(Fresh(w)),
     !.known = IF Replaces(w) /\ Size(Fresh(w)) # w.seen THEN Size(Fresh(w))
               ELSE IF w.rereading THEN @ ELSE @ + Size(Fresh(w) \ New(w)),
     !.resolved = Size({i \in DOMAIN list.pages[w.at] : i <= w.c.idx /\ list.pages[w.at][i] \in Fresh(w) \cap Linked}),
     !.start = w.c.idx,
     !.c = [w.c EXCEPT !.unlinked = @ \cup (New(w) \ Linked),
                      !.samples = Remembered(@, list.pages[w.at], New(w))]]

\* They are named when the page ends.
OpenPage_NamesLater(t, w) ==
  /\ mem' = [mem EXCEPT ![t] = Reads(w)]
  /\ Goes(t, "page")
  /\ UNCHANGED <<list, held, row, cool, lock, fails, stops>>

\* The names of the rows without a body are committed before any of them is opened.
OpenPage(t, w) ==
  /\ mem' = [mem EXCEPT ![t] = Reads(w)]
  /\ row' = IF New(w) = {} THEN row ELSE [row EXCEPT !.cursor = Reads(w).c]
  /\ Goes(t, "page")
  /\ UNCHANGED <<list, held, cool, lock, fails, stops>>

ByLink == row.cursor.next > 0 /\ row.pages > 0

\* The run begins where the cursor is: at the link it names, or with the search form.  The form
\* shows the first page, which may be one that has been counted.
Resumed ==
  [NoMem EXCEPT
     !.at = IF ByLink THEN row.cursor.next ELSE 1,
     !.rereading = ~ByLink /\ row.pages > 0 /\ row.pages >= row.cursor.page,
     !.pages = row.pages, !.seen = row.seen, !.known = row.known, !.total = row.total,
     !.c = IF row.cursor.page = 1 /\ row.cursor.idx = 0 THEN [row.cursor EXCEPT !.unlinked = {}] ELSE row.cursor]

BeginRun(t) == pc[t] = "begin" /\ OpenPage(t, Resumed)

ReadNext(t) == pc[t] = "turn" /\ OpenPage(t, [mem[t] EXCEPT !.at = @ + 1])

\* The rows of the page that are still to be opened.
Todo(w) == {i \in DOMAIN list.pages[w.at] : i > w.c.idx /\ list.pages[w.at][i] \in w.new \cap Linked}
First(w) == CHOOSE i \in Todo(w) : \A j \in Todo(w) : i <= j
Body(w) == list.pages[w.at][First(w)]

\* The place in the page, and what came of the row, are committed together.
Resolve(t, samples, resolved, n) ==
  /\ mem' = [mem EXCEPT ![t].c.idx = n, ![t].c.samples = samples, ![t].resolved = @ + resolved]
  /\ row' = [row EXCEPT !.cursor = [mem[t].c EXCEPT !.idx = n, !.samples = samples]]
  /\ UNCHANGED <<list, cool, lock, pc, stops>>

Dropped(samples, r) == samples \ EntriesOf(samples, r)
Again(t) == Remembered(mem[t].c.samples, list.pages[mem[t].at], {Body(mem[t])})

\* The place is that of the row after.
Fetch_SkipsOne(t) ==
  /\ pc[t] = "page" /\ Todo(mem[t]) # {} /\ Body(mem[t]) \notin Stuck
  /\ held' = IF Body(mem[t]) \in Blank THEN held ELSE held \cup {Body(mem[t])}
  /\ Resolve(t, IF Body(mem[t]) \in Blank THEN Again(t) ELSE Dropped(mem[t].c.samples, Body(mem[t])),
             1, First(mem[t]) + 1)
  /\ UNCHANGED fails

\* The body comes: it is staged, or is a duplicate of one that is held; or it is no judgment and its
\* row stays named.
Fetch(t) ==
  /\ pc[t] = "page" /\ Todo(mem[t]) # {} /\ Body(mem[t]) \notin Stuck
  /\ held' = IF Body(mem[t]) \in Blank THEN held ELSE held \cup {Body(mem[t])}
  /\ Resolve(t, IF Body(mem[t]) \in Blank THEN Again(t) ELSE Dropped(mem[t].c.samples, Body(mem[t])),
             1, First(mem[t]))
  /\ UNCHANGED fails

\* The body does not come; its row is not resolved.
FetchError(t) ==
  /\ pc[t] = "page" /\ Todo(mem[t]) # {}
  /\ \/ Body(mem[t]) \in Stuck /\ UNCHANGED fails
     \/ Body(mem[t]) \notin Stuck /\ fails < list.fails /\ fails' = fails + 1
  /\ Resolve(t, Again(t), 0, First(mem[t]))
  /\ UNCHANGED held

Stopping == stops < list.stops /\ stops' = stops + 1

\* The page's rows stay counted.
OutOfTime_KeepsCount(t) ==
  /\ pc[t] = "page" /\ mem[t].c.idx > mem[t].start /\ mem[t].c.idx < Len(list.pages[mem[t].at]) /\ Stopping
  /\ row' = [row EXCEPT !.seen = mem[t].seen, !.known = Least(mem[t].known, mem[t].seen), !.total = mem[t].total,
                        !.cursor = [mem[t].c EXCEPT !.unlinked = mem[t].unlinkedBefore]]
  /\ Goes(t, "leave")
  /\ UNCHANGED <<list, held, cool, lock, mem, fails>>

\* The time is up after a row that is not the last: the page is not counted yet.
OutOfTime(t) ==
  /\ pc[t] = "page" /\ mem[t].c.idx > mem[t].start /\ mem[t].c.idx < Len(list.pages[mem[t].at]) /\ Stopping
  /\ row' = [row EXCEPT !.seen = mem[t].seenBefore, !.known = mem[t].knownBefore, !.total = mem[t].total,
                        !.cursor = [mem[t].c EXCEPT !.unlinked = mem[t].unlinkedBefore]]
  /\ Goes(t, "leave")
  /\ UNCHANGED <<list, held, cool, lock, mem, fails>>
--------------------------------------------------------------------------------
(* The end of a page. *)

HasNext(w) == w.at < Len(list.pages)

\* refreshed_rows_known: what the page has resolved, or what the confirming read has found if that is more.
RefreshedKnown(w) ==
  IF ~w.confirms THEN Least(w.seen, w.known + w.resolved)
  ELSE IF Size(w.fresh \ w.new) + w.resolved >= w.known THEN Least(w.seen, Size(w.fresh \ w.new) + w.resolved)
  ELSE Least(w.seen, w.known)

\* A page that has been read again is not another page.
Ended(w) ==
  [w EXCEPT !.pages = IF w.rereading THEN @ ELSE @ + 1, !.rereading = FALSE,
            !.known = RefreshedKnown(w), !.c.idx = 0]

Beyond(m, n) == IF m > n THEN m - n ELSE 0
Credit(e) == Least(Size(e.c.unlinked), e.seen - e.known)

\* compute_gap_size: rows without a link explain a gap as far as it has been seen.
Gap(e) ==
  IF e.total # None /\ e.total > e.known THEN Beyond(e.total - e.known, Credit(e)) ELSE e.seen - e.known - Credit(e)

LinkedUnseen(e) == Beyond(e.seen - e.known, Size(e.c.unlinked))

Counted(e) ==
  [row EXCEPT !.pages = e.pages, !.seen = e.seen, !.known = e.known, !.total = e.total,
              !.gap = Gap(e), !.cursor = e.c]

\* The cursor as it goes on to another page, or back to the first: what is known of the gap stays,
\* the count of tries does not.
At(c, n, link) == [Start EXCEPT !.page = n, !.next = link, !.unlinked = c.unlinked, !.samples = c.samples]

Turned(e) == At(e.c, e.c.page + 1, e.at + 1)

\* Two pages in a row that bring nothing new, or the end of the tick's time, end the run.
TurnPage(t) ==
  /\ pc[t] = "page" /\ Todo(mem[t]) = {} /\ HasNext(mem[t])
  /\ mem' = [mem EXCEPT ![t] = [Ended(mem[t]) EXCEPT !.c = Turned(mem[t])]]
  /\ row' = [Counted(Ended(mem[t])) EXCEPT !.cursor = Turned(mem[t]),
                                           !.err = IF mem[t].repeats >= 2 THEN "other" ELSE @]
  /\ IF mem[t].repeats >= 2 THEN Goes(t, "leave") /\ UNCHANGED stops
     ELSE \/ Goes(t, "turn") /\ UNCHANGED stops
          \/ Goes(t, "leave") /\ Stopping
  /\ UNCHANGED <<list, held, cool, lock, fails>>

\* The next page cannot be read.
Interrupted(t) ==
  /\ pc[t] = "turn" /\ Stopping
  /\ row' = [row EXCEPT !.err = "other"]
  /\ Goes(t, "leave")
  /\ UNCHANGED <<list, held, cool, lock, mem, fails>>

Capped(e) == IF e.total # None THEN e.total >= Cap ELSE e.seen >= Cap

\* The second read of the last page is no proof.
MayBeDone_NeedsTotal(e, confirmed) ==
  RowsOf(e.at) = {} \/ (e.total # None /\ e.seen >= e.total)

\* search_harvest_may_mark_done, and a list of unknown length whose last page has been read twice.
MayBeDone(e, confirmed) ==
  RowsOf(e.at) = {} \/ (IF e.total = None THEN confirmed ELSE e.seen >= e.total)

MayBeDoneUnlinked(e, confirmed) ==
  /\ confirmed /\ e.c.unlinked # {} /\ Size(e.c.unlinked) <= Tolerated
  /\ e.seen - e.known = Size(e.c.unlinked)
  /\ e.total = None \/ e.seen >= e.total

\* The pages have ended before the rows of the total.
Stalled(e) == Gap(e) > 0 /\ LinkedUnseen(e) > 0 /\ e.total # None /\ e.seen < e.total

\* _hold_unresolved_linked_gap: rows that have a link and no body are tried twice before the query
\* rests with its gap; so is a total that the pages do not reach.  More tries than two are two.
Rested(e, r) ==
  IF LinkedUnseen(e) > 0 THEN
    [r EXCEPT !.cursor.tries = Least(e.c.tries + 1, 2),
              !.status = IF e.c.tries = 0 THEN "in_progress" ELSE "done",
              !.err = IF e.c.tries = 0 THEN "other" ELSE "linked"]
  ELSE IF r.gap > 0 THEN
    [r EXCEPT !.cursor.totalTries = Least(e.c.totalTries + 1, 2), !.err = IF e.c.totalTries = 0 THEN @ ELSE "total"]
  ELSE r

\* stamp_multi_page_linked_gap: at the last page a name without link, case name and citation is dropped.
\* (The marker it leaves when no name is left is not a name.)
Stamped(e) ==
  [e EXCEPT !.c.samples = {s \in @ : s[1] \in Linked \cup Keyed}]

Decided(e, confirmed) ==
  IF Capped(e) THEN
    [Counted(e) EXCEPT !.status = IF list.split THEN "split" ELSE "failed",
                       !.err = IF list.split THEN @ ELSE "other"]
  ELSE IF MayBeDone(e, confirmed) THEN
    Rested(e, [Counted(e) EXCEPT !.status = "done", !.err = IF confirmed THEN "none" ELSE @,
                                 !.cursor = At(e.c, 1, 0)])
  ELSE IF MayBeDoneUnlinked(e, confirmed) THEN
    Rested(e, [Counted(e) EXCEPT !.status = "done_unlinked", !.err = "none", !.cursor = At(e.c, 1, 0)])
  ELSE IF Stalled(e) /\ list.split THEN
    [Counted(e) EXCEPT !.status = "split"]
  ELSE
    [Counted(e) EXCEPT !.status = "in_progress", !.err = "other",
                       !.cursor.page = IF e.total # None /\ e.seen < e.total THEN @ + 1 ELSE @]

\* The last page.
Finish(t) ==
  /\ pc[t] = "page" /\ Todo(mem[t]) = {} /\ ~HasNext(mem[t])
  /\ row' = Decided(Stamped(Ended(mem[t])), mem[t].rereading)
  /\ Goes(t, "leave")
  /\ UNCHANGED <<list, held, cool, lock, mem, fails, stops>>
--------------------------------------------------------------------------------
(* The end of a tick. *)

\* The login is in use or lost, the page budget is spent or memory is short: the row is given back.
Pause(t) ==
  /\ pc[t] \in {"begin", "page", "turn"} /\ Stopping
  /\ row' = [row EXCEPT !.status = "pending", !.err = "other"]
  /\ Goes(t, "leave")
  /\ UNCHANGED <<list, held, cool, lock, mem, fails>>

\* The browser is closed and the locks are released.
Leave(t) ==
  /\ pc[t] = "leave" /\ Goes(t, "idle")
  /\ lock' = None /\ mem' = [mem EXCEPT ![t] = NoMem]
  /\ UNCHANGED <<list, held, row, cool, fails, stops>>

\* The tick dies, or ends with an exception that is not caught: what it has not committed is gone.
Dies(t) ==
  /\ pc[t] \in {"begin", "page", "turn"} /\ Stopping
  /\ Goes(t, "dead") /\ mem' = [mem EXCEPT ![t] = NoMem]
  /\ UNCHANGED <<list, held, row, cool, lock, fails>>

\* Its locks run out.
Lapse(t) ==
  /\ pc[t] = "dead" /\ Goes(t, "idle") /\ lock' = None
  /\ UNCHANGED <<list, held, row, cool, mem, fails, stops>>

\* Six hours pass.
Cool ==
  /\ cool = "no" /\ Finished(row) /\ cool' = "yes"
  /\ UNCHANGED <<list, held, row, lock, pc, mem, fails, stops>>

\* No other structured query of the share is pending, and no more than three of a newer year are to
\* be opened again before this one.
ComesUp ==
  /\ cool = "yes" /\ Finished(row) /\ cool' = "due"
  /\ UNCHANGED <<list, held, row, lock, pc, mem, fails, stops>>

\* Another query, or another job, stages a body that is listed here too.
StagedElsewhere ==
  /\ \E r \in (Others \cap Listed) \ held : held' = held \cup {r}
  /\ UNCHANGED <<list, row, cool, lock, pc, mem, fails, stops>>
--------------------------------------------------------------------------------
Step(t) ==
  \/ BeginRun(t) \/ ReadNext(t) \/ Fetch(t) \/ FetchError(t) \/ TurnPage(t) \/ Finish(t)
  \/ Leave(t) \/ Lapse(t)

Next ==
  \/ \E t \in Tick : BeginTick(t) \/ Step(t) \/ OutOfTime(t) \/ Interrupted(t) \/ Pause(t) \/ Dies(t)
  \/ Cool \/ ComesUp \/ StagedElsewhere

Spec == Init /\ [][Next]_vars

\* The beat starts the ticks (harvest ticks never expire), a tick goes on, locks run out, hours pass,
\* and the query's turn comes: newer years do not fall due faster than ticks run them.
FairSpec == Spec /\ WF_vars(Cool) /\ WF_vars(ComesUp) /\ \A t \in Tick : WF_vars(BeginTick(t)) /\ WF_vars(Step(t))
--------------------------------------------------------------------------------
(* Properties. *)

\* Nothing is opened twice for want of memory: a tick that goes on in a page, after a stop, a death or
\* the other slot's tick, opens only rows after the last one whose result is committed, recognised
\* or not; and what it opens is a body that is held only where its keys do not find it, or another
\* query has staged it (claim_next_query, "the row taken is held by a per-row lock for the whole run").
NotTwice ==
  \A t \in Tick : pc[t] = "page" /\ Todo(mem[t]) # {} =>
    /\ First(mem[t]) > row.cursor.idx
    /\ Body(mem[t]) \notin (held \cap Matched) \ Others

\* The rows of the first k pages, each as often as a page lists it.
Places(k) == UNION {{m} \X RowsOf(m) : m \in {n \in DOMAIN list.pages : n <= k}}

\* Until a page is counted a second time, no more rows are counted than the counted pages list: not
\* after a stop in the middle of a page, not after a crash, and not by the confirming read ("can
\* neither inflate rows_seen into a false cap split ...").  (The second try of a row on a list of
\* several pages, and each further try of a list short of its total, count pages again.)
CountedOnce == row.pages <= Len(list.pages) => row.seen <= Size(Places(row.pages))

\* A query that is done has every body that the site serves, though ticks have stopped and died in
\* its pages.  (A row whose fetch fails and whose page is then left is another matter: GapHonest.)
DoneHasAll == row.status = "done" /\ fails = 0 => Served \subseteq held

\* There is room for every name: each row has a link, so has one entry, and there is a place for each
\* beside the marker that a gap of several pages may leave.  (A row without a link takes another entry
\* at every read, until no row finds a place, and without a citation loses them all at the last page.)
Nameable == Listed \subseteq Linked /\ Size(Listed) < Limit

\* A row that a tick is to open, and whose body is not held, is named in the ledger.
NamedFirst == \A t \in Tick : pc[t] = "page" => mem[t].new \ held \subseteq Named(row.cursor.samples)

\* Every row that the query rests without is named, whatever has happened on its pages.
NamedAtRest == row.status = "done" => Listed \ held \subseteq Named(row.cursor.samples)

\* Where there is room, every row that is about to be opened, and every row the query rests without,
\* is named in the ledger ("so a worker bounce cannot leave the gap unnamed").
GapNamed == Nameable => NamedFirst /\ NamedAtRest

\* The query comes to rest again and again, whatever the list, and ticks that stop or die.
Rests == []<>(row.status \in {"done", "done_unlinked", "split", "failed"})


\* A row whose fetch failed is not resolved (run_query: "fetch_error is not resolved here"): a query is
\* done without a gap only when every listed body is held.
GapHonest == row.status = "done" /\ row.gap = 0 => (Listed \cap Linked) \ Blank \subseteq held

\* A list is split or failed only for what the site shows of it, not for rows counted again.
NoFalseSplit == row.status \in {"split", "failed"} => Size(Listed) >= Cap \/ row.total # None
================================================================================
