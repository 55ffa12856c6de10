--------------------------- MODULE SearchHarvestProofs ---------------------------
(* Machine-checked proofs about SearchHarvest, for any number of ticks, rows and lists, and any *)
(* number of fetches that fail and ticks that stop.                                             *)
EXTENDS SearchHarvest, FiniteSetTheorems, FunctionTheorems, SequenceTheorems, TLAPS

Finite(S) == {T \in SUBSET S : IsFiniteSet(T)}

Cursor ==
  [page : Nat, idx : Nat, next : Nat, unlinked : Finite(Row \ Linked), samples : Finite(Row \X Nat),
   tries : Nat, totalTries : Nat]

Ledger ==
  {r \in [status : Open \cup {"done", "split", "failed"}, err : {"none", "other", "linked", "total"},
          gap : Nat, pages : Nat, seen : Nat, known : Nat, total : Nat \cup {None}, cursor : Cursor] :
     r.known <= r.seen}

Fields ==
  [at : Nat, c : Cursor, rereading : BOOLEAN, confirms : BOOLEAN,
   pages : Nat, seen : Nat, known : Nat, total : Nat \cup {None},
   seenBefore : Nat, knownBefore : Nat, unlinkedBefore : Finite(Row \ Linked),
   met : SUBSET Row, repeats : Nat, fresh : Finite(Row), new : Finite(Row),
   resolved : Nat, start : Nat]

Memory == {w \in Fields : w.known <= w.seen /\ w.knownBefore <= w.seenBefore}

\* The tick that runs, and no other, holds the lock of the ledger row.
LockInv ==
  /\ lock \in Tick \cup {None}
  /\ pc \in [Tick -> {"idle", "begin", "page", "turn", "leave", "dead"}]
  /\ \A t \in Tick : pc[t] # "idle" <=> lock = t

ValueInv ==
  /\ list \in Lists /\ held \subseteq Row /\ cool \in {"no", "yes", "due"}
  /\ row \in Ledger /\ mem \in [Tick -> Memory]
  /\ fails \in 0..list.fails /\ stops \in 0..list.stops

\* A tick is at a page of the list, and so is the place it goes on from.
PlaceInv ==
  /\ row.cursor.next <= Len(list.pages)
  /\ \A t \in Tick : /\ mem[t].at \in DOMAIN list.pages /\ mem[t].c.next <= Len(list.pages)
                     /\ pc[t] = "turn" => mem[t].at + 1 \in DOMAIN list.pages

Typed == LockInv /\ ValueInv /\ PlaceInv

LEMMA TypedImplies ==
  ASSUME Typed
  PROVE  TypeOK
<1>1. row.status \in Open \cup {"done", "split", "failed"} /\ row.err \in {"none", "other", "linked", "total"}
  BY DEF Typed, ValueInv, Ledger
<1>2. row.cursor.samples \subseteq Row \X Nat /\ row.cursor.unlinked \subseteq Row \ Linked
  BY DEF Typed, ValueInv, Ledger, Cursor, Finite
<1>3. row.known \in 0..row.seen /\ row.gap \in Nat
  BY DEF Typed, ValueInv, Ledger
<1> QED
  BY <1>1, <1>2, <1>3 DEF Typed, ValueInv, LockInv, TypeOK
--------------------------------------------------------------------------------
(* Sets and numbers. *)

LEMMA SizeType ==
  ASSUME NEW S, IsFiniteSet(S)
  PROVE  Size(S) \in Nat
BY FS_CardinalityType DEF Size

LEMMA SizeMonotone ==
  ASSUME NEW S, IsFiniteSet(S), NEW T \in SUBSET S
  PROVE  IsFiniteSet(T) /\ Size(T) \in Nat /\ Size(T) <= Size(S)
BY FS_Subset, SizeType DEF Size

Below == {p \in Nat \X Nat : p[1] < p[2]}

LEMMA LeastNatural ==
  ASSUME NEW T \in SUBSET Nat, T # {}
  PROVE  \E i \in T : \A j \in T : i <= j
<1>1. IsWellFoundedOn(Below, Nat)
  BY NatLessThanWellFounded, Zenon DEF OpToRel, Below
<1>2. PICK i \in T : \A j \in T : <<j, i>> \notin Below
  BY <1>1, WFMin
<1>3. ASSUME NEW j \in T
      PROVE  i <= j
  <2>1. ~(j < i)
    BY <1>2 DEF Below
  <2> QED
    BY <2>1
<1> QED
  BY <1>3

LEMMA ListType ==
  ASSUME list \in Lists
  PROVE  /\ Len(list.pages) \in Nat /\ DOMAIN list.pages = 1..Len(list.pages) /\ 1 \in DOMAIN list.pages
         /\ \A n \in DOMAIN list.pages : list.pages[n] \in Seq(Row) /\ IsInjective(list.pages[n])
         /\ list.total \in Nat \cup {None}
<1>1. list.pages \in Seq(Seq(Row)) /\ list.pages # <<>>
  BY ListAssumption
<1>2. Len(list.pages) \in Nat /\ DOMAIN list.pages = 1..Len(list.pages)
  BY <1>1
<1>3. 1 \in DOMAIN list.pages
  BY <1>1, <1>2, EmptySeq
<1> QED
  BY <1>1, <1>2, <1>3, ListAssumption

LEMMA SequenceType ==
  ASSUME NEW s \in Seq(Row)
  PROVE  /\ Range(s) \in Finite(Row)
         /\ IsFiniteSet(DOMAIN s) /\ DOMAIN s \subseteq Nat
         /\ \A i \in DOMAIN s : s[i] \in Row
<1>1. Len(s) \in Nat /\ DOMAIN s = 1..Len(s) /\ s \in [1..Len(s) -> Row]
  OBVIOUS
<1>2. IsFiniteSet(1..Len(s))
  BY <1>1, FS_Interval
<1>3. Range(s) \subseteq Row /\ s \in Surjection(1..Len(s), Range(s))
  BY <1>1, Fun_RangeProperties
<1>4. IsFiniteSet(Range(s))
  BY <1>2, <1>3, FS_Surjection
<1> QED
  BY <1>1, <1>2, <1>3, <1>4 DEF Finite

LEMMA PageType ==
  ASSUME list \in Lists, NEW n \in DOMAIN list.pages
  PROVE  /\ RowsOf(n) \in Finite(Row)
         /\ IsFiniteSet(DOMAIN list.pages[n]) /\ DOMAIN list.pages[n] \subseteq Nat
         /\ \A i \in DOMAIN list.pages[n] : list.pages[n][i] \in Row
BY ListType, SequenceType DEF RowsOf
--------------------------------------------------------------------------------
(* The names of missing rows. *)

LEMMA RememberedType ==
  ASSUME NEW samples \in Finite(Row \X Nat), NEW page \in Seq(Row), NEW S
  PROVE  Remembered(samples, page, S) \in Finite(Row \X Nat)
<1> DEFINE due == {i \in DOMAIN page : page[i] \in S \ (Linked \cap Named(samples))}
           taken == {i \in due : Size({j \in due : j < i}) < Limit - Size(samples)}
           g == [i \in taken |-> <<page[i], Size(EntriesOf(samples, page[i])) + 1>>]
           E == {<<page[i], Size(EntriesOf(samples, page[i])) + 1>> : i \in taken}
<1>1. IsFiniteSet(taken)
  BY SequenceType, FS_Subset
<1>2. \A i \in taken : page[i] \in Row /\ Size(EntriesOf(samples, page[i])) \in Nat
  <2>1. \A r : IsFiniteSet(EntriesOf(samples, r))
    BY FS_Subset DEF EntriesOf, Finite
  <2> QED
    BY <2>1, SequenceType, SizeType
<1>3. g \in Surjection(taken, E)
  BY Zenon DEF Surjection
<1> HIDE DEF taken, g
<1>4. IsFiniteSet(E)
  BY <1>1, <1>3, FS_Surjection
<1>5. E \subseteq Row \X Nat
  BY <1>2
<1> HIDE DEF E
<1>6. samples \cup E \in Finite(Row \X Nat)
  BY <1>4, <1>5, FS_Union DEF Finite
<1> QED
  BY <1>6 DEF Remembered, E, taken

LEMMA RememberedKeeps ==
  ASSUME NEW samples, NEW page, NEW S
  PROVE  /\ Named(samples) \subseteq Named(Remembered(samples, page, S))
         /\ Remembered(samples, page, {}) = samples
BY DEF Named, Remembered

\* Where every row has a link and there is room for all, those to be named are named.
LEMMA RememberedRoom ==
  ASSUME NEW L, IsFiniteSet(L), L \subseteq Linked, Size(L) < Limit, NEW samples \in SUBSET (L \X {1}),
         NEW page \in Seq(Row), IsInjective(page), NEW S \in SUBSET L, S \subseteq Range(page)
  PROVE  Remembered(samples, page, S) \subseteq L \X {1} /\ S \subseteq Named(Remembered(samples, page, S))
<1> DEFINE due == {i \in DOMAIN page : page[i] \in S \ (Linked \cap Named(samples))}
           taken == {i \in due : Size({j \in due : j < i}) < Limit - Size(samples)}
<1>1. IsFiniteSet(due) /\ due \subseteq Nat /\ due \subseteq DOMAIN page
  BY SequenceType, FS_Subset
<1>2. \A i \in due : page[i] \in L /\ page[i] \in S /\ page[i] \notin Named(samples)
  OBVIOUS
<1>3. ASSUME NEW r, r \notin Named(samples)
      PROVE  Size(EntriesOf(samples, r)) + 1 = 1
  <2>1. EntriesOf(samples, r) = {}
    BY <1>3 DEF EntriesOf, Named
  <2> QED
    BY <2>1, FS_EmptySet DEF Size
<1>4. IsFiniteSet(L \X {1}) /\ Size(L \X {1}) = Size(L) /\ Size(L) \in Nat
  <2>1. IsFiniteSet({1}) /\ Cardinality({1}) = 1
    BY FS_Singleton
  <2>2. IsFiniteSet(L \X {1}) /\ Cardinality(L \X {1}) = Cardinality(L) * Cardinality({1})
    BY <2>1, FS_Product
  <2>3. Cardinality(L) \in Nat
    BY FS_CardinalityType
  <2> QED
    BY <2>1, <2>2, <2>3 DEF Size
<1>5. IsFiniteSet(samples) /\ Size(samples) \in Nat
  BY <1>4, SizeMonotone
<1>6. ASSUME NEW i \in due
      PROVE  Size({j \in due : j < i}) < Limit - Size(samples)
  <2> DEFINE B == {j \in due : j < i}
             A == B \cup {i}
             g == [j \in A |-> <<page[j], 1>>]
             R == {<<page[j], 1>> : j \in A}
  <2>1. IsFiniteSet(B) /\ i \notin B
    BY <1>1, FS_Subset
  <2>2. IsFiniteSet(A) /\ Cardinality(A) = Cardinality(B) + 1 /\ Cardinality(B) \in Nat
    BY <2>1, FS_AddElement, FS_CardinalityType
  <2>3. A \subseteq due
    OBVIOUS
  <2>4. g \in Bijection(A, R)
    <3>1. \A j, k \in A : g[j] = g[k] => j = k
      BY <1>1, <2>3 DEF IsInjective
    <3>2. g \in Surjection(A, R)
      BY Zenon DEF Surjection
    <3> HIDE DEF A, R, g
    <3> QED
      BY <3>1, <3>2 DEF Bijection, Injection, Surjection, IsInjective
  <2>5. R \subseteq L \X {1} /\ R \cap samples = {}
    BY <1>2, <2>3 DEF Named
  <2> HIDE DEF A, B, R, g
  <2>6. IsFiniteSet(R) /\ Cardinality(R) = Cardinality(A)
    BY <2>2, <2>4, FS_Bijection DEF ExistsBijection
  <2>7. Cardinality(R \cup samples) = Cardinality(R) + Cardinality(samples)
    <3>1. Cardinality(R \cup samples) = Cardinality(R) + Cardinality(samples) - Cardinality(R \cap samples)
      BY <1>5, <2>6, FS_Union
    <3>2. Cardinality(R \cap samples) = 0
      BY <2>5, FS_EmptySet
    <3> QED
      BY <1>5, <2>2, <2>6, <3>1, <3>2 DEF Size
  <2>8. Size(R \cup samples) <= Size(L)
    BY <1>4, <2>5, SizeMonotone
  <2>9. Cardinality(B) + 1 + Cardinality(samples) <= Limit
    BY <1>4, <1>5, <2>2, <2>6, <2>7, <2>8, CapAssumption DEF Size
  <2> QED
    BY <1>5, <2>2, <2>9, CapAssumption DEF Size, B
<1>7. taken = due
  BY <1>6
<1>8. Remembered(samples, page, S) = samples \cup {<<page[i], 1>> : i \in due}
  <2>1. Remembered(samples, page, S) =
          samples \cup {<<page[i], Size(EntriesOf(samples, page[i])) + 1>> : i \in taken}
    BY DEF Remembered
  <2> HIDE DEF taken, due
  <2>2. \A i \in due : Size(EntriesOf(samples, page[i])) + 1 = 1
    BY <1>2, <1>3
  <2> QED
    BY <1>7, <2>1, <2>2
<1>9. ASSUME NEW r \in S
      PROVE  r \in Named(samples) \/ \E i \in due : page[i] = r
  <2>1. PICK i \in DOMAIN page : page[i] = r
    BY DEF Range
  <2> QED
    BY <2>1
<1> HIDE DEF due, taken
<1>10. \A i \in due : <<page[i], 1>> \in L \X {1}
  BY <1>2
<1>11. Remembered(samples, page, S) \subseteq L \X {1}
  BY <1>8, <1>10
<1>12. ASSUME NEW r \in S
       PROVE  \E e \in Remembered(samples, page, S) : e[1] = r
  <2>1. CASE r \in Named(samples)
    BY <1>8, <2>1 DEF Named
  <2>2. ASSUME NEW i \in due, page[i] = r
        PROVE  \E e \in Remembered(samples, page, S) : e[1] = r
    <3>1. <<page[i], 1>> \in Remembered(samples, page, S) /\ <<page[i], 1>>[1] = r
      BY <1>8, <2>2
    <3> QED
      BY <3>1
  <2> QED
    BY <1>9, <2>1, <2>2
<1> QED
  BY <1>11, <1>12 DEF Named
--------------------------------------------------------------------------------
(* What a page does to a tick's memory. *)

LEMMA StartType == Start \in Cursor
BY FS_EmptySet DEF Start, Cursor, Finite

LEMMA NoMemType == NoMem \in Memory
BY StartType, FS_EmptySet DEF NoMem, Memory, Fields, Finite

LEMMA FreshType ==
  ASSUME list \in Lists, NEW w \in Memory, w.at \in DOMAIN list.pages
  PROVE  /\ Fresh(w) \in Finite(Row) /\ New(w) \in Finite(Row) /\ New(w) \subseteq Fresh(w)
         /\ New(w) \cap held \cap Matched = {} /\ Fresh(w) \ New(w) \subseteq held
         /\ Size(Fresh(w)) \in Nat /\ Size(Fresh(w) \ New(w)) \in Nat
         /\ Size(Fresh(w) \ New(w)) <= Size(Fresh(w))
<1>1. RowsOf(w.at) \in Finite(Row)
  BY PageType
<1>2. /\ Fresh(w) \subseteq RowsOf(w.at) /\ New(w) \subseteq Fresh(w)
      /\ New(w) \cap held \cap Matched = {} /\ Fresh(w) \ New(w) \subseteq held
  BY DEF Fresh, New
<1>3. Fresh(w) \in Finite(Row)
  BY <1>1, <1>2, FS_Subset DEF Finite
<1>4. New(w) \in Finite(Row)
  BY <1>2, <1>3, FS_Subset DEF Finite
<1> QED
  BY <1>2, <1>3, <1>4, SizeMonotone, SizeType DEF Finite

\* A page that is read counts no more rows as known than it counts, and names what is new.
LEMMA ReadsType ==
  ASSUME list \in Lists, NEW w \in Memory, w.at \in DOMAIN list.pages
  PROVE  /\ Reads(w) \in Memory /\ Reads(w).at = w.at /\ Reads(w).c.next = w.c.next
         /\ Reads(w).new = New(w)
<1> DEFINE P == list.pages[w.at]
           R == {i \in DOMAIN P : i <= w.c.idx /\ P[i] \in Fresh(w) \cap Linked}
           c == [w.c EXCEPT !.unlinked = @ \cup (New(w) \ Linked),
                            !.samples = Remembered(@, list.pages[w.at], New(w))]
           seen == IF Replaces(w) THEN Size(Fresh(w)) ELSE IF w.rereading THEN w.seen ELSE w.seen + Size(Fresh(w))
           known == IF Replaces(w) /\ Size(Fresh(w)) # w.seen THEN Size(Fresh(w))
                    ELSE IF w.rereading THEN w.known ELSE w.known + Size(Fresh(w) \ New(w))
<1>1. Size(R) \in Nat
  <2>1. IsFiniteSet(DOMAIN P) /\ R \subseteq DOMAIN P
    BY PageType
  <2> QED
    BY <2>1, SizeMonotone
<1>2. c \in Cursor /\ c.next = w.c.next
  <2>1. w.c \in Cursor
    BY DEF Memory, Fields
  <2>2. IsFiniteSet(New(w) \ Linked) /\ New(w) \subseteq Row
    BY FreshType, FS_Subset DEF Finite
  <2>3. w.c.unlinked \cup (New(w) \ Linked) \in Finite(Row \ Linked)
    BY <2>1, <2>2, FS_Union DEF Cursor, Finite
  <2>4. Remembered(w.c.samples, list.pages[w.at], New(w)) \in Finite(Row \X Nat)
    BY <2>1, ListType, RememberedType DEF Cursor
  <2> QED
    BY <2>1, <2>3, <2>4 DEF Cursor
<1>3. seen \in Nat /\ known \in Nat /\ known <= seen
  BY FreshType DEF Memory, Fields, Replaces, Confirms
<1>4. RowsOf(w.at) \subseteq Row /\ Fresh(w) \in Finite(Row) /\ New(w) \in Finite(Row)
  BY FreshType, PageType DEF Finite
<1>5. Confirms(w) \in BOOLEAN
  BY DEF Confirms
<1>6. list.total \in Nat \cup {None}
  BY ListType
<1>7. w.c.unlinked \in Finite(Row \ Linked) /\ w.c.idx \in Nat
  BY DEF Memory, Fields, Cursor
<1>8. /\ Reads(w).at = w.at /\ Reads(w).c = c /\ Reads(w).seen = seen /\ Reads(w).known = known
      /\ Reads(w).seenBefore = w.seen /\ Reads(w).knownBefore = w.known /\ Reads(w).new = New(w)
  <2>1. w \in Fields
    BY DEF Memory
  <2> QED
    BY <2>1 DEF Reads, Fields
<1> DEFINE met == w.met \cup RowsOf(w.at)
           repeats == IF RowsOf(w.at) # {} /\ Fresh(w) = {} THEN w.repeats + 1 ELSE 0
           total == IF w.total = None THEN list.total ELSE w.total
           resolved == Size(R)
           confirms == Confirms(w)
           fresh == Fresh(w)
           new == New(w)
           unlinked == w.c.unlinked
           idx == w.c.idx
<1>9. Reads(w) =
        [w EXCEPT !.met = met, !.fresh = fresh, !.new = new, !.confirms = confirms, !.repeats = repeats,
                  !.total = total, !.seenBefore = w.seen, !.knownBefore = w.known,
                  !.unlinkedBefore = unlinked, !.seen = seen, !.known = known,
                  !.resolved = resolved, !.start = idx, !.c = c]
  BY DEF Reads
<1>10. /\ w \in Fields /\ met \in SUBSET Row /\ fresh \in Finite(Row) /\ new \in Finite(Row)
       /\ confirms \in BOOLEAN /\ repeats \in Nat /\ total \in Nat \cup {None}
       /\ w.seen \in Nat /\ w.known \in Nat /\ unlinked \in Finite(Row \ Linked)
       /\ seen \in Nat /\ known \in Nat /\ resolved \in Nat /\ idx \in Nat /\ c \in Cursor
  BY <1>1, <1>2, <1>3, <1>4, <1>5, <1>6, <1>7 DEF Memory, Fields
<1> HIDE DEF R, c, seen, known, met, repeats, total, resolved, confirms, fresh, new, unlinked, idx
<1>11. Reads(w) \in Fields
  <2>1. [w EXCEPT !.met = met, !.fresh = fresh, !.new = new, !.confirms = confirms, !.repeats = repeats,
                  !.total = total, !.seenBefore = w.seen, !.knownBefore = w.known,
                  !.unlinkedBefore = unlinked, !.seen = seen, !.known = known,
                  !.resolved = resolved, !.start = idx, !.c = c] \in Fields
    BY <1>10, Zenon DEF Fields
  <2> QED
    BY <1>9, <2>1
<1> QED
  BY <1>2, <1>3, <1>8, <1>11 DEF Memory, Fields

LEMMA CreditType ==
  ASSUME NEW e \in Memory
  PROVE  Credit(e) \in Nat /\ Credit(e) <= e.seen - e.known
<1>1. e.seen \in Nat /\ e.known \in Nat /\ e.known <= e.seen /\ Size(e.c.unlinked) \in Nat
  BY SizeType DEF Memory, Fields, Cursor, Finite
<1> QED
  BY <1>1 DEF Credit, Least

LEMMA GapType ==
  ASSUME NEW e \in Memory
  PROVE  Gap(e) \in Nat
<1>1. e.seen \in Nat /\ e.known \in Nat /\ e.known <= e.seen /\ e.total \in Nat \cup {None}
  BY DEF Memory, Fields
<1>2. ASSUME e.total # None, e.total > e.known
      PROVE  Gap(e) \in Nat
  BY <1>1, <1>2, CreditType DEF Gap, Beyond
<1>3. ASSUME ~(e.total # None /\ e.total > e.known)
      PROVE  Gap(e) \in Nat
  BY <1>1, <1>3, CreditType DEF Gap
<1> QED
  BY <1>2, <1>3

LEMMA EndedType ==
  ASSUME NEW w \in Memory
  PROVE  /\ Ended(w) \in Memory /\ Ended(w).at = w.at /\ Ended(w).c.next = w.c.next
         /\ Ended(w).total = w.total
<1>1. w.fresh \ w.new \in Finite(Row) /\ Size(w.fresh \ w.new) \in Nat
  BY FS_Subset, SizeType DEF Memory, Fields, Finite
<1>2. RefreshedKnown(w) \in Nat /\ RefreshedKnown(w) <= w.seen
  BY <1>1 DEF Memory, Fields, RefreshedKnown, Least
<1> DEFINE c == [w.c EXCEPT !.idx = 0]
           k == RefreshedKnown(w)
           n == IF w.rereading THEN w.pages ELSE w.pages + 1
<1>3. c \in Cursor /\ c.next = w.c.next /\ n \in Nat
  BY DEF Memory, Fields, Cursor
<1>4. Ended(w) = [w EXCEPT !.pages = n, !.rereading = FALSE, !.known = k, !.c = c]
  BY DEF Ended, Memory, Fields
<1> HIDE DEF c, k, n
<1> QED
  BY <1>2, <1>3, <1>4 DEF Memory, Fields, k

\* What the counters say of a page that has ended can be committed.
LEMMA CountedType ==
  ASSUME row \in Ledger, NEW e \in Memory
  PROVE  Counted(e) \in Ledger /\ Counted(e).cursor = e.c
<1>1. e.c \in Cursor /\ e.total \in Nat \cup {None}
  BY DEF Memory, Fields
<1> QED
  BY <1>1, GapType DEF Counted, Ledger, Memory, Fields

LEMMA AtType ==
  ASSUME NEW c \in Cursor, NEW n \in Nat, NEW link \in Nat
  PROVE  At(c, n, link) \in Cursor /\ At(c, n, link).next = link /\ At(c, n, link).samples = c.samples
BY StartType DEF At, Cursor, Start

LEMMA RestedType ==
  ASSUME NEW e \in Memory, NEW r \in Ledger
  PROVE  Rested(e, r) \in Ledger /\ Rested(e, r).cursor.next = r.cursor.next
<1>1. /\ e.c.tries \in Nat /\ e.c.totalTries \in Nat /\ r.cursor \in Cursor
      /\ r.gap \in Nat
  BY DEF Memory, Fields, Cursor, Ledger
<1>2. Least(e.c.tries + 1, 2) \in Nat /\ Least(e.c.totalTries + 1, 2) \in Nat
  BY <1>1 DEF Least
<1> DEFINE c1 == [r.cursor EXCEPT !.tries = Least(e.c.tries + 1, 2)]
           c2 == [r.cursor EXCEPT !.totalTries = Least(e.c.totalTries + 1, 2)]
<1>3. c1 \in Cursor /\ c2 \in Cursor /\ c1.next = r.cursor.next /\ c2.next = r.cursor.next
  BY <1>1, <1>2 DEF Cursor
<1>4. ASSUME LinkedUnseen(e) > 0
      PROVE  Rested(e, r) \in Ledger /\ Rested(e, r).cursor.next = r.cursor.next
  <2>1. Rested(e, r) = [r EXCEPT !.cursor = c1,
                                 !.status = IF e.c.tries = 0 THEN "in_progress" ELSE "done",
                                 !.err = IF e.c.tries = 0 THEN "other" ELSE "linked"]
    BY <1>4 DEF Rested, Ledger
  <2> HIDE DEF c1
  <2> QED
    BY <1>3, <2>1 DEF Ledger, Open
<1>5. ASSUME ~(LinkedUnseen(e) > 0), r.gap > 0
      PROVE  Rested(e, r) \in Ledger /\ Rested(e, r).cursor.next = r.cursor.next
  <2>1. Rested(e, r) = [r EXCEPT !.cursor = c2,
                                 !.err = IF e.c.totalTries = 0 THEN @ ELSE "total"]
    BY <1>5 DEF Rested, Ledger
  <2> HIDE DEF c2
  <2> QED
    BY <1>3, <2>1 DEF Ledger
<1>6. ASSUME ~(LinkedUnseen(e) > 0), ~(r.gap > 0)
      PROVE  Rested(e, r) = r
  BY <1>6 DEF Rested
<1> QED
  BY <1>4, <1>5, <1>6

LEMMA StampedType ==
  ASSUME NEW e \in Memory
  PROVE  /\ Stamped(e) \in Memory
         /\ Stamped(e).at = e.at /\ Stamped(e).seen = e.seen /\ Stamped(e).pages = e.pages
         /\ Stamped(e).c.next = e.c.next /\ Stamped(e).c.idx = e.c.idx
         /\ Stamped(e).c.samples = {s \in e.c.samples : s[1] \in Linked \cup Keyed}
<1> DEFINE S == {s \in e.c.samples : s[1] \in Linked \cup Keyed}
           c == [e.c EXCEPT !.samples = S]
<1>1. e.c \in Cursor /\ S \in Finite(Row \X Nat)
  BY FS_Subset DEF Memory, Fields, Cursor, Finite
<1> HIDE DEF S
<1>2. c \in Cursor /\ c.next = e.c.next /\ c.idx = e.c.idx /\ c.samples = S
  BY <1>1 DEF Cursor
<1> HIDE DEF c
<1>3. Stamped(e) = [e EXCEPT !.c = c]
  BY DEF Stamped, c, S
<1> QED
  BY <1>2, <1>3 DEF Memory, Fields, S

\* What is decided of a query can be committed; a query is never done for its rows without a link
\* alone, since the list that must be read twice for it is then done already.
LEMMA DecidedType ==
  ASSUME row \in Ledger, NEW e \in Memory, NEW confirmed \in BOOLEAN, e.c.next <= Len(list.pages), list \in Lists
  PROVE  Decided(e, confirmed) \in Ledger /\ Decided(e, confirmed).cursor.next <= Len(list.pages)
<1> DEFINE d == Decided(e, confirmed)
           r == Counted(e)
<1>1. r \in Ledger /\ r.cursor = e.c /\ r.cursor \in Cursor /\ e.c \in Cursor
  BY CountedType DEF Ledger
<1>2. Len(list.pages) \in Nat
  BY ListType
<1> HIDE DEF r
<1>3. ASSUME Capped(e)
      PROVE  d \in Ledger /\ d.cursor.next <= Len(list.pages)
  <2>1. d = [r EXCEPT !.status = IF list.split THEN "split" ELSE "failed", !.err = IF list.split THEN @ ELSE "other"]
    BY <1>3 DEF Decided, r
  <2> QED
    BY <1>1, <2>1 DEF Ledger
<1>4. ASSUME ~Capped(e), MayBeDone(e, confirmed)
      PROVE  d \in Ledger /\ d.cursor.next <= Len(list.pages)
  <2> DEFINE err == IF confirmed THEN "none" ELSE r.err
             c == At(e.c, 1, 0)
             q == [r EXCEPT !.status = "done", !.err = err, !.cursor = c]
  <2>1. d = Rested(e, q)
    BY <1>4 DEF Decided, r
  <2>2. err \in {"none", "other", "linked", "total"}
    BY <1>1 DEF Ledger
  <2>3. c \in Cursor /\ c.next = 0
    BY <1>1, AtType
  <2> HIDE DEF err, c
  <2>4. q \in Ledger /\ q.cursor.next = 0
    BY <1>1, <2>2, <2>3 DEF Ledger
  <2> HIDE DEF q
  <2> QED
    BY <1>2, <2>1, <2>4, RestedType
<1>5. ASSUME ~Capped(e), ~MayBeDone(e, confirmed)
      PROVE  d \in Ledger /\ d.cursor.next <= Len(list.pages)
  <2>1. ~MayBeDoneUnlinked(e, confirmed)
    BY <1>5 DEF MayBeDone, MayBeDoneUnlinked
  <2>2. ASSUME Stalled(e) /\ list.split
        PROVE  d = [r EXCEPT !.status = "split"]
    BY <1>5, <2>1, <2>2 DEF Decided, r
  <2> DEFINE n == IF e.total # None /\ e.seen < e.total THEN r.cursor.page + 1 ELSE r.cursor.page
  <2>3. ASSUME ~(Stalled(e) /\ list.split)
        PROVE  d = [r EXCEPT !.status = "in_progress", !.err = "other", !.cursor = [r.cursor EXCEPT !.page = n]]
    BY <1>1, <1>5, <2>1, <2>3 DEF Decided, r
  <2>4. n \in Nat
    BY <1>1 DEF Cursor
  <2>5. [r.cursor EXCEPT !.page = n] \in Cursor /\ [r.cursor EXCEPT !.page = n].next = e.c.next
    BY <1>1, <2>4 DEF Cursor
  <2> HIDE DEF n
  <2> QED
    BY <1>1, <2>2, <2>3, <2>5 DEF Ledger, Open
<1> QED
  BY <1>3, <1>4, <1>5
--------------------------------------------------------------------------------
(* Every step keeps the types. *)

LEMMA LockStep ==
  ASSUME LockInv, Next
  PROVE  LockInv'
<1> USE TickAssumption DEF LockInv
<1>1. ASSUME NEW t \in Tick, BeginTick(t)
      PROVE  LockInv'
  BY <1>1 DEF BeginTick
<1>2. ASSUME NEW t \in Tick, BeginRun(t) \/ ReadNext(t)
      PROVE  LockInv'
  BY <1>2 DEF BeginRun, ReadNext, OpenPage, Goes
<1>3. ASSUME NEW t \in Tick, Fetch(t) \/ FetchError(t)
      PROVE  LockInv'
  BY <1>3 DEF Fetch, FetchError, Resolve
<1>4. ASSUME NEW t \in Tick, TurnPage(t) \/ Finish(t) \/ OutOfTime(t) \/ Interrupted(t) \/ Pause(t) \/ Dies(t)
      PROVE  LockInv'
  BY <1>4 DEF TurnPage, Finish, OutOfTime, Interrupted, Pause, Dies, Goes
<1>5. ASSUME NEW t \in Tick, Leave(t) \/ Lapse(t)
      PROVE  LockInv'
  BY <1>5 DEF Leave, Lapse, Goes
<1>6. ASSUME Cool \/ ComesUp \/ StagedElsewhere
      PROVE  LockInv'
  BY <1>6 DEF Cool, ComesUp, StagedElsewhere
<1> QED
  BY <1>1, <1>2, <1>3, <1>4, <1>5, <1>6 DEF Next, Step

LEMMA ResumedType ==
  ASSUME ValueInv, PlaceInv
  PROVE  Resumed \in Memory /\ Resumed.at \in DOMAIN list.pages /\ Resumed.c.next <= Len(list.pages)
<1> DEFINE at == IF ByLink THEN row.cursor.next ELSE 1
           c == IF row.cursor.page = 1 /\ row.cursor.idx = 0 THEN [row.cursor EXCEPT !.unlinked = {}] ELSE row.cursor
           rereading == ~ByLink /\ row.pages > 0 /\ row.pages >= row.cursor.page
<1>1. /\ row.cursor \in Cursor /\ row.cursor.next \in Nat /\ row.pages \in Nat /\ row.seen \in Nat
      /\ row.known \in Nat /\ row.known <= row.seen /\ row.total \in Nat \cup {None}
  BY DEF ValueInv, Ledger, Cursor
<1>2. at \in Nat /\ at \in DOMAIN list.pages
  BY <1>1, ListType DEF ValueInv, PlaceInv, ByLink
<1>3. c \in Cursor /\ c.next = row.cursor.next
  BY <1>1, FS_EmptySet DEF Cursor, Finite
<1>4. rereading \in BOOLEAN
  OBVIOUS
<1>5. Resumed = [NoMem EXCEPT !.at = at, !.rereading = rereading, !.pages = row.pages, !.seen = row.seen,
                              !.known = row.known, !.total = row.total, !.c = c]
  BY DEF Resumed
<1>6. NoMem \in Fields /\ NoMem.knownBefore <= NoMem.seenBefore
  BY NoMemType DEF Memory
<1> HIDE DEF at, c, rereading
<1>7. Resumed \in Fields
  BY <1>1, <1>2, <1>3, <1>4, <1>5, <1>6, Zenon DEF Fields
<1>8. /\ Resumed.at = at /\ Resumed.c = c /\ Resumed.known = row.known /\ Resumed.seen = row.seen
      /\ Resumed.knownBefore = NoMem.knownBefore /\ Resumed.seenBefore = NoMem.seenBefore
  BY <1>5, <1>6 DEF Fields
<1> QED
  BY <1>1, <1>2, <1>3, <1>6, <1>7, <1>8 DEF Memory, PlaceInv

LEMMA OpenPageTyped ==
  ASSUME ValueInv, PlaceInv, NEW t \in Tick, NEW w \in Memory, w.at \in DOMAIN list.pages,
         w.c.next <= Len(list.pages), OpenPage(t, w), LockInv
  PROVE  ValueInv' /\ PlaceInv'
<1> DEFINE r == Reads(w)
<1>1. r \in Memory /\ r.at = w.at /\ r.c.next = w.c.next /\ r.c \in Cursor
  BY ReadsType DEF ValueInv, Memory, Fields
<1>2. mem' = [mem EXCEPT ![t] = r] /\ pc' = [pc EXCEPT ![t] = "page"]
      /\ UNCHANGED <<list, held, cool, lock, fails, stops>>
      /\ (row' = row \/ row' = [row EXCEPT !.cursor = r.c])
  BY DEF OpenPage, Goes
<1> HIDE DEF r
<1>3. row' \in Ledger /\ row'.cursor.next <= Len(list.pages)
  BY <1>1, <1>2 DEF ValueInv, PlaceInv, Ledger
<1>4. mem' \in [Tick -> Memory]
  BY <1>1, <1>2 DEF ValueInv
<1>5. PlaceInv'
  BY <1>1, <1>2, <1>3 DEF PlaceInv, ValueInv, LockInv
<1> QED
  BY <1>2, <1>3, <1>4, <1>5 DEF ValueInv

LEMMA ReopenedType ==
  ASSUME row \in Ledger
  PROVE  /\ Reopened(row) \in Ledger /\ Reopened(row).cursor.samples = row.cursor.samples
         /\ Reopened(row).cursor.next \in {0, row.cursor.next}
<1> DEFINE c == [Start EXCEPT !.samples = row.cursor.samples]
<1>1. c \in Cursor /\ c.next = 0 /\ c.samples = row.cursor.samples
  BY StartType DEF Ledger, Cursor, Start
<1> HIDE DEF c
<1> DEFINE again == [row EXCEPT !.status = "pending", !.err = "other"]
           anew == [row EXCEPT !.status = "pending", !.err = "other", !.gap = 0, !.pages = 0, !.seen = 0,
                               !.known = 0, !.cursor = c]
<1>2. again \in Ledger /\ again.cursor = row.cursor
  BY DEF Ledger, Open
<1>3. anew \in Ledger /\ anew.cursor = c
  <2>1. 0 \in Nat /\ 0 <= 0 /\ "pending" \in Open
    BY DEF Open
  <2>2. anew.known = 0 /\ anew.seen = 0
    BY DEF Ledger
  <2> QED
    BY <1>1, <2>1, <2>2, Zenon DEF Ledger
<1>4. Reopened(row) = row \/ Reopened(row) = again \/ Reopened(row) = anew
  BY DEF Reopened, c
<1> HIDE DEF again, anew
<1> QED
  BY <1>1, <1>2, <1>3, <1>4

LEMMA BeginTickTyped ==
  ASSUME Typed, NEW t \in Tick, BeginTick(t)
  PROVE  ValueInv' /\ PlaceInv'
<1> DEFINE r == ForTick(t)
<1>1. r \in Ledger /\ r.cursor.next \in {0, row.cursor.next}
  BY ReopenedType DEF ForTick, Typed, ValueInv
<1>2. /\ UNCHANGED <<list, held, mem, fails, stops>> /\ cool' \in {"no", "yes", "due"}
      /\ row' = r \/ row' = [r EXCEPT !.status = "in_progress"]
      /\ pc' = pc \/ pc' = [pc EXCEPT ![t] = "begin"]
  BY DEF BeginTick, Typed, ValueInv
<1> HIDE DEF r
<1>3. row' \in Ledger /\ row'.cursor.next \in {0, row.cursor.next}
  BY <1>1, <1>2 DEF Ledger, Open
<1>4. row'.cursor.next <= Len(list.pages)
  BY <1>3, ListType DEF Typed, ValueInv, PlaceInv
<1>5. ValueInv'
  BY <1>2, <1>3 DEF Typed, ValueInv
<1>6. PlaceInv'
  BY <1>2, <1>4 DEF Typed, PlaceInv, LockInv
<1> QED
  BY <1>5, <1>6

\* The place in the page and the names, when a row has been opened.
LEMMA ResolveTyped ==
  ASSUME Typed, NEW t \in Tick, NEW samples \in Finite(Row \X Nat), NEW n \in Nat, NEW k \in Nat,
         Resolve(t, samples, k, n), held' \subseteq Row, fails' \in 0..list.fails
  PROVE  /\ ValueInv' /\ PlaceInv'
         /\ mem'[t].at = mem[t].at /\ mem'[t].new = mem[t].new /\ mem'[t].c.idx = n
         /\ row'.cursor.samples = samples /\ mem'[t].c.samples = samples
<1> DEFINE c == [mem[t].c EXCEPT !.idx = n, !.samples = samples]
           k1 == mem[t].resolved + k
           w == [mem[t] EXCEPT !.c = c, !.resolved = k1]
<1>1. mem[t] \in Memory /\ mem[t].c \in Cursor /\ mem[t].resolved \in Nat
  BY DEF Typed, ValueInv, Memory, Fields
<1>2. c \in Cursor /\ c.next = mem[t].c.next /\ c.idx = n /\ c.samples = samples /\ k1 \in Nat
  <2> DEFINE d == mem[t].c
  <2>1. d \in Cursor /\ c = [d EXCEPT !.idx = n, !.samples = samples]
    BY <1>1
  <2> HIDE DEF c, d
  <2>2. c \in Cursor /\ c.next = d.next /\ c.idx = n /\ c.samples = samples
    BY <2>1 DEF Cursor
  <2> QED
    BY <1>1, <2>2 DEF d
<1>3. mem' = [mem EXCEPT ![t] = w]
  BY <1>1 DEF Resolve, Typed, ValueInv, Memory, Fields
<1>4. row' = [row EXCEPT !.cursor = c] /\ UNCHANGED <<list, cool, lock, pc, stops>>
  BY DEF Resolve
<1> HIDE DEF c, k1
<1>5. w \in Memory /\ w.at = mem[t].at /\ w.new = mem[t].new /\ w.c = c
  BY <1>1, <1>2 DEF Memory, Fields
<1> HIDE DEF w
<1>6. mem' \in [Tick -> Memory] /\ mem'[t] = w
  BY <1>3, <1>5 DEF Typed, ValueInv
<1>7. row' \in Ledger /\ row'.cursor = c
  BY <1>2, <1>4 DEF Typed, ValueInv, Ledger
<1>8. ValueInv'
  BY <1>4, <1>6, <1>7 DEF Typed, ValueInv
<1>9. PlaceInv'
  BY <1>2, <1>3, <1>4, <1>5, <1>7 DEF Typed, ValueInv, PlaceInv
<1> QED
  BY <1>2, <1>5, <1>6, <1>7, <1>8, <1>9

\* The row that is opened is on the page, has a link and no body yet, and lies beyond the place.
LEMMA FirstIsToDo ==
  ASSUME Typed, NEW t \in Tick, Todo(mem[t]) # {}
  PROVE  /\ First(mem[t]) \in Todo(mem[t]) /\ First(mem[t]) \in Nat
         /\ Body(mem[t]) = list.pages[mem[t].at][First(mem[t])] /\ Body(mem[t]) \in Row
         /\ \A j \in Todo(mem[t]) : First(mem[t]) <= j
<1> DEFINE T == Todo(mem[t])
<1>1. T \subseteq DOMAIN list.pages[mem[t].at]
  BY DEF Todo
<1>2. T \subseteq Nat /\ \A i \in T : list.pages[mem[t].at][i] \in Row
  BY <1>1, PageType DEF Typed, ValueInv, PlaceInv
<1> HIDE DEF T
<1>3. PICK i \in T : \A j \in T : i <= j
  <2>1. T # {}
    BY DEF T
  <2> QED
    BY <1>2, <2>1, LeastNatural
<1> USE DEF T
<1> QED
  BY <1>2, <1>3 DEF First, Body

LEMMA FetchTyped ==
  ASSUME Typed, NEW t \in Tick, Fetch(t) \/ FetchError(t)
  PROVE  /\ ValueInv' /\ PlaceInv'
         /\ pc[t] = "page" /\ Todo(mem[t]) # {} /\ UNCHANGED <<list, pc>>
         /\ mem'[t].at = mem[t].at /\ mem'[t].new = mem[t].new /\ mem'[t].c.idx = First(mem[t])
         /\ \A u \in Tick : u # t => mem'[u] = mem[u]
         /\ held \subseteq held' /\ held' \subseteq held \cup {Body(mem[t])}
<1> DEFINE b == Body(mem[t])
           n == First(mem[t])
           S == mem[t].c.samples
<1>1. /\ pc[t] = "page" /\ Todo(mem[t]) # {} /\ UNCHANGED <<list, pc>>
      /\ \A u \in Tick : u # t => mem'[u] = mem[u]
  BY DEF Fetch, FetchError, Resolve, Typed, ValueInv
<1>2. n \in Nat /\ b \in Row
  BY <1>1, FirstIsToDo
<1>3. Again(t) \in Finite(Row \X Nat) /\ Dropped(S, b) \in Finite(Row \X Nat)
  <2>1. S \in Finite(Row \X Nat) /\ list \in Lists /\ mem[t].at \in DOMAIN list.pages
    BY DEF Typed, ValueInv, PlaceInv, Memory, Fields, Cursor
  <2>2. Dropped(S, b) \in Finite(Row \X Nat)
    BY <2>1, FS_Subset DEF Dropped, Finite
  <2> QED
    BY <2>1, <2>2, ListType, RememberedType DEF Again
<1>4. held \subseteq Row /\ fails \in 0..list.fails /\ list.fails \in Nat
  BY ListAssumption DEF Typed, ValueInv
<1> DEFINE F == IF b \in Blank THEN Again(t) ELSE Dropped(S, b)
<1> HIDE DEF b, n, S
<1>5. CASE Fetch(t)
  <2>1. Resolve(t, F, 1, n) /\ held' \subseteq Row /\ fails' = fails
    BY <1>2, <1>4, <1>5 DEF Fetch, b, n, S
  <2>2. F \in Finite(Row \X Nat)
    BY <1>3
  <2> HIDE DEF F
  <2>3. ValueInv' /\ PlaceInv' /\ mem'[t].at = mem[t].at /\ mem'[t].new = mem[t].new /\ mem'[t].c.idx = n
    BY <1>2, <1>4, <2>1, <2>2, ResolveTyped
  <2>4. held' = (IF b \in Blank THEN held ELSE held \cup {b})
    BY <1>5 DEF Fetch, b
  <2> QED
    BY <1>1, <2>3, <2>4 DEF n, b
<1>6. CASE FetchError(t)
  <2>1. Resolve(t, Again(t), 0, n) /\ held' = held
    BY <1>6 DEF FetchError, n
  <2>2. fails' \in 0..list.fails
    BY <1>4, <1>6 DEF FetchError
  <2>3. ValueInv' /\ PlaceInv' /\ mem'[t].at = mem[t].at /\ mem'[t].new = mem[t].new /\ mem'[t].c.idx = n
    BY <1>2, <1>3, <1>4, <2>1, <2>2, ResolveTyped
  <2> QED
    BY <1>1, <2>1, <2>3 DEF n, b
<1> QED
  BY <1>5, <1>6

LEMMA StoppingType ==
  ASSUME Typed, Stopping
  PROVE  stops' \in 0..list.stops
BY ListAssumption DEF Typed, ValueInv, Stopping

\* A step that leaves the tick's memory alone.
LEMMA RowTyped ==
  ASSUME Typed, NEW t \in Tick, NEW where \in {"leave", "dead"}, pc' = [pc EXCEPT ![t] = where],
         row' \in Ledger, row'.cursor.next <= Len(list.pages), stops' \in 0..list.stops,
         UNCHANGED <<list, held, cool, fails>>, mem' = mem \/ mem' = [mem EXCEPT ![t] = NoMem]
  PROVE  ValueInv' /\ PlaceInv'
<1>1. NoMem \in Memory /\ NoMem.at = 1 /\ NoMem.c.next = 0
  BY NoMemType DEF NoMem, Start
<1>2. 1 \in DOMAIN list.pages /\ 0 <= Len(list.pages)
  BY ListType DEF Typed, ValueInv
<1>3. mem' \in [Tick -> Memory]
  BY <1>1 DEF Typed, ValueInv
<1>4. ValueInv'
  BY <1>3 DEF Typed, ValueInv
<1>5. PlaceInv'
  BY <1>1, <1>2 DEF Typed, ValueInv, PlaceInv, LockInv
<1> QED
  BY <1>4, <1>5

LEMMA OutOfTimeTyped ==
  ASSUME Typed, NEW t \in Tick, OutOfTime(t)
  PROVE  ValueInv' /\ PlaceInv'
<1> DEFINE w == mem[t]
           c == [w.c EXCEPT !.unlinked = w.unlinkedBefore]
<1>1. w \in Memory
  BY DEF Typed, ValueInv
<1>2. w.c \in Cursor /\ w.unlinkedBefore \in Finite(Row \ Linked) /\ w.c.next <= Len(list.pages)
  BY <1>1 DEF Memory, Fields, Typed, PlaceInv
<1>3. c \in Cursor /\ c.next <= Len(list.pages)
  BY <1>2 DEF Cursor
<1>4. row' = [row EXCEPT !.seen = w.seenBefore, !.known = w.knownBefore, !.total = w.total, !.cursor = c]
  BY DEF OutOfTime
<1> HIDE DEF c, w
<1>5. /\ w.seenBefore \in Nat /\ w.knownBefore \in Nat /\ w.knownBefore <= w.seenBefore
      /\ w.total \in Nat \cup {None}
  BY <1>1 DEF Memory, Fields
<1>6. row' \in Ledger /\ row'.cursor = c
  BY <1>3, <1>4, <1>5 DEF Typed, ValueInv, Ledger
<1> QED
  BY <1>3, <1>6, RowTyped, StoppingType DEF OutOfTime, Goes

LEMMA TurnPageTyped ==
  ASSUME Typed, NEW t \in Tick, TurnPage(t)
  PROVE  ValueInv' /\ PlaceInv'
<1> DEFINE w == mem[t]
           e == Ended(w)
           c == Turned(w)
           q == Counted(e)
           err == IF w.repeats >= 2 THEN "other" ELSE q.err
           m == [e EXCEPT !.c = c]
<1>1. w \in Memory /\ w.c \in Cursor /\ w.at \in Nat /\ w.at + 1 \in DOMAIN list.pages
  <2>1. w \in Memory /\ w.at \in DOMAIN list.pages
    BY DEF Typed, ValueInv, PlaceInv
  <2>2. w.at < Len(list.pages)
    BY DEF TurnPage, HasNext
  <2>3. w.c \in Cursor /\ w.at \in Nat
    BY <2>1 DEF Memory, Fields
  <2> QED
    BY <2>1, <2>2, <2>3, ListType DEF Typed, ValueInv
<1>2. c \in Cursor /\ c.next = w.at + 1
  <2>1. w.c.page + 1 \in Nat /\ w.at + 1 \in Nat
    BY <1>1 DEF Cursor
  <2> QED
    BY <1>1, <2>1, AtType DEF Turned
<1>3. c.next <= Len(list.pages)
  BY <1>1, <1>2, ListType DEF Typed, ValueInv
<1>4. e \in Memory /\ e.at = w.at
  BY <1>1, EndedType
<1>5. q \in Ledger
  BY <1>4, CountedType DEF Typed, ValueInv
<1>6. /\ mem' = [mem EXCEPT ![t] = m] /\ row' = [q EXCEPT !.cursor = c, !.err = err]
      /\ UNCHANGED <<list, held, cool, fails>> /\ stops' \in 0..list.stops
      /\ pc' = [pc EXCEPT ![t] = "turn"] \/ pc' = [pc EXCEPT ![t] = "leave"]
  BY StoppingType DEF TurnPage, Goes, Typed, ValueInv
<1>7. err \in {"none", "other", "linked", "total"}
  BY <1>5 DEF Ledger
<1> HIDE DEF c, q, e, w, err
<1>8. m \in Memory /\ m.at = w.at /\ m.c = c
  BY <1>2, <1>4 DEF Memory, Fields
<1>9. row' \in Ledger /\ row'.cursor = c
  BY <1>2, <1>5, <1>6, <1>7 DEF Ledger
<1> HIDE DEF m
<1>10. ValueInv'
  BY <1>6, <1>8, <1>9 DEF Typed, ValueInv
<1>11. PlaceInv'
  <2>1. row'.cursor.next <= Len(list'.pages)
    BY <1>3, <1>6, <1>9
  <2>2. mem'[t] = m /\ m.at \in DOMAIN list.pages /\ m.c.next <= Len(list.pages) /\ m.at + 1 \in DOMAIN list.pages
    BY <1>1, <1>3, <1>6, <1>8 DEF Typed, ValueInv, PlaceInv, w
  <2>3. \A u \in Tick : u # t => mem'[u] = mem[u] /\ pc'[u] = pc[u]
    BY <1>6 DEF Typed, ValueInv, LockInv
  <2> QED
    BY <1>6, <2>1, <2>2, <2>3 DEF Typed, PlaceInv
<1> QED
  BY <1>10, <1>11

LEMMA TypedInit ==
  ASSUME Init
  PROVE  Typed
<1>1. list \in Lists /\ Listed \subseteq Row
  BY PageType DEF Init, Listed, Finite
<1>2. row \in Ledger /\ row.cursor.next = 0
  BY StartType DEF Init, Ledger, Open, Start
<1>3. ValueInv
  BY <1>1, <1>2, NoMemType, ListAssumption DEF Init, ValueInv
<1>4. PlaceInv
  <2>1. NoMem.at = 1 /\ NoMem.c.next = 0
    BY DEF NoMem, Start
  <2> QED
    BY <1>1, <1>2, <2>1, ListType DEF Init, PlaceInv
<1>5. LockInv
  BY TickAssumption DEF Init, LockInv
<1> QED
  BY <1>3, <1>4, <1>5 DEF Typed

LEMMA TypedStep ==
  ASSUME Typed, Next
  PROVE  Typed'
<1>1. LockInv'
  BY LockStep DEF Typed
<1>2. ASSUME NEW t \in Tick, BeginRun(t) \/ ReadNext(t)
      PROVE  ValueInv' /\ PlaceInv'
  <2>1. CASE BeginRun(t)
    BY <2>1, ResumedType, OpenPageTyped DEF BeginRun, Typed
  <2>2. CASE ReadNext(t)
    <3> DEFINE m == mem[t]
               n == m.at + 1
               w == [m EXCEPT !.at = n]
    <3>1. mem[t] \in Memory /\ mem[t].at \in Nat /\ mem[t].c.next <= Len(list.pages)
          /\ mem[t].at + 1 \in DOMAIN list.pages
      BY <2>2 DEF ReadNext, Typed, ValueInv, PlaceInv, Memory, Fields
    <3>2. OpenPage(t, w) /\ m \in Memory /\ n \in Nat
      BY <2>2, <3>1 DEF ReadNext
    <3>3. w \in Memory /\ w.at = mem[t].at + 1 /\ w.c = mem[t].c
      <4> HIDE DEF m, n
      <4>1. w \in Memory /\ w.at = n /\ w.c = m.c
        BY <3>2 DEF Memory, Fields
      <4> QED
        BY <4>1 DEF m, n
    <3> HIDE DEF w
    <3> QED
      BY <3>1, <3>2, <3>3, OpenPageTyped DEF Typed
  <2> QED
    BY <1>2, <2>1, <2>2
<1>3. ASSUME NEW t \in Tick, Finish(t)
      PROVE  ValueInv' /\ PlaceInv'
  <2>1. /\ mem[t] \in Memory /\ mem[t].c.next <= Len(list.pages) /\ row \in Ledger /\ list \in Lists
        /\ mem[t].rereading \in BOOLEAN /\ stops \in 0..list.stops
    BY DEF Typed, ValueInv, PlaceInv, Memory, Fields
  <2>2. row' = Decided(Stamped(Ended(mem[t])), mem[t].rereading)
    BY <1>3 DEF Finish
  <2>3. row' \in Ledger /\ row'.cursor.next <= Len(list.pages)
    BY <2>1, <2>2, EndedType, StampedType, DecidedType
  <2> QED
    BY <1>3, <2>1, <2>3, RowTyped DEF Finish, Goes
<1>4. ASSUME NEW t \in Tick, Interrupted(t) \/ Pause(t)
      PROVE  ValueInv' /\ PlaceInv'
  <2>1. row \in Ledger /\ row.cursor.next <= Len(list.pages)
    BY DEF Typed, ValueInv, PlaceInv
  <2>2. row' = [row EXCEPT !.err = "other"] \/ row' = [row EXCEPT !.status = "pending", !.err = "other"]
    BY <1>4 DEF Interrupted, Pause
  <2>3. row' \in Ledger /\ row'.cursor.next <= Len(list.pages)
    BY <2>1, <2>2 DEF Ledger, Open
  <2> QED
    BY <1>4, <2>3, RowTyped, StoppingType DEF Interrupted, Pause, Goes
<1>5. ASSUME NEW t \in Tick, Dies(t)
      PROVE  ValueInv' /\ PlaceInv'
  BY <1>5, RowTyped, StoppingType DEF Dies, Goes, Typed, ValueInv, PlaceInv
<1>6. ASSUME NEW t \in Tick, Leave(t) \/ Lapse(t)
      PROVE  ValueInv' /\ PlaceInv'
  <2>1. NoMem \in Memory /\ NoMem.at = 1 /\ NoMem.c.next = 0
    BY NoMemType DEF NoMem, Start
  <2>2. 1 \in DOMAIN list.pages /\ 0 <= Len(list.pages)
    BY ListType DEF Typed, ValueInv
  <2>3. /\ UNCHANGED <<list, held, row, cool, fails, stops>> /\ pc' = [pc EXCEPT ![t] = "idle"]
        /\ mem' = mem \/ mem' = [mem EXCEPT ![t] = NoMem]
    BY <1>6 DEF Leave, Lapse, Goes
  <2>4. ValueInv'
    BY <2>1, <2>3 DEF Typed, ValueInv
  <2>5. PlaceInv'
    BY <2>1, <2>2, <2>3 DEF Typed, ValueInv, PlaceInv, LockInv
  <2> QED
    BY <2>4, <2>5
<1>7. ASSUME Cool \/ ComesUp \/ StagedElsewhere
      PROVE  ValueInv' /\ PlaceInv'
  <2>1. Others \subseteq Row
    BY KeyAssumption, RowAssumption
  <2> QED
    BY <1>7, <2>1 DEF Cool, ComesUp, StagedElsewhere, Typed, ValueInv, PlaceInv
<1> QED
  BY <1>1, <1>2, <1>3, <1>4, <1>5, <1>6, <1>7, BeginTickTyped, FetchTyped, OutOfTimeTyped, TurnPageTyped
  DEF Next, Step, Typed

LEMMA TypedStutters ==
  ASSUME Typed, UNCHANGED vars
  PROVE  Typed'
BY DEF Typed, LockInv, ValueInv, PlaceInv, vars

\* Whatever stops, fails or dies, what is committed is well formed: no more rows are known than
\* seen, the gap is a number, and one tick at a time runs the query.
THEOREM TypeCorrect == Spec => []TypeOK
<1>1. Init => Typed
  BY TypedInit
<1>2. Typed /\ [Next]_vars => Typed'
  BY TypedStep, TypedStutters
<1> QED
  BY <1>1, <1>2, TypedImplies, PTL DEF Spec
--------------------------------------------------------------------------------
(* What a tick opens. *)

\* What a tick has to open is not held, unless its keys do not find it or another query has staged it.
PageInv(t) == \A i \in Todo(mem[t]) : list.pages[mem[t].at][i] \notin (held \cap Matched) \ Others

PagesInv == \A t \in Tick : pc[t] = "page" => PageInv(t)

\* The tick that runs is alone.
LEMMA Alone ==
  ASSUME Typed, NEW t \in Tick, pc[t] # "idle", NEW u \in Tick, pc[u] # "idle"
  PROVE  u = t
BY TickAssumption DEF Typed, LockInv

\* What is new on a page that has been read is not known to be held.
LEMMA OpenPagePages ==
  ASSUME Typed, NEW t \in Tick, pc[t] # "idle", NEW w \in Memory, w.at \in DOMAIN list.pages, OpenPage(t, w)
  PROVE  PagesInv'
<1> DEFINE r == Reads(w)
<1>1. r \in Memory /\ r.new = New(w)
  BY ReadsType DEF Typed, ValueInv
<1>2. New(w) \cap held \cap Matched = {}
  BY FreshType DEF Typed, ValueInv
<1>3. mem'[t] = r /\ UNCHANGED <<list, held>> /\ pc' = [pc EXCEPT ![t] = "page"]
  BY DEF OpenPage, Goes, Typed, ValueInv
<1> HIDE DEF r
<1>4. \A i \in Todo(r) : list.pages[r.at][i] \in New(w)
  BY <1>1 DEF Todo
<1>5. PageInv(t)'
  <2>1. \A i \in Todo(mem[t])' : list'.pages[mem'[t].at][i] \in New(w)
    BY <1>3, <1>4 DEF Todo
  <2> QED
    BY <1>2, <1>3, <2>1 DEF PageInv
<1>6. \A u \in Tick : pc'[u] = "page" => u = t
  BY <1>3, Alone DEF Typed, LockInv
<1> QED
  BY <1>5, <1>6 DEF PagesInv

\* The row that is opened is left behind.
LEMMA FetchPages ==
  ASSUME Typed, PagesInv, NEW t \in Tick, Fetch(t) \/ FetchError(t)
  PROVE  PagesInv'
<1> DEFINE w == mem[t]
           s == list.pages[w.at]
           n == First(w)
<1>1. /\ pc[t] = "page" /\ Todo(w) # {} /\ UNCHANGED <<list, pc>>
      /\ mem'[t].at = w.at /\ mem'[t].new = w.new /\ mem'[t].c.idx = n
      /\ \A u \in Tick : u # t => mem'[u] = mem[u]
      /\ held \subseteq held' /\ held' \subseteq held \cup {s[n]}
  BY FetchTyped DEF Body
<1>2. n \in Todo(w) /\ n \in Nat
  BY <1>1, FirstIsToDo
<1>3. IsInjective(s) /\ DOMAIN s \subseteq Nat
  BY ListType, PageType DEF Typed, ValueInv, PlaceInv
<1>4. ASSUME NEW i \in Todo(mem[t])'
      PROVE  i \in Todo(w) /\ s[i] # s[n]
  <2>1. i \in DOMAIN s /\ i > n /\ s[i] \in w.new \cap Linked
    BY <1>1, <1>4 DEF Todo
  <2>2. w.c.idx \in Nat /\ n > w.c.idx /\ n \in DOMAIN s
    BY <1>2 DEF Todo, Typed, ValueInv, Memory, Fields, Cursor
  <2>3. i \in Nat /\ i # n /\ i > w.c.idx
    BY <1>2, <1>3, <2>1, <2>2
  <2>4. i \in Todo(w)
    BY <2>1, <2>3 DEF Todo
  <2>5. s[i] # s[n]
    BY <1>3, <2>1, <2>2, <2>3 DEF IsInjective
  <2> QED
    BY <2>4, <2>5
<1>5. PageInv(t)
  BY <1>1 DEF PagesInv
<1>6. PageInv(t)'
  <2>1. \A i \in Todo(mem[t])' : list'.pages[mem'[t].at][i] \notin (held' \cap Matched) \ Others
    BY <1>1, <1>4, <1>5 DEF PageInv
  <2> QED
    BY <2>1 DEF PageInv
<1>7. \A u \in Tick : pc'[u] = "page" => u = t
  BY <1>1, Alone
<1> QED
  BY <1>6, <1>7 DEF PagesInv

\* When a tick begins, no other reads a page; otherwise only the status of the row may change.
LEMMA BeginTickPages ==
  ASSUME Typed, PagesInv, NEW t \in Tick, BeginTick(t)
  PROVE  PagesInv'
<1>1. UNCHANGED <<list, held, mem>> /\ (pc' = pc \/ pc' = [pc EXCEPT ![t] = "begin"])
  BY DEF BeginTick
<1>2. ASSUME NEW u \in Tick, pc'[u] = "page"
      PROVE  pc[u] = "page"
  BY <1>1, <1>2 DEF Typed, LockInv
<1> QED
  BY <1>1, <1>2 DEF PagesInv, PageInv, Todo

\* The steps that leave a page leave no other.
LEMMA LeavesPages ==
  ASSUME Typed, NEW t \in Tick, pc[t] # "idle", NEW where, where # "page", pc' = [pc EXCEPT ![t] = where]
  PROVE  PagesInv'
<1>1. \A u \in Tick : pc'[u] # "page"
  BY Alone DEF Typed, LockInv
<1> QED
  BY <1>1 DEF PagesInv

LEMMA PagesStep ==
  ASSUME Typed, PagesInv, Next
  PROVE  PagesInv'
<1>1. ASSUME NEW t \in Tick, BeginRun(t)
      PROVE  PagesInv'
  BY <1>1, ResumedType, OpenPagePages DEF BeginRun, Typed
<1>2. ASSUME NEW t \in Tick, ReadNext(t)
      PROVE  PagesInv'
  <2> DEFINE m == mem[t]
             n == m.at + 1
             w == [m EXCEPT !.at = n]
  <2>1. pc[t] = "turn" /\ OpenPage(t, w)
    BY <1>2 DEF ReadNext
  <2>2. m \in Memory /\ n \in DOMAIN list.pages
    BY <2>1 DEF Typed, ValueInv, PlaceInv
  <2>3. n \in Nat
    BY <2>2 DEF Memory, Fields
  <2> HIDE DEF m, n
  <2>4. w \in Memory /\ w.at = n
    BY <2>2, <2>3 DEF Memory, Fields
  <2> HIDE DEF w
  <2> QED
    BY <2>1, <2>2, <2>4, OpenPagePages
<1>3. ASSUME NEW t \in Tick, TurnPage(t)
      PROVE  PagesInv'
  BY <1>3, LeavesPages DEF TurnPage, Goes
<1>4. ASSUME NEW t \in Tick, Finish(t) \/ OutOfTime(t) \/ Interrupted(t) \/ Pause(t)
      PROVE  PagesInv'
  BY <1>4, LeavesPages DEF Finish, OutOfTime, Interrupted, Pause, Goes
<1>5. ASSUME NEW t \in Tick, Leave(t) \/ Dies(t) \/ Lapse(t)
      PROVE  PagesInv'
  BY <1>5, LeavesPages DEF Leave, Dies, Lapse, Goes
<1>6. ASSUME Cool \/ ComesUp \/ StagedElsewhere
      PROVE  PagesInv'
  BY <1>6 DEF Cool, ComesUp, StagedElsewhere, PagesInv, PageInv, Todo
<1> QED
  BY <1>1, <1>2, <1>3, <1>4, <1>5, <1>6, FetchPages, BeginTickPages DEF Next, Step
--------------------------------------------------------------------------------
(* A lap of the list. *)

\* The rows of the pages before page k, and the page the next run begins with.
Passed(k) == UNION {RowsOf(m) : m \in {n \in DOMAIN list.pages : n < k}}
From      == IF row.cursor.next > 0 THEN row.cursor.next ELSE 1

\* A tick that reads has committed the place at which it is.
SamePlace(t) ==
  /\ mem[t].c.next = row.cursor.next /\ mem[t].c.idx = row.cursor.idx
  /\ mem[t].c.samples = row.cursor.samples /\ mem[t].pages = row.pages
  /\ mem[t].met \subseteq Passed(mem[t].at + 1)

OnPage(t) ==
  /\ SamePlace(t) /\ mem[t].at = From
  /\ RowsOf(mem[t].at) \subseteq Passed(mem[t].at) \cup mem[t].fresh
  /\ mem[t].fresh \ mem[t].new \subseteq held

AtTurn(t) == SamePlace(t) /\ mem[t].at + 1 = From /\ row.cursor.idx = 0 /\ ~mem[t].rereading

SameInv ==
  /\ row.cursor.next > 0 => row.pages > 0
  /\ \A t \in Tick : /\ pc[t] \in {"begin", "page", "turn"} => row.status = "in_progress"
                     /\ pc[t] = "page" => OnPage(t)
                     /\ pc[t] = "turn" => AtTurn(t)

\* Where there is room, what is about to be opened, and what the pages behind the place have left
\* without a body, is named.
NamedInv ==
  Nameable => /\ row.cursor.samples \subseteq Listed \X {1}
              /\ Passed(From) \ held \subseteq Named(row.cursor.samples)
              /\ NamedFirst /\ NamedAtRest

\* Unless a fetch has failed, what the site serves of the rows behind the place is held.
HeldInv ==
  fails = 0 =>
    /\ Served \cap Passed(From) \subseteq held
    /\ \A i \in DOMAIN list.pages[From] :
         i <= row.cursor.idx /\ list.pages[From][i] \in Served => list.pages[From][i] \in held
    /\ row.status = "done" => Served \subseteq held

\* Until every page has been counted, the page of the place is the first that is not.
CountInv ==
  /\ row.pages < Len(list.pages) => From = row.pages + 1
  /\ CountedOnce
  /\ \A t \in Tick :
       /\ pc[t] = "page" =>
            /\ mem[t].pages <= Len(list.pages) => mem[t].seenBefore <= Size(Places(mem[t].pages))
            /\ ~mem[t].rereading /\ mem[t].pages < Len(list.pages) => mem[t].seen <= Size(Places(mem[t].pages + 1))
            /\ mem[t].rereading => mem[t].pages >= Len(list.pages)
            /\ mem[t].rereading /\ mem[t].pages <= Len(list.pages) => mem[t].seen <= Size(Places(mem[t].pages))
       /\ pc[t] = "turn" /\ mem[t].pages <= Len(list.pages) => mem[t].seen <= Size(Places(mem[t].pages))

LapInv == SameInv /\ NamedInv /\ HeldInv /\ CountInv

LEMMA PassedPages ==
  ASSUME list \in Lists
  PROVE  /\ Passed(1) = {} /\ Passed(Len(list.pages) + 1) = Listed
         /\ \A n \in DOMAIN list.pages : Passed(n + 1) = Passed(n) \cup RowsOf(n)
<1>1. Len(list.pages) \in Nat /\ DOMAIN list.pages = 1..Len(list.pages)
  BY ListType
<1>2. Passed(1) = {}
  BY <1>1 DEF Passed
<1>3. Passed(Len(list.pages) + 1) = Listed
  <2>1. {n \in DOMAIN list.pages : n < Len(list.pages) + 1} = DOMAIN list.pages
    BY <1>1
  <2> QED
    BY <2>1 DEF Passed, Listed
<1>4. ASSUME NEW n \in DOMAIN list.pages
      PROVE  Passed(n + 1) = Passed(n) \cup RowsOf(n)
  <2>1. {m \in DOMAIN list.pages : m < n + 1} = {m \in DOMAIN list.pages : m < n} \cup {n}
    BY <1>1
  <2> QED
    BY <2>1 DEF Passed
<1> QED
  BY <1>2, <1>3, <1>4

LEMMA PlacesCount ==
  ASSUME list \in Lists
  PROVE  /\ \A k \in Nat : Size(Places(k)) \in Nat
         /\ \A k \in Nat : k < Len(list.pages) => Size(Places(k + 1)) = Size(Places(k)) + Size(RowsOf(k + 1))
<1> DEFINE D(k) == {n \in DOMAIN list.pages : n <= k}
           C(m) == {m} \X RowsOf(m)
<1>1. Len(list.pages) \in Nat /\ DOMAIN list.pages = 1..Len(list.pages) /\ IsFiniteSet(DOMAIN list.pages)
  <2>1. Len(list.pages) \in Nat /\ DOMAIN list.pages = 1..Len(list.pages)
    BY ListType
  <2>2. IsFiniteSet(1..Len(list.pages))
    BY <2>1, FS_Interval
  <2> QED
    BY <2>1, <2>2
<1>2. ASSUME NEW m \in DOMAIN list.pages
      PROVE  IsFiniteSet(C(m)) /\ Cardinality(C(m)) = Size(RowsOf(m))
  <2>1. IsFiniteSet(RowsOf(m)) /\ Cardinality(RowsOf(m)) \in Nat
    BY PageType, FS_CardinalityType DEF Finite
  <2>2. IsFiniteSet({m}) /\ Cardinality({m}) = 1
    BY FS_Singleton
  <2> QED
    BY <2>1, <2>2, FS_Product DEF Size
<1>3. ASSUME NEW k \in Nat
      PROVE  IsFiniteSet(Places(k))
  <2> DEFINE E == {C(m) : m \in D(k)}
  <2>1. IsFiniteSet(D(k))
    BY <1>1, FS_Subset
  <2>2. IsFiniteSet(E)
    <3> DEFINE g == [m \in D(k) |-> C(m)]
    <3>1. g \in Surjection(D(k), E)
      BY Zenon DEF Surjection
    <3> HIDE DEF D, E
    <3> QED
      BY <2>1, <3>1, FS_Surjection
  <2>3. \A S \in E : IsFiniteSet(S)
    BY <1>2
  <2>4. IsFiniteSet(UNION E)
    BY <2>2, <2>3, FS_UNION
  <2> QED
    BY <2>4 DEF Places
<1>4. ASSUME NEW k \in Nat, k < Len(list.pages)
      PROVE  Size(Places(k + 1)) = Size(Places(k)) + Size(RowsOf(k + 1))
  <2>1. D(k + 1) = D(k) \cup {k + 1} /\ k + 1 \in DOMAIN list.pages
    BY <1>1, <1>4
  <2>2. Places(k + 1) = Places(k) \cup C(k + 1)
    BY <2>1 DEF Places
  <2>3. Places(k) \cap C(k + 1) = {}
    <3>1. ASSUME NEW p \in Places(k), p \in C(k + 1)
          PROVE  FALSE
      <4>1. PICK m \in D(k) : p \in C(m)
        BY <3>1 DEF Places
      <4>2. p[1] = m /\ p[1] = k + 1 /\ m <= k
        BY <3>1, <4>1
      <4> QED
        BY <1>1, <4>1, <4>2
    <3> QED
      BY <3>1
  <2>4. IsFiniteSet(Places(k)) /\ IsFiniteSet(C(k + 1)) /\ Cardinality(C(k + 1)) = Size(RowsOf(k + 1))
    BY <1>2, <1>3, <2>1
  <2>5. Cardinality({}) = 0 /\ Cardinality(Places(k)) \in Nat /\ Cardinality(C(k + 1)) \in Nat
    BY <2>4, FS_CardinalityType, FS_EmptySet
  <2> HIDE DEF C
  <2> QED
    BY <2>2, <2>3, <2>4, <2>5, FS_Union DEF Size
<1>5. ASSUME NEW k \in Nat
      PROVE  Size(Places(k)) \in Nat
  BY <1>3, <1>5, SizeType
<1> QED
  BY <1>4, <1>5

LEMMA ListedFinite ==
  ASSUME list \in Lists
  PROVE  IsFiniteSet(Listed)
<1> DEFINE D == DOMAIN list.pages
           E == {RowsOf(n) : n \in D}
           g == [n \in D |-> RowsOf(n)]
<1>1. IsFiniteSet(D)
  BY ListType, FS_Interval
<1>2. g \in Surjection(D, E)
  BY Zenon DEF Surjection
<1>3. \A S \in E : IsFiniteSet(S)
  BY PageType DEF Finite
<1> HIDE DEF D, E, g
<1>4. IsFiniteSet(E)
  BY <1>1, <1>2, FS_Surjection
<1>5. IsFiniteSet(UNION E)
  BY <1>3, <1>4, FS_UNION
<1> QED
  BY <1>5 DEF Listed, D, E

\* What a page that is read changes of the place and of the counters.
LEMMA ReadsEffect ==
  ASSUME list \in Lists, NEW w \in Memory, w.at \in DOMAIN list.pages
  PROVE  LET r == Reads(w)
         IN  /\ r.at = w.at /\ r.pages = w.pages /\ r.rereading = w.rereading
             /\ r.met = w.met \cup RowsOf(w.at) /\ r.fresh = Fresh(w) /\ r.new = New(w)
             /\ r.seenBefore = w.seen
             /\ r.seen = IF Replaces(w) THEN Size(Fresh(w))
                         ELSE IF w.rereading THEN w.seen ELSE w.seen + Size(Fresh(w))
             /\ r.c.next = w.c.next /\ r.c.idx = w.c.idx /\ r.c.samples = Remembered(w.c.samples, list.pages[w.at], New(w))
<1>1. w \in Fields /\ w.c \in Cursor
  BY DEF Memory, Fields
<1> DEFINE c == [w.c EXCEPT !.unlinked = @ \cup (New(w) \ Linked),
                            !.samples = Remembered(@, list.pages[w.at], New(w))]
<1>2. c.next = w.c.next /\ c.idx = w.c.idx /\ c.samples = Remembered(w.c.samples, list.pages[w.at], New(w))
  BY <1>1 DEF Cursor
<1>3. Reads(w).c = c
  BY <1>1 DEF Reads, Fields
<1> HIDE DEF c
<1>4. /\ Reads(w).at = w.at /\ Reads(w).pages = w.pages /\ Reads(w).rereading = w.rereading
      /\ Reads(w).met = w.met \cup RowsOf(w.at) /\ Reads(w).fresh = Fresh(w) /\ Reads(w).new = New(w)
      /\ Reads(w).seenBefore = w.seen
  BY <1>1 DEF Reads, Fields
<1>5. Reads(w).seen = IF Replaces(w) THEN Size(Fresh(w))
                      ELSE IF w.rereading THEN w.seen ELSE w.seen + Size(Fresh(w))
  BY <1>1 DEF Reads, Fields
<1> QED
  BY <1>2, <1>3, <1>4, <1>5

LEMMA OpenPageLap ==
  ASSUME Typed, LapInv, NEW t \in Tick, pc[t] # "idle", NEW w \in Memory, w.at \in DOMAIN list.pages, OpenPage(t, w),
         row.status = "in_progress", w.at = From,
         w.c.next = row.cursor.next, w.c.idx = row.cursor.idx, w.c.samples = row.cursor.samples,
         w.pages = row.pages, w.met \subseteq Passed(w.at),
         w.pages <= Len(list.pages) => w.seen <= Size(Places(w.pages)),
         w.rereading => w.pages >= Len(list.pages)
  PROVE  LapInv'
<1> DEFINE r == Reads(w)
<1>1. list \in Lists /\ row \in Ledger /\ row.cursor \in Cursor /\ Len(list.pages) \in Nat
      /\ DOMAIN list.pages = 1..Len(list.pages) /\ row.pages \in Nat
  BY ListType DEF Typed, ValueInv, Ledger
<1>2. /\ mem'[t] = r /\ UNCHANGED <<list, held, fails>> /\ pc' = [pc EXCEPT ![t] = "page"]
      /\ row' = IF New(w) = {} THEN row ELSE [row EXCEPT !.cursor = r.c]
  BY DEF OpenPage, Goes, Typed, ValueInv
<1>3. /\ r.at = w.at /\ r.pages = w.pages /\ r.rereading = w.rereading
      /\ r.met = w.met \cup RowsOf(w.at) /\ r.fresh = Fresh(w) /\ r.new = New(w)
      /\ r.seenBefore = w.seen
      /\ r.seen = IF Replaces(w) THEN Size(Fresh(w))
                  ELSE IF w.rereading THEN w.seen ELSE w.seen + Size(Fresh(w))
      /\ r.c.next = w.c.next /\ r.c.idx = w.c.idx
      /\ r.c.samples = Remembered(w.c.samples, list.pages[w.at], New(w))
  BY <1>1, ReadsEffect
<1> HIDE DEF r
<1>4. /\ row'.status = row.status /\ row'.pages = row.pages /\ row'.seen = row.seen
      /\ row'.cursor.next = row.cursor.next /\ row'.cursor.idx = row.cursor.idx
      /\ row'.cursor.samples = Remembered(row.cursor.samples, list.pages[w.at], New(w))
  <2>1. row \in Ledger /\ r.c.samples = Remembered(row.cursor.samples, list.pages[w.at], New(w))
    BY <1>1, <1>3
  <2>2. CASE New(w) = {}
    BY <1>2, <2>2, RememberedKeeps
  <2>3. CASE New(w) # {}
    BY <1>2, <1>3, <2>1, <2>3 DEF Ledger
  <2> QED
    BY <2>2, <2>3
<1>5. From' = From /\ \A k \in Nat : Passed(k)' = Passed(k) /\ Places(k)' = Places(k)
  BY <1>2, <1>4 DEF From, Passed, Places, RowsOf
<1>6. \A u \in Tick : pc'[u] \in {"begin", "page", "turn"} => u = t /\ pc'[u] = "page"
  BY <1>2, Alone DEF Typed, LockInv
<1>7. From \in Nat /\ From \in DOMAIN list.pages
  BY <1>1
<1>8. SameInv'
  <2>1. Passed(From + 1) = Passed(From) \cup RowsOf(From)
    BY <1>1, <1>7, PassedPages
  <2>2. Fresh(w) = RowsOf(From) \ (w.met \cap Keyed) /\ New(w) = Fresh(w) \ (held \cap Matched)
    BY DEF Fresh, New
  <2>3. RowsOf(From)' = RowsOf(From) /\ Passed(From)' = Passed(From) /\ Passed(mem[t].at + 1)' = Passed(From + 1)
        /\ Passed(mem[t].at)' = Passed(From) /\ RowsOf(mem[t].at)' = RowsOf(From)
    BY <1>2, <1>3, <1>4, <1>5 DEF RowsOf, Passed, From
  <2>4. SamePlace(t)'
    BY <1>2, <1>3, <1>4, <2>1, <2>3 DEF SamePlace
  <2>5. OnPage(t)'
    BY <1>2, <1>3, <1>5, <2>2, <2>3, <2>4 DEF OnPage
  <2> QED
    BY <1>4, <1>6, <2>5 DEF SameInv, LapInv
<1>9. NamedInv'
  <2> SUFFICES ASSUME Nameable'
               PROVE  (/\ row.cursor.samples \subseteq Listed \X {1}
                       /\ Passed(From) \ held \subseteq Named(row.cursor.samples)
                       /\ NamedFirst /\ NamedAtRest)'
    BY DEF NamedInv
  <2> DEFINE page == list.pages[w.at]
             S == Remembered(row.cursor.samples, page, New(w))
  <2>1. Nameable /\ Listed' = Listed
    BY <1>2 DEF Nameable, Listed, RowsOf, Size
  <2>2. page \in Seq(Row) /\ IsInjective(page) /\ New(w) \subseteq Range(page) /\ Range(page) \subseteq Listed
    BY <1>1, ListType DEF New, Fresh, RowsOf, Listed
  <2>3. S \subseteq Listed \X {1} /\ New(w) \subseteq Named(S)
    <3>1. IsFiniteSet(Listed)
      BY <1>1, ListedFinite
    <3>2. Listed \subseteq Linked /\ Size(Listed) < Limit /\ row.cursor.samples \subseteq Listed \X {1}
      BY <2>1 DEF Nameable, LapInv, NamedInv
    <3> HIDE DEF page, S
    <3> QED
      BY <2>2, <3>1, <3>2, RememberedRoom DEF S
  <2>4. Named(row.cursor.samples) \subseteq Named(S)
    BY RememberedKeeps
  <2> HIDE DEF page, S
  <2>5. row'.cursor.samples = S
    BY <1>4 DEF S, page
  <2>6. (Passed(From) \ held \subseteq Named(row.cursor.samples))'
    <3>1. Passed(From)' = Passed(From)
      BY <1>2, <1>5 DEF Passed, RowsOf, From
    <3>2. Passed(From) \ held \subseteq Named(row.cursor.samples)
      BY <2>1 DEF LapInv, NamedInv
    <3> QED
      BY <1>2, <2>4, <2>5, <3>1, <3>2 DEF Named
  <2>7. NamedFirst'
    BY <1>2, <1>3, <1>6, <2>3, <2>5 DEF NamedFirst, Named
  <2>8. NamedAtRest'
    BY <1>4 DEF NamedAtRest
  <2> QED
    BY <2>1, <2>3, <2>5, <2>6, <2>7, <2>8
<1>10. HeldInv'
  <2>1. Served' = Served /\ Passed(From)' = Passed(From) /\ From' = From
    BY <1>2, <1>5 DEF Served, Passed, From, RowsOf, Listed
  <2>2. row'.cursor.idx = row.cursor.idx /\ row'.status = row.status
    BY <1>4
  <2> QED
    BY <1>2, <2>1, <2>2 DEF HeldInv, LapInv
<1>11. CountInv'
  <2>1. w.rereading \in BOOLEAN /\ w.seen \in Nat /\ Size(Fresh(w)) \in Nat /\ Size(Fresh(w)) <= Size(RowsOf(From))
        /\ Size(RowsOf(From)) \in Nat
    <3>1. IsFiniteSet(RowsOf(From)) /\ Fresh(w) \subseteq RowsOf(From)
      BY <1>1, <1>7, PageType DEF Finite, Fresh
    <3> QED
      BY <3>1, SizeMonotone, SizeType DEF Memory, Fields
  <2>2. \A k \in Nat : Size(Places(k)) \in Nat
    BY <1>1, PlacesCount
  <2>3. row.pages < Len(list.pages) => /\ From = row.pages + 1
                                       /\ Size(Places(row.pages + 1)) = Size(Places(row.pages)) + Size(RowsOf(From))
    BY <1>1, PlacesCount DEF LapInv, CountInv
  <2>4. ASSUME ~w.rereading, row.pages < Len(list.pages)
        PROVE  r.seen <= Size(Places(row.pages + 1))
    <3>1. ~Replaces(w)
      BY <2>4 DEF Replaces, Confirms
    <3>2. r.seen = w.seen + Size(Fresh(w))
      BY <1>3, <2>4, <3>1
    <3>3. w.seen <= Size(Places(row.pages)) /\ Size(Places(row.pages)) \in Nat
      <4>1. w.pages <= Len(list.pages)
        BY <1>1, <2>4
      <4>2. w.seen <= Size(Places(w.pages))
        BY <4>1
      <4> QED
        BY <1>1, <2>2, <4>2
    <3>4. Size(Places(row.pages + 1)) = Size(Places(row.pages)) + Size(RowsOf(From))
      BY <2>3, <2>4
    <3> QED
      BY <2>1, <3>2, <3>3, <3>4
  <2>5. ASSUME w.rereading, row.pages <= Len(list.pages)
        PROVE  r.seen <= Size(Places(row.pages))
    <3>1. CASE Replaces(w)
      <4>1. row.pages = 1 /\ Len(list.pages) = 1 /\ From = 1
        <5>1. row.pages <= 1 /\ row.pages >= Len(list.pages)
          <6>1. w.pages <= 1 /\ w.pages >= Len(list.pages)
            BY <2>5, <3>1 DEF Replaces, Confirms
          <6> QED
            BY <6>1
        <5>2. From >= 1 /\ From <= Len(list.pages)
          BY <1>1, <1>7
        <5>3. \A p, l, f \in Nat : p <= 1 /\ p >= l /\ f >= 1 /\ f <= l => p = 1 /\ l = 1 /\ f = 1
          OBVIOUS
        <5> QED
          BY <1>1, <1>7, <5>1, <5>2, <5>3, Zenon
      <4>2. Size(Places(1)) = Size(Places(0)) + Size(RowsOf(1))
        <5>1. 0 \in Nat /\ 0 < Len(list.pages) /\ 0 + 1 = 1
          BY <4>1
        <5> QED
          BY <1>1, <5>1, PlacesCount
      <4> QED
        BY <1>3, <2>1, <2>2, <3>1, <4>1, <4>2
    <3>2. CASE ~Replaces(w)
      BY <1>3, <2>5, <3>2
    <3> QED
      BY <3>1, <3>2
  <2>6. CountedOnce' /\ (row.pages < Len(list.pages) => From = row.pages + 1)'
    <3>1. Size(Places(row.pages))' = Size(Places(row.pages))
      BY <1>2, <1>4 DEF Size, Places, RowsOf
    <3> QED
      BY <1>2, <1>4, <1>5, <3>1 DEF CountedOnce, LapInv, CountInv
  <2>7. /\ Size(Places(mem[t].pages))' = Size(Places(row.pages))
        /\ Size(Places(mem[t].pages + 1))' = Size(Places(row.pages + 1))
    BY <1>2, <1>3 DEF Size, Places, RowsOf
  <2> QED
    BY <1>1, <1>2, <1>3, <1>6, <2>4, <2>5, <2>6, <2>7 DEF CountInv
<1> QED
  BY <1>8, <1>9, <1>10, <1>11 DEF LapInv

\* Where nobody reads, the invariant speaks of the ledger row alone.
LEMMA RestsLap ==
  ASSUME Typed, LapInv, UNCHANGED <<list, held, fails>>,
         row'.pages = row.pages, row'.cursor.next = row.cursor.next,
         row'.cursor.idx = row.cursor.idx, row'.cursor.samples = row.cursor.samples,
         row'.status # "done" \/ row'.status = row.status,
         row.pages <= Len(list.pages) => row'.seen <= Size(Places(row.pages)),
         \A u \in Tick : pc'[u] \notin {"page", "turn"} /\ (pc'[u] = "begin" => row'.status = "in_progress")
  PROVE  LapInv'
<1>1. From' = From
  BY DEF From
<1>2. SameInv'
  BY DEF SameInv, LapInv
<1>3. NamedInv'
  <2>1. Passed(From)' = Passed(From)
    BY <1>1 DEF Passed, RowsOf, From
  <2> QED
    BY <2>1 DEF NamedInv, LapInv, NamedAtRest, NamedFirst, Nameable, Named, Size, Listed, RowsOf
<1>4. HeldInv'
  <2>1. Passed(From)' = Passed(From) /\ Served' = Served
    BY <1>1 DEF Passed, RowsOf, From, Served, Listed
  <2> QED
    BY <1>1, <2>1 DEF HeldInv, LapInv
<1>5. CountInv'
  <2>1. Size(Places(row.pages))' = Size(Places(row.pages))
    BY DEF Size, Places, RowsOf
  <2> QED
    BY <1>1, <2>1 DEF CountInv, LapInv, CountedOnce
<1> QED
  BY <1>2, <1>3, <1>4, <1>5 DEF LapInv

LEMMA SameLap ==
  ASSUME LapInv, UNCHANGED <<list, held, row, pc, mem, fails>>
  PROVE  LapInv'
<1>1. From' = From /\ Passed(From)' = Passed(From) /\ Listed' = Listed /\ Served' = Served
  BY DEF From, Passed, RowsOf, Served, Listed
<1>2. SameInv'
  BY <1>1 DEF LapInv, SameInv, OnPage, AtTurn, SamePlace, Passed, RowsOf
<1>3. NamedInv' /\ HeldInv'
  BY <1>1 DEF LapInv, NamedInv, HeldInv, NamedAtRest, NamedFirst, Nameable, Named, Size
<1>4. CountInv'
  <2>1. /\ Size(Places(row.pages))' = Size(Places(row.pages))
        /\ \A t \in Tick : /\ Size(Places(mem[t].pages))' = Size(Places(mem[t].pages))
                           /\ Size(Places(mem[t].pages + 1))' = Size(Places(mem[t].pages + 1))
    BY DEF Size, Places, RowsOf
  <2> QED
    BY <1>1, <2>1 DEF LapInv, CountInv, CountedOnce
<1> QED
  BY <1>2, <1>3, <1>4 DEF LapInv

\* A row that is not to be opened, and that the site serves, is held unless a fetch has failed.
LEMMA NotToDoIsHeld ==
  ASSUME Typed, LapInv, NEW t \in Tick, pc[t] = "page", fails = 0,
         NEW i \in DOMAIN list.pages[mem[t].at], i \notin Todo(mem[t]),
         list.pages[mem[t].at][i] \in Served
  PROVE  list.pages[mem[t].at][i] \in held
<1> DEFINE b == list.pages[mem[t].at][i]
<1>1. /\ mem[t].at = From /\ mem[t].c.idx = row.cursor.idx
      /\ RowsOf(mem[t].at) \subseteq Passed(mem[t].at) \cup mem[t].fresh /\ mem[t].fresh \ mem[t].new \subseteq held
  BY DEF LapInv, SameInv, OnPage, SamePlace
<1>2. b \in RowsOf(mem[t].at) /\ b \in Linked
  BY DEF RowsOf, Range, Served
<1>3. CASE i <= mem[t].c.idx
  BY <1>1, <1>3 DEF LapInv, HeldInv
<1>4. CASE ~(i <= mem[t].c.idx)
  <2>1. i \in Nat /\ mem[t].c.idx \in Nat
    BY PageType DEF Typed, ValueInv, PlaceInv, Memory, Fields, Cursor
  <2>2. b \notin mem[t].new
    BY <1>2, <1>4, <2>1 DEF Todo
  <2>3. CASE b \in Passed(mem[t].at)
    BY <1>1, <2>3 DEF LapInv, HeldInv
  <2>4. CASE b \in mem[t].fresh
    BY <1>1, <2>2, <2>4
  <2> QED
    BY <1>1, <1>2, <2>3, <2>4
<1> QED
  BY <1>3, <1>4

\* What a page and those before it leave without a body is named.
LEMMA PageIsNamed ==
  ASSUME Typed, LapInv, Nameable, NEW t \in Tick, pc[t] = "page"
  PROVE  Passed(mem[t].at + 1) \ held \subseteq Named(row.cursor.samples)
<1>1. /\ mem[t].at = From
      /\ RowsOf(mem[t].at) \subseteq Passed(mem[t].at) \cup mem[t].fresh /\ mem[t].fresh \ mem[t].new \subseteq held
  BY DEF LapInv, SameInv, OnPage
<1>2. Passed(mem[t].at + 1) = Passed(mem[t].at) \cup RowsOf(mem[t].at)
  BY PassedPages DEF Typed, ValueInv, PlaceInv
<1>3. mem[t].new \ held \subseteq Named(row.cursor.samples)
  BY DEF LapInv, NamedInv, NamedFirst
<1> QED
  BY <1>1, <1>2, <1>3 DEF LapInv, NamedInv

LEMMA PageIsHeld ==
  ASSUME Typed, LapInv, NEW t \in Tick, pc[t] = "page", fails = 0, Todo(mem[t]) = {}
  PROVE  Served \cap Passed(mem[t].at + 1) \subseteq held
<1>1. mem[t].at = From
  BY DEF LapInv, SameInv, OnPage
<1>2. Passed(mem[t].at + 1) = Passed(mem[t].at) \cup RowsOf(mem[t].at)
  BY PassedPages DEF Typed, ValueInv, PlaceInv
<1>3. ASSUME NEW b \in RowsOf(mem[t].at), b \in Served
      PROVE  b \in held
  <2>1. PICK i \in DOMAIN list.pages[mem[t].at] : b = list.pages[mem[t].at][i]
    BY <1>3 DEF RowsOf, Range
  <2> QED
    BY <1>3, <2>1, NotToDoIsHeld
<1> QED
  BY <1>1, <1>2, <1>3 DEF LapInv, HeldInv

LEMMA ResolveEffect ==
  ASSUME Typed, NEW t \in Tick, NEW samples, NEW n, NEW k, Resolve(t, samples, k, n)
  PROVE  /\ LET m == mem[t] IN LET q == mem'[t] IN
              /\ q.at = m.at /\ q.pages = m.pages /\ q.seen = m.seen /\ q.seenBefore = m.seenBefore
              /\ q.rereading = m.rereading /\ q.met = m.met /\ q.fresh = m.fresh /\ q.new = m.new
              /\ q.c.next = m.c.next /\ q.c.idx = n /\ q.c.samples = samples
         /\ \A u \in Tick : u # t => mem'[u] = mem[u]
         /\ row'.status = row.status /\ row'.pages = row.pages /\ row'.seen = row.seen
         /\ row'.cursor.next = mem[t].c.next /\ row'.cursor.idx = n /\ row'.cursor.samples = samples
         /\ UNCHANGED <<list, pc>>
<1> DEFINE m == mem[t]
           c == [m.c EXCEPT !.idx = n, !.samples = samples]
           k1 == m.resolved + k
           q == [m EXCEPT !.c = c, !.resolved = k1]
<1>1. m \in Fields /\ m.c \in Cursor /\ mem \in [Tick -> Memory] /\ row \in Ledger
  BY DEF Typed, ValueInv, Memory, Fields
<1>2. mem' = [mem EXCEPT ![t] = q]
  BY <1>1 DEF Resolve, Fields
<1>3. row' = [row EXCEPT !.cursor = c] /\ UNCHANGED <<list, pc>>
  BY DEF Resolve
<1>4. c.next = m.c.next /\ c.idx = n /\ c.samples = samples
  BY <1>1 DEF Cursor
<1> HIDE DEF c, k1
<1>5. /\ q.at = m.at /\ q.pages = m.pages /\ q.seen = m.seen /\ q.seenBefore = m.seenBefore
      /\ q.rereading = m.rereading /\ q.met = m.met /\ q.fresh = m.fresh /\ q.new = m.new /\ q.c = c
  BY <1>1 DEF Fields
<1> HIDE DEF q
<1>6. mem'[t] = q /\ \A u \in Tick : u # t => mem'[u] = mem[u]
  BY <1>1, <1>2
<1>7. row'.status = row.status /\ row'.pages = row.pages /\ row'.seen = row.seen /\ row'.cursor = c
  BY <1>1, <1>3 DEF Ledger
<1> HIDE DEF m
<1>8. /\ mem'[t].at = m.at /\ mem'[t].pages = m.pages /\ mem'[t].seen = m.seen /\ mem'[t].seenBefore = m.seenBefore
      /\ mem'[t].rereading = m.rereading /\ mem'[t].met = m.met /\ mem'[t].fresh = m.fresh /\ mem'[t].new = m.new
      /\ mem'[t].c.next = m.c.next /\ mem'[t].c.idx = n /\ mem'[t].c.samples = samples
  BY <1>4, <1>5, <1>6
<1> QED
  BY <1>3, <1>4, <1>6, <1>7, <1>8 DEF m

LEMMA FetchLap ==
  ASSUME Typed, LapInv, NEW t \in Tick, Fetch(t) \/ FetchError(t)
  PROVE  LapInv'
<1> DEFINE m == mem[t]
           n == First(m)
           b == Body(m)
           S == IF Fetch(t) /\ b \notin Blank THEN Dropped(m.c.samples, b) ELSE Again(t)
<1>1. pc[t] = "page" /\ Todo(m) # {} /\ \E k \in {0, 1} : Resolve(t, S, k, n)
  BY DEF Fetch, FetchError
<1>2. held \subseteq held' /\ (Fetch(t) /\ b \notin Blank => b \in held')
  BY DEF Fetch, FetchError
<1>3. fails' = 0 => fails = 0 /\ (b \in Served => b \in held')
  <2>1. list.fails \in Nat /\ fails \in Nat
    BY ListAssumption DEF Typed, ValueInv
  <2> QED
    BY <2>1 DEF Fetch, FetchError, Served
<1> HIDE DEF S, b, n
<1>4. /\ mem'[t].at = m.at /\ mem'[t].pages = m.pages /\ mem'[t].seen = m.seen /\ mem'[t].seenBefore = m.seenBefore
      /\ mem'[t].rereading = m.rereading /\ mem'[t].met = m.met /\ mem'[t].fresh = m.fresh /\ mem'[t].new = m.new
      /\ mem'[t].c.next = m.c.next /\ mem'[t].c.idx = n /\ mem'[t].c.samples = S
      /\ row'.status = row.status /\ row'.pages = row.pages /\ row'.seen = row.seen
      /\ row'.cursor.next = m.c.next /\ row'.cursor.idx = n /\ row'.cursor.samples = S
      /\ UNCHANGED <<list, pc>>
  BY <1>1, ResolveEffect
<1> HIDE DEF m
<1>5. OnPage(t) /\ SamePlace(t) /\ row.status = "in_progress" /\ m.at = From
  BY <1>1 DEF LapInv, SameInv, OnPage, m
<1>6. \A u \in Tick : pc'[u] \in {"begin", "page", "turn"} => u = t /\ pc'[u] = "page"
  BY <1>1, <1>4, Alone DEF Typed, LockInv
<1>7. /\ From' = From /\ Passed(From)' = Passed(From) /\ Served' = Served
      /\ \A k \in Nat : Passed(k)' = Passed(k) /\ RowsOf(k)' = RowsOf(k)
  <2>1. From' = From
    BY <1>4, <1>5 DEF From, SamePlace, m
  <2> QED
    BY <1>4, <2>1 DEF Passed, RowsOf, From, Served, Listed
<1>8. SameInv'
  <2>1. m.at \in Nat
    BY DEF Typed, ValueInv, Memory, Fields, m
  <2>2. /\ Passed(mem[t].at + 1)' = Passed(m.at + 1) /\ Passed(mem[t].at)' = Passed(m.at)
        /\ RowsOf(mem[t].at)' = RowsOf(m.at)
    BY <1>4 DEF Passed, RowsOf
  <2>3. SamePlace(t)'
    BY <1>4, <1>5, <2>2 DEF SamePlace, m
  <2>4. OnPage(t)'
    BY <1>2, <1>4, <1>5, <1>7, <2>2, <2>3 DEF OnPage, m
  <2>5. (row.cursor.next > 0 => row.pages > 0)'
    BY <1>4, <1>5 DEF LapInv, SameInv, SamePlace, m
  <2> QED
    BY <1>4, <1>5, <1>6, <2>4, <2>5 DEF SameInv
<1>9. NamedInv'
  <2> SUFFICES ASSUME Nameable'
               PROVE  (/\ row.cursor.samples \subseteq Listed \X {1}
                       /\ Passed(From) \ held \subseteq Named(row.cursor.samples)
                       /\ NamedFirst /\ NamedAtRest)'
    BY DEF NamedInv
  <2>1. Nameable /\ Listed' = Listed /\ m.c.samples = row.cursor.samples
    BY <1>4, <1>5 DEF Nameable, Listed, RowsOf, Size, SamePlace, m
  <2>2. /\ m.c.samples \subseteq Listed \X {1} /\ Passed(From) \ held \subseteq Named(m.c.samples)
        /\ m.new \ held \subseteq Named(m.c.samples)
    BY <1>1, <2>1 DEF LapInv, NamedInv, NamedFirst, m
  <2>3. S \subseteq Listed \X {1} /\ Named(m.c.samples) \ held' \subseteq Named(S)
    <3>1. CASE Fetch(t) /\ b \notin Blank
      <4>1. S = Dropped(m.c.samples, b) /\ b \in held'
        BY <1>2, <3>1 DEF S
      <4> QED
        BY <2>2, <4>1 DEF Dropped, EntriesOf, Named
    <3>2. CASE ~(Fetch(t) /\ b \notin Blank)
      <4> DEFINE page == list.pages[m.at]
      <4>1. S = Remembered(m.c.samples, page, {b})
        BY <3>2 DEF S, Again, b, m
      <4>2. list \in Lists /\ m.at \in DOMAIN list.pages
        BY DEF Typed, ValueInv, PlaceInv, m
      <4>3. page \in Seq(Row) /\ IsInjective(page) /\ IsFiniteSet(Listed)
        BY <4>2, ListType, ListedFinite
      <4>4. {b} \subseteq Range(page) /\ {b} \subseteq Listed
        <5>1. First(m) \in DOMAIN page /\ b = page[First(m)]
          BY <1>1, FirstIsToDo DEF Todo, m, b
        <5> QED
          BY <4>2, <5>1 DEF Range, Listed, RowsOf
      <4>5. Listed \subseteq Linked /\ Size(Listed) < Limit
        BY <2>1 DEF Nameable
      <4> HIDE DEF page
      <4>6. S \subseteq Listed \X {1}
        BY <2>2, <4>1, <4>3, <4>4, <4>5, RememberedRoom
      <4> QED
        BY <4>1, <4>6, RememberedKeeps
    <3> QED
      BY <3>1, <3>2
  <2>4. (Passed(From) \ held \subseteq Named(row.cursor.samples))'
    <3>1. Passed(From)' = Passed(From) /\ row'.cursor.samples = S
      BY <1>4, <1>7
    <3>2. Named(row.cursor.samples)' = Named(S)
      BY <3>1 DEF Named
    <3> QED
      BY <1>2, <2>2, <2>3, <3>1, <3>2
  <2>5. NamedFirst'
    <3>1. Named(row.cursor.samples)' = Named(S)
      BY <1>4 DEF Named
    <3> QED
      BY <1>2, <1>4, <1>6, <2>2, <2>3, <3>1 DEF NamedFirst
  <2>6. NamedAtRest'
    BY <1>4, <1>5 DEF NamedAtRest
  <2> QED
    BY <1>4, <2>1, <2>3, <2>4, <2>5, <2>6
<1>10. HeldInv'
  <2> SUFFICES ASSUME fails' = 0
               PROVE  /\ (Served \cap Passed(From) \subseteq held)'
                      /\ (\A i \in DOMAIN list.pages[From] :
                            i <= row.cursor.idx /\ list.pages[From][i] \in Served => list.pages[From][i] \in held)'
                      /\ (row.status = "done" => Served \subseteq held)'
    BY DEF HeldInv
  <2>1. Served \cap Passed(From) \subseteq held
    BY <1>3 DEF LapInv, HeldInv
  <2>2. ASSUME NEW i \in DOMAIN list.pages[m.at], i <= n, list.pages[m.at][i] \in Served
        PROVE  list.pages[m.at][i] \in held'
    <3>1. /\ n \in Todo(m) /\ n \in Nat /\ b = list.pages[m.at][n] /\ \A j \in Todo(m) : n <= j
      BY <1>1, FirstIsToDo DEF m, n, b
    <3>2. i \in Nat
      BY PageType DEF Typed, ValueInv, PlaceInv, m
    <3>3. CASE i = n
      BY <1>3, <2>2, <3>1, <3>3
    <3>4. CASE i # n
      <4>1. i \notin Todo(m)
        BY <2>2, <3>1, <3>2, <3>4
      <4>2. fails = 0 /\ pc[t] = "page"
        BY <1>1, <1>3
      <4> QED
        BY <1>2, <2>2, <4>1, <4>2, NotToDoIsHeld DEF m
    <3> QED
      BY <3>3, <3>4
  <2> QED
    BY <1>2, <1>4, <1>5, <1>7, <2>1, <2>2
<1>11. CountInv'
  <2>1. /\ Size(Places(row.pages))' = Size(Places(row.pages))
        /\ Size(Places(mem[t].pages))' = Size(Places(m.pages))
        /\ Size(Places(mem[t].pages + 1))' = Size(Places(m.pages + 1))
    BY <1>4 DEF Size, Places, RowsOf
  <2> QED
    BY <1>1, <1>4, <1>6, <1>7, <2>1 DEF LapInv, CountInv, CountedOnce, m
<1> QED
  BY <1>8, <1>9, <1>10, <1>11 DEF LapInv

\* A page that has ended, and the counters that are committed for it.
LEMMA EndedEffect ==
  ASSUME row \in Ledger, NEW w \in Memory
  PROVE  LET e == Ended(w)
         IN  /\ e.at = w.at /\ e.seen = w.seen /\ e.met = w.met /\ ~e.rereading
             /\ e.pages = IF w.rereading THEN w.pages ELSE w.pages + 1
             /\ e.c.next = w.c.next /\ e.c.idx = 0 /\ e.c.samples = w.c.samples
             /\ Counted(e).status = row.status /\ Counted(e).pages = e.pages /\ Counted(e).seen = e.seen
             /\ Counted(e).cursor = e.c
<1> DEFINE c == [w.c EXCEPT !.idx = 0]
           e == Ended(w)
<1>1. w \in Fields /\ w.c \in Cursor
  BY DEF Memory, Fields
<1>2. c.next = w.c.next /\ c.idx = 0 /\ c.samples = w.c.samples
  BY <1>1 DEF Cursor
<1>3. e.c = c
  BY <1>1 DEF Ended, Fields
<1>4. /\ e.at = w.at /\ e.seen = w.seen /\ e.met = w.met /\ ~e.rereading
      /\ e.pages = IF w.rereading THEN w.pages ELSE w.pages + 1
  BY <1>1 DEF Ended, Fields
<1> HIDE DEF c, e
<1>5. /\ Counted(e).status = row.status /\ Counted(e).pages = e.pages /\ Counted(e).seen = e.seen
      /\ Counted(e).cursor = e.c
  BY DEF Counted, Ledger
<1> QED
  BY <1>2, <1>3, <1>4, <1>5 DEF e

\* The counters of a page that has ended: the page is the next to be counted, or was counted.
LEMMA EndedCounts ==
  ASSUME Typed, LapInv, NEW t \in Tick, pc[t] = "page"
  PROVE  LET e == Ended(mem[t])
         IN  /\ e.pages \in Nat \ {0}
             /\ e.pages < Len(list.pages) => e.pages = e.at
             /\ e.pages <= Len(list.pages) => e.seen <= Size(Places(e.pages))
             /\ e.at = Len(list.pages) => e.pages >= Len(list.pages)
<1> DEFINE m == mem[t]
<1>1. m \in Memory /\ row \in Ledger /\ m.pages \in Nat /\ m.rereading \in BOOLEAN /\ list \in Lists
  BY DEF Typed, ValueInv, Memory, Fields
<1>2. Len(list.pages) \in Nat /\ Len(list.pages) >= 1
  BY <1>1, ListType
<1>3. m.at = From /\ m.pages = row.pages
  BY DEF LapInv, SameInv, OnPage, SamePlace
<1>4. /\ Ended(m).at = m.at /\ Ended(m).seen = m.seen
      /\ Ended(m).pages = IF m.rereading THEN m.pages ELSE m.pages + 1
  BY <1>1, EndedEffect
<1>5. /\ m.pages < Len(list.pages) => m.at = m.pages + 1
      /\ ~m.rereading /\ m.pages < Len(list.pages) => m.seen <= Size(Places(m.pages + 1))
      /\ m.rereading => m.pages >= Len(list.pages)
      /\ m.rereading /\ m.pages <= Len(list.pages) => m.seen <= Size(Places(m.pages))
  BY <1>3 DEF LapInv, CountInv
<1> HIDE DEF m
<1>6. CASE m.rereading
  BY <1>1, <1>2, <1>4, <1>5, <1>6 DEF m
<1>7. CASE ~m.rereading
  <2>1. Ended(m).pages = m.pages + 1
    BY <1>4, <1>7
  <2> QED
    BY <1>1, <1>2, <1>4, <1>5, <1>7, <2>1 DEF m
<1> QED
  BY <1>6, <1>7

LEMMA TurnPageLap ==
  ASSUME Typed, LapInv, NEW t \in Tick, TurnPage(t)
  PROVE  LapInv'
<1> DEFINE w == mem[t]
           e == Ended(w)
           c == Turned(w)
           q == Counted(e)
           err == IF w.repeats >= 2 THEN "other" ELSE q.err
           m == [e EXCEPT !.c = c]
<1>1. /\ w \in Memory /\ e \in Memory /\ q \in Ledger /\ row \in Ledger /\ e.at \in Nat
      /\ list \in Lists /\ w.at \in DOMAIN list.pages
  <2>1. w \in Memory /\ row \in Ledger /\ list \in Lists /\ w.at \in DOMAIN list.pages
    BY DEF Typed, ValueInv, PlaceInv
  <2>2. e \in Memory /\ q \in Ledger
    BY <2>1, EndedType, CountedType
  <2> HIDE DEF e, q
  <2> QED
    BY <2>1, <2>2 DEF Memory, Fields
<1>2. /\ e.at = w.at /\ e.seen = w.seen /\ e.met = w.met /\ ~e.rereading
      /\ e.c.samples = w.c.samples
      /\ q.status = row.status /\ q.pages = e.pages /\ q.seen = e.seen
  BY <1>1, EndedEffect
<1>3. c.next = w.at + 1 /\ c.idx = 0 /\ c.samples = w.c.samples
  <2>1. c = At(w.c, w.c.page + 1, w.at + 1)
    BY DEF Turned
  <2> HIDE DEF c
  <2> QED
    BY <2>1 DEF At, Start
<1>4. /\ pc[t] = "page" /\ Todo(w) = {} /\ w.at < Len(list.pages)
      /\ mem' = [mem EXCEPT ![t] = m] /\ row' = [q EXCEPT !.cursor = c, !.err = err]
      /\ UNCHANGED <<list, held, cool, fails>>
      /\ pc' = [pc EXCEPT ![t] = "turn"] \/ pc' = [pc EXCEPT ![t] = "leave"]
  BY <1>1 DEF TurnPage, Goes, HasNext, Ledger
<1>5. /\ e.pages \in Nat \ {0}
      /\ e.pages < Len(list.pages) => e.pages = e.at
      /\ e.pages <= Len(list.pages) => e.seen <= Size(Places(e.pages))
  BY <1>4, EndedCounts
<1> HIDE DEF c, q, e, err
<1>6. m.at = e.at /\ m.pages = e.pages /\ m.seen = e.seen /\ m.met = e.met /\ m.rereading = e.rereading /\ m.c = c
  BY <1>1 DEF Memory, Fields
<1> HIDE DEF m
<1>7. row'.status = row.status /\ row'.pages = e.pages /\ row'.seen = e.seen /\ row'.cursor = c
  BY <1>1, <1>2, <1>4 DEF Ledger
<1>8. mem'[t] = m
  BY <1>4 DEF Typed, ValueInv
<1>9. OnPage(t) /\ SamePlace(t) /\ row.status = "in_progress" /\ w.at = From /\ w.c.samples = row.cursor.samples
  BY <1>4 DEF LapInv, SameInv, OnPage, SamePlace
<1>10. \A u \in Tick : pc'[u] \in {"begin", "page", "turn"} => u = t /\ pc'[u] = "turn"
  BY <1>4, Alone DEF Typed, LockInv
<1>11. w.at \in Nat /\ w.at >= 1 /\ Len(list.pages) \in Nat /\ w.at + 1 \in DOMAIN list.pages
  BY <1>1, <1>4, ListType
<1> HIDE DEF w
<1>12. From' = w.at + 1
  BY <1>3, <1>7, <1>11 DEF From
<1>13. /\ Passed(From)' = Passed(w.at + 1) /\ Served' = Served /\ Listed' = Listed
       /\ Passed(mem[t].at + 1)' = Passed(w.at + 1)
  BY <1>2, <1>4, <1>6, <1>8, <1>12 DEF Passed, RowsOf, Served, Listed
<1>14. SameInv'
  <2>1. SamePlace(t)'
    BY <1>2, <1>3, <1>6, <1>7, <1>8, <1>9, <1>13 DEF SamePlace, w
  <2>2. AtTurn(t)'
    BY <1>2, <1>3, <1>6, <1>7, <1>8, <1>12, <2>1 DEF AtTurn
  <2> QED
    BY <1>5, <1>7, <1>9, <1>10, <2>2 DEF SameInv
<1>15. NamedInv'
  <2>1. Nameable => Passed(w.at + 1) \ held \subseteq Named(row.cursor.samples)
    BY <1>4, PageIsNamed DEF w
  <2>2. Nameable' = Nameable /\ row'.cursor.samples = row.cursor.samples
    BY <1>3, <1>4, <1>7, <1>9, <1>13 DEF Nameable, Size
  <2>3. Named(row.cursor.samples)' = Named(row.cursor.samples)
    BY <2>2 DEF Named
  <2>4. NamedFirst' /\ NamedAtRest'
    BY <1>7, <1>9, <1>10 DEF NamedFirst, NamedAtRest
  <2> QED
    BY <1>4, <1>13, <2>1, <2>2, <2>3, <2>4 DEF NamedInv, LapInv
<1>16. HeldInv'
  <2>1. fails = 0 => Served \cap Passed(w.at + 1) \subseteq held
    BY <1>4, PageIsHeld DEF w
  <2>2. \A i \in DOMAIN list'.pages[From'] : ~(i <= row'.cursor.idx)
    <3>1. DOMAIN list.pages[w.at + 1] = 1..Len(list.pages[w.at + 1])
      BY <1>1, <1>11, ListType
    <3> QED
      BY <1>3, <1>4, <1>7, <1>12, <3>1
  <2> QED
    BY <1>4, <1>7, <1>9, <1>13, <2>1, <2>2 DEF HeldInv
<1>17. CountInv'
  <2>1. Size(Places(row.pages))' = Size(Places(e.pages)) /\ Size(Places(mem[t].pages))' = Size(Places(e.pages))
    <3>1. row'.pages = e.pages /\ mem'[t].pages = e.pages /\ list' = list
      BY <1>4, <1>6, <1>7, <1>8
    <3> QED
      BY <3>1 DEF Size, Places, RowsOf
  <2>2. CountedOnce'
    BY <1>4, <1>5, <1>7, <2>1 DEF CountedOnce
  <2>3. (row.pages < Len(list.pages) => From = row.pages + 1)'
    BY <1>2, <1>4, <1>5, <1>7, <1>12
  <2> QED
    BY <1>4, <1>5, <1>6, <1>8, <1>10, <2>1, <2>2, <2>3 DEF CountInv
<1> QED
  BY <1>14, <1>15, <1>16, <1>17 DEF LapInv

\* A decision leaves the names and the counters as they are.
LEMMA RestedEffect ==
  ASSUME NEW e, NEW r \in Ledger
  PROVE  LET d == Rested(e, r)
         IN  /\ d.pages = r.pages /\ d.seen = r.seen
             /\ d.cursor.next = r.cursor.next /\ d.cursor.idx = r.cursor.idx /\ d.cursor.samples = r.cursor.samples
<1>1. r.cursor \in Cursor
  BY DEF Ledger
<1> DEFINE n == Least(e.c.tries + 1, 2)
           k == Least(e.c.totalTries + 1, 2)
           c1 == [r.cursor EXCEPT !.tries = n]
           c2 == [r.cursor EXCEPT !.totalTries = k]
<1> HIDE DEF n, k
<1>2. /\ c1.next = r.cursor.next /\ c1.idx = r.cursor.idx /\ c1.samples = r.cursor.samples
      /\ c2.next = r.cursor.next /\ c2.idx = r.cursor.idx /\ c2.samples = r.cursor.samples
  BY <1>1 DEF Cursor
<1>3. CASE LinkedUnseen(e) > 0
  <2>1. Rested(e, r) = [r EXCEPT !.cursor = c1,
                                 !.status = IF e.c.tries = 0 THEN "in_progress" ELSE "done",
                                 !.err = IF e.c.tries = 0 THEN "other" ELSE "linked"]
    BY <1>3 DEF Rested, Ledger, n
  <2> HIDE DEF c1
  <2> QED
    BY <1>2, <2>1 DEF Ledger
<1>4. CASE ~(LinkedUnseen(e) > 0) /\ r.gap > 0
  <2>1. Rested(e, r) = [r EXCEPT !.cursor = c2, !.err = IF e.c.totalTries = 0 THEN @ ELSE "total"]
    BY <1>4 DEF Rested, Ledger, k
  <2> HIDE DEF c2
  <2> QED
    BY <1>2, <2>1 DEF Ledger
<1>5. CASE ~(LinkedUnseen(e) > 0) /\ ~(r.gap > 0)
  BY <1>5 DEF Rested
<1> QED
  BY <1>3, <1>4, <1>5

LEMMA DecidedEffect ==
  ASSUME row \in Ledger, NEW e \in Memory, NEW confirmed \in BOOLEAN
  PROVE  LET d == Decided(e, confirmed)
         IN  /\ d.pages = e.pages /\ d.seen = e.seen /\ d.cursor.samples = e.c.samples
             /\ d.cursor.next \in {0, e.c.next} /\ d.cursor.idx \in {0, e.c.idx}
<1> DEFINE d == Decided(e, confirmed)
           r == Counted(e)
<1>1. r \in Ledger /\ r.cursor = e.c /\ e.c \in Cursor
  BY CountedType DEF Ledger
<1>2. r.pages = e.pages /\ r.seen = e.seen
  BY DEF Counted, Ledger
<1> HIDE DEF r
<1>4. CASE Capped(e)
  <2>1. d = [r EXCEPT !.status = IF list.split THEN "split" ELSE "failed", !.err = IF list.split THEN @ ELSE "other"]
    BY <1>4 DEF Decided, r
  <2> QED
    BY <1>1, <1>2, <2>1 DEF Ledger
<1>5. CASE ~Capped(e) /\ MayBeDone(e, confirmed)
  <2> DEFINE err == IF confirmed THEN "none" ELSE r.err
             c == At(e.c, 1, 0)
             q == [r EXCEPT !.status = "done", !.err = err, !.cursor = c]
  <2>1. d = Rested(e, q)
    BY <1>5 DEF Decided, r
  <2>2. err \in {"none", "other", "linked", "total"}
    BY <1>1 DEF Ledger
  <2>3. c \in Cursor /\ c.next = 0 /\ c.samples = e.c.samples
    BY <1>1, AtType
  <2>4. c.idx = 0
    BY DEF At, Start
  <2> HIDE DEF err, c
  <2>5. q \in Ledger /\ q.cursor = c /\ q.pages = e.pages /\ q.seen = e.seen
    BY <1>1, <1>2, <2>2, <2>3 DEF Ledger
  <2> HIDE DEF q
  <2> QED
    BY <2>1, <2>3, <2>4, <2>5, RestedEffect
<1>6. CASE ~Capped(e) /\ ~MayBeDone(e, confirmed)
  <2>1. ~MayBeDoneUnlinked(e, confirmed)
    BY <1>6 DEF MayBeDone, MayBeDoneUnlinked
  <2>2. CASE Stalled(e) /\ list.split
    <3>1. d = [r EXCEPT !.status = "split"]
      BY <1>6, <2>1, <2>2 DEF Decided, r
    <3> QED
      BY <1>1, <1>2, <3>1 DEF Ledger
  <2>3. CASE ~(Stalled(e) /\ list.split)
    <3> DEFINE n == IF e.total # None /\ e.seen < e.total THEN r.cursor.page + 1 ELSE r.cursor.page
               c == [r.cursor EXCEPT !.page = n]
    <3>1. d = [r EXCEPT !.status = "in_progress", !.err = "other", !.cursor = c]
      BY <1>1, <1>6, <2>1, <2>3 DEF Decided, r
    <3> HIDE DEF n
    <3>2. c.next = e.c.next /\ c.idx = e.c.idx /\ c.samples = e.c.samples
      BY <1>1 DEF Cursor
    <3> HIDE DEF c
    <3> QED
      BY <1>1, <1>2, <3>1, <3>2 DEF Ledger
  <2> QED
    BY <2>2, <2>3
<1> QED
  BY <1>4, <1>5, <1>6

LEMMA FinishLap ==
  ASSUME Typed, LapInv, NEW t \in Tick, Finish(t)
  PROVE  LapInv'
<1> DEFINE w == mem[t]
           e == Stamped(Ended(w))
<1>1. /\ w \in Memory /\ row \in Ledger /\ list \in Lists /\ w.at \in DOMAIN list.pages /\ w.rereading \in BOOLEAN
      /\ e \in Memory
  <2>1. w \in Memory /\ row \in Ledger /\ list \in Lists /\ w.at \in DOMAIN list.pages
    BY DEF Typed, ValueInv, PlaceInv
  <2> QED
    BY <2>1, EndedType, StampedType DEF Memory, Fields
<1>2. /\ pc[t] = "page" /\ Todo(w) = {} /\ ~(w.at < Len(list.pages)) /\ row' = Decided(e, w.rereading)
      /\ UNCHANGED <<list, held, fails>> /\ pc' = [pc EXCEPT ![t] = "leave"]
  BY DEF Finish, Goes, HasNext
<1>3. /\ row'.pages = e.pages /\ row'.seen = e.seen /\ row'.cursor.samples = e.c.samples
      /\ row'.cursor.next \in {0, e.c.next} /\ row'.cursor.idx \in {0, e.c.idx}
  BY <1>1, <1>2, DecidedEffect
<1>4. /\ e.at = w.at /\ e.c.next = w.c.next /\ e.c.idx = 0 /\ e.pages = Ended(w).pages /\ e.seen = Ended(w).seen
      /\ e.c.samples = {s \in w.c.samples : s[1] \in Linked \cup Keyed} /\ Ended(w).at = w.at
  BY <1>1, EndedType, EndedEffect, StampedType
<1>5. /\ w.at = From /\ w.c.next = row.cursor.next /\ w.c.samples = row.cursor.samples
  BY <1>2 DEF LapInv, SameInv, OnPage, SamePlace
<1>6. w.at = Len(list.pages) /\ Len(list.pages) \in Nat /\ Len(list.pages) >= 1
  BY <1>1, <1>2, ListType
<1>7. e.pages \in Nat /\ e.pages >= Len(list.pages) /\ (e.pages <= Len(list.pages) => e.seen <= Size(Places(e.pages)))
  BY <1>2, <1>4, <1>6, EndedCounts
<1>8. Nameable => Listed \ held \subseteq Named(row.cursor.samples)
  BY <1>1, <1>2, <1>6, PageIsNamed, PassedPages
<1>9. fails = 0 => Served \subseteq held
  <2>1. Served \subseteq Listed
    BY DEF Served
  <2> QED
    BY <1>1, <1>2, <1>6, <2>1, PageIsHeld, PassedPages
<1> HIDE DEF e, w
<1>10. \A u \in Tick : pc'[u] \notin {"begin", "page", "turn"}
  BY <1>2, Alone DEF Typed, LockInv
<1>11. row'.cursor.idx = 0 /\ (Nameable => row'.cursor.samples = row.cursor.samples)
  <2>1. row'.cursor.samples = {s \in row.cursor.samples : s[1] \in Linked \cup Keyed}
    BY <1>3, <1>4, <1>5
  <2>2. Nameable => row.cursor.samples \subseteq Linked \X {1}
    BY DEF Nameable, LapInv, NamedInv
  <2> QED
    BY <1>3, <1>4, <2>1, <2>2
<1>12. Listed' = Listed /\ Served' = Served
  BY <1>2 DEF Listed, Served, RowsOf
<1>13. Passed(From)' \subseteq Listed
  BY <1>2 DEF Passed, Listed, RowsOf
<1>14. SameInv'
  BY <1>3, <1>6, <1>7, <1>10 DEF SameInv
<1>15. NamedInv'
  <2>1. Nameable' = Nameable
    BY <1>12 DEF Nameable, Size
  <2>2. Nameable => Named(row.cursor.samples)' = Named(row.cursor.samples)
    BY <1>11 DEF Named
  <2>3. NamedFirst'
    BY <1>10 DEF NamedFirst
  <2> QED
    BY <1>2, <1>8, <1>11, <1>12, <1>13, <2>1, <2>2, <2>3 DEF NamedInv, NamedAtRest, LapInv
<1>16. HeldInv'
  <2>1. From' \in DOMAIN list.pages
    <3>1. From \in DOMAIN list.pages /\ 1 \in DOMAIN list.pages
      BY <1>1, <1>5, <1>6, ListType
    <3> QED
      BY <1>3, <1>4, <1>5, <3>1 DEF From
  <2>2. \A i \in DOMAIN list'.pages[From'] : ~(i <= row'.cursor.idx)
    <3>1. DOMAIN list.pages[From'] = 1..Len(list.pages[From'])
      BY <1>1, <2>1, ListType
    <3> QED
      BY <1>2, <1>11, <3>1
  <2> QED
    BY <1>2, <1>9, <1>12, <1>13, <2>2 DEF HeldInv
<1>17. CountInv'
  <2>1. Size(Places(row.pages))' = Size(Places(e.pages))
    BY <1>2, <1>3 DEF Size, Places, RowsOf
  <2> QED
    BY <1>2, <1>3, <1>6, <1>7, <1>10, <2>1 DEF CountInv, CountedOnce
<1> QED
  BY <1>14, <1>15, <1>16, <1>17 DEF LapInv

\* The time is up: the page is not counted, and its place is the one committed.
LEMMA OutOfTimeLap ==
  ASSUME Typed, LapInv, NEW t \in Tick, OutOfTime(t)
  PROVE  LapInv'
<1> DEFINE w == mem[t]
           c == [w.c EXCEPT !.unlinked = w.unlinkedBefore]
<1>1. w.c \in Cursor /\ row \in Ledger
  BY DEF Typed, ValueInv, Memory, Fields
<1>2. /\ pc[t] = "page" /\ row' = [row EXCEPT !.seen = w.seenBefore, !.known = w.knownBefore, !.total = w.total, !.cursor = c]
      /\ UNCHANGED <<list, held, fails>> /\ pc' = [pc EXCEPT ![t] = "leave"]
  BY DEF OutOfTime, Goes
<1>3. c.next = w.c.next /\ c.idx = w.c.idx /\ c.samples = w.c.samples
  BY <1>1 DEF Cursor
<1> HIDE DEF c
<1>4. row'.pages = row.pages /\ row'.status = row.status /\ row'.seen = w.seenBefore /\ row'.cursor = c
  BY <1>1, <1>2 DEF Ledger
<1>5. /\ w.c.next = row.cursor.next /\ w.c.idx = row.cursor.idx /\ w.c.samples = row.cursor.samples
      /\ w.pages = row.pages
  BY <1>2 DEF LapInv, SameInv, OnPage, SamePlace
<1>6. row.pages <= Len(list.pages) => w.seenBefore <= Size(Places(row.pages))
  BY <1>2, <1>5 DEF LapInv, CountInv
<1>7. \A u \in Tick : pc'[u] \notin {"begin", "page", "turn"}
  BY <1>2, Alone DEF Typed, LockInv
<1> HIDE DEF w
<1> QED
  BY <1>2, <1>3, <1>4, <1>5, <1>6, <1>7, RestsLap

LEMMA LeavesLap ==
  ASSUME Typed, LapInv, NEW t \in Tick, Interrupted(t) \/ Pause(t) \/ Leave(t) \/ Dies(t) \/ Lapse(t)
  PROVE  LapInv'
<1>1. /\ UNCHANGED <<list, held, fails>> /\ pc[t] # "idle"
      /\ \E where \in {"leave", "idle", "dead"} : pc' = [pc EXCEPT ![t] = where]
      /\ \/ row' = row \/ row' = [row EXCEPT !.err = "other"]
         \/ row' = [row EXCEPT !.status = "pending", !.err = "other"]
  BY DEF Interrupted, Pause, Leave, Dies, Lapse, Goes
<1>2. /\ row'.pages = row.pages /\ row'.seen = row.seen /\ row'.cursor = row.cursor
      /\ row'.status = row.status \/ row'.status # "done"
  BY <1>1 DEF Typed, ValueInv, Ledger
<1>3. \A u \in Tick : pc'[u] \notin {"begin", "page", "turn"}
  BY <1>1, Alone DEF Typed, LockInv
<1>4. row.pages <= Len(list.pages) => row'.seen <= Size(Places(row.pages))
  BY <1>2 DEF LapInv, CountInv, CountedOnce
<1> QED
  BY <1>1, <1>2, <1>3, <1>4, RestsLap

\* While a tick runs the query, another finds nothing to open again; a query that is opened from the
\* start has no page behind it.
LEMMA BeginTickLap ==
  ASSUME Typed, LapInv, NEW t \in Tick, BeginTick(t)
  PROVE  LapInv'
<1> DEFINE anew == [row EXCEPT !.status = "pending", !.err = "other", !.gap = 0, !.pages = 0, !.seen = 0,
                               !.known = 0, !.cursor = [Start EXCEPT !.samples = row.cursor.samples]]
           r == ForTick(t)
<1>1. row \in Ledger /\ list \in Lists
  BY DEF Typed, ValueInv
<1>2. r = row \/ (Finished(row) /\ (r = [row EXCEPT !.status = "pending", !.err = "other"] \/ r = anew))
  BY DEF ForTick, Reopened
<1>3. /\ UNCHANGED <<list, held, mem, fails>>
      /\ \/ row' = [r EXCEPT !.status = "in_progress"] /\ lock = None /\ pc' = [pc EXCEPT ![t] = "begin"]
         \/ row' = r /\ pc' = pc
  BY DEF BeginTick
<1>4. CASE \E u \in Tick : pc[u] \in {"begin", "page", "turn"}
  <2>1. row.status = "in_progress" /\ lock # None
    BY <1>4, TickAssumption DEF LapInv, SameInv, Typed, LockInv
  <2>2. r = row
    BY <1>2, <2>1 DEF Finished
  <2> QED
    BY <1>3, <2>1, <2>2, SameLap
<1>5. CASE \A u \in Tick : pc[u] \notin {"begin", "page", "turn"}
  <2>1. /\ \A u \in Tick : pc'[u] \notin {"page", "turn"} /\ (pc'[u] = "begin" => pc' = [pc EXCEPT ![t] = "begin"])
    BY <1>3, <1>5 DEF Typed, LockInv
  <2>2. CASE r = row \/ r = [row EXCEPT !.status = "pending", !.err = "other"]
    <3>1. /\ row'.pages = row.pages /\ row'.seen = row.seen /\ row'.cursor = row.cursor
          /\ row'.status = row.status \/ row'.status # "done"
          /\ pc' = pc \/ row'.status = "in_progress"
      <4>1. r \in Ledger /\ r.pages = row.pages /\ r.seen = row.seen /\ r.cursor = row.cursor
            /\ (r.status = row.status \/ r.status # "done")
        BY <1>1, <2>2 DEF Ledger, Open
      <4> HIDE DEF r
      <4> QED
        BY <1>3, <4>1 DEF Ledger
    <3>2. \A u \in Tick : pc'[u] = "begin" => row'.status = "in_progress"
      BY <1>5, <2>1, <3>1
    <3>3. row.pages <= Len(list.pages) => row'.seen <= Size(Places(row.pages))
      BY <3>1 DEF LapInv, CountInv, CountedOnce
    <3> QED
      BY <1>3, <2>1, <3>1, <3>2, <3>3, RestsLap
  <2>3. CASE r = anew
    <3> DEFINE c == [Start EXCEPT !.samples = row.cursor.samples]
    <3>1. c.next = 0 /\ c.idx = 0 /\ c.samples = row.cursor.samples
      BY DEF Start
    <3> HIDE DEF c
    <3>2. anew.pages = 0 /\ anew.seen = 0 /\ anew.cursor = c /\ anew.status = "pending"
      BY <1>1 DEF Ledger, c
    <3>3. anew \in Ledger
      BY <1>1, <2>3, ReopenedType DEF ForTick
    <3> HIDE DEF anew, r
    <3>4. /\ row'.pages = 0 /\ row'.seen = 0 /\ row'.cursor = c /\ row'.status # "done"
          /\ pc' = pc \/ row'.status = "in_progress"
      BY <1>3, <2>3, <3>2, <3>3 DEF Ledger
    <3>5. From' = 1
      BY <3>1, <3>4 DEF From
    <3>6. Passed(From)' = {}
      <4>1. Passed(1) = {}
        BY <1>1, PassedPages
      <4> QED
        BY <1>3, <3>5, <4>1 DEF Passed, RowsOf
    <3>7. SameInv'
      BY <1>5, <2>1, <3>1, <3>4 DEF SameInv
    <3>8. NamedInv'
      <4>1. Nameable' = Nameable /\ Listed' = Listed /\ row'.cursor.samples = row.cursor.samples
        BY <1>3, <3>1, <3>4 DEF Nameable, Listed, RowsOf, Size
      <4> QED
        BY <2>1, <3>4, <3>6, <4>1 DEF NamedInv, NamedAtRest, NamedFirst, LapInv
    <3>9. HeldInv'
      <4>1. \A i \in DOMAIN list'.pages[From'] : ~(i <= row'.cursor.idx)
        <5>1. 1 \in DOMAIN list.pages /\ list.pages[1] \in Seq(Row)
          BY <1>1, ListType
        <5>2. DOMAIN list.pages[1] = 1..Len(list.pages[1])
          BY <5>1
        <5> QED
          BY <1>3, <3>1, <3>4, <3>5, <5>2
      <4> QED
        BY <3>4, <3>6, <4>1 DEF HeldInv
    <3>10. CountInv'
      <4>1. Size(Places(0)) \in Nat
        BY <1>1, PlacesCount
      <4>2. Size(Places(row.pages))' = Size(Places(0))
        BY <1>3, <3>4 DEF Size, Places, RowsOf
      <4> QED
        BY <2>1, <3>4, <3>5, <4>1, <4>2 DEF CountInv, CountedOnce
    <3> QED
      BY <3>7, <3>8, <3>9, <3>10 DEF LapInv
  <2> QED
    BY <1>2, <2>2, <2>3
<1> QED
  BY <1>4, <1>5

LEMMA BeginRunLap ==
  ASSUME Typed, LapInv, NEW t \in Tick, BeginRun(t)
  PROVE  LapInv'
<1> DEFINE at == IF ByLink THEN row.cursor.next ELSE 1
           c == IF row.cursor.page = 1 /\ row.cursor.idx = 0 THEN [row.cursor EXCEPT !.unlinked = {}] ELSE row.cursor
           rereading == ~ByLink /\ row.pages > 0 /\ row.pages >= row.cursor.page
           w == Resumed
<1>1. /\ row \in Ledger /\ row.cursor \in Cursor /\ row.cursor.next \in Nat /\ row.pages \in Nat /\ list \in Lists
  BY DEF Typed, ValueInv, Ledger, Cursor
<1>2. c.next = row.cursor.next /\ c.idx = row.cursor.idx /\ c.samples = row.cursor.samples
  BY <1>1 DEF Cursor
<1>3. w \in Memory /\ w.at \in DOMAIN list.pages
  BY ResumedType DEF Typed
<1> HIDE DEF c, at, rereading
<1>4. w = [NoMem EXCEPT !.at = at, !.rereading = rereading, !.pages = row.pages, !.seen = row.seen,
                        !.known = row.known, !.total = row.total, !.c = c]
  BY DEF Resumed, at, rereading, c
<1>5. /\ w.at = at /\ w.rereading = rereading /\ w.pages = row.pages /\ w.seen = row.seen /\ w.c = c
      /\ w.met = {}
  BY <1>4 DEF NoMem
<1> HIDE DEF w
<1>6. row.cursor.next > 0 => row.pages > 0
  BY DEF LapInv, SameInv
<1>7. w.at = From
  BY <1>1, <1>5, <1>6 DEF From, ByLink, at
<1>8. w.rereading => w.pages >= Len(list.pages)
  <2>1. row.pages < Len(list.pages) => From = row.pages + 1
    BY DEF LapInv, CountInv
  <2>2. rereading => row.pages > 0 /\ From = 1
    BY <1>1, <1>6 DEF rereading, ByLink, From
  <2>3. Len(list.pages) \in Nat
    BY <1>1, ListType
  <2> QED
    BY <1>1, <1>5, <2>1, <2>2, <2>3
<1>9. w.pages <= Len(list.pages) => w.seen <= Size(Places(w.pages))
  BY <1>5 DEF LapInv, CountInv, CountedOnce
<1>10. pc[t] = "begin" /\ OpenPage(t, w) /\ row.status = "in_progress"
  BY DEF BeginRun, w, LapInv, SameInv
<1>11. w.met \subseteq Passed(w.at)
  BY <1>5
<1> QED
  BY <1>2, <1>3, <1>5, <1>7, <1>8, <1>9, <1>10, <1>11, OpenPageLap

LEMMA ReadNextLap ==
  ASSUME Typed, LapInv, NEW t \in Tick, ReadNext(t)
  PROVE  LapInv'
<1> DEFINE m == mem[t]
           n == m.at + 1
           w == [m EXCEPT !.at = n]
<1>1. pc[t] = "turn" /\ OpenPage(t, w)
  BY DEF ReadNext
<1>2. m \in Memory /\ n \in DOMAIN list.pages /\ n \in Nat
  <2>1. m \in Memory /\ n \in DOMAIN list.pages
    BY <1>1 DEF Typed, ValueInv, PlaceInv
  <2> QED
    BY <2>1 DEF Memory, Fields
<1>3. /\ row.status = "in_progress" /\ n = From /\ ~m.rereading
      /\ m.c.next = row.cursor.next /\ m.c.idx = row.cursor.idx /\ m.c.samples = row.cursor.samples
      /\ m.pages = row.pages /\ m.met \subseteq Passed(n)
  BY <1>1 DEF LapInv, SameInv, AtTurn, SamePlace
<1>4. m.pages <= Len(list.pages) => m.seen <= Size(Places(m.pages))
  BY <1>1 DEF LapInv, CountInv
<1> HIDE DEF m, n
<1>5. /\ w \in Memory /\ w.at = n /\ w.rereading = m.rereading /\ w.c = m.c /\ w.pages = m.pages
      /\ w.seen = m.seen /\ w.met = m.met
  BY <1>2 DEF Memory, Fields
<1> HIDE DEF w
<1> QED
  BY <1>1, <1>2, <1>3, <1>4, <1>5, OpenPageLap

LEMMA LapInit ==
  ASSUME Init
  PROVE  LapInv
<1>1. list \in Lists /\ row.status = "pending" /\ row.pages = 0 /\ row.seen = 0 /\ row.cursor.next = 0 /\ row.cursor.idx = 0
      /\ \A t \in Tick : pc[t] = "idle"
  BY DEF Init, Start
<1>2. From = 1
  BY <1>1 DEF From
<1>3. Passed(From) = {}
  BY <1>1, <1>2, PassedPages
<1>4. SameInv
  BY <1>1 DEF SameInv
<1>5. NamedInv
  <2>1. row.cursor.samples = {}
    BY DEF Init, Start
  <2> QED
    BY <1>1, <1>3, <2>1 DEF NamedInv, NamedAtRest, NamedFirst
<1>6. HeldInv
  <2>1. 1 \in DOMAIN list.pages /\ list.pages[1] \in Seq(Row)
    BY <1>1, ListType
  <2>2. DOMAIN list.pages[1] = 1..Len(list.pages[1])
    BY <2>1
  <2>3. \A i \in DOMAIN list.pages[From] : ~(i <= row.cursor.idx)
    BY <1>1, <1>2, <2>2
  <2> QED
    BY <1>1, <1>3, <2>3 DEF HeldInv
<1>7. CountInv
  <2>1. Size(Places(row.pages)) \in Nat
    BY <1>1, PlacesCount
  <2> QED
    BY <1>1, <1>2, <2>1 DEF CountInv, CountedOnce
<1> QED
  BY <1>4, <1>5, <1>6, <1>7 DEF LapInv

\* A body that another query stages is one less to miss.
LEMMA ElsewhereLap ==
  ASSUME LapInv, StagedElsewhere
  PROVE  LapInv'
<1>1. UNCHANGED <<list, row, pc, mem, fails>> /\ held \subseteq held'
  BY DEF StagedElsewhere
<1>2. From' = From /\ Passed(From)' = Passed(From) /\ Listed' = Listed /\ Served' = Served
  BY <1>1 DEF From, Passed, RowsOf, Served, Listed
<1>3. SameInv'
  BY <1>1, <1>2 DEF LapInv, SameInv, OnPage, AtTurn, SamePlace, Passed, RowsOf
<1>4. NamedInv'
  BY <1>1, <1>2 DEF LapInv, NamedInv, NamedAtRest, NamedFirst, Nameable, Named, Size
<1>5. HeldInv'
  BY <1>1, <1>2 DEF LapInv, HeldInv
<1>6. CountInv'
  <2>1. /\ Size(Places(row.pages))' = Size(Places(row.pages))
        /\ \A t \in Tick : /\ Size(Places(mem[t].pages))' = Size(Places(mem[t].pages))
                           /\ Size(Places(mem[t].pages + 1))' = Size(Places(mem[t].pages + 1))
    BY <1>1 DEF Size, Places, RowsOf
  <2> QED
    BY <1>1, <1>2, <2>1 DEF LapInv, CountInv, CountedOnce
<1> QED
  BY <1>3, <1>4, <1>5, <1>6 DEF LapInv

LEMMA LapStep ==
  ASSUME Typed, LapInv, Next
  PROVE  LapInv'
<1>1. ASSUME Cool \/ ComesUp
      PROVE  LapInv'
  BY <1>1, SameLap DEF Cool, ComesUp
<1> QED
  BY <1>1, ElsewhereLap, BeginTickLap, BeginRunLap, ReadNextLap, FetchLap, TurnPageLap, FinishLap, OutOfTimeLap, LeavesLap
  DEF Next, Step

LEMMA LapAlways == Spec => [](Typed /\ PagesInv /\ LapInv)
<1>1. Init => Typed /\ PagesInv /\ LapInv
  BY TypedInit, LapInit DEF Init, PagesInv
<1>2. Typed /\ PagesInv /\ LapInv /\ [Next]_vars => (Typed /\ PagesInv /\ LapInv)'
  <2>1. ASSUME Typed, PagesInv, LapInv, UNCHANGED vars
        PROVE  (Typed /\ PagesInv /\ LapInv)'
    <3>1. PagesInv'
      BY <2>1 DEF vars, PagesInv, PageInv, Todo
    <3> QED
      BY <2>1, <3>1, TypedStutters, SameLap DEF vars
  <2>2. ASSUME Typed, PagesInv, LapInv, Next
        PROVE  (Typed /\ PagesInv /\ LapInv)'
    BY <2>2, TypedStep, PagesStep, LapStep
  <2> QED
    BY <2>1, <2>2
<1> QED
  BY <1>1, <1>2, PTL DEF Spec

\* Whoever runs the query next, after a stop or a death, opens only rows behind the last one that is
\* committed, and opens a body that is held only where the code cannot know: one tick at a time has
\* the lock, and its place is the one committed.
THEOREM NothingOpenedTwice == Spec => []NotTwice
<1>1. Typed /\ PagesInv /\ LapInv => NotTwice
  <2> SUFFICES ASSUME Typed, PagesInv, LapInv, NEW t \in Tick, pc[t] = "page", Todo(mem[t]) # {}
               PROVE  First(mem[t]) > row.cursor.idx /\ Body(mem[t]) \notin (held \cap Matched) \ Others
    BY DEF NotTwice
  <2>1. First(mem[t]) \in Todo(mem[t]) /\ Body(mem[t]) = list.pages[mem[t].at][First(mem[t])]
    BY FirstIsToDo
  <2>2. mem[t].c.idx = row.cursor.idx
    BY DEF LapInv, SameInv, OnPage, SamePlace
  <2> QED
    BY <2>1, <2>2 DEF Todo, PagesInv, PageInv
<1> QED
  BY <1>1, LapAlways, PTL

\* A row is counted once for as long as each page is: no stop, death or confirming read adds a row
\* to the counters that the counted pages do not list.
THEOREM RowsCountedOnce == Spec => []CountedOnce
<1>1. LapInv => CountedOnce
  BY DEF LapInv, CountInv
<1> QED
  BY <1>1, LapAlways, PTL

\* However ticks share the pages, and wherever they stop or die, a query is done only when it has
\* every body the site serves, or when a fetch has failed.
THEOREM DoneIsComplete == Spec => []DoneHasAll
<1>1. LapInv => DoneHasAll
  BY DEF LapInv, HeldInv, DoneHasAll
<1> QED
  BY <1>1, LapAlways, PTL

\* Where each row has a link, and there is a place for each, no row that is about to be opened, or that
\* the query rests without, is missing from the names in the committed ledger row.
THEOREM GapIsNamed == Spec => []GapNamed
<1>1. LapInv => GapNamed
  BY DEF LapInv, NamedInv, GapNamed
<1> QED
  BY <1>1, LapAlways, PTL
================================================================================
