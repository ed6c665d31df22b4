-------------------------- MODULE CdcPipelineProofs --------------------------
(***************************************************************************)
(* What TLAPS proves of the CDC pipeline, for any rows, any channel sizes  *)
(* and any number of transactions, lost connections and restarts.          *)
(*                                                                         *)
(* The argument is about two things: where the stream would go on if the   *)
(* connection were made anew (At), and what was handed on but not yet      *)
(* dispatched (Handed).  Handed has no holes and ends at or behind At, so  *)
(* that a change before At is in Handed or was dispatched; and when it is  *)
(* passed over in the queue for an older, redelivered change of its row,   *)
(* it is itself redelivered behind that one.                               *)
(***************************************************************************)
EXTENDS CdcPipeline, WellFoundedInduction, SequenceTheorems, TLAPS

(* The last transaction that will not be read again; once the connection is  *)
(* gone, a status update on its way still moves it.                         *)
At ==
  IF conn = "streaming" THEN IF midway THEN next + 1 ELSE next
  ELSE IF ack > slot THEN ack ELSE slot

Pending(i) == i > At \/ \E n \in 1 .. Len(Handed) : Handed[n] = i

Bounded ==
  /\ slot <= Len(wal)
  /\ midway => next < Len(wal)
  /\ ack <= next
  /\ conn = "streaming" => slot # NoSlot /\ slot <= next
  /\ Handed # <<>> \/ ack # NoAck \/ conn # "off" => slot # NoSlot

NoHoles == \A n \in 1 .. Len(Handed) - 1 : Handed[n + 1] <= Handed[n] + 1

Behind == Handed # <<>> => At <= Handed[Len(Handed)]

CachesFollow ==
  slot # NoSlot =>
    \A r \in Row : Tracked(r) =>
      \/ cache[r] = LastChange(r)
      \/ Pending(LastChange(r))
      \/ LastChange(r) <= gap

PagesFollow ==
  \A r \in (User \union Org) \ unheard : page[r] # Served(r) =>
    \/ Signalled(TableOf(r))
    \/ r \in Org /\ (slot = NoSlot \/ Pending(LastChange(r)) \/ LastChange(r) <= gap)

(* Tables are read before the tasks run, and pages shown while they do. *)
LoadedFirst ==
  /\ up => loaded = InMemory
  /\ ~ up => unheard = Row

Inv == TypeOK /\ Bounded /\ NoHoles /\ Behind /\ CachesFollow /\ PagesFollow /\ LoadedFirst

USE CdcAssumption

-----------------------------------------------------------------------------
(* Sequences and sets of positions.                                          *)

LEMMA LeastNumber ==
  ASSUME NEW S \in SUBSET Nat, S # {}
  PROVE  \E x \in S : \A y \in S : x <= y
<1>. DEFINE R == {p \in Nat \X Nat : p[1] < p[2]}
<1>1. IsWellFoundedOn(R, Nat)
  BY NatLessThanWellFounded DEF OpToRel
<1>2. PICK x \in S : \A y \in S : ~ (<<y, x>> \in R)
  <2>. HIDE DEF R
  <2>. QED BY <1>1, WFMin
<1>3. ASSUME NEW y \in S PROVE x <= y
  <2>1. x \in Nat /\ y \in Nat /\ <<y, x>> \in Nat \X Nat
    OBVIOUS
  <2>2. ~ (y < x)
    BY <1>2, <2>1
  <2>. QED BY <2>1, <2>2
<1>. QED BY <1>3

(* LastOf is the greatest position of a set of positions, 0 of none. *)
LEMMA LastIsGreatest ==
  ASSUME NEW n \in Nat, NEW S \in SUBSET (1 .. n)
  PROVE  /\ LastOf(S) \in 0 .. n
         /\ S = {} => LastOf(S) = 0
         /\ S # {} => LastOf(S) \in S
         /\ \A j \in S : j <= LastOf(S)
<1>1. CASE S = {}
  BY <1>1 DEF LastOf
<1>2. CASE S # {}
  <2>. DEFINE T == {n - j : j \in S}
  <2>1. T \in SUBSET Nat /\ T # {}
    BY <1>2
  <2>2. PICK t \in T : \A y \in T : t <= y
    BY <2>1, LeastNumber
  <2>3. PICK m \in S : t = n - m
    BY <2>2
  <2>4. \A j \in S : j <= m
    <3>. TAKE j \in S
    <3>1. n - j \in T
      OBVIOUS
    <3>2. n - m <= n - j
      BY <2>2, <2>3, <3>1
    <3>. QED BY <3>2
  <2>5. LastOf(S) \in S /\ \A j \in S : j <= LastOf(S)
    BY <1>2, <2>4 DEF LastOf
  <2>6. LastOf(S) \in 0 .. n
    <3>1. \A x \in S : x \in 0 .. n
      OBVIOUS
    <3>. QED BY <2>5, <3>1
  <2>. QED BY <1>2, <2>5, <2>6
<1>. QED BY <1>1, <1>2

(* Appended, x comes last and everything else stays where it was. *)
LEMMA AppendElements ==
  ASSUME NEW S, NEW q \in Seq(S), NEW x \in S
  PROVE  /\ Append(q, x) \in Seq(S)
         /\ Append(q, x) # <<>>
         /\ Len(q) \in Nat
         /\ Len(Append(q, x)) = Len(q) + 1
         /\ Append(q, x)[Len(q) + 1] = x
         /\ \A n \in 1 .. Len(q) : Append(q, x)[n] = q[n]
OBVIOUS

LEMMA TailElements ==
  ASSUME NEW S, NEW q \in Seq(S), q # <<>>
  PROVE  /\ Head(q) \in S
         /\ Head(q) = q[1]
         /\ Tail(q) \in Seq(S)
         /\ Len(q) \in Nat \ {0}
         /\ Len(Tail(q)) = Len(q) - 1
         /\ \A n \in 1 .. Len(q) - 1 : Tail(q)[n] = q[n + 1]
OBVIOUS

(* A sequence that climbs by single steps only passes every height between   *)
(* its first and a later element.                                           *)
LEMMA NoHeightPassedOver ==
  ASSUME NEW q \in Seq(Nat),
         \A n \in 1 .. Len(q) - 1 : q[n + 1] <= q[n] + 1,
         NEW h \in Nat, q # <<>>, q[1] < h, h <= q[Len(q)]
  PROVE  \E n \in 2 .. Len(q) : q[n] = h
<1>. DEFINE S == {n \in 1 .. Len(q) : h <= q[n]}
<1>1. Len(q) \in Nat \ {0} /\ \A n \in 1 .. Len(q) : q[n] \in Nat
  OBVIOUS
<1>2. S \in SUBSET Nat /\ Len(q) \in S
  BY <1>1
<1>3. PICK m \in S : \A y \in S : m <= y
  BY <1>2, LeastNumber
<1>4. m # 1 /\ m \in 1 .. Len(q)
  BY <1>1
<1>5. m - 1 \in 1 .. Len(q) - 1 /\ (m - 1) + 1 = m /\ m - 1 \in 1 .. Len(q)
  BY <1>1, <1>4
<1>6. ~ (m - 1 \in S)
  BY <1>3, <1>4, <1>5
<1>7. q[m - 1] < h
  BY <1>1, <1>5, <1>6
<1>8. q[m] <= q[m - 1] + 1
  <2>1. q[(m - 1) + 1] <= q[m - 1] + 1
    BY <1>5
  <2>. QED BY <1>5, <2>1
<1>9. q[m] = h
  BY <1>1, <1>3, <1>4, <1>5, <1>7, <1>8
<1>. QED BY <1>1, <1>4, <1>9

(* A channel of positions in the log is one in a longer log. *)
LEMMA LongerLog ==
  ASSUME NEW n \in Nat, NEW q \in Seq(1 .. n)
  PROVE  q \in Seq(1 .. n + 1)
<1>1. Len(q) \in Nat /\ q \in [1 .. Len(q) -> 1 .. n]
  OBVIOUS
<1>2. \A j \in 1 .. Len(q) : q[j] \in 1 .. n + 1
  BY <1>1
<1>. QED BY <1>1, <1>2, SeqDef

-----------------------------------------------------------------------------
(* The log.                                                                  *)

LEMMA LogFacts ==
  ASSUME TypeOK, NEW r \in Row
  PROVE  /\ LastChange(r) \in 0 .. Len(wal)
         /\ LastChange(r) # 0 => LastChange(r) \in ChangesOf(r)
         /\ \A i \in 1 .. Len(wal) : wal[i].row = r => i <= LastChange(r)
         /\ InDatabase(r) \in Position \union {Absent}
         /\ LastChange(r) # 0 /\ wal[LastChange(r)].op = "put" => InDatabase(r) = LastChange(r)
<1>. DEFINE L == ChangesOf(r)
            M == {i \in L : wal[i].op # "backfill"}
<1>1. Len(wal) \in Nat /\ Len(wal) <= MaxChanges
  BY DEF TypeOK
<1>2. L \in SUBSET (1 .. Len(wal)) /\ M \in SUBSET (1 .. Len(wal))
  BY DEF ChangesOf
<1>3. /\ LastOf(L) \in 0 .. Len(wal)
      /\ L = {} => LastOf(L) = 0
      /\ L # {} => LastOf(L) \in L
      /\ \A j \in L : j <= LastOf(L)
  BY <1>1, <1>2, LastIsGreatest
<1>4. /\ LastOf(M) \in 0 .. Len(wal)
      /\ M # {} => LastOf(M) \in M
      /\ \A j \in M : j <= LastOf(M)
  BY <1>1, <1>2, LastIsGreatest
<1>5. InDatabase(r) \in Position \union {Absent}
  BY <1>1, <1>4 DEF InDatabase, Position
<1>6. LastChange(r) = LastOf(L)
  BY DEF LastChange
<1>7. ASSUME LastOf(L) # 0, wal[LastOf(L)].op = "put"
      PROVE  InDatabase(r) = LastOf(L)
  <2>1. LastOf(L) \in M
    BY <1>3, <1>7
  <2>2. LastOf(M) \in L /\ LastOf(L) <= LastOf(M) /\ LastOf(M) <= LastOf(L)
    BY <1>3, <1>4, <2>1
  <2>3. LastOf(M) = LastOf(L)
    BY <1>3, <1>4, <2>2
  <2>. QED BY <1>7, <2>3 DEF InDatabase
<1>8. \A i \in 1 .. Len(wal) : wal[i].row = r => i \in L
  BY DEF ChangesOf
<1>. HIDE DEF L, M
<1>9. LastOf(L) # 0 => LastOf(L) \in L
  BY <1>3
<1>10. \A i \in 1 .. Len(wal) : wal[i].row = r => i <= LastOf(L)
  BY <1>3, <1>8
<1>. QED BY <1>3, <1>5, <1>6, <1>7, <1>9, <1>10 DEF L

(* Entries of the log name rows. *)
LEMMA EntryNamesRow == ASSUME TypeOK, NEW i \in 1 .. Len(wal) PROVE wal[i].row \in Row
<1>1. wal \in Seq(Change)
  BY DEF TypeOK
<1>2. wal[i] \in Change
  BY <1>1
<1>. QED BY <1>2 DEF Change

LEMMA SameLog ==
  ASSUME wal' = wal, NEW r
  PROVE  LastChange(r)' = LastChange(r) /\ InDatabase(r)' = InDatabase(r)
BY DEF LastChange, InDatabase, ChangesOf

(* A commit is the last change of its row, and no change of another. *)
LEMMA LongerLogFacts ==
  ASSUME TypeOK, NEW r \in Row, NEW op \in Op, wal' = Append(wal, [row |-> r, op |-> op])
  PROVE  /\ wal' \in Seq(Change) /\ Len(wal') = Len(wal) + 1 /\ Len(wal) \in Nat
         /\ LastChange(r)' = Len(wal) + 1
         /\ \A s \in Row \ {r} :
              LastChange(s)' = LastChange(s) /\ InDatabase(s)' = InDatabase(s)
         /\ \A i \in 1 .. Len(wal) : wal'[i] = wal[i]
<1>. DEFINE c == [row |-> r, op |-> op]
<1>1. wal \in Seq(Change) /\ c \in Change
  BY DEF TypeOK, Change
<1>2. /\ wal' \in Seq(Change) /\ Len(wal') = Len(wal) + 1 /\ Len(wal) \in Nat
      /\ wal'[Len(wal) + 1] = c /\ \A i \in 1 .. Len(wal) : wal'[i] = wal[i]
  BY <1>1, AppendElements
<1>3. LastChange(r)' = Len(wal) + 1
  <2>1. ChangesOf(r)' \in SUBSET (1 .. Len(wal) + 1) /\ Len(wal) + 1 \in ChangesOf(r)'
    BY <1>2 DEF ChangesOf
  <2>2. /\ LastOf(ChangesOf(r)') \in 0 .. Len(wal) + 1
        /\ \A j \in ChangesOf(r)' : j <= LastOf(ChangesOf(r)')
    BY <1>2, <2>1, LastIsGreatest
  <2>3. LastOf(ChangesOf(r)') = Len(wal) + 1
    BY <1>2, <2>1, <2>2
  <2>. QED BY <2>3 DEF LastChange, LastOf
<1>4. ASSUME NEW s \in Row \ {r}
      PROVE  LastChange(s)' = LastChange(s) /\ InDatabase(s)' = InDatabase(s)
  <2>1. ChangesOf(s)' = ChangesOf(s)
    BY <1>2 DEF ChangesOf
  <2>2. {i \in ChangesOf(s)' : wal'[i].op # "backfill"} = {i \in ChangesOf(s) : wal[i].op # "backfill"}
    BY <1>2, <2>1 DEF ChangesOf
  <2>3. \A i \in 1 .. Len(wal) : wal'[i].op = wal[i].op
    BY <1>2
  <2>4. LastChange(s)' = LastChange(s)
    BY <2>1 DEF LastChange, LastOf
  <2>5. InDatabase(s)' = InDatabase(s)
    <3>. DEFINE M == {i \in ChangesOf(s) : wal[i].op # "backfill"}
    <3>1. M \in SUBSET (1 .. Len(wal))
      BY DEF ChangesOf
    <3>2. LastOf(M) # 0 => LastOf(M) \in 1 .. Len(wal)
      BY <1>2, <3>1, LastIsGreatest
    <3>3. LastOf({i \in ChangesOf(s)' : wal'[i].op # "backfill"}) = LastOf(M)
      BY <2>2
    <3>4. InDatabase(s) =
            IF LastOf(M) = 0 THEN IF s \in Seeded THEN 0 ELSE Absent
            ELSE IF wal[LastOf(M)].op = "put" THEN LastOf(M) ELSE Absent
      BY DEF InDatabase
    <3>5. InDatabase(s)' =
            IF LastOf(M) = 0 THEN IF s \in Seeded THEN 0 ELSE Absent
            ELSE IF wal'[LastOf(M)].op = "put" THEN LastOf(M) ELSE Absent
      <4>. DEFINE N == {i \in ChangesOf(s)' : wal'[i].op # "backfill"}
      <4>1. InDatabase(s)' =
              IF LastOf(N) = 0 THEN IF s \in Seeded THEN 0 ELSE Absent
              ELSE IF wal'[LastOf(N)].op = "put" THEN LastOf(N) ELSE Absent
        BY DEF InDatabase, LastOf
      <4>2. N = M
        BY <2>2
      <4>. QED BY <4>1, <4>2
    <3>. HIDE DEF M
    <3>. QED BY <2>3, <3>2, <3>4, <3>5
  <2>. QED BY <2>4, <2>5
<1>. QED BY <1>2, <1>3, <1>4

(* Every row is in one table, users and organizations in a table of their own. *)
LEMMA TableIs ==
  ASSUME NEW r \in Row
  PROVE  /\ TableOf(r) \in Tables /\ TableOf(r) \subseteq Row /\ r \in TableOf(r)
         /\ \A q \in TableOf(r) : TableOf(q) = TableOf(r)
<1>1. \E t \in Tables : r \in t
  BY DEF Row, Tables
<1>2. TableOf(r) \in Tables /\ r \in TableOf(r)
  BY <1>1 DEF TableOf
<1>3. \A t, v \in Tables : t # v => t \intersect v = {}
  BY DistinctTables DEF Tables
<1>4. ASSUME NEW q \in TableOf(r) PROVE TableOf(q) = TableOf(r)
  <2>1. q \in TableOf(q) /\ TableOf(q) \in Tables
    BY <1>2, <1>4 DEF TableOf
  <2>. QED BY <1>2, <1>3, <1>4, <2>1
<1>. QED BY <1>2, <1>4 DEF Tables, Row

-----------------------------------------------------------------------------
(* What was handed on.                                                       *)

LEMMA HandedFacts ==
  ASSUME TypeOK
  PROVE  /\ Handed \in Seq(1 .. Len(wal)) /\ Handed \in Seq(Nat)
         /\ queue # <<>> => Handed # <<>> /\ Head(queue) = Head(Handed)
         /\ Len(Handed) \in Nat
         /\ \A n \in 1 .. Len(Handed) : Handed[n] \in 1 .. Len(wal)
<1>1. Len(wal) \in Nat /\ queue \in Seq(1 .. Len(wal)) /\ held \in 0 .. Len(wal)
  BY DEF TypeOK
<1>2. CASE held = 0
  BY <1>1, <1>2, SeqDef DEF Handed
<1>3. CASE held # 0
  <2>1. held \in 1 .. Len(wal) /\ Handed = Append(queue, held)
    BY <1>1, <1>3 DEF Handed
  <2>2. /\ Handed \in Seq(1 .. Len(wal)) /\ Handed # <<>>
        /\ Len(queue) \in Nat /\ Len(Handed) = Len(queue) + 1
        /\ \A n \in 1 .. Len(queue) : Handed[n] = queue[n]
    BY <1>1, <2>1, AppendElements
  <2>3. queue # <<>> => Head(queue) = Head(Handed)
    BY <1>1, <2>2
  <2>4. Handed \in Seq(Nat)
    BY <1>1, <2>2, SeqDef
  <2>. QED BY <2>2, <2>3, <2>4
<1>. QED BY <1>2, <1>3

LEMMA AtIsNumber == ASSUME TypeOK PROVE At \in Int
BY DEF TypeOK, At, NoSlot, NoAck, Position

-----------------------------------------------------------------------------
(* A step that neither extends the log nor hands anything on or out keeps    *)
(* what is pending, and what follows from it.                               *)

Quiet ==
  /\ wal' = wal
  /\ slot' = NoSlot <=> slot = NoSlot
  /\ Handed' = Handed
  /\ At' <= At

PendingThen(i) == i > At' \/ \E n \in 1 .. Len(Handed') : Handed'[n] = i

StillPending == \A i \in Int : Pending(i) => PendingThen(i)

LEMMA AtIsNumberThen == ASSUME TypeOK' PROVE At' \in Int
<1>1. next' \in Int /\ slot' \in Int /\ ack' \in Int
  <2>1. /\ next' \in 0 .. Len(wal') /\ slot' \in Position \union {NoSlot}
        /\ ack' \in 0 .. Len(wal') \union {NoAck}
    BY DEF TypeOK
  <2>. QED BY <2>1 DEF Position, NoSlot, NoAck
<1>. QED BY <1>1 DEF At

LEMMA QuietKeepsPending ==
  ASSUME TypeOK, TypeOK', Quiet
  PROVE  StillPending
<1>1. At \in Int /\ At' \in Int
  BY AtIsNumber, AtIsNumberThen
<1>2. \A i \in Int : i > At => i > At'
  BY <1>1 DEF Quiet
<1>. QED BY <1>2 DEF Quiet, Pending, StillPending, PendingThen

LEMMA QuietKeepsStream ==
  ASSUME TypeOK, TypeOK', Quiet, NoHoles, Behind
  PROVE  NoHoles' /\ Behind'
<1>1. At \in Int /\ At' \in Int
  BY AtIsNumber, AtIsNumberThen
<1>2. Handed # <<>> => Handed[Len(Handed)] \in Int
  BY HandedFacts
<1>. QED BY <1>1, <1>2 DEF Quiet, NoHoles, Behind

(* The invariant after a step, for one row. *)
LEMMA CacheThen ==
  ASSUME \A r \in Row : Tracked(r)' =>
           \/ cache'[r] = LastChange(r)'
           \/ PendingThen(LastChange(r)')
           \/ LastChange(r)' <= gap'
  PROVE  CachesFollow'
BY DEF CachesFollow, Pending, PendingThen

LEMMA QuietKeepsCaches ==
  ASSUME TypeOK, TypeOK', Quiet, CachesFollow, cache' = cache, gap' = gap
  PROVE  CachesFollow'
<1>. SUFFICES ASSUME slot # NoSlot, NEW r \in Row, Tracked(r)'
     PROVE  \/ cache'[r] = LastChange(r)'
            \/ PendingThen(LastChange(r)')
            \/ LastChange(r)' <= gap'
  BY CacheThen DEF CachesFollow, Quiet
<1>1. LastChange(r)' = LastChange(r) /\ LastChange(r) \in Int
  BY SameLog, LogFacts DEF Quiet
<1>2. Tracked(r)
  BY <1>1 DEF Quiet, Tracked, Cached
<1>3. Pending(LastChange(r)) => PendingThen(LastChange(r))
  BY <1>1, QuietKeepsPending DEF StillPending
<1>. QED BY <1>1, <1>2, <1>3 DEF CachesFollow

(* A page of another table is as it was, and so is what will be served to it, *)
(* what is coming and who hears of it.                                      *)
SignalledThen(table) ==
  \/ current' # 0 /\ wal'[current'].row \in table
  \/ \E n \in 1 .. Len(signals') : signals'[n] \in table
  \/ \E n \in 1 .. Len(inbox') : inbox'[n] \in table

LEMMA PageThen ==
  ASSUME \A r \in (User \union Org) \ unheard' : page'[r] # Served(r)' =>
           \/ SignalledThen(TableOf(r))
           \/ r \in Org /\ (slot' = NoSlot \/ PendingThen(LastChange(r)') \/ LastChange(r)' <= gap')
  PROVE  PagesFollow'
BY DEF PagesFollow, Pending, PendingThen, Signalled, SignalledThen, TableOf

LEMMA SameServed ==
  ASSUME wal' = wal, cache' = cache, NEW r
  PROVE  Served(r)' = Served(r)
BY SameLog DEF Served

LEMMA QuietKeepsPages ==
  ASSUME TypeOK, TypeOK', Quiet, PagesFollow, page' = page, unheard \subseteq unheard',
         \A r \in User : r \notin unheard' => Served(r)' = Served(r),
         gap' = gap, \A r \in User \union Org : Signalled(TableOf(r)) => SignalledThen(TableOf(r)) \/ r \in unheard'
  PROVE  PagesFollow'
<1>. SUFFICES ASSUME NEW r \in (User \union Org) \ unheard', page'[r] # Served(r)'
     PROVE  \/ SignalledThen(TableOf(r))
            \/ r \in Org /\ (slot' = NoSlot \/ PendingThen(LastChange(r)') \/ LastChange(r)' <= gap')
  BY PageThen
<1>1. /\ LastChange(r)' = LastChange(r) /\ LastChange(r) \in Int
      /\ InDatabase(r)' = InDatabase(r)
  BY SameLog, LogFacts DEF Quiet, Row
<1>2. Pending(LastChange(r)) => PendingThen(LastChange(r))
  BY <1>1, QuietKeepsPending DEF StillPending
<1>3. Served(r)' = Served(r)
  BY <1>1 DEF Served
<1>. QED BY <1>1, <1>2, <1>3 DEF PagesFollow, Quiet

LEMMA QuietKeepsInv ==
  ASSUME Inv, TypeOK', Bounded', Quiet, LoadedFirst', gap' = gap, cache' = cache, page' = page,
         unheard \subseteq unheard',
         \A r \in User \union Org : Signalled(TableOf(r)) => SignalledThen(TableOf(r)) \/ r \in unheard'
  PROVE  Inv'
<1>1. \A r \in User : Served(r)' = Served(r)
  BY SameServed DEF Quiet
<1>. QED BY <1>1, QuietKeepsStream, QuietKeepsCaches, QuietKeepsPages DEF Inv

-----------------------------------------------------------------------------
(* Types and bounds.                                                         *)

TypesThen == TypeOK' /\ Bounded'

LEMMA CommitTypes ==
  ASSUME TypeOK, Bounded, NEW r \in Row, NEW op \in Op, Commit(r, op)
  PROVE  TypesThen
<1>1. /\ wal' \in Seq(Change) /\ Len(wal') = Len(wal) + 1 /\ Len(wal) \in Nat
      /\ Len(wal') <= MaxChanges
  BY LongerLogFacts DEF Commit, TypeOK
<1>2. queue' \in Seq(1 .. Len(wal'))
  BY <1>1, LongerLog DEF Commit, TypeOK
<1>3. TypeOK'
  BY <1>1, <1>2 DEF Commit, TypeOK, process, stream, pages
<1>4. Bounded'
  <2>1. Handed' = Handed
    BY DEF Commit, Handed
  <2>. QED BY <1>1, <2>1 DEF Commit, Bounded, TypeOK, stream, NoSlot, NoAck, Position
<1>. QED BY <1>3, <1>4 DEF TypesThen

LEMMA ProcessTypes ==
  ASSUME TypeOK, Bounded,
         Confirm \/ (\E t \in InMemory : Load(t)) \/ StartCdc \/ Restart \/ CreateSlot
  PROVE  TypesThen
<1>1. CASE Confirm
  BY <1>1 DEF Confirm, TypesThen, TypeOK, Bounded, process, stream, pages, NoSlot, NoAck, Handed, Position
<1>2. ASSUME NEW t \in InMemory, Load(t) PROVE TypesThen
  <2>1. cache' \in [Row -> Position \union {Absent}]
    BY <1>2, LogFacts DEF Load, TypeOK
  <2>2. TypeOK'
    BY <1>2, <2>1 DEF Load, TypeOK, stream, pages
  <2>. QED BY <1>2, <2>2 DEF TypesThen, Load, Bounded, Handed, stream
<1>3. CASE StartCdc
  BY <1>3 DEF StartCdc, TypesThen, TypeOK, Bounded, stream, pages, Handed
<1>4. CASE Restart
  <2>1. cache' \in [Row -> Position \union {Absent}]
    BY <1>4 DEF Restart
  <2>2. /\ queue' \in Seq(1 .. Len(wal')) /\ Len(queue') = 0
        /\ signals' \in Seq(Row) /\ Len(signals') = 0
        /\ inbox' \in Seq(Row) /\ Len(inbox') = 0
    BY <1>4 DEF Restart
  <2>3. TypeOK'
    <3>1. up' \in BOOLEAN /\ listening' \in BOOLEAN /\ midway' \in BOOLEAN
      BY <1>4, Zenon DEF Restart, TypeOK
    <3>. QED BY <1>4, <2>1, <2>2, <3>1 DEF Restart, TypeOK
  <2>. QED BY <1>4, <2>3 DEF Restart, TypesThen, TypeOK, Bounded, NoSlot, NoAck, Handed
<1>5. CASE CreateSlot
  BY <1>5 DEF CreateSlot, TypesThen, TypeOK, Bounded, stream, pages, NoSlot, NoAck, Handed, Position
<1>. QED BY <1>1, <1>2, <1>3, <1>4, <1>5

LEMMA ListenerTypes ==
  ASSUME TypeOK, Bounded,
         \/ Connect \/ ReadChange \/ ReadCommit \/ SendStatus \/ Enqueue
         \/ LoseConnection \/ BackOff
  PROVE  TypesThen
<1>1. CASE Connect
  <2>1. slot \in 0 .. Len(wal)
    BY <1>1 DEF Connect, TypeOK, Bounded, NoSlot, NoAck, Position
  <2>2. TypeOK'
    <3>1. midway' \in BOOLEAN
      BY <1>1, Zenon DEF Connect
    <3>. QED BY <1>1, <2>1, <3>1 DEF Connect, TypeOK, process, pages
  <2>3. Handed' = Handed
    BY <1>1 DEF Connect, Handed
  <2>. QED BY <1>1, <2>1, <2>2, <2>3 DEF Connect, TypesThen, Bounded, NoSlot, NoAck
<1>2. CASE ReadChange
  <2>1. TypeOK'
    BY <1>2 DEF ReadChange, Reading, TypeOK, process, pages
  <2>. QED BY <1>2, <2>1 DEF ReadChange, Reading, TypesThen, Bounded, TypeOK
<1>3. CASE ReadCommit
  <2>1. TypeOK'
    <3>1. midway' \in BOOLEAN
      BY <1>3, Zenon DEF ReadCommit
    <3>. QED BY <1>3, <3>1 DEF ReadCommit, Reading, TypeOK, Bounded, process, pages
  <2>2. Handed' = Handed
    BY <1>3 DEF ReadCommit, Handed
  <2>. QED BY <1>3, <2>1, <2>2 DEF ReadCommit, Reading, TypesThen, Bounded, TypeOK, NoSlot, NoAck, Position
<1>4. CASE SendStatus
  BY <1>4 DEF SendStatus, Reading, TypesThen, TypeOK, Bounded, process, stream, pages, NoSlot, NoAck, Handed, Position
<1>5. CASE Enqueue
  <2>1. /\ queue' \in Seq(1 .. Len(wal)) /\ Len(queue') <= QueueSize
    BY <1>5, AppendElements DEF Enqueue, TypeOK
  <2>2. TypeOK'
    BY <1>5, <2>1 DEF Enqueue, Listening, TypeOK, process, stream, pages
  <2>3. Handed' = Handed
    BY <1>5 DEF Enqueue, Handed
  <2>. QED BY <1>5, <2>2, <2>3 DEF Enqueue, Listening, TypesThen, Bounded, stream
<1>6. CASE LoseConnection
  BY <1>6 DEF LoseConnection, TypesThen, TypeOK, Bounded, process, pages, NoSlot, NoAck, Handed, Position
<1>7. CASE BackOff
  BY <1>7 DEF BackOff, TypesThen, TypeOK, Bounded, process, pages, NoSlot, NoAck, Handed, Position
<1>. QED BY <1>1, <1>2, <1>3, <1>4, <1>5, <1>6, <1>7

LEMMA ConsumerTypes ==
  ASSUME TypeOK, Bounded, Dispatch \/ Announce
  PROVE  TypesThen
<1>1. CASE Dispatch
  <2>. DEFINE i == Head(queue)
  <2>1. /\ i \in 1 .. Len(wal) /\ queue' \in Seq(1 .. Len(wal))
        /\ Len(queue') <= QueueSize
    <3>1. queue \in Seq(1 .. Len(wal)) /\ queue # <<>> /\ queue' = Tail(queue) /\ Len(queue) <= QueueSize
      BY <1>1 DEF Dispatch, TypeOK
    <3>2. /\ Head(queue) \in 1 .. Len(wal) /\ Tail(queue) \in Seq(1 .. Len(wal))
          /\ Len(queue) \in Nat \ {0} /\ Len(Tail(queue)) = Len(queue) - 1
      BY <3>1, TailElements
    <3>. QED BY <3>1, <3>2
  <2>2. i \in Position
    <3>1. Len(wal) \in Nat /\ Len(wal) <= MaxChanges
      BY DEF TypeOK
    <3>2. i \in 1 .. Len(wal)
      BY <2>1
    <3>. HIDE DEF i
    <3>. QED BY <3>1, <3>2, CdcAssumption DEF Position
  <2>3. cache' = cache \/ cache' = [cache EXCEPT ![wal[i].row] = i]
    BY <1>1 DEF Dispatch
  <2>4. cache' \in [Row -> Position \union {Absent}]
    BY <2>2, <2>3 DEF TypeOK
  <2>5. current' \in 0 .. Len(wal)
    BY <1>1, <2>1 DEF Dispatch
  <2>. HIDE DEF i
  <2>6. TypeOK'
    BY <1>1, <2>1, <2>4, <2>5 DEF Dispatch, TypeOK, process, stream, pages
  <2>7. Handed # <<>>
    BY <1>1, HandedFacts DEF Dispatch
  <2>. QED BY <1>1, <2>6, <2>7 DEF Dispatch, TypesThen, Bounded, stream
<1>2. CASE Announce
  <2>1. current \in 1 .. Len(wal)
    BY <1>2 DEF Announce, TypeOK
  <2>2. signals' \in Seq(Row) /\ Len(signals') <= SignalSize
    BY <1>2, <2>1, EntryNamesRow, AppendElements DEF Announce, TypeOK
  <2>3. TypeOK'
    BY <1>2, <2>2 DEF Announce, TypeOK, process, stream, pages
  <2>. QED BY <1>2, <2>3 DEF Announce, TypesThen, Bounded, Handed, stream
<1>. QED BY <1>1, <1>2

LEMMA PageTypes ==
  ASSUME TypeOK, Bounded, FanOut \/ Refetch \/ LoseEvents \/ Resubscribe \/ Visit
  PROVE  TypesThen
<1>1. /\ signals # <<>> =>
           /\ Head(signals) \in Row /\ Tail(signals) \in Seq(Row)
           /\ Len(Tail(signals)) <= SignalSize
      /\ inbox # <<>> =>
           /\ Head(inbox) \in Row /\ Tail(inbox) \in Seq(Row)
           /\ Len(Tail(inbox)) <= InboxSize
  BY TailElements DEF TypeOK
<1>2. \A r \in Row : Served(r) \in Position \union {Absent}
  BY LogFacts DEF Served, TypeOK
<1>3. \A n \in 1 .. Len(inbox) : inbox[n] \in Row /\ TableOf(inbox[n]) \subseteq Row
  BY TableIs DEF TypeOK
<1>4. CASE FanOut
  <2>1. TableOf(Head(signals)) \subseteq Row
    BY <1>1, <1>4, TableIs DEF FanOut
  <2>2. unheard' \subseteq Row
    BY <1>4, <2>1 DEF FanOut, TypeOK
  <2>3. inbox' \in Seq(Row) /\ Len(inbox') <= InboxSize
    <3>1. /\ Head(signals) \in Row /\ inbox \in Seq(Row) /\ Len(inbox) <= InboxSize
          /\ inbox' = inbox \/ (inbox' = Append(inbox, Head(signals)) /\ Len(inbox) < InboxSize)
      BY <1>1, <1>4 DEF FanOut, TypeOK
    <3>2. /\ Append(inbox, Head(signals)) \in Seq(Row) /\ Len(inbox) \in Nat
          /\ Len(Append(inbox, Head(signals))) = Len(inbox) + 1
      BY <3>1, AppendElements
    <3>. QED BY <3>1, <3>2
  <2>4. TypeOK'
    BY <1>1, <1>4, <2>2, <2>3 DEF FanOut, TypeOK, process, stream
  <2>. QED BY <1>4, <2>4 DEF FanOut, TypesThen, Bounded, Handed, stream
<1>5. CASE Refetch
  <2>1. page' \in [Row -> Position \union {Absent}]
    BY <1>2, <1>5 DEF Refetch, TypeOK
  <2>2. unheard' \subseteq Row
    BY <1>5 DEF Refetch, TypeOK
  <2>3. TypeOK'
    BY <1>1, <1>5, <2>1, <2>2 DEF Refetch, TypeOK, process, stream
  <2>. QED BY <1>5, <2>3 DEF Refetch, TypesThen, Bounded, Handed, stream
<1>6. CASE LoseEvents
  <2>1. listening' \in BOOLEAN
    BY <1>6, Zenon DEF LoseEvents
  <2>2. unheard' \subseteq Row
    BY <1>3, <1>6 DEF LoseEvents, TypeOK
  <2>3. inbox' \in Seq(Row) /\ Len(inbox') <= InboxSize
    BY <1>6 DEF LoseEvents
  <2>4. TypeOK'
    BY <1>6, <2>1, <2>2, <2>3 DEF LoseEvents, TypeOK, process, stream
  <2>. QED BY <1>6, <2>4 DEF LoseEvents, TypesThen, Bounded, Handed, stream
<1>7. CASE Resubscribe
  BY <1>7 DEF Resubscribe, TypesThen, TypeOK, Bounded, Handed, process, stream
<1>8. CASE Visit
  <2>1. page' \in [Row -> Position \union {Absent}]
    BY <1>2, <1>8 DEF Visit
  <2>2. TypeOK'
    BY <1>8, <2>1 DEF Visit, TypeOK, process, stream
  <2>. QED BY <1>8, <2>2 DEF Visit, TypesThen, Bounded, Handed, stream
<1>. QED BY <1>4, <1>5, <1>6, <1>7, <1>8

-----------------------------------------------------------------------------
(* The steps.                                                                *)

(* The new change of r lies ahead of the stream. *)
LEMMA CommitKeepsInv ==
  ASSUME Inv, NEW r \in Row, NEW op \in Op, Commit(r, op)
  PROVE  Inv'
<1>. USE DEF Inv
<1>1. TypeOK' /\ Bounded'
  BY CommitTypes DEF TypesThen
<1>2. /\ Len(wal') = Len(wal) + 1 /\ Len(wal) \in Nat
      /\ LastChange(r)' = Len(wal) + 1
      /\ \A s \in Row \ {r} : LastChange(s)' = LastChange(s) /\ InDatabase(s)' = InDatabase(s)
      /\ \A i \in 1 .. Len(wal) : wal'[i] = wal[i]
  BY LongerLogFacts DEF Commit
<1>3. At' = At /\ Handed' = Handed /\ At \in Int
  BY AtIsNumber DEF Commit, At, Handed, stream
<1>4. At <= Len(wal)
  BY DEF At, Bounded, TypeOK
<1>5. PendingThen(LastChange(r)')
  BY <1>2, <1>3, <1>4 DEF PendingThen
<1>6. \A s \in Row \ {r} : Pending(LastChange(s)) => PendingThen(LastChange(s)')
  BY <1>2, <1>3 DEF Pending, PendingThen
<1>7. NoHoles' /\ Behind'
  BY <1>3 DEF NoHoles, Behind
<1>8. CachesFollow'
  <2>. SUFFICES ASSUME NEW s \in Row \ {r}, slot # NoSlot, Tracked(s)'
       PROVE  \/ cache'[s] = LastChange(s)'
              \/ PendingThen(LastChange(s)')
              \/ LastChange(s)' <= gap'
    BY <1>5, CacheThen DEF CachesFollow, Commit
  <2>1. LastChange(s) \in 0 .. Len(wal)
    BY LogFacts
  <2>2. Tracked(s)
    BY <1>2, <2>1 DEF Tracked, Cached, Commit
  <2>. QED BY <1>2, <1>6, <2>2 DEF CachesFollow, Commit, process
<1>9. PagesFollow'
  <2>. SUFFICES ASSUME NEW q \in (User \union Org) \ unheard, page[q] # Served(q)'
       PROVE  \/ SignalledThen(TableOf(q))
              \/ q \in Org /\ (slot' = NoSlot \/ PendingThen(LastChange(q)') \/ LastChange(q)' <= gap)
    BY PageThen DEF Commit, pages, process
  <2>1. q \in Row
    BY DEF Row
  <2>2. Signalled(TableOf(q)) => SignalledThen(TableOf(q))
    BY <1>2 DEF Signalled, SignalledThen, Commit, TypeOK, pages
  <2>3. CASE q = r
    <3>1. CASE q \in Org
      BY <1>5, <2>3, <3>1
    <3>2. CASE q \notin Org
      <4>1. Served(q)' = Served(q)
        BY <3>2 DEF Served, Commit
      <4>. QED BY <2>2, <3>2, <4>1 DEF PagesFollow
    <3>. QED BY <3>1, <3>2
  <2>4. CASE q # r
    <3>1. q \in Row \ {r}
      BY <2>1, <2>4
    <3>2. Served(q)' = Served(q)
      BY <1>2, <3>1 DEF Served, Commit
    <3>. QED BY <1>2, <1>6, <2>2, <3>1, <3>2 DEF PagesFollow, Commit
  <2>. QED BY <2>3, <2>4
<1>10. LoadedFirst'
  BY DEF LoadedFirst, Commit, process, pages
<1>. QED BY <1>1, <1>7, <1>8, <1>9, <1>10

(* What reads and commits, a lost connection and a status update do to the   *)
(* place where the stream would go on: it stays, or falls back.             *)
LEMMA StreamIsQuiet ==
  ASSUME TypeOK, Bounded,
         \/ Confirm \/ Connect \/ ReadCommit \/ SendStatus \/ LoseConnection \/ BackOff
  PROVE  Quiet
<1>1. At \in Int /\ Len(wal) \in Nat
  BY AtIsNumber DEF TypeOK
<1>2. CASE Confirm
  <2>1. Handed' = Handed /\ wal' = wal
    BY <1>2 DEF Confirm, Handed
  <2>2. At' <= At
    BY <1>1, <1>2 DEF Confirm, At, stream, TypeOK, Bounded, Position, NoSlot, NoAck
  <2>3. slot # NoSlot /\ slot' # NoSlot
    BY <1>2 DEF Confirm, TypeOK, Bounded, NoSlot, NoAck
  <2>. QED BY <2>1, <2>2, <2>3 DEF Quiet
<1>3. CASE Connect
  <2>1. At' = slot /\ slot <= At
    BY <1>1, <1>3 DEF Connect, At, TypeOK, Bounded, Position, NoSlot, NoAck
  <2>. QED BY <1>1, <1>3, <2>1 DEF Connect, Quiet, Handed
<1>4. CASE ReadCommit
  <2>1. At' = next + 1 /\ At = next + 1
    BY <1>4 DEF ReadCommit, Reading, At
  <2>. QED BY <1>1, <1>4, <2>1 DEF ReadCommit, Quiet, Handed
<1>5. CASE SendStatus
  <2>1. At' = At
    BY <1>5 DEF SendStatus, Reading, At, stream
  <2>. QED BY <1>1, <1>5, <2>1 DEF SendStatus, Quiet, Handed
<1>6. CASE LoseConnection
  <2>1. At' = IF ack > slot THEN ack ELSE slot
    BY <1>6 DEF LoseConnection, At
  <2>2. next <= At /\ ack <= next /\ slot <= next
    BY <1>6 DEF LoseConnection, At, TypeOK, Bounded
  <2>3. slot \in Int /\ next \in Int /\ ack \in Int
    BY DEF TypeOK, Position, NoSlot, NoAck
  <2>. QED BY <1>1, <1>6, <2>1, <2>2, <2>3 DEF LoseConnection, Quiet, Handed
<1>7. CASE BackOff
  <2>1. At' = At
    BY <1>7 DEF BackOff, At
  <2>. QED BY <1>1, <1>7, <2>1 DEF BackOff, Quiet, Handed
<1>. QED BY <1>2, <1>3, <1>4, <1>5, <1>6, <1>7

LEMMA StreamKeepsInv ==
  ASSUME Inv,
         \/ Confirm \/ Connect \/ ReadCommit \/ SendStatus \/ LoseConnection \/ BackOff
  PROVE  Inv'
<1>1. TypeOK' /\ Bounded'
  BY ProcessTypes, ListenerTypes DEF Inv, TypesThen
<1>2. Quiet
  BY StreamIsQuiet DEF Inv
<1>3. /\ gap' = gap /\ cache' = cache /\ pages' = pages /\ process' = process
      /\ wal' = wal /\ current' = current /\ signals' = signals
  BY DEF Confirm, Connect, ReadCommit, SendStatus, LoseConnection, BackOff, process
<1>4. \A r \in User \union Org : Signalled(TableOf(r)) => SignalledThen(TableOf(r))
  BY <1>3 DEF Signalled, SignalledThen, pages
<1>5. LoadedFirst'
  BY <1>3 DEF Inv, LoadedFirst, process, pages
<1>. QED BY <1>1, <1>2, <1>3, <1>4, <1>5, QuietKeepsInv DEF pages

(* The change moves from the listener's hand into the channel, a signal from *)
(* the consumer's hand into the next and on into the buffer; a process       *)
(* starts its tasks; pages are cut off or come back.                        *)
LEMMA HandOverKeepsInv ==
  ASSUME Inv, Enqueue \/ Announce \/ StartCdc \/ FanOut \/ LoseEvents \/ Resubscribe
  PROVE  Inv'
<1>1. TypeOK' /\ Bounded'
  BY ProcessTypes, ListenerTypes, ConsumerTypes, PageTypes DEF Inv, TypesThen
<1>2. /\ gap' = gap /\ cache' = cache /\ page' = page /\ unheard \subseteq unheard'
      /\ wal' = wal /\ slot' = slot /\ ack' = ack /\ stream' = stream
  BY DEF Enqueue, Listening, Announce, StartCdc, FanOut, LoseEvents, Resubscribe, process, pages
<1>3. Handed' = Handed
  BY DEF Enqueue, Announce, StartCdc, FanOut, LoseEvents, Resubscribe, Handed
<1>4. At' = At /\ At \in Int
  BY <1>2, AtIsNumber DEF At, stream, Inv
<1>5. LoadedFirst'
  <2>1. unheard' \subseteq Row
    BY <1>1 DEF TypeOK
  <2>2. loaded' = loaded /\ (up' = up \/ (up' /\ loaded = InMemory))
    BY DEF Enqueue, Listening, Announce, StartCdc, FanOut, LoseEvents, Resubscribe, process
  <2>. QED BY <1>2, <2>1, <2>2 DEF Inv, LoadedFirst
<1>6. ASSUME NEW r \in User \union Org, Signalled(TableOf(r))
      PROVE  SignalledThen(TableOf(r)) \/ r \in unheard'
  <2>. DEFINE table == TableOf(r)
  <2>0. r \in Row /\ r \in table /\ \A q \in Row : q \in table => TableOf(q) = table
    <3>1. r \in Row /\ r \in table /\ \A q \in table : TableOf(q) = table
      BY TableIs DEF Row
    <3>. QED BY <3>1
  <2>. HIDE DEF table
  <2>1. CASE Announce
    <3>1. /\ current \in 1 .. Len(wal) /\ signals \in Seq(Row) /\ wal[current].row \in Row
          /\ signals' = Append(signals, wal[current].row) /\ inbox' = inbox
      BY <2>1, EntryNamesRow DEF Announce, TypeOK, Inv, pages
    <3>2. /\ Len(signals) \in Nat /\ Len(signals') = Len(signals) + 1
          /\ signals'[Len(signals) + 1] = wal[current].row
          /\ \A n \in 1 .. Len(signals) : signals'[n] = signals[n]
      BY <3>1, AppendElements
    <3>. QED BY <1>6, <3>1, <3>2 DEF Signalled, SignalledThen
  <2>2. CASE FanOut
    <3>1. /\ signals \in Seq(Row) /\ signals # <<>> /\ signals' = Tail(signals) /\ inbox \in Seq(Row)
          /\ current' = current /\ wal' = wal
      BY <2>2 DEF FanOut, TypeOK, Inv
    <3>2. /\ Head(signals) \in Row /\ Head(signals) = signals[1]
          /\ Len(signals) \in Nat \ {0} /\ Len(signals') = Len(signals) - 1
          /\ \A n \in 1 .. Len(signals) - 1 : signals'[n] = signals[n + 1]
      BY <3>1, TailElements
    <3>3. ASSUME NEW n \in 1 .. Len(signals), n # 1
          PROVE  \E m \in 1 .. Len(signals') : signals'[m] = signals[n]
      <4>1. n - 1 \in 1 .. Len(signals) - 1 /\ (n - 1) + 1 = n
        BY <3>2, <3>3
      <4>. QED BY <3>2, <4>1
    <3>4. CASE inbox' = Append(inbox, Head(signals))
      <4>1. /\ Len(inbox) \in Nat /\ Len(inbox') = Len(inbox) + 1
            /\ inbox'[Len(inbox) + 1] = Head(signals)
            /\ \A n \in 1 .. Len(inbox) : inbox'[n] = inbox[n]
        BY <3>1, <3>2, <3>4, AppendElements
      <4>2. ASSUME NEW n \in 1 .. Len(signals), signals[n] \in table
            PROVE  SignalledThen(table)
        <5>1. CASE n = 1
          BY <3>2, <4>1, <4>2, <5>1 DEF SignalledThen
        <5>2. CASE n # 1
          BY <3>3, <4>2, <5>2 DEF SignalledThen
        <5>. QED BY <5>1, <5>2
      <4>3. ASSUME NEW n \in 1 .. Len(inbox), inbox[n] \in table
            PROVE  SignalledThen(table)
        BY <4>1, <4>3 DEF SignalledThen
      <4>. QED BY <1>6, <3>1, <4>2, <4>3 DEF Signalled, SignalledThen, table
    <3>5. CASE inbox' = inbox /\ unheard' = unheard \union TableOf(Head(signals))
      <4>1. Head(signals) \in table => r \in unheard'
        BY <2>0, <3>2, <3>5
      <4>. QED BY <1>6, <3>1, <3>2, <3>3, <3>5, <4>1 DEF Signalled, SignalledThen, table
    <3>. QED BY <2>2, <3>4, <3>5 DEF FanOut
  <2>3. CASE LoseEvents
    <3>1. \A n \in 1 .. Len(inbox) : inbox[n] \in Row
      BY DEF Inv, TypeOK
    <3>2. unheard' = unheard \union UNION {TableOf(inbox[n]) : n \in 1 .. Len(inbox)}
      BY <2>3 DEF LoseEvents
    <3>3. ASSUME NEW n \in 1 .. Len(inbox), inbox[n] \in table PROVE r \in unheard'
      BY <2>0, <3>1, <3>2, <3>3
    <3>. QED BY <1>6, <2>3, <3>3 DEF LoseEvents, Signalled, SignalledThen, table
  <2>4. CASE Enqueue \/ StartCdc \/ Resubscribe
    BY <1>2, <1>6, <2>4 DEF Signalled, SignalledThen, Enqueue, Listening, StartCdc, Resubscribe, pages
  <2>. QED BY <2>1, <2>2, <2>3, <2>4
<1>7. Quiet
  BY <1>2, <1>3, <1>4 DEF Quiet
<1>. QED BY <1>1, <1>2, <1>5, <1>6, <1>7, QuietKeepsInv

(* A table just read is in memory what it is in the database. *)
LEMMA LoadKeepsInv ==
  ASSUME Inv, NEW t \in InMemory, Load(t)
  PROVE  Inv'
<1>1. TypeOK' /\ Bounded' /\ TypeOK
  BY ProcessTypes DEF Inv, TypesThen
<1>2. Quiet
  <2>1. At' = At /\ At \in Int
    BY <1>1, AtIsNumber DEF Load, At, stream
  <2>. QED BY <2>1 DEF Load, Quiet, Handed
<1>3. NoHoles' /\ Behind' /\ StillPending
  BY <1>1, <1>2, QuietKeepsStream, QuietKeepsPending DEF Inv
<1>4. PagesFollow' /\ LoadedFirst'
  <2>1. ~ up /\ unheard = Row
    BY DEF Load, Inv, LoadedFirst
  <2>2. unheard' = Row /\ up' = up
    BY <2>1 DEF Load, pages
  <2>. QED BY <2>1, <2>2 DEF PagesFollow, LoadedFirst, Row
<1>5. CachesFollow'
  <2>. SUFFICES ASSUME slot # NoSlot, NEW r \in Row, Tracked(r)'
       PROVE  \/ cache'[r] = LastChange(r)'
              \/ PendingThen(LastChange(r)')
              \/ LastChange(r)' <= gap'
    BY CacheThen DEF Load, CachesFollow
  <2>1. LastChange(r)' = LastChange(r) /\ LastChange(r) \in 0 .. Len(wal) /\ wal' = wal
    BY <1>1, SameLog, LogFacts DEF Load
  <2>2. CASE r \in t
    <3>1. cache'[r] = InDatabase(r)
      BY <2>2 DEF Load
    <3>2. InDatabase(r) = LastChange(r)
      BY <1>1, <2>1, LogFacts DEF Tracked
    <3>. QED BY <2>1, <3>1, <3>2
  <2>3. CASE r \notin t
    <3>1. cache'[r] = cache[r]
      BY <2>3 DEF Load
    <3>2. Tracked(r)
      BY <2>1, <3>1 DEF Tracked, Cached
    <3>3. Pending(LastChange(r)) => PendingThen(LastChange(r))
      BY <1>3, <2>1 DEF StillPending
    <3>. QED BY <2>1, <3>1, <3>2, <3>3 DEF Inv, CachesFollow, Load
  <2>. QED BY <2>2, <2>3
<1>. QED BY <1>1, <1>3, <1>4, <1>5 DEF Inv

(* Nothing is in memory, and every page may have missed something. *)
LEMMA RestartKeepsInv == ASSUME Inv, Restart PROVE Inv'
<1>1. TypeOK' /\ Bounded'
  BY ProcessTypes DEF Inv, TypesThen
<1>2. Handed' = <<>> /\ Len(<<>>) = 0
  BY DEF Restart, Handed
<1>3. \A r \in Row : ~ Tracked(r)'
  BY DEF Restart, Tracked, Cached
<1>4. unheard' = Row /\ ~ up'
  BY DEF Restart
<1>. QED BY <1>1, <1>2, <1>3, <1>4 DEF Inv, NoHoles, Behind, CachesFollow, PagesFollow, LoadedFirst, Row

(* Everything committed so far lies before the slot. *)
LEMMA CreateSlotKeepsInv == ASSUME Inv, CreateSlot PROVE Inv'
<1>1. TypeOK' /\ Bounded' /\ TypeOK
  BY ProcessTypes DEF Inv, TypesThen
<1>2. Handed' = <<>> /\ Len(<<>>) = 0
  BY DEF CreateSlot, Handed, Inv, Bounded
<1>3. \A r \in Row : LastChange(r)' <= gap'
  BY <1>1, SameLog, LogFacts DEF CreateSlot
<1>4. PagesFollow'
  <2>. SUFFICES ASSUME NEW r \in (User \union Org) \ unheard, page[r] # Served(r)'
       PROVE  SignalledThen(TableOf(r)) \/ (r \in Org /\ LastChange(r)' <= gap')
    BY PageThen DEF CreateSlot, pages
  <2>1. Served(r)' = Served(r)
    BY SameServed DEF CreateSlot
  <2>2. Signalled(TableOf(r)) => SignalledThen(TableOf(r))
    BY DEF CreateSlot, pages, Signalled, SignalledThen
  <2>. QED BY <1>3, <2>1, <2>2 DEF Inv, PagesFollow, Row
<1>5. LoadedFirst'
  BY DEF CreateSlot, pages, Inv, LoadedFirst
<1>. QED BY <1>1, <1>2, <1>3, <1>4, <1>5 DEF Inv, NoHoles, Behind, CachesFollow

(* A page whose query is answered shows what is served.                      *)
LEMMA AnswerKeepsInv == ASSUME Inv, Refetch \/ Visit PROVE Inv'
<1>1. TypeOK' /\ Bounded' /\ TypeOK
  BY PageTypes DEF Inv, TypesThen
<1>2. /\ gap' = gap /\ cache' = cache /\ wal' = wal /\ slot' = slot /\ current' = current
      /\ signals' = signals /\ Handed' = Handed /\ At' = At /\ At \in Int
  BY <1>1, AtIsNumber DEF Refetch, Visit, process, stream, At, Handed
<1>3. Quiet
  BY <1>2 DEF Quiet
<1>4. NoHoles' /\ Behind' /\ CachesFollow' /\ StillPending
  BY <1>1, <1>2, <1>3, QuietKeepsStream, QuietKeepsCaches, QuietKeepsPending DEF Inv
<1>5. LoadedFirst'
  BY DEF Refetch, Visit, process, Inv, LoadedFirst
<1>6. CASE Visit
  <2>1. \A r \in User \union Org : page'[r] = Served(r)'
    BY <1>2, <1>6, SameServed DEF Visit, Row
  <2>. QED BY <1>1, <1>4, <1>5, <2>1 DEF Inv, PagesFollow
<1>7. CASE Refetch
  <2>1. /\ inbox \in Seq(Row) /\ inbox # <<>> /\ inbox' = Tail(inbox)
    BY <1>1, <1>7 DEF Refetch, TypeOK
  <2>2. /\ Head(inbox) \in Row /\ Head(inbox) = inbox[1]
        /\ Len(inbox) \in Nat \ {0} /\ Len(inbox') = Len(inbox) - 1
        /\ \A n \in 1 .. Len(inbox) - 1 : inbox'[n] = inbox[n + 1]
    BY <2>1, TailElements
  <2>. SUFFICES ASSUME NEW r \in (User \union Org) \ unheard', page'[r] # Served(r)'
       PROVE  \/ SignalledThen(TableOf(r))
              \/ r \in Org /\ (slot = NoSlot \/ PendingThen(LastChange(r)') \/ LastChange(r)' <= gap)
    BY <1>1, <1>2, <1>4, <1>5, PageThen DEF Inv
  <2>. DEFINE table == TableOf(Head(inbox))
  <2>3. /\ LastChange(r)' = LastChange(r) /\ LastChange(r) \in Int /\ Served(r)' = Served(r) /\ r \in Row
    BY <1>1, <1>2, SameLog, SameServed, LogFacts DEF Row
  <2>4. Pending(LastChange(r)) => PendingThen(LastChange(r))
    BY <1>4, <2>3 DEF StillPending
  <2>5. r \notin table /\ page'[r] = page[r] /\ r \notin unheard
    BY <1>7, <2>3 DEF Refetch
  <2>6. Head(inbox) \notin TableOf(r)
    BY <2>2, <2>3, <2>5, TableIs
  <2>7. Signalled(TableOf(r)) => SignalledThen(TableOf(r))
    <3>1. ASSUME NEW n \in 1 .. Len(inbox), inbox[n] \in TableOf(r)
          PROVE  \E m \in 1 .. Len(inbox') : inbox'[m] \in TableOf(r)
      <4>1. n - 1 \in 1 .. Len(inbox) - 1 /\ (n - 1) + 1 = n
        BY <2>2, <2>6, <3>1
      <4>. QED BY <2>2, <3>1, <4>1
    <3>. QED BY <1>2, <3>1 DEF Signalled, SignalledThen
  <2>. HIDE DEF table
  <2>. QED BY <2>3, <2>4, <2>5, <2>7 DEF Inv, PagesFollow
<1>. QED BY <1>6, <1>7

(* The change read goes behind what was handed on, and leaves no hole. *)
LEMMA ReadChangeKeepsInv == ASSUME Inv, ReadChange PROVE Inv'
<1>1. TypeOK' /\ Bounded' /\ TypeOK
  BY ListenerTypes DEF Inv, TypesThen
<1>2. /\ At = next /\ At' = next + 1 /\ next \in Nat
      /\ Handed = queue /\ Handed' = Append(queue, next + 1)
      /\ next + 1 \in 1 .. Len(wal) /\ queue \in Seq(1 .. Len(wal))
  <2>1. next \in 0 .. Len(wal) /\ Len(wal) \in Nat /\ queue \in Seq(1 .. Len(wal))
    BY <1>1 DEF TypeOK
  <2>2. /\ conn = "streaming" /\ held = 0 /\ ~ midway /\ next < Len(wal)
        /\ midway' /\ held' = next + 1 /\ conn' = conn /\ next' = next /\ queue' = queue
    BY DEF ReadChange, Reading
  <2>. QED BY <2>1, <2>2 DEF At, Handed
<1>3. /\ Handed' # <<>> /\ Len(queue) \in Nat /\ Len(Handed') = Len(queue) + 1
      /\ Handed'[Len(queue) + 1] = next + 1
      /\ \A n \in 1 .. Len(queue) : Handed'[n] = queue[n]
  BY <1>2, AppendElements
<1>4. Behind'
  BY <1>2, <1>3 DEF Behind
<1>5. NoHoles'
  <2>. SUFFICES ASSUME NEW n \in 1 .. Len(queue)
       PROVE  Handed'[n + 1] <= Handed'[n] + 1
    BY <1>3 DEF NoHoles
  <2>0. queue[n] \in 1 .. Len(wal) /\ queue # <<>>
    BY <1>2
  <2>1. CASE n = Len(queue)
    BY <1>2, <1>3, <2>0, <2>1 DEF Inv, Behind
  <2>2. CASE n # Len(queue)
    <3>1. n \in 1 .. Len(queue) - 1 /\ n + 1 \in 1 .. Len(queue)
      BY <1>3, <2>2
    <3>. QED BY <1>2, <1>3, <3>1 DEF Inv, NoHoles
  <2>. QED BY <2>1, <2>2
<1>6. StillPending
  <2>. SUFFICES ASSUME NEW i \in Int, Pending(i) PROVE PendingThen(i)
    BY DEF StillPending
  <2>1. CASE i > next
    <3>1. i > next + 1 \/ i = next + 1
      BY <1>2, <2>1
    <3>. QED BY <1>2, <1>3, <3>1 DEF PendingThen
  <2>2. CASE \E n \in 1 .. Len(queue) : queue[n] = i
    BY <1>3, <2>2 DEF PendingThen
  <2>. QED BY <1>2, <2>1, <2>2 DEF Pending
<1>7. /\ slot' = slot /\ cache' = cache /\ gap' = gap /\ wal' = wal /\ page' = page /\ inbox' = inbox
      /\ unheard' = unheard /\ signals' = signals /\ current' = current /\ up' = up /\ loaded' = loaded
  BY DEF ReadChange, process, pages
<1>8. CachesFollow'
  <2>. SUFFICES ASSUME slot # NoSlot, NEW r \in Row, Tracked(r)'
       PROVE  \/ cache'[r] = LastChange(r)'
              \/ PendingThen(LastChange(r)')
              \/ LastChange(r)' <= gap'
    BY <1>7, CacheThen DEF CachesFollow
  <2>1. LastChange(r)' = LastChange(r) /\ LastChange(r) \in Int
    BY <1>1, <1>7, SameLog, LogFacts
  <2>2. Tracked(r)
    BY <1>7, <2>1 DEF Tracked, Cached
  <2>. QED BY <1>6, <1>7, <2>1, <2>2 DEF Inv, CachesFollow, StillPending
<1>9. PagesFollow'
  <2>. SUFFICES ASSUME NEW r \in (User \union Org) \ unheard, page[r] # Served(r)'
       PROVE  \/ SignalledThen(TableOf(r))
              \/ r \in Org /\ (slot = NoSlot \/ PendingThen(LastChange(r)') \/ LastChange(r)' <= gap)
    BY <1>7, PageThen
  <2>1. LastChange(r)' = LastChange(r) /\ LastChange(r) \in Int /\ Served(r)' = Served(r)
    BY <1>1, <1>7, SameLog, SameServed, LogFacts DEF Row
  <2>2. Signalled(TableOf(r)) => SignalledThen(TableOf(r))
    BY <1>7 DEF Signalled, SignalledThen
  <2>. QED BY <1>6, <2>1, <2>2 DEF Inv, PagesFollow, StillPending
<1>10. LoadedFirst'
  BY <1>7 DEF Inv, LoadedFirst
<1>. QED BY <1>1, <1>4, <1>5, <1>8, <1>9, <1>10 DEF Inv

LEMMA DispatchHandsOut ==
  ASSUME TypeOK, Dispatch
  PROVE  /\ Len(Handed) \in Nat \ {0} /\ Len(Handed') = Len(Handed) - 1
         /\ Handed[1] = Head(queue)
         /\ \A n \in 1 .. Len(Handed) - 1 : Handed'[n] = Handed[n + 1]
<1>1. Len(wal) \in Nat /\ queue \in Seq(1 .. Len(wal)) /\ held \in 0 .. Len(wal)
  BY DEF TypeOK
<1>2. /\ Head(queue) = queue[1] /\ Len(queue) \in Nat \ {0}
      /\ Tail(queue) \in Seq(1 .. Len(wal)) /\ Len(Tail(queue)) = Len(queue) - 1
      /\ \A n \in 1 .. Len(queue) - 1 : Tail(queue)[n] = queue[n + 1]
  BY <1>1, TailElements DEF Dispatch
<1>3. queue' = Tail(queue) /\ held' = held
  BY DEF Dispatch
<1>4. CASE held = 0
  BY <1>2, <1>3, <1>4 DEF Handed
<1>5. CASE held # 0
  <2>1. Handed = Append(queue, held) /\ Handed' = Append(Tail(queue), held) /\ held \in 1 .. Len(wal)
    BY <1>1, <1>3, <1>5 DEF Handed
  <2>2. /\ Len(Handed) = Len(queue) + 1 /\ Handed[Len(queue) + 1] = held
        /\ \A n \in 1 .. Len(queue) : Handed[n] = queue[n]
    BY <1>1, <2>1, AppendElements
  <2>3. /\ Len(Handed') = Len(queue) /\ Handed'[Len(queue)] = held
        /\ \A n \in 1 .. Len(queue) - 1 : Handed'[n] = Tail(queue)[n]
    <3>1. (Len(queue) - 1) + 1 = Len(queue)
      BY <1>2
    <3>. QED BY <1>2, <2>1, <3>1, AppendElements
  <2>4. ASSUME NEW n \in 1 .. Len(queue) PROVE Handed'[n] = Handed[n + 1]
    <3>1. CASE n = Len(queue)
      BY <2>2, <2>3, <3>1
    <3>2. CASE n # Len(queue)
      <4>1. Len(queue) \in Nat
        BY <1>2
      <4>2. n \in 1 .. Len(queue) - 1 /\ n + 1 \in 1 .. Len(queue)
        BY <3>2, <4>1
      <4>. QED BY <1>2, <2>2, <2>3, <4>2
    <3>. QED BY <3>1, <3>2
  <2>. QED BY <1>2, <2>2, <2>3, <2>4
<1>. QED BY <1>4, <1>5

(* What is later than a dispatched change is still to come, redelivered if   *)
(* it was dispatched before; what was to come still is, but for that change. *)
LEMMA DispatchLeavesPending ==
  ASSUME TypeOK, NoHoles, Behind, Dispatch
  PROVE  /\ \A h \in Nat : Head(queue) < h => PendingThen(h)
         /\ \A h \in Int : Pending(h) /\ h # Head(queue) => PendingThen(h)
         /\ NoHoles' /\ Behind'
<1>1. /\ Len(Handed) \in Nat \ {0} /\ Len(Handed') = Len(Handed) - 1
      /\ Handed[1] = Head(queue)
      /\ \A n \in 1 .. Len(Handed) - 1 : Handed'[n] = Handed[n + 1]
  BY DispatchHandsOut
<1>2. At' = At /\ At \in Int
  BY AtIsNumber DEF Dispatch, At, stream
<1>3. Handed \in Seq(Nat) /\ Handed # <<>>
  BY <1>1, HandedFacts DEF Dispatch
<1>4. ASSUME NEW n \in 2 .. Len(Handed) PROVE \E m \in 1 .. Len(Handed') : Handed'[m] = Handed[n]
  <2>1. n - 1 \in 1 .. Len(Handed) - 1 /\ (n - 1) + 1 = n
    BY <1>1, <1>4
  <2>. QED BY <1>1, <2>1
<1>5. ASSUME NEW h \in Nat, Head(queue) < h PROVE PendingThen(h)
  <2>1. CASE h > At
    BY <1>2, <2>1 DEF PendingThen
  <2>2. CASE ~ (h > At)
    <3>1. h <= Handed[Len(Handed)]
      <4>1. Handed[Len(Handed)] \in Nat
        BY <1>1, <1>3
      <4>. QED BY <1>2, <1>3, <2>2, <4>1 DEF Behind
    <3>2. \E n \in 2 .. Len(Handed) : Handed[n] = h
      BY <1>1, <1>3, <1>5, <3>1, NoHeightPassedOver DEF NoHoles
    <3>. QED BY <1>4, <3>2 DEF PendingThen
  <2>. QED BY <2>1, <2>2
<1>6. ASSUME NEW h \in Int, Pending(h), h # Head(queue) PROVE PendingThen(h)
  <2>1. CASE h > At
    BY <1>2, <2>1 DEF PendingThen
  <2>2. CASE \E n \in 1 .. Len(Handed) : Handed[n] = h
    <3>1. PICK n \in 1 .. Len(Handed) : Handed[n] = h
      BY <2>2
    <3>2. n \in 2 .. Len(Handed)
      BY <1>1, <1>6, <3>1
    <3>. QED BY <1>4, <3>1, <3>2 DEF PendingThen
  <2>. QED BY <1>6, <2>1, <2>2 DEF Pending
<1>7. NoHoles'
  <2>. SUFFICES ASSUME NEW n \in 1 .. Len(Handed') - 1 PROVE Handed'[n + 1] <= Handed'[n] + 1
    BY DEF NoHoles
  <2>1. n \in 1 .. Len(Handed) - 1 /\ n + 1 \in 1 .. Len(Handed) - 1
    BY <1>1
  <2>. QED BY <1>1, <2>1 DEF NoHoles
<1>8. Behind'
  <2>. SUFFICES ASSUME Handed' # <<>> PROVE At' <= Handed'[Len(Handed')]
    BY DEF Behind
  <2>1. Handed' \in Seq(Nat)
    BY ConsumerTypes, HandedFacts, SeqDef DEF TypesThen, Dispatch, Handed
  <2>2. Len(Handed') # 0
    BY <2>1
  <2>3. Len(Handed') \in 1 .. Len(Handed) - 1 /\ Len(Handed') + 1 = Len(Handed)
    BY <1>1, <2>2
  <2>4. Handed'[Len(Handed')] = Handed[Len(Handed)]
    BY <1>1, <2>3
  <2>. QED BY <1>2, <1>3, <2>4 DEF Behind
<1>. QED BY <1>5, <1>6, <1>7, <1>8

LEMMA DispatchKeepsInv == ASSUME Inv, Dispatch PROVE Inv'
<1>. DEFINE i == Head(queue)
            put == wal[i].op # "delete"
<1>1. TypeOK' /\ Bounded' /\ TypeOK
  BY ConsumerTypes DEF Inv, TypesThen
<1>2. /\ \A h \in Nat : i < h => PendingThen(h)
      /\ \A h \in Int : Pending(h) /\ h # i => PendingThen(h)
      /\ NoHoles' /\ Behind'
  BY DispatchLeavesPending DEF Inv
<1>3. i \in 1 .. Len(wal)
  BY TailElements DEF Inv, TypeOK, Dispatch
<1>4. wal[i].row \in Row /\ cache \in [Row -> Position \union {Absent}]
  BY <1>1, <1>3, EntryNamesRow DEF TypeOK
<1>5. /\ cache' = IF put /\ Cached(wal[i].row) THEN [cache EXCEPT ![wal[i].row] = i] ELSE cache
      /\ current = 0
      /\ current' = IF put /\ wal[i].row \in Price \union Fx THEN 0 ELSE i
      /\ slot' = slot /\ gap' = gap /\ wal' = wal /\ page' = page /\ inbox' = inbox
      /\ unheard' = unheard /\ signals' = signals /\ up' = up /\ loaded' = loaded
  BY DEF Dispatch, process, pages
<1>. HIDE DEF i
<1>6. CachesFollow'
  <2>. SUFFICES ASSUME slot # NoSlot, NEW r \in Row, Tracked(r)'
       PROVE  \/ cache'[r] = LastChange(r)'
              \/ PendingThen(LastChange(r)')
              \/ LastChange(r)' <= gap'
    BY <1>5, CacheThen DEF CachesFollow
  <2>1. /\ LastChange(r)' = LastChange(r) /\ LastChange(r) \in Nat
        /\ LastChange(r) # 0 => LastChange(r) \in 1 .. Len(wal) /\ wal[LastChange(r)].row = r
        /\ wal[i].row = r => i <= LastChange(r)
    BY <1>1, <1>3, <1>5, SameLog, LogFacts DEF ChangesOf
  <2>2. LastChange(r) > 0 /\ wal[LastChange(r)].op = "put" /\ cache'[r] # Absent
    BY <1>5, <2>1 DEF Tracked, Cached
  <2>3. CASE put /\ Cached(r) /\ wal[i].row = r
    <3>1. cache'[r] = i
      BY <1>4, <1>5, <2>3
    <3>2. i = LastChange(r) \/ i < LastChange(r)
      BY <1>3, <2>1, <2>3
    <3>. QED BY <1>2, <2>1, <3>1, <3>2
  <2>4. CASE ~ (put /\ Cached(r) /\ wal[i].row = r)
    <3>1. cache'[r] = cache[r]
      BY <1>4, <1>5, <2>4
    <3>2. Tracked(r)
      BY <2>2, <3>1 DEF Tracked, Cached
    <3>3. i # LastChange(r)
      BY <2>1, <2>2, <2>4, <3>2 DEF Tracked
    <3>4. Pending(LastChange(r)) => PendingThen(LastChange(r))
      BY <1>2, <2>1, <3>3
    <3>. QED BY <1>5, <2>1, <3>1, <3>2, <3>4 DEF Inv, CachesFollow
  <2>. QED BY <2>3, <2>4
<1>7. PagesFollow'
  <2>. SUFFICES ASSUME NEW r \in (User \union Org) \ unheard, page[r] # Served(r)', ~ SignalledThen(TableOf(r))
       PROVE  r \in Org /\ (slot = NoSlot \/ PendingThen(LastChange(r)') \/ LastChange(r)' <= gap)
    BY <1>5, PageThen
  <2>1. /\ r \in Row /\ r \notin Price \union Fx /\ r \in TableOf(r)
        /\ LastChange(r)' = LastChange(r) /\ LastChange(r) \in Nat
        /\ LastChange(r) # 0 => wal[LastChange(r)].row = r
        /\ InDatabase(r)' = InDatabase(r)
    BY <1>1, <1>5, SameLog, LogFacts, TableIs, DistinctTables DEF Row, ChangesOf
  <2>2. ~ Signalled(TableOf(r))
    BY <1>5 DEF Signalled, SignalledThen
  <2>3. wal[i].row # r
    BY <1>3, <1>5, <2>1 DEF SignalledThen
  <2>4. cache'[r] = cache[r]
    BY <1>4, <1>5, <2>1, <2>3
  <2>5. r \in Org /\ (slot = NoSlot \/ Pending(LastChange(r)) \/ LastChange(r) <= gap)
    BY <2>1, <2>2, <2>4 DEF Inv, PagesFollow, Served
  <2>6. LastChange(r) # i
    BY <1>3, <2>1, <2>3
  <2>. QED BY <1>2, <1>5, <2>1, <2>5, <2>6
<1>8. LoadedFirst'
  BY <1>5 DEF Inv, LoadedFirst
<1>. QED BY <1>1, <1>2, <1>6, <1>7, <1>8 DEF Inv

-----------------------------------------------------------------------------
(* The theorems.                                                             *)

LEMMA InitEstablishesInv == ASSUME Init PROVE Inv
<1>1. /\ wal = <<>> /\ Len(wal) = 0 /\ queue = <<>> /\ Len(queue) = 0
      /\ signals = <<>> /\ Len(signals) = 0 /\ inbox = <<>> /\ Len(inbox) = 0 /\ Handed = <<>> /\ Len(Handed) = 0
  BY DEF Init, Handed
<1>2. \A r \in Row : InDatabase(r) \in {0, Absent}
  <2>. TAKE r \in Row
  <2>1. {i \in ChangesOf(r) : wal[i].op # "backfill"} = {}
    BY <1>1 DEF ChangesOf
  <2>. QED BY <2>1 DEF InDatabase, LastOf
<1>3. page \in [Row -> Position \union {Absent}] /\ cache \in [Row -> Position \union {Absent}]
  BY <1>2 DEF Init, Position
<1>4. up \in BOOLEAN /\ midway \in BOOLEAN /\ listening \in BOOLEAN
  BY Zenon DEF Init
<1>5. /\ wal \in Seq(Change) /\ queue \in Seq(1 .. Len(wal)) /\ signals \in Seq(Row) /\ inbox \in Seq(Row)
  BY <1>1
<1>6. TypeOK
  BY <1>1, <1>3, <1>4, <1>5 DEF Init, TypeOK, Position
<1>7. Bounded /\ NoHoles /\ Behind
  BY <1>1, <1>6 DEF Init, Bounded, NoHoles, Behind, TypeOK, NoSlot, NoAck
<1>8. CachesFollow
  BY DEF Init, CachesFollow, Tracked, Cached
<1>9. PagesFollow
  BY DEF Init, PagesFollow, Row
<1>10. LoadedFirst
  BY DEF Init, LoadedFirst
<1>. QED BY <1>6, <1>7, <1>8, <1>9, <1>10 DEF Inv

LEMMA StepKeepsInv == ASSUME Inv, [Next]_vars PROVE Inv'
<1>1. CASE \E r \in Row, op \in Op : Commit(r, op)
  BY <1>1, CommitKeepsInv
<1>2. CASE Confirm \/ Connect \/ ReadCommit \/ SendStatus \/ LoseConnection \/ BackOff
  BY <1>2, StreamKeepsInv
<1>3. CASE Enqueue \/ Announce \/ StartCdc \/ FanOut \/ LoseEvents \/ Resubscribe
  BY <1>3, HandOverKeepsInv
<1>4. CASE \E t \in InMemory : Load(t)
  BY <1>4, LoadKeepsInv
<1>5. CASE Restart \/ CreateSlot
  BY <1>5, RestartKeepsInv, CreateSlotKeepsInv
<1>6. CASE ReadChange \/ Dispatch \/ Refetch \/ Visit
  BY <1>6, ReadChangeKeepsInv, DispatchKeepsInv, AnswerKeepsInv
<1>7. CASE UNCHANGED vars
  <2>1. /\ wal' = wal /\ slot' = slot /\ origin' = origin /\ ack' = ack /\ loaded' = loaded /\ up' = up
        /\ gap' = gap /\ conn' = conn /\ next' = next /\ midway' = midway /\ held' = held
        /\ queue' = queue /\ current' = current /\ cache' = cache /\ signals' = signals
        /\ inbox' = inbox /\ page' = page /\ listening' = listening /\ unheard' = unheard
        /\ faults' = faults
    BY <1>7 DEF vars, process, stream, pages
  <2>2. TypeOK'
    BY <2>1 DEF Inv, TypeOK
  <2>3. At' = At /\ Handed' = Handed /\ At \in Int
    BY <2>1, AtIsNumber DEF At, Handed, Inv
  <2>4. Bounded'
    BY <2>1, <2>3 DEF Inv, Bounded
  <2>5. Quiet /\ LoadedFirst'
    BY <2>1, <2>3 DEF Quiet, Inv, LoadedFirst
  <2>6. \A r \in User \union Org : Signalled(TableOf(r)) => SignalledThen(TableOf(r))
    BY <2>1 DEF Signalled, SignalledThen
  <2>. QED BY <2>1, <2>2, <2>4, <2>5, <2>6, QuietKeepsInv
<1>. QED BY <1>1, <1>2, <1>3, <1>4, <1>5, <1>6, <1>7 DEF Next, Work

THEOREM InvHolds == Spec => []Inv
<1>1. Init => Inv
  BY InitEstablishesInv
<1>2. Inv /\ [Next]_vars => Inv'
  BY StepKeepsInv
<1>. QED BY <1>1, <1>2, PTL DEF Spec

(* Every part of the pipeline has its type: positions lie in the log, and    *)
(* the two channels stay within their capacities.                           *)
THEOREM TypeCorrect == Spec => []TypeOK
<1>1. Inv => TypeOK
  BY DEF Inv
<1>. QED BY <1>1, InvHolds, PTL

(* The events the listener sends (stream_loop) have no holes, across lost    *)
(* connections, redelivery and late status updates.                         *)
THEOREM StreamIsGapless == Spec => []StreamHasNoHoles
<1>1. Inv => StreamHasNoHoles
  <2>. SUFFICES ASSUME Inv PROVE StreamHasNoHoles
    OBVIOUS
  <2>1. next \in Nat /\ Len(Handed) \in Nat
    BY HandedFacts DEF Inv, TypeOK
  <2>2. slot <= At \/ conn = "streaming"
    BY DEF Inv, TypeOK, Bounded, At, Position, NoSlot, NoAck
  <2>3. ASSUME Handed # <<>>
        PROVE  IF conn = "streaming"
               THEN next + (IF midway THEN 1 ELSE 0) <= Handed[Len(Handed)]
               ELSE slot <= Handed[Len(Handed)]
    <3>1. At <= Handed[Len(Handed)] /\ Handed[Len(Handed)] \in Int
      BY <2>3, HandedFacts DEF Inv, Behind
    <3>2. CASE conn = "streaming"
      BY <2>1, <3>1, <3>2 DEF At
    <3>3. CASE conn # "streaming"
      <4>1. slot \in Int /\ At \in Int
        BY AtIsNumber DEF Inv, TypeOK, Position, NoSlot, NoAck
      <4>. QED BY <2>2, <3>1, <3>3, <4>1
    <3>. QED BY <3>2, <3>3
  <2>. QED BY <2>3 DEF Inv, NoHoles, StreamHasNoHoles
<1>. QED BY <1>1, InvHolds, PTL

(* What was handed on, or lies ahead of the stream, will be dispatched. *)
LEMMA PendingComes ==
  ASSUME Inv, slot # NoSlot, NEW i \in Nat \ {0}, Pending(i)
  PROVE  Coming(i)
<1>1. CASE i > At
  <2>1. next \in Int /\ slot \in Int /\ ack \in Int
    BY DEF Inv, TypeOK, Position, NoSlot, NoAck
  <2>2. CASE conn = "streaming"
    BY <1>1, <2>1, <2>2 DEF At, Coming
  <2>3. CASE conn # "streaming"
    <3>1. slot <= At /\ At \in Int
      BY <2>1, <2>3, AtIsNumber DEF Inv, Bounded, At
    <3>. QED BY <1>1, <2>1, <2>3, <3>1 DEF Coming
  <2>. QED BY <2>2, <2>3
<1>2. ASSUME NEW n \in 1 .. Len(Handed), Handed[n] = i PROVE Coming(i)
  <2>1. Len(wal) \in Nat /\ queue \in Seq(1 .. Len(wal)) /\ held \in 0 .. Len(wal)
    BY DEF Inv, TypeOK
  <2>2. CASE held = 0
    BY <1>2, <2>2 DEF Handed, Coming, InQueue
  <2>3. CASE held # 0
    <3>1. Handed = Append(queue, held) /\ held \in 1 .. Len(wal)
      BY <2>1, <2>3 DEF Handed
    <3>2. /\ Len(queue) \in Nat /\ Len(Handed) = Len(queue) + 1
          /\ Handed[Len(queue) + 1] = held
          /\ \A m \in 1 .. Len(queue) : Handed[m] = queue[m]
      BY <2>1, <3>1, AppendElements
    <3>3. n \in 1 .. Len(queue) \/ n = Len(queue) + 1
      BY <3>2
    <3>. QED BY <1>2, <3>2, <3>3 DEF Coming, InQueue
  <2>. QED BY <2>2, <2>3
<1>. QED BY <1>1, <1>2 DEF Pending

(* "streaming resumes from the last confirmed LSN with no data loss"         *)
(* (docs/cdc.md:50): whatever a loaded row is not, is still to be applied.   *)
THEOREM EveryChangeReachesTheCaches == Spec => []NoChangeLost
<1>1. Inv => NoChangeLost
  <2>. SUFFICES ASSUME Inv, slot # NoSlot, NEW r \in Row, Tracked(r)
       PROVE  \/ cache[r] = LastChange(r)
              \/ Coming(LastChange(r))
              \/ LastChange(r) <= gap
    BY DEF NoChangeLost
  <2>1. LastChange(r) \in Nat \ {0}
    BY LogFacts DEF Inv, Tracked
  <2>2. Pending(LastChange(r)) => Coming(LastChange(r))
    BY <2>1, PendingComes
  <2>. QED BY <2>2 DEF Inv, CachesFollow
<1>. QED BY <1>1, InvHolds, PTL

(* A page of users or organizations that shows anything but what its route   *)
(* would answer has a signal coming, or was cut off, or lost one to a full   *)
(* buffer (useEntityEvents, fan_out), for any rows and any channel sizes.    *)
THEOREM StalePagesAreSignalled == Spec => []StalePagesSignalled
<1>1. Inv => StalePagesSignalled
  <2>. SUFFICES ASSUME Inv, NEW r \in (User \union Org) \ unheard, page[r] # Served(r)
       PROVE  Signalled(TableOf(r)) \/ (r \in Org /\ ToBeAnnounced(r))
    BY DEF StalePagesSignalled
  <2>1. LastChange(r) \in Nat
    BY LogFacts DEF Inv, Row
  <2>2. slot # NoSlot /\ Pending(LastChange(r)) => LastChange(r) # 0
    <3>1. slot # NoSlot => At \in Nat
      BY DEF Inv, TypeOK, At, Position, NoSlot, NoAck
    <3>. QED BY <3>1, HandedFacts DEF Inv, Pending
  <2>3. slot # NoSlot /\ Pending(LastChange(r)) => Coming(LastChange(r))
    BY <2>1, <2>2, PendingComes
  <2>. QED BY <2>3 DEF Inv, PagesFollow, ToBeAnnounced
<1>. QED BY <1>1, InvHolds, PTL
=============================================================================
