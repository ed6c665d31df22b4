------------------------------ MODULE ApiProofs ------------------------------
(***************************************************************************)
(* What TLAPS proves of the REST routes and of the simulator they start    *)
(* and stop: that what memory and the database say of a user agrees where  *)
(* it should, in names, counts and sums; that pages tile; that callers are *)
(* confined; and that every loop and every notification of the simulator   *)
(* is accounted for however calls overlap.                                 *)
(***************************************************************************)
EXTENDS RestApi, DbSimulator, SumProofs, SequenceTheorems, TLAPS

-----------------------------------------------------------------------------
(* The REST routes: lists.                                                  *)

(* Numbers from the smallest: every one has its place. *)
LEMMA AscendingIsOrder ==
  ASSUME NEW S \in SUBSET Int, IsFiniteSet(S)
  PROVE  /\ Cardinality(S) \in Nat
         /\ Ascending(S) \in [1 .. Cardinality(S) -> S]
         /\ \A n, m \in 1 .. Cardinality(S) : Ascending(S)[n] = Ascending(S)[m] => n = m
         /\ \A i \in S : \E n \in 1 .. Cardinality(S) : Ascending(S)[n] = i
BY RanksInOrder DEF Ascending

-----------------------------------------------------------------------------
(* What a caller may see of the users in memory, in the order of the map.    *)
Visible(c) ==
  LET places == Ascending({i \in DOMAIN order : CanAccess(c, order[i])})
  IN [n \in DOMAIN places |-> order[places[n]]]

LEMMA ListedIsVisible == \A c : Listed(c, None, None) = Visible(c)
BY DEF Listed, Visible, Matches

LEMMA OrderLists ==
  ASSUME TypeOK
  PROVE  /\ IsFiniteSet(DOMAIN summary)
         /\ Len(order) \in Nat
         /\ Len(order) = Cardinality(DOMAIN summary)
         /\ DOMAIN order = 1 .. Len(order)
         /\ \A i \in 1 .. Len(order) : order[i] \in DOMAIN summary
         /\ \A i, j \in 1 .. Len(order) : order[i] = order[j] => i = j
         /\ \A u \in DOMAIN summary : \E i \in 1 .. Len(order) : order[i] = u
         /\ ToSet(order) = DOMAIN summary
<1> DEFINE K == DOMAIN summary
           n == Cardinality(K)
<1>1. IsFiniteSet(K)
  BY RestApiAssumption, FS_Subset DEF TypeOK, IsTable
<1>2. n \in Nat
  BY <1>1, FS_CardinalityType
<1>3. order \in [1 .. n -> K] /\ \A i, j \in 1 .. n : i # j => order[i] # order[j]
  BY DEF TypeOK, SetToSeqs
<1> HIDE DEF K, n
<1>4. Len(order) = n
  BY <1>2, <1>3, LenProperties, SeqDef
<1>5. \A u \in K : \E i \in 1 .. n : order[i] = u
  <2>1. IsFiniteSet(1 .. n) /\ Cardinality(1 .. n) = n
    BY <1>2, FS_Interval
  <2>2. order \in Injection(1 .. n, K)
    BY <1>3 DEF Injection, IsInjective
  <2>3. order \in Surjection(1 .. n, K)
    BY <1>1, <2>1, <2>2, FS_Injection DEF n
  <2> QED BY <2>3 DEF Surjection
<1>6. DOMAIN order = 1 .. n
  BY <1>3
<1>7. ToSet(order) = K
  BY <1>3, <1>5, <1>6 DEF ToSet
<1> QED BY <1>1, <1>2, <1>3, <1>4, <1>5, <1>6, <1>7 DEF K, n

LEMMA VisibleLists ==
  ASSUME TypeOK, NEW c
  PROVE  /\ Visible(c) \in Seq(User)
         /\ Len(Visible(c)) \in Nat
         /\ Len(Visible(c)) <= Len(order)
         /\ \A n, m \in 1 .. Len(Visible(c)) : Visible(c)[n] = Visible(c)[m] => n = m
         /\ {Visible(c)[n] : n \in 1 .. Len(Visible(c))} = {u \in ToSet(order) : CanAccess(c, u)}
<1> DEFINE passed == {i \in DOMAIN order : CanAccess(c, order[i])}
           places == Ascending(passed)
           size == Cardinality(passed)
<1>1. passed \in SUBSET (1 .. Len(order)) /\ Len(order) \in Nat
  BY OrderLists
<1>2. IsFiniteSet(passed) /\ size <= Len(order) /\ passed \in SUBSET Int
  <2>1. ASSUME NEW n \in Nat
        PROVE  IsFiniteSet(1 .. n) /\ Cardinality(1 .. n) = n
    BY FS_Interval
  <2>2. IsFiniteSet(1 .. Len(order)) /\ Cardinality(1 .. Len(order)) = Len(order)
    BY <1>1, <2>1
  <2> HIDE DEF passed
  <2>3. IsFiniteSet(passed) /\ size <= Len(order)
    BY <1>1, <2>2, FS_Subset
  <2>4. passed \in SUBSET Int
    BY <1>1
  <2> QED BY <2>3, <2>4
<1>3. /\ size \in Nat
      /\ places \in [1 .. size -> passed]
      /\ \A n, m \in 1 .. size : places[n] = places[m] => n = m
      /\ \A i \in passed : \E n \in 1 .. size : places[n] = i
  <2> HIDE DEF passed
  <2> QED BY <1>2, AscendingIsOrder
<1>4. Visible(c) = [n \in 1 .. size |-> order[places[n]]]
  BY <1>3 DEF Visible
<1>5. \A i \in passed : order[i] \in User
  BY <1>1, OrderLists DEF TypeOK, IsTable
<1>6. \A i, j \in passed : order[i] = order[j] => i = j
  BY <1>1, OrderLists
<1>7. {order[i] : i \in passed} = {u \in ToSet(order) : CanAccess(c, u)}
  BY OrderLists DEF ToSet
<1> HIDE DEF passed, places, size
<1>8. Visible(c) \in Seq(User) /\ Len(Visible(c)) = size
  <2>1. Visible(c) \in [1 .. size -> User]
    BY <1>3, <1>4, <1>5
  <2> QED BY <1>3, <2>1, SeqDef, LenProperties
<1>9. \A n, m \in 1 .. size : Visible(c)[n] = Visible(c)[m] => n = m
  BY <1>3, <1>4, <1>6
<1>10. {Visible(c)[n] : n \in 1 .. size} = {order[i] : i \in passed}
  BY <1>3, <1>4
<1> QED BY <1>2, <1>3, <1>7, <1>8, <1>9, <1>10

-----------------------------------------------------------------------------
(* The invariant.                                                           *)

(* The last image of a user's row that is on the feed is how the row is. *)
FeedIsCurrent ==
  \A u \in Known, i \in DOMAIN feed :
    feed[i].user = u /\ (\A j \in DOMAIN feed : feed[j].user = u => j <= i) =>
      feed[i] = Image(u, users[u])

Smaller(m, n) == IF m < n THEN m ELSE n

(* Reading has begun when there are no more loads; what was read is the      *)
(* first pages of what there is.                                            *)
ReaderRead ==
  /\ reader.pages = 0 => reader.got = <<>>
  /\ reader.pages > 0 =>
       /\ Serving
       /\ reader.got = SubSeq(Visible(reader.caller), 1,
                              Smaller(reader.pages * PageSize, Len(Visible(reader.caller))))

(* What each load read is still so, but of the users in drift. *)
LoadedRows ==
  /\ "users" \in read =>
       /\ \A u \in DOMAIN summary \ drift :
            /\ summary[u].trade_count = Cardinality({t \in trades : Owner(t) = u})
            /\ summary[u].account_count = Cardinality(AccountsOf(u))
       /\ \A a \in accounts : Account[a] \in DOMAIN summary \union drift
  /\ "trades" \in read => \A u \in User \ drift : TradesOf(u) = {t \in trades : Owner(t) = u}

ApiInv == TypeOK /\ FeedIsCurrent /\ NamesConverge /\ ReaderRead /\ LoadedRows

-----------------------------------------------------------------------------
(* What steps that leave the variables of a conjunct alone keep.             *)

LEMMA ReaderReadSame ==
  ASSUME ReaderRead, UNCHANGED <<read, order, reader>>
  PROVE  ReaderRead'
BY DEF ReaderRead, Visible, Serving

LEMMA LoadedRowsSame ==
  ASSUME LoadedRows, UNCHANGED <<read, summary, drift, trades, accounts, held>>
  PROVE  LoadedRows'
BY DEF LoadedRows, TradesOf, AccountsOf

LEMMA FeedSame ==
  ASSUME FeedIsCurrent, UNCHANGED <<users, feed>>
  PROVE  FeedIsCurrent'
BY DEF FeedIsCurrent, Known, Image

LEMMA NamesSame ==
  ASSUME FeedIsCurrent, NamesConverge, UNCHANGED <<users, summary, feed>>
  PROVE  FeedIsCurrent' /\ NamesConverge'
BY DEF FeedIsCurrent, NamesConverge, Known, Image

LEMMA Owners ==
  ASSUME TypeOK
  PROVE  /\ \A a \in DOMAIN Account : Account[a] \in User
         /\ \A t \in DOMAIN Trade : Trade[t].account \in DOMAIN Account /\ Owner(t) \in User
BY RestApiAssumption DEF Owner

-----------------------------------------------------------------------------
(* One lemma for each kind of step.                                         *)

LEMMA WriteKeeps ==
  ASSUME ApiInv, NEW u \in User, NEW image \in Row, NEW rows, IsTable(rows, User, Row),
         Write(u, image, rows),
         DOMAIN rows \ {u} = Known \ {u},
         \A v \in Known \ {u} : rows[v] = users[v],
         u \in DOMAIN rows => rows[u] = image,
         u \notin DOMAIN rows => AccountsOf(u) = {}
  PROVE  ApiInv'
<1> DEFINE Images == [user : User, name : Optional(Name), email : Optional(Email)]
           n == Len(feed)
<1>1. /\ changes < MaxChanges /\ changes' = changes + 1
      /\ users' = rows
      /\ feed' = Append(feed, Image(u, image))
      /\ UNCHANGED <<accounts, trades, keys, read, summary, order, held, reader, drift>>
  BY DEF Write, Changed, memory
<1>2. feed \in Seq(Images) /\ Image(u, image) \in Images
  BY DEF ApiInv, TypeOK, Image, Row
<1>3. /\ feed' \in Seq(Images)
      /\ n \in Nat /\ DOMAIN feed = 1 .. n /\ DOMAIN feed' = 1 .. n + 1
      /\ \A i \in 1 .. n : feed'[i] = feed[i]
      /\ feed'[n + 1] = Image(u, image)
  <2> HIDE DEF Images
  <2> QED BY <1>1, <1>2, AppendProperties, LenProperties
<1>4. TypeOK'
  <2>1. \A a \in accounts : Account[a] \in DOMAIN rows
    BY DEF ApiInv, TypeOK, Known, AccountsOf
  <2>2. changes' \in 0 .. MaxChanges
    BY <1>1, RestApiAssumption DEF ApiInv, TypeOK
  <2> QED BY <1>1, <1>3, <2>1, <2>2 DEF ApiInv, TypeOK
<1>5. FeedIsCurrent'
  <2> SUFFICES ASSUME NEW v \in Known', NEW i \in DOMAIN feed', feed'[i].user = v,
                      \A j \in DOMAIN feed' : feed'[j].user = v => j <= i
               PROVE  feed'[i] = Image(v, users'[v])
    BY DEF FeedIsCurrent, Image
  <2>1. CASE v = u
    <3>1. feed'[n + 1].user = u /\ n + 1 \in DOMAIN feed'
      BY <1>3 DEF Image
    <3>2. i = n + 1
      BY <1>3, <2>1, <3>1
    <3>3. users'[u] = image
      BY <1>1, <2>1 DEF Known
    <3> QED BY <1>3, <2>1, <3>2, <3>3
  <2>2. CASE v # u
    <3>1. i \in 1 .. n
      BY <1>3, <2>2 DEF Image
    <3>2. v \in Known /\ users'[v] = users[v]
      BY <1>1, <2>2 DEF Known
    <3>3. feed[i].user = v /\ \A j \in DOMAIN feed : feed[j].user = v => j <= i
      BY <1>3, <3>1
    <3>4. feed[i] = Image(v, users[v])
      BY <1>3, <3>1, <3>2, <3>3 DEF ApiInv, FeedIsCurrent
    <3> QED BY <1>3, <3>1, <3>2, <3>4
  <2> QED BY <2>1, <2>2
<1>6. NamesConverge'
  <2> SUFFICES ASSUME NEW v \in (Known \intersect DOMAIN summary)', \A i \in DOMAIN feed' : feed'[i].user # v
               PROVE  /\ users'[v].name \in {None, summary'[v].name}
                      /\ users'[v].email \in {None, summary'[v].email}
    BY DEF NamesConverge
  <2>1. v # u
    BY <1>3 DEF Image
  <2>2. v \in Known \intersect DOMAIN summary /\ users'[v] = users[v]
    BY <1>1, <2>1 DEF Known
  <2>3. \A i \in DOMAIN feed : feed[i].user # v
    BY <1>3
  <2> QED BY <1>1, <2>2, <2>3 DEF ApiInv, NamesConverge
<1>7. ReaderRead' /\ LoadedRows'
  BY <1>1, ReaderReadSame, LoadedRowsSame DEF ApiInv
<1> QED BY <1>4, <1>5, <1>6, <1>7 DEF ApiInv

LEMMA PutKeeps ==
  ASSUME ApiInv, NEW u \in User, NEW row \in Row, Put(u, row)
  PROVE  ApiInv'
<1> DEFINE rows == Upsert(users, u, row)
<1>1. IsTable(users, User, Row)
  BY DEF ApiInv, TypeOK
<1>2. IsTable(rows, User, Row) /\ DOMAIN rows = Known \union {u} /\ rows[u] = row
      /\ \A v \in Known \ {u} : rows[v] = users[v]
  BY <1>1 DEF IsTable, Upsert, Known
<1>3. Write(u, row, rows)
  BY DEF Put
<1> HIDE DEF rows
<1>4. DOMAIN rows \ {u} = Known \ {u} /\ u \in DOMAIN rows
  BY <1>2
<1> QED BY <1>2, <1>3, <1>4, WriteKeeps

LEMMA CreateUserKeeps ==
  ASSUME ApiInv, NEW c \in Caller, NEW u \in User, NEW name \in Optional(Name), NEW email \in Optional(Email),
         CreateUser(c, u, name, email)
  PROVE  ApiInv'
<1> DEFINE row == [name |-> name, email |-> email, org |-> None]
<1>1. row \in Row /\ Put(u, row)
  BY DEF Row, Optional, CreateUser
<1> HIDE DEF row
<1> QED BY <1>1, PutKeeps

LEMMA UpdateUserKeeps ==
  ASSUME ApiInv, NEW c \in Caller, NEW u \in User, NEW name \in Optional(Name), NEW email \in Optional(Email),
         UpdateUser(c, u, name, email)
  PROVE  ApiInv'
<1> DEFINE row == [users[u] EXCEPT !.name = Coalesce(name, @), !.email = Coalesce(email, @)]
<1>1. IsTable(users, User, Row) /\ Known = DOMAIN users
  BY DEF ApiInv, TypeOK, Known
<1>2. u \in Known
  BY DEF UpdateUser, update_user
<1>3. users[u] \in Row
  BY <1>1, <1>2 DEF IsTable
<1>4. row \in Row /\ Put(u, row)
  BY <1>3 DEF Row, Optional, Coalesce, UpdateUser
<1> HIDE DEF row
<1> QED BY <1>4, PutKeeps

LEMMA DeleteUserKeeps ==
  ASSUME ApiInv, NEW c \in Caller, NEW u \in User, DeleteUser(c, u)
  PROVE  ApiInv'
<1> DEFINE rows == Restrict(users, Known \ {u})
<1>1. IsTable(users, User, Row) /\ Known = DOMAIN users
  BY DEF ApiInv, TypeOK, Known
<1>2. u \in Known /\ AccountsOf(u) = {}
  BY DEF DeleteUser, delete_user
<1>3. users[u] \in Row /\ Write(u, users[u], rows)
  BY <1>1, <1>2 DEF DeleteUser, IsTable
<1>4. IsTable(rows, User, Row) /\ DOMAIN rows = Known \ {u} /\ \A v \in Known \ {u} : rows[v] = users[v]
  BY <1>1 DEF IsTable, Restrict
<1> HIDE DEF rows
<1> QED BY <1>2, <1>3, <1>4, WriteKeeps

LEMMA KeyStepKeeps ==
  ASSUME ApiInv, NEW c \in Caller, NEW o \in Org, NEW k \in Key, MakeKey(c, o, k) \/ RevokeKey(c, o, k)
  PROVE  ApiInv'
<1>1. /\ changes < MaxChanges /\ changes' = changes + 1
      /\ UNCHANGED <<users, accounts, trades, read, summary, order, held, feed, reader, drift>>
  BY DEF MakeKey, RevokeKey, Changed, database, memory
<1>2. IsTable(keys', Key, [org : Org, revoked : BOOLEAN])
  <2>1. IsTable(keys, Key, [org : Org, revoked : BOOLEAN])
    BY DEF ApiInv, TypeOK
  <2>2. CASE MakeKey(c, o, k)
    <3> DEFINE KeyRow == [org : Org, revoked : BOOLEAN]
               row == [org |-> o, revoked |-> FALSE]
    <3>1. row \in KeyRow /\ IsTable(keys, Key, KeyRow) /\ keys' = Upsert(keys, k, row)
      BY <2>1, <2>2 DEF MakeKey
    <3> HIDE DEF KeyRow, row
    <3>2. IsTable(keys', Key, KeyRow)
      BY <3>1 DEF IsTable, Upsert
    <3> QED BY <3>2 DEF KeyRow
  <2>3. CASE RevokeKey(c, o, k)
    <3>1. /\ DOMAIN keys' = DOMAIN keys
          /\ \A j \in DOMAIN keys : keys'[j] = IF j = k THEN [keys[k] EXCEPT !.revoked = TRUE] ELSE keys[j]
      BY <2>3 DEF RevokeKey
    <3>2. \A j \in DOMAIN keys : keys[j] \in [org : Org, revoked : BOOLEAN]
      BY <2>1 DEF IsTable
    <3>3. \A j \in DOMAIN keys : keys'[j] \in [org : Org, revoked : BOOLEAN]
      BY <3>1, <3>2
    <3> QED BY <2>1, <3>1, <3>3 DEF IsTable
  <2> QED BY <2>2, <2>3
<1>3. TypeOK'
  <2>1. changes' \in 0 .. MaxChanges
    BY <1>1, RestApiAssumption DEF ApiInv, TypeOK
  <2> QED BY <1>1, <1>2, <2>1 DEF ApiInv, TypeOK
<1> QED BY <1>1, <1>3, NamesSame, ReaderReadSame, LoadedRowsSame DEF ApiInv

(* Rows of accounts or of trades of u come or go. *)
LEMMA ImportKeeps ==
  ASSUME ApiInv, NEW u \in User, NEW A \in SUBSET DOMAIN Account, NEW T \in SUBSET DOMAIN Trade,
         Import([accounts |-> A, trades |-> T], u),
         \A t \in T : Trade[t].account \in A,
         \A a \in A : Account[a] \in Known,
         \A a \in DOMAIN Account : Account[a] # u => (a \in A <=> a \in accounts),
         \A t \in DOMAIN Trade : Owner(t) # u => (t \in T <=> t \in trades)
  PROVE  ApiInv'
<1>1. /\ changes < MaxChanges /\ changes' = changes + 1
      /\ accounts' = A /\ trades' = T
      /\ drift' = IF read = {} THEN drift ELSE drift \union {u}
      /\ UNCHANGED <<users, keys, read, summary, order, held, feed, reader>>
  BY DEF Import, Changed, memory
<1>2. TypeOK'
  <2>1. changes' \in 0 .. MaxChanges
    BY <1>1, RestApiAssumption DEF ApiInv, TypeOK
  <2> QED BY <1>1, <2>1 DEF ApiInv, TypeOK, Known
<1>3. LoadedRows'
  <2>1. CASE read = {}
    BY <1>1, <2>1 DEF LoadedRows
  <2>2. CASE read # {}
    <3>1. drift' = drift \union {u}
      BY <1>1, <2>2
    <3>2. \A v : v # u => {t \in T : Owner(t) = v} = {t \in trades : Owner(t) = v}
      BY DEF ApiInv, TypeOK
    <3>3. \A v : v # u => {a \in A : Account[a] = v} = {a \in accounts : Account[a] = v}
      BY DEF ApiInv, TypeOK
    <3>4. ASSUME "users" \in read, NEW v \in DOMAIN summary, v \notin drift'
          PROVE  /\ summary[v].trade_count = Cardinality({t \in T : Owner(t) = v})
                 /\ summary[v].account_count = Cardinality({a \in A : Account[a] = v})
      <4>1. v # u /\ v \notin drift
        BY <3>1, <3>4
      <4>2. /\ summary[v].trade_count = Cardinality({t \in trades : Owner(t) = v})
            /\ summary[v].account_count = Cardinality(AccountsOf(v))
        BY <3>4, <4>1 DEF ApiInv, LoadedRows
      <4> QED BY <3>2, <3>3, <4>1, <4>2 DEF AccountsOf
    <3>5. ASSUME "users" \in read, NEW a \in A
          PROVE  Account[a] \in DOMAIN summary \union drift'
      BY <3>1, <3>5 DEF ApiInv, LoadedRows
    <3>6. ASSUME "trades" \in read, NEW v \in User, v \notin drift'
          PROVE  TradesOf(v) = {t \in T : Owner(t) = v}
      BY <3>1, <3>2, <3>6 DEF ApiInv, LoadedRows
    <3> QED BY <1>1, <3>4, <3>5, <3>6 DEF LoadedRows, TradesOf, AccountsOf
  <2> QED BY <2>1, <2>2
<1> QED BY <1>1, <1>2, <1>3, NamesSame, ReaderReadSame DEF ApiInv

LEMMA ImportAccountKeeps ==
  ASSUME ApiInv, NEW a \in DOMAIN Account, ImportAccount(a)
  PROVE  ApiInv'
<1>1. accounts \union {a} \in SUBSET DOMAIN Account /\ trades \in SUBSET DOMAIN Trade /\ Account[a] \in User
  BY Owners DEF ApiInv, TypeOK
<1>2. /\ \A t \in trades : Trade[t].account \in accounts \union {a}
      /\ \A b \in accounts \union {a} : Account[b] \in Known
  BY DEF ApiInv, TypeOK, Known, ImportAccount
<1>3. Import([accounts |-> accounts \union {a}, trades |-> trades], Account[a])
  BY DEF ImportAccount
<1> QED BY <1>1, <1>2, <1>3, ImportKeeps

LEMMA ImportTradeKeeps ==
  ASSUME ApiInv, NEW t \in DOMAIN Trade, ImportTrade(t)
  PROVE  ApiInv'
<1>1. accounts \in SUBSET DOMAIN Account /\ trades \union {t} \in SUBSET DOMAIN Trade /\ Owner(t) \in User
  BY Owners DEF ApiInv, TypeOK
<1>2. /\ \A r \in trades \union {t} : Trade[r].account \in accounts
      /\ \A b \in accounts : Account[b] \in Known
  BY DEF ApiInv, TypeOK, Known, ImportTrade
<1>3. Import([accounts |-> accounts, trades |-> trades \union {t}], Owner(t))
  BY DEF ImportTrade
<1> QED BY <1>1, <1>2, <1>3, ImportKeeps

LEMMA RemoveAccountKeeps ==
  ASSUME ApiInv, NEW a \in DOMAIN Account, RemoveAccount(a)
  PROVE  ApiInv'
<1> DEFINE A == accounts \ {a}
           T == {t \in trades : Trade[t].account # a}
<1>1. A \in SUBSET DOMAIN Account /\ T \in SUBSET DOMAIN Trade /\ Account[a] \in User
  BY Owners DEF ApiInv, TypeOK
<1>2. /\ \A t \in T : Trade[t].account \in A
      /\ \A b \in A : Account[b] \in Known
  BY DEF ApiInv, TypeOK, Known
<1>3. /\ \A b \in DOMAIN Account : Account[b] # Account[a] => (b \in A <=> b \in accounts)
      /\ \A t \in DOMAIN Trade : Owner(t) # Account[a] => (t \in T <=> t \in trades)
  BY TradeOwnerAssumption DEF Owner
<1>4. Import([accounts |-> A, trades |-> T], Account[a])
  BY DEF RemoveAccount
<1> HIDE DEF A, T
<1> QED BY <1>1, <1>2, <1>3, <1>4, ImportKeeps

-----------------------------------------------------------------------------
(* The load.                                                                *)

LEMMA PaddedRows ==
  ASSUME NEW S, None \notin S
  PROVE  Padded(S) # {} /\ Padded(S) \ {None} = S
BY DEF Padded

LEMMA Projections ==
  ASSUME NEW A, NEW B, A # {}, B # {}
  PROVE  {row[1] : row \in A \X B} = A /\ {row[2] : row \in A \X B} = B
<1>1. PICK a \in A, b \in B : TRUE
  OBVIOUS
<1>2. \A x \in A : <<x, b>> \in A \X B /\ <<x, b>>[1] = x
  OBVIOUS
<1>3. \A y \in B : <<a, y>> \in A \X B /\ <<a, y>>[2] = y
  OBVIOUS
<1>4. \A row \in A \X B : row[1] \in A /\ row[2] \in B
  OBVIOUS
<1>5. {row[1] : row \in A \X B} = A
  BY <1>2, <1>4
<1>6. {row[2] : row \in A \X B} = B
  BY <1>3, <1>4
<1> QED BY <1>5, <1>6

(* COUNT DISTINCT over the join counts what is joined on its side. *)
LEMMA DistinctCounts ==
  ASSUME TypeOK, NEW u
  PROVE  /\ Distinct(JoinedRows(u), 1) = Cardinality({t \in trades : Owner(t) = u})
         /\ Distinct(JoinedRows(u), 2) = Cardinality(AccountsOf(u))
<1> DEFINE T == {t \in trades : Owner(t) = u}
           A == AccountsOf(u)
<1>1. None \notin T /\ None \notin A
  BY RestApiAssumption DEF TypeOK, AccountsOf
<1>2. JoinedRows(u) = Padded(T) \X Padded(A)
  BY DEF JoinedRows
<1> HIDE DEF T, A
<1>3. Padded(T) # {} /\ Padded(T) \ {None} = T /\ Padded(A) # {} /\ Padded(A) \ {None} = A
  BY <1>1, PaddedRows
<1>4. {row[1] : row \in Padded(T) \X Padded(A)} = Padded(T)
  BY <1>3, Projections
<1>5. {row[2] : row \in Padded(T) \X Padded(A)} = Padded(A)
  BY <1>3, Projections
<1> QED BY <1>2, <1>3, <1>4, <1>5 DEF Distinct, T, A

LEMMA RowsFinite ==
  ASSUME TypeOK, NEW u
  PROVE  /\ IsFiniteSet(trades) /\ IsFiniteSet(held)
         /\ Cardinality({t \in trades : Owner(t) = u}) \in Nat
         /\ Cardinality(AccountsOf(u)) \in Nat
<1>1. IsFiniteSet(trades) /\ IsFiniteSet(accounts) /\ IsFiniteSet(held)
  BY RestApiAssumption, FS_Subset DEF TypeOK
<1>2. IsFiniteSet({t \in trades : Owner(t) = u}) /\ IsFiniteSet(AccountsOf(u))
  BY <1>1, FS_Subset DEF AccountsOf
<1> QED BY <1>1, <1>2, FS_CardinalityType

LEMMA LoadUsersKeeps ==
  ASSUME ApiInv, LoadUsers
  PROVE  ApiInv'
<1>1. /\ "users" \notin read
      /\ read' = read \union {"users"}
      /\ DOMAIN summary' = Known
      /\ \A u \in Known :
           /\ summary'[u] = [name |-> users[u].name, email |-> users[u].email, org |-> users[u].org,
                             trade_count |-> Cardinality({t \in trades : Owner(t) = u}),
                             account_count |-> Cardinality(AccountsOf(u))]
      /\ order' \in SetToSeqs(Known)
      /\ UNCHANGED <<users, accounts, trades, keys, held, feed, reader, drift, changes>>
  BY DistinctCounts DEF LoadUsers, database, ApiInv
<1>2. TypeOK'
  <2>1. ASSUME NEW u \in Known
        PROVE  summary'[u] \in UserSummary
    <3>1. users[u] \in Row
      BY DEF ApiInv, TypeOK, IsTable, Known
    <3>2. Cardinality({t \in trades : Owner(t) = u}) \in Nat /\ Cardinality(AccountsOf(u)) \in Nat
      BY RowsFinite DEF ApiInv
    <3> QED BY <1>1, <3>1, <3>2 DEF UserSummary, Row
  <2>2. IsTable(summary', User, UserSummary)
    BY <1>1, <2>1 DEF IsTable, ApiInv, TypeOK, Known
  <2> QED BY <1>1, <2>2 DEF ApiInv, TypeOK
<1>3. FeedIsCurrent'
  BY <1>1, FeedSame DEF ApiInv
<1>4. NamesConverge'
  <2>1. ASSUME NEW u \in Known
        PROVE  summary'[u].name = users'[u].name /\ summary'[u].email = users'[u].email
    <3>1. users' = users
      BY <1>1
    <3>2. /\ summary'[u].name = users[u].name
          /\ summary'[u].email = users[u].email
      BY DEF LoadUsers
    <3> QED BY <3>1, <3>2
  <2>2. Known' = Known
    BY <1>1 DEF Known
  <2> QED BY <2>1, <2>2 DEF NamesConverge
<1>5. ReaderRead'
  <2>1. reader.pages = 0
    BY <1>1 DEF ApiInv, TypeOK, ReaderRead, Serving
  <2> QED BY <1>1, <2>1 DEF ApiInv, ReaderRead
<1>6. LoadedRows'
  <2>1. \A a \in accounts : Account[a] \in Known
    BY DEF ApiInv, TypeOK, Known
  <2>2. "trades" \in read' <=> "trades" \in read
    BY <1>1
  <2> QED BY <1>1, <2>1, <2>2 DEF ApiInv, LoadedRows, TradesOf, AccountsOf
<1> QED BY <1>2, <1>3, <1>4, <1>5, <1>6 DEF ApiInv

LEMMA LoadTradesKeeps ==
  ASSUME ApiInv, LoadTrades
  PROVE  ApiInv'
<1>1. /\ "trades" \notin read
      /\ read' = read \union {"trades"}
      /\ held' = trades
      /\ UNCHANGED <<users, accounts, trades, keys, summary, order, feed, reader, drift, changes>>
  BY DEF LoadTrades, database
<1>2. TypeOK'
  BY <1>1 DEF ApiInv, TypeOK
<1>3. ReaderRead'
  <2>1. reader.pages = 0
    BY <1>1 DEF ApiInv, TypeOK, ReaderRead, Serving
  <2> QED BY <1>1, <2>1 DEF ApiInv, ReaderRead
<1>4. LoadedRows'
  <2>1. "users" \in read' <=> "users" \in read
    BY <1>1
  <2> QED BY <1>1, <2>1 DEF ApiInv, LoadedRows, TradesOf, AccountsOf
<1> QED BY <1>1, <1>2, <1>3, <1>4, NamesSame DEF ApiInv

-----------------------------------------------------------------------------
(* The feed.                                                                *)

LEMMA ApplyUserKeeps ==
  ASSUME ApiInv, ApplyUser
  PROVE  ApiInv'
<1> DEFINE Images == [user : User, name : Optional(Name), email : Optional(Email)]
           n == Len(feed)
           image == Head(feed)
           S == DOMAIN summary
           took(u) == [summary[u] EXCEPT !.name = Coalesce(image.name, @), !.email = Coalesce(image.email, @)]
<1>1. /\ Serving /\ feed # <<>> /\ feed' = Tail(feed)
      /\ UNCHANGED <<users, accounts, trades, keys, read, order, held, reader, drift, changes>>
  BY DEF ApplyUser, database
<1>2. feed \in Seq(Images)
  BY DEF ApiInv, TypeOK
<1>3. /\ feed' \in Seq(Images) /\ image \in Images
      /\ n \in Nat \ {0} /\ DOMAIN feed = 1 .. n /\ DOMAIN feed' = 1 .. n - 1
      /\ image = feed[1]
      /\ \A i \in 1 .. n - 1 : feed'[i] = feed[i + 1]
  <2> HIDE DEF Images
  <2> QED BY <1>1, <1>2, HeadTailProperties, LenProperties, EmptySeq
<1>4. IsTable(summary, User, UserSummary)
  BY DEF ApiInv, TypeOK
<1>5. /\ DOMAIN summary' = S
      /\ \A u \in S : u # image.user => summary'[u] = summary[u]
      /\ image.user \in S =>
           summary'[image.user] = took(image.user)
  BY DEF ApplyUser
<1>6. \A u \in S :
        /\ summary'[u] \in UserSummary
        /\ summary'[u].trade_count = summary[u].trade_count
        /\ summary'[u].account_count = summary[u].account_count
  <2> SUFFICES ASSUME NEW u \in S
               PROVE  /\ summary'[u] \in UserSummary
                      /\ summary'[u].trade_count = summary[u].trade_count
                      /\ summary'[u].account_count = summary[u].account_count
    OBVIOUS
  <2>1. summary[u] \in UserSummary
    BY <1>4 DEF IsTable
  <2>2. CASE u # image.user
    BY <1>5, <2>1, <2>2
  <2>3. CASE u = image.user
    BY <1>3, <1>5, <2>1, <2>3 DEF UserSummary, Coalesce, Optional
  <2> QED BY <2>2, <2>3
<1>7. TypeOK'
  <2>1. IsTable(summary', User, UserSummary)
    BY <1>4, <1>5, <1>6 DEF IsTable
  <2>2. order' \in SetToSeqs(DOMAIN summary')
    BY <1>1, <1>5 DEF ApiInv, TypeOK
  <2> QED BY <1>1, <1>3, <2>1, <2>2 DEF ApiInv, TypeOK
<1>8. FeedIsCurrent'
  <2> SUFFICES ASSUME NEW v \in Known, NEW i \in 1 .. n - 1, feed'[i].user = v,
                      \A j \in 1 .. n - 1 : feed'[j].user = v => j <= i
               PROVE  feed'[i] = Image(v, users[v])
    BY <1>1, <1>3 DEF FeedIsCurrent, Image, Known
  <2>1. feed[i + 1].user = v /\ i + 1 \in 1 .. n
    BY <1>3
  <2>2. ASSUME NEW j \in 1 .. n, feed[j].user = v
        PROVE  j <= i + 1
    <3>1. CASE j = 1
      BY <3>1
    <3>2. CASE j # 1
      <4>1. j - 1 \in 1 .. n - 1 /\ feed'[j - 1] = feed[j]
        BY <1>3, <3>2
      <4> QED BY <2>2, <4>1
    <3> QED BY <3>1, <3>2
  <2>3. feed[i + 1] = Image(v, users[v])
    BY <1>3, <2>1, <2>2 DEF ApiInv, FeedIsCurrent
  <2> QED BY <1>3, <2>3
<1>9. NamesConverge'
  <2> SUFFICES ASSUME NEW v \in Known \intersect S, \A i \in 1 .. n - 1 : feed'[i].user # v
               PROVE  /\ users[v].name \in {None, summary'[v].name}
                      /\ users[v].email \in {None, summary'[v].email}
    BY <1>1, <1>3, <1>5 DEF NamesConverge, Known
  <2>1. ASSUME NEW j \in 1 .. n, feed[j].user = v
        PROVE  j = 1
    <3>1. ASSUME j # 1
          PROVE  FALSE
      <4>1. j - 1 \in 1 .. n - 1 /\ feed'[j - 1] = feed[j]
        BY <1>3, <3>1
      <4> QED BY <2>1, <4>1
    <3> QED BY <3>1
  <2>2. CASE v = image.user
    <3>1. feed[1] = Image(v, users[v])
      BY <1>3, <2>1, <2>2 DEF ApiInv, FeedIsCurrent
    <3>2. image.name = users[v].name /\ image.email = users[v].email
      BY <1>3, <3>1 DEF Image
    <3>3. summary[v] \in UserSummary
      BY <1>4 DEF IsTable
    <3>4. summary'[v].name = Coalesce(image.name, summary[v].name) /\ summary'[v].email = Coalesce(image.email, summary[v].email)
      BY <1>5, <2>2, <3>3 DEF UserSummary
    <3> QED BY <3>2, <3>4 DEF Coalesce
  <2>3. CASE v # image.user
    <3>1. \A j \in DOMAIN feed : feed[j].user # v
      BY <1>3, <2>1, <2>3
    <3> QED BY <1>5, <2>3, <3>1 DEF ApiInv, NamesConverge
  <2> QED BY <2>2, <2>3
<1>10. LoadedRows'
  BY <1>1, <1>5, <1>6 DEF ApiInv, LoadedRows, TradesOf, AccountsOf
<1> QED BY <1>1, <1>7, <1>8, <1>9, <1>10, ReaderReadSame DEF ApiInv

-----------------------------------------------------------------------------
(* The pages.                                                               *)

(* The next page is what comes after the pages so far. *)
LEMMA NextPage ==
  ASSUME NEW L \in Seq(User), NEW p \in Nat
  PROVE  LET k == Smaller(p * PageSize, Len(L))
             end == IF p * PageSize + PageSize < Len(L) THEN p * PageSize + PageSize ELSE Len(L)
             page == SubSeq(L, p * PageSize + 1, end)
         IN /\ page \in Seq(User)
            /\ page # <<>> \/ p = 0 => SubSeq(L, 1, k) \o page = SubSeq(L, 1, Smaller((p + 1) * PageSize, Len(L)))
<1> DEFINE q == p * PageSize
           len == Len(L)
           end == IF q + PageSize < len THEN q + PageSize ELSE len
           page == SubSeq(L, q + 1, end)
           k == Smaller(q, len)
<1>1. PageSize \in Nat /\ PageSize > 0 /\ len \in Nat /\ L \in [1 .. len -> User]
  BY RestApiAssumption, LenProperties
<1>2. q \in Nat /\ (p + 1) * PageSize = q + PageSize /\ (p = 0 => q = 0)
  <2>1. \A a \in Nat : p * a \in Nat /\ (p + 1) * a = p * a + a /\ (p = 0 => p * a = 0)
    OBVIOUS
  <2> QED BY <1>1, <2>1
<1> HIDE DEF q, len
<1>3. end \in 0 .. len /\ k \in 0 .. len /\ end = Smaller(q + PageSize, len)
  BY <1>1, <1>2 DEF Smaller
<1>4. page \in Seq(User) /\ Len(page) = IF q + 1 <= end THEN end - q ELSE 0
  <2>1. \A i \in q + 1 .. end : L[i] \in User
    BY <1>1, <1>2, <1>3
  <2>2. q + 1 \in Int /\ end \in Int
    BY <1>1, <1>2
  <2> HIDE DEF end
  <2>3. page \in Seq(User) /\ Len(page) = IF q + 1 <= end THEN end - (q + 1) + 1 ELSE 0
    BY <2>1, <2>2, SubSeqProperties
  <2> QED BY <1>2, <2>2, <2>3
<1>5. ASSUME page # <<>> \/ p = 0
      PROVE  SubSeq(L, 1, k) \o page = SubSeq(L, 1, end)
  <2> HIDE DEF page, k, end
  <2>1. q <= end /\ q <= len
    <3>1. CASE p = 0
      BY <1>1, <1>2, <1>3, <3>1
    <3>2. CASE page # <<>>
      <4>1. Len(page) # 0
        BY <1>4, <3>2, EmptySeq
      <4> QED BY <1>1, <1>2, <1>3, <1>4, <4>1
    <3> QED BY <1>5, <3>1, <3>2
  <2>2. k = q /\ q \in 0 .. len /\ end \in q .. len
    BY <1>1, <1>2, <1>3, <2>1 DEF Smaller, k
  <2>3. 1 \in 1 .. len + 1
    BY <1>1
  <2>4. SubSeq(L, 1, q) \o SubSeq(L, q + 1, end) = SubSeq(L, 1, end)
    BY <2>2, <2>3, ConcatAdjacentSubSeq DEF len
  <2> QED BY <2>2, <2>4 DEF page
<1> QED BY <1>2, <1>3, <1>4, <1>5 DEF q, len

LEMMA ReadPageKeeps ==
  ASSUME ApiInv, NEW c \in Caller, ReadPage(c)
  PROVE  ApiInv'
<1> DEFINE L == Visible(c)
           p == reader.pages
           end == IF p * PageSize + PageSize < Len(L) THEN p * PageSize + PageSize ELSE Len(L)
           page == SubSeq(L, p * PageSize + 1, end)
<1>1. /\ Serving
      /\ p = 0 \/ (reader.caller = c /\ page # <<>>)
      /\ reader' = [caller |-> c, pages |-> p + 1, got |-> reader.got \o page]
      /\ UNCHANGED <<users, accounts, trades, keys, read, summary, order, held, feed, drift, changes>>
  <2>1. data_users(c, None, None, p * PageSize, PageSize) = [items |-> page, total |-> Len(L)]
    <3>1. Listed(c, None, None) = L
      BY ListedIsVisible
    <3> HIDE DEF L, p
    <3> QED BY <3>1 DEF data_users, page, end
  <2>2. data_users(c, None, None, p * PageSize, PageSize).items = page
    BY <2>1
  <2> HIDE DEF page
  <2> QED BY <2>2 DEF ReadPage, database, memory
<1>2. p \in Nat /\ L \in Seq(User) /\ reader.got \in Seq(User)
  BY VisibleLists DEF ApiInv, TypeOK
<1>3. reader.got = SubSeq(L, 1, Smaller(p * PageSize, Len(L)))
  <2>1. CASE p = 0
    <3>1. Smaller(p * PageSize, Len(L)) = 0
      BY <1>2, <2>1, RestApiAssumption, LenProperties DEF Smaller
    <3> HIDE DEF L, p
    <3>2. SubSeq(L, 1, 0) = <<>>
      BY SubSeqEmpty
    <3> QED BY <2>1, <3>1, <3>2 DEF ApiInv, ReaderRead, p
  <2>2. CASE p # 0
    BY <1>1, <1>2, <2>2 DEF ApiInv, ReaderRead
  <2> QED BY <2>1, <2>2
<1>4. page \in Seq(User) /\ (reader.got \o page) = SubSeq(L, 1, Smaller((p + 1) * PageSize, Len(L)))
  <2> HIDE DEF L, p
  <2> QED BY <1>1, <1>2, <1>3, NextPage DEF page, end
<1>5. Visible(c)' = L
  BY <1>1 DEF Visible
<1>6. reader' \in [caller : Caller, pages : Nat, got : Seq(User)]
  <2>1. reader.got \o page \in Seq(User) /\ p + 1 \in Nat
    <3> HIDE DEF p, page, L
    <3>1. reader.got \o page \in Seq(User)
      BY <1>2, <1>4, ConcatProperties
    <3> QED BY <1>2, <3>1
  <2> HIDE DEF p, page
  <2> QED BY <1>1, <2>1
<1>7. TypeOK'
  BY <1>1, <1>6 DEF ApiInv, TypeOK
<1>8. ReaderRead'
  <2>1. reader'.caller = c /\ reader'.pages = p + 1 /\ reader'.got = SubSeq(L, 1, Smaller((p + 1) * PageSize, Len(L)))
    BY <1>1, <1>4
  <2>2. Serving'
    BY <1>1 DEF Serving
  <2>3. Visible(reader.caller)' = L
    BY <1>1, <2>1 DEF Visible
  <2> HIDE DEF L, p
  <2> QED BY <1>2, <2>1, <2>2, <2>3 DEF ReaderRead
<1> QED BY <1>1, <1>7, <1>8, NamesSame, LoadedRowsSame DEF ApiInv

-----------------------------------------------------------------------------
(* All steps.                                                               *)

LEMMA RestInitEstablishes == Init => ApiInv
<1> SUFFICES ASSUME Init
             PROVE  ApiInv
  OBVIOUS
<1>1. PICK known \in SUBSET User :
        users = [u \in known |-> [name |-> CHOOSE n \in Name : TRUE, email |-> None, org |-> Member[u]]]
  BY DEF Init
<1>2. /\ accounts \in SUBSET {a \in DOMAIN Account : Account[a] \in DOMAIN users}
      /\ trades \in SUBSET {t \in DOMAIN Trade : Trade[t].account \in accounts}
      /\ keys = <<>> /\ read = {} /\ summary = <<>> /\ order = <<>> /\ held = {} /\ feed = <<>>
      /\ reader = [caller |-> CHOOSE c \in Caller : TRUE, pages |-> 0, got |-> <<>>]
      /\ drift = {} /\ changes = 0
  BY DEF Init
<1>3. IsTable(users, User, Row)
  <2>1. (CHOOSE n \in Name : TRUE) \in Name
    BY RestApiAssumption
  <2>2. \A u \in known : Member[u] \in Optional(Org)
    BY RestApiAssumption DEF Optional
  <2>3. \A u \in known : users[u] \in Row
    BY <1>1, <2>1, <2>2 DEF Row, Optional
  <2> QED BY <1>1, <2>3 DEF IsTable
<1>4. DOMAIN summary = {} /\ DOMAIN keys = {}
  BY <1>2
<1>5. order \in SetToSeqs(DOMAIN summary)
  <2>1. Cardinality({}) = 0
    BY FS_EmptySet
  <2>2. order \in [1 .. 0 -> {}]
    BY <1>2
  <2> QED BY <1>4, <2>1, <2>2 DEF SetToSeqs
<1>6. reader \in [caller : Caller, pages : Nat, got : Seq(User)]
  <2>1. (CHOOSE c \in Caller : TRUE) \in Caller
    BY RestApiAssumption
  <2>2. <<>> \in Seq(User)
    BY EmptySeq
  <2> QED BY <1>2, <2>1, <2>2
<1>7. TypeOK
  <2>1. feed \in Seq([user : User, name : Optional(Name), email : Optional(Email)])
    BY <1>2, EmptySeq
  <2>2. changes \in 0 .. MaxChanges
    BY <1>2, RestApiAssumption
  <2>3. IsTable(keys, Key, [org : Org, revoked : BOOLEAN]) /\ IsTable(summary, User, UserSummary)
    BY <1>4 DEF IsTable
  <2> QED BY <1>2, <1>3, <1>5, <1>6, <2>1, <2>2, <2>3 DEF TypeOK
<1>8. FeedIsCurrent /\ NamesConverge /\ ReaderRead /\ LoadedRows
  <2>1. DOMAIN feed = {}
    BY <1>2
  <2> QED BY <1>2, <1>4, <2>1 DEF FeedIsCurrent, NamesConverge, ReaderRead, LoadedRows
<1> QED BY <1>7, <1>8 DEF ApiInv

LEMMA RestNextKeeps == ApiInv /\ [Next]_vars => ApiInv'
<1> SUFFICES ASSUME ApiInv, [Next]_vars
             PROVE  ApiInv'
  OBVIOUS
<1>1. ASSUME NEW c \in Caller, NEW u \in User, NEW name \in Optional(Name), NEW email \in Optional(Email),
             CreateUser(c, u, name, email) \/ UpdateUser(c, u, name, email)
      PROVE  ApiInv'
  BY <1>1, CreateUserKeeps, UpdateUserKeeps
<1>2. ASSUME NEW c \in Caller, NEW u \in User, DeleteUser(c, u)
      PROVE  ApiInv'
  BY <1>2, DeleteUserKeeps
<1>3. ASSUME NEW c \in Caller, NEW o \in Org, NEW k \in Key, MakeKey(c, o, k) \/ RevokeKey(c, o, k)
      PROVE  ApiInv'
  BY <1>3, KeyStepKeeps
<1>4. ASSUME NEW a \in DOMAIN Account, ImportAccount(a) \/ RemoveAccount(a)
      PROVE  ApiInv'
  BY <1>4, ImportAccountKeeps, RemoveAccountKeeps
<1>5. ASSUME NEW t \in DOMAIN Trade, ImportTrade(t)
      PROVE  ApiInv'
  BY <1>5, ImportTradeKeeps
<1>6. CASE LoadUsers
  BY <1>6, LoadUsersKeeps
<1>7. CASE LoadTrades
  BY <1>7, LoadTradesKeeps
<1>8. CASE ApplyUser
  BY <1>8, ApplyUserKeeps
<1>9. ASSUME NEW c \in Caller, ReadPage(c)
      PROVE  ApiInv'
  BY <1>9, ReadPageKeeps
<1>10. CASE UNCHANGED vars
  <2>1. UNCHANGED <<users, accounts, trades, keys, read, summary, order, held, feed, reader, drift, changes>>
    BY <1>10 DEF vars, database, memory
  <2>2. TypeOK'
    BY <2>1 DEF ApiInv, TypeOK
  <2> QED BY <2>1, <2>2, NamesSame, ReaderReadSame, LoadedRowsSame DEF ApiInv
<1> QED BY <1>1, <1>2, <1>3, <1>4, <1>5, <1>6, <1>7, <1>8, <1>9, <1>10 DEF Next

(* The routes, the load, the feed and other programs keep the invariant,     *)
(* whatever the number of users, accounts, trades, keys and changes.        *)
THEOREM RestInvariant == Spec => []ApiInv
<1> QED BY RestInitEstablishes, RestNextKeeps, PTL DEF Spec

(* The tables and what memory has of them are well formed: foreign keys hold *)
(* and the map is iterated over each user once.                             *)
THEOREM RestTypeCorrect == Spec => []TypeOK
<1>1. ApiInv => TypeOK
  BY DEF ApiInv
<1> QED BY <1>1, RestInvariant, PTL

(* What memory has of a user with nothing on the feed is what the database   *)
(* has, however the load and the images from before it interleave.          *)
THEOREM NamesAreCurrent == Spec => []NamesConverge
<1>1. ApiInv => NamesConverge
  BY DEF ApiInv
<1> QED BY <1>1, RestInvariant, PTL

-----------------------------------------------------------------------------
(* Pages.                                                                   *)

LEMMA AllPages ==
  ASSUME ApiInv, reader.pages > 0
  PROVE  PagesTile
<1> DEFINE L == Visible(reader.caller)
           p == reader.pages
           k == Smaller(p * PageSize, Len(L))
           n == Len(order)
<1>1. /\ L \in Seq(User) /\ Len(L) \in Nat /\ Len(L) <= n
      /\ \A i, j \in 1 .. Len(L) : L[i] = L[j] => i = j
      /\ {L[i] : i \in 1 .. Len(L)} = {u \in ToSet(order) : CanAccess(reader.caller, u)}
  BY VisibleLists DEF ApiInv
<1>2. n \in Nat
  BY OrderLists DEF ApiInv
<1>3. p * PageSize \in Nat
  <2>1. p \in Nat /\ PageSize \in Nat
    BY RestApiAssumption DEF ApiInv, TypeOK
  <2> HIDE DEF p
  <2> QED BY <2>1
<1>4. reader.got = SubSeq(L, 1, k)
  BY DEF ApiInv, ReaderRead
<1> HIDE DEF L, p, n
<1>5. k \in 0 .. Len(L)
  BY <1>1, <1>3 DEF Smaller
<1>6. SubSeq(L, 1, k) \in Seq(User) /\ Len(SubSeq(L, 1, k)) = k /\ \A i \in 1 .. k : SubSeq(L, 1, k)[i] = L[i]
  <2> HIDE DEF k
  <2>1. \A i \in 1 .. k : L[i] \in User
    BY <1>1, <1>5, ElementOfSeq
  <2>2. /\ SubSeq(L, 1, k) \in Seq(User)
        /\ Len(SubSeq(L, 1, k)) = IF 1 <= k THEN k - 1 + 1 ELSE 0
        /\ \A i \in 1 .. k - 1 + 1 : SubSeq(L, 1, k)[i] = L[1 + i - 1]
    BY <1>1, <1>5, <2>1, SubSeqProperties
  <2> QED BY <1>1, <1>5, <2>2
<1>7. DOMAIN reader.got = 1 .. k /\ \A i \in 1 .. k : reader.got[i] = L[i]
  <2> HIDE DEF k
  <2> QED BY <1>4, <1>6, LenProperties
<1>8. IsInjective(reader.got)
  <2> HIDE DEF k
  <2> QED BY <1>1, <1>5, <1>7 DEF IsInjective
<1>9. ASSUME p * PageSize >= n
      PROVE  ToSet(reader.got) = {u \in ToSet(order) : CanAccess(reader.caller, u)}
  <2>1. k = Len(L)
    BY <1>1, <1>2, <1>3, <1>9 DEF Smaller
  <2> HIDE DEF k
  <2>2. ToSet(reader.got) = {L[i] : i \in 1 .. k}
    BY <1>7 DEF ToSet
  <2> QED BY <1>1, <2>1, <2>2
<1> QED BY <1>8, <1>9 DEF PagesTile, p, n

(* Pages of data_users read one after another hold every user the caller may *)
(* see, once: nothing that happens in between moves a user to another page.  *)
THEOREM PagesAreTiled == Spec => []PagesTile
<1>1. ASSUME ApiInv, ~ reader.pages > 0
      PROVE  PagesTile
  <2>1. reader.got = <<>>
    BY <1>1 DEF ApiInv, ReaderRead, TypeOK
  <2>2. DOMAIN reader.got = {}
    BY <2>1
  <2>3. IsInjective(reader.got)
    BY <2>2 DEF IsInjective
  <2> QED BY <1>1, <2>3 DEF PagesTile
<1>2. ApiInv => PagesTile
  BY <1>1, AllPages
<1> QED BY <1>2, RestInvariant, PTL

-----------------------------------------------------------------------------
(* Confinement.                                                             *)

LEMMA CallerConfined ==
  ASSUME TypeOK, NEW c \in Caller, ~ Unrestricted(c), NEW u \in User \ {c.user}
  PROVE  /\ {data_user(c, u), get_user(c, u), user_accounts(c, u), user_positions(c, u), user_trades(c, u),
             valued_trades(c, u), list_users(c), list_organizations(c)} = {Forbidden}
         /\ \A o \in Org : get_organization(c, o) = Forbidden
         /\ \A a \in DOMAIN Account : {account_positions(c, u, a), account_trades(c, u, a)} = {Forbidden}
         /\ \A i \in DOMAIN Prices : position_trades(c, u, i) = Forbidden
         /\ {create_user(c, u), update_user(c, u, None), delete_user(c, u)} = {403}
         /\ u \notin ToSet(Listed(c, None, None))
<1>1. ~ CanAccess(c, u)
  BY DEF CanAccess
<1>2. /\ data_user(c, u) = Forbidden /\ get_user(c, u) = Forbidden /\ user_accounts(c, u) = Forbidden
      /\ user_positions(c, u) = Forbidden /\ list_users(c) = Forbidden /\ list_organizations(c) = Forbidden
  BY <1>1 DEF data_user, get_user, user_accounts, user_positions, list_users, list_organizations
<1>3. load_trades(c, u) = Forbidden /\ Forbidden.status # 200
  BY <1>1 DEF load_trades, Forbidden, Answer
<1>4. \A selected : trades_where(c, u, selected) = Forbidden
  BY <1>3 DEF trades_where
<1>5. user_trades(c, u) = Forbidden /\ valued_trades(c, u) = Forbidden
  BY <1>3, <1>4 DEF user_trades, valued_trades
<1>6. \A o \in Org : get_organization(c, o) = Forbidden
  BY DEF get_organization
<1>7. \A a \in DOMAIN Account : account_positions(c, u, a) = Forbidden /\ account_trades(c, u, a) = Forbidden
  BY <1>1, <1>4 DEF account_positions, account_trades
<1>8. \A i \in DOMAIN Prices : position_trades(c, u, i) = Forbidden
  BY <1>4 DEF position_trades
<1>9. create_user(c, u) = 403 /\ update_user(c, u, None) = 403 /\ delete_user(c, u) = 403
  BY <1>1 DEF create_user, update_user, delete_user
<1>10. u \notin ToSet(Listed(c, None, None))
  <2> DEFINE L == Visible(c)
  <2>1. L \in Seq(User) /\ {L[n] : n \in 1 .. Len(L)} = {v \in ToSet(order) : CanAccess(c, v)}
    BY VisibleLists
  <2>2. Listed(c, None, None) = L
    BY ListedIsVisible
  <2> HIDE DEF L
  <2>3. DOMAIN L = 1 .. Len(L)
    BY <2>1, LenProperties
  <2> QED BY <1>1, <2>1, <2>2, <2>3 DEF ToSet
<1> QED BY <1>2, <1>5, <1>6, <1>7, <1>8, <1>9, <1>10

(* A caller who is no unrestricted admin is refused everything about another *)
(* user before anything is looked up, and an admin of one organisation       *)
(* reaches the keys of no other.                                            *)
THEOREM CallersAreConfined == Spec => []Confined
<1>1. ASSUME NEW c \in Caller, c.org # None, NEW o \in Org, NEW k \in Key
      PROVE  /\ list_api_keys(c, o).body \subseteq KeysOf(c.org)
             /\ revoke_api_key(c, o, k) = 200 => k \in KeysOf(c.org)
  <2>1. OrgAdmin(c, o) => c.org = o
    BY <1>1 DEF OrgAdmin
  <2>2. list_api_keys(c, o).body = IF OrgAdmin(c, o) THEN KeysOf(o) ELSE {}
    BY DEF list_api_keys, Forbidden, Answer
  <2>3. revoke_api_key(c, o, k) = 200 => OrgAdmin(c, o) /\ k \in KeysOf(o)
    BY DEF revoke_api_key
  <2> QED BY <2>1, <2>2, <2>3
<1>2. TypeOK => Confined
  BY <1>1, CallerConfined DEF Confined
<1> QED BY <1>2, RestTypeCorrect, PTL

-----------------------------------------------------------------------------
(* Counts and sums.                                                         *)

(* The counts of the users make up all the trades in memory, if all of them  *)
(* have an owner that was loaded.                                           *)
LEMMA CountsAddUp ==
  ASSUME TypeOK, \A t \in held : Owner(t) \in DOMAIN summary,
         \A u \in DOMAIN summary : summary[u].trade_count = Cardinality(TradesOf(u))
  PROVE  Cardinality(held) = SumFunctionOnSet([u \in ToSet(order) |-> summary[u].trade_count], ToSet(order))
<1> DEFINE K == DOMAIN summary
           one == [t \in held |-> 1]
           owner == [t \in held |-> Owner(t)]
           count == [u \in K |-> SumFunctionOnSet(one, {t \in held : owner[t] = u})]
           shown == [u \in K |-> summary[u].trade_count]
<1>1. ToSet(order) = K /\ IsFiniteSet(K) /\ IsFiniteSet(held)
  BY OrderLists, RowsFinite
<1>2. \A t \in held : one[t] = 1 /\ owner[t] = Owner(t)
  OBVIOUS
<1>3. \A t \in held : owner[t] \in K
  BY <1>2
<1>4. ASSUME NEW u \in K
      PROVE  count[u] \in Int /\ count[u] = shown[u]
  <2> DEFINE T == {t \in held : owner[t] = u}
  <2>1. T = TradesOf(u)
    BY DEF TradesOf
  <2>2. IsFiniteSet(T) /\ T \in SUBSET held
    BY <1>1, FS_Subset
  <2>3. count[u] = SumFunctionOnSet(one, T)
    OBVIOUS
  <2> HIDE DEF T, one, count
  <2>4. SumFunctionOnSet(one, T) = Cardinality(T)
    BY <1>2, <2>2, SumOfOnes
  <2>5. Cardinality(T) \in Int
    BY <2>2, FS_CardinalityType
  <2> QED BY <2>1, <2>3, <2>4, <2>5
<1>5. SumFunctionOnSet(one, held) = Cardinality(held)
  <2> HIDE DEF one
  <2> QED BY <1>1, <1>2, SumOfOnes
<1>6. SumFunctionOnSet(one, held) = SumFunctionOnSet(count, K)
  <2>1. \A t \in held : one[t] \in Int
    OBVIOUS
  <2> HIDE DEF one, owner, K
  <2> QED BY <1>1, <1>3, <2>1, SumOfParts
<1>7. SumFunctionOnSet(count, K) = SumFunctionOnSet(shown, K)
  <2> HIDE DEF count, shown, K
  <2> QED BY <1>1, <1>4, SumSame
<1> QED BY <1>1, <1>5, <1>6, <1>7

LEMMA CountsHold == ApiInv => CountsExplained
<1> SUFFICES ASSUME ApiInv, Serving
             PROVE  /\ \A u \in DOMAIN summary \ drift :
                         /\ summary[u].trade_count = Cardinality(TradesOf(u))
                         /\ summary[u].account_count = Cardinality(AccountsOf(u))
                    /\ drift = {} =>
                         data_stats.trade_count =
                           SumFunctionOnSet([u \in ToSet(order) |-> summary[u].trade_count], ToSet(order))
  BY DEF CountsExplained
<1>1. "users" \in read /\ "trades" \in read
  BY DEF Serving
<1>2. ASSUME NEW u \in DOMAIN summary \ drift
      PROVE  /\ summary[u].trade_count = Cardinality(TradesOf(u))
             /\ summary[u].account_count = Cardinality(AccountsOf(u))
  <2>1. u \in User \ drift
    BY DEF ApiInv, TypeOK, IsTable
  <2>2. TradesOf(u) = {t \in trades : Owner(t) = u}
    BY <1>1, <2>1 DEF ApiInv, LoadedRows
  <2>3. /\ summary[u].trade_count = Cardinality({t \in trades : Owner(t) = u})
        /\ summary[u].account_count = Cardinality(AccountsOf(u))
    BY <1>1 DEF ApiInv, LoadedRows
  <2> QED BY <2>2, <2>3
<1>3. ASSUME drift = {}, NEW t \in held
      PROVE  Owner(t) \in DOMAIN summary
  <2>1. t \in DOMAIN Trade /\ Owner(t) \in User
    BY Owners DEF ApiInv, TypeOK
  <2>2. t \in TradesOf(Owner(t))
    BY DEF TradesOf
  <2>3. t \in trades
    BY <1>1, <1>3, <2>1, <2>2 DEF ApiInv, LoadedRows
  <2>4. Trade[t].account \in accounts
    BY <2>3 DEF ApiInv, TypeOK
  <2> QED BY <1>1, <1>3, <2>1, <2>4, TradeOwnerAssumption DEF ApiInv, LoadedRows, Owner
<1>4. ASSUME drift = {}
      PROVE  Cardinality(held) = SumFunctionOnSet([u \in ToSet(order) |-> summary[u].trade_count], ToSet(order))
  BY <1>2, <1>3, <1>4, CountsAddUp DEF ApiInv
<1>5. data_stats.trade_count = Cardinality(held)
  BY DEF data_stats
<1> QED BY <1>2, <1>4, <1>5

(* What the console shows side by side - counts a join computed, counts over *)
(* the trades in memory, their sum - agrees for every user of whom nothing   *)
(* changed since the first query of the load.                               *)
THEOREM CountsAreExplained == Spec => []CountsExplained
<1> QED BY CountsHold, RestInvariant, PTL

-----------------------------------------------------------------------------
(* The overview of accounts.                                                *)

(* An instrument with the place of its latest price, 0 if it has none. *)
Dated(i) == <<i, Len(Prices[i])>>

Joined(own) == {Dated(i) : i \in Instruments(own)}

LEMMA JoinedIsDated ==
  ASSUME NEW own \in SUBSET DOMAIN Trade
  PROVE  UNION {{<<i, d>> : d \in IF Quoted(i) = {} THEN {0} ELSE Quoted(i)} : i \in Instruments(own)} = Joined(own)
<1>1. ASSUME NEW i \in Instruments(own)
      PROVE  {<<i, d>> : d \in IF Quoted(i) = {} THEN {0} ELSE Quoted(i)} = {Dated(i)}
  <2>1. i \in DOMAIN Prices
    BY RestApiAssumption DEF Instruments
  <2>2. Prices[i] = <<>> => Len(Prices[i]) = 0
    BY EmptySeq
  <2>3. (IF Quoted(i) = {} THEN {0} ELSE Quoted(i)) = {Len(Prices[i])}
    BY <2>2 DEF Quoted
  <2> QED BY <2>3 DEF Dated
<1> QED BY <1>1 DEF Joined

LEMMA Tally ==
  ASSUME NEW own \in SUBSET DOMAIN Trade, IsFiniteSet(own)
  PROVE  /\ IsFiniteSet(Joined(own))
         /\ \A t \in own : Dated(Trade[t].instrument) \in Joined(own)
         /\ \A row \in Joined(own) : {t \in own : Dated(Trade[t].instrument) = row} = Of(own, row[1])
         /\ Cardinality(Joined(own)) = Cardinality(Instruments(own))
<1> DEFINE J == Joined(own)
           part == [t \in own |-> Dated(Trade[t].instrument)]
           name == [row \in J |-> row[1]]
<1>1. \A t \in own : Dated(Trade[t].instrument) \in J
  BY DEF Joined, Instruments
<1>2. \A row \in J : \E t \in own : row = Dated(Trade[t].instrument)
  BY DEF Joined, Instruments
<1>3. \A i : Dated(i)[1] = i
  BY DEF Dated
<1>4. \A row \in J : row = Dated(row[1]) /\ row[1] \in Instruments(own)
  BY <1>3 DEF Joined
<1>5. \A row \in J : {t \in own : Dated(Trade[t].instrument) = row} = Of(own, row[1])
  BY <1>3, <1>4 DEF Of
<1>6. IsFiniteSet(J)
  <2>1. part \in Surjection(own, J)
    BY <1>1, <1>2 DEF Surjection
  <2> HIDE DEF part, J
  <2> QED BY <2>1, FS_Surjection
<1>7. Cardinality(J) = Cardinality(Instruments(own))
  <2>1. name \in Bijection(J, Instruments(own))
    <3>1. name \in [J -> Instruments(own)]
      BY <1>4
    <3>2. \A r, q \in J : name[r] = name[q] => r = q
      BY <1>4
    <3>3. \A i \in Instruments(own) : Dated(i) \in J /\ name[Dated(i)] = i
      BY <1>3 DEF Joined
    <3> HIDE DEF name, J
    <3> QED BY <3>1, <3>2, <3>3 DEF Bijection, Injection, Surjection, IsInjective
  <2> HIDE DEF name, J
  <2> QED BY <1>6, <2>1, FS_Bijection DEF ExistsBijection
<1> QED BY <1>1, <1>5, <1>6, <1>7

(* Counted position by position there are as many trades. *)
LEMMA TradesTally ==
  ASSUME NEW own \in SUBSET DOMAIN Trade, IsFiniteSet(own)
  PROVE  SumFunctionOnSet([row \in Joined(own) |-> Cardinality(Of(own, row[1]))], Joined(own)) = Cardinality(own)
<1> DEFINE J == Joined(own)
           one == [t \in own |-> 1]
           part == [t \in own |-> Dated(Trade[t].instrument)]
           count == [row \in J |-> SumFunctionOnSet(one, {t \in own : part[t] = row})]
           shown == [row \in J |-> Cardinality(Of(own, row[1]))]
<1>1. /\ IsFiniteSet(J)
      /\ \A t \in own : part[t] \in J
      /\ \A row \in J : {t \in own : part[t] = row} = Of(own, row[1])
  BY Tally
<1>2. \A t \in own : one[t] = 1
  OBVIOUS
<1>3. ASSUME NEW row \in J
      PROVE  count[row] \in Int /\ count[row] = shown[row]
  <2> DEFINE T == Of(own, row[1])
  <2>1. T \in SUBSET own /\ IsFiniteSet(T)
    BY FS_Subset DEF Of
  <2>2. count[row] = SumFunctionOnSet(one, T)
    BY <1>1
  <2>3. shown[row] = Cardinality(T)
    OBVIOUS
  <2> HIDE DEF T, one, count, shown
  <2>4. SumFunctionOnSet(one, T) = Cardinality(T)
    BY <1>2, <2>1, SumOfOnes
  <2>5. Cardinality(T) \in Int
    BY <2>1, FS_CardinalityType
  <2> QED BY <2>2, <2>3, <2>4, <2>5
<1>4. SumFunctionOnSet(one, own) = Cardinality(own)
  <2> HIDE DEF one
  <2> QED BY <1>2, SumOfOnes
<1>5. SumFunctionOnSet(one, own) = SumFunctionOnSet(count, J)
  <2>1. \A t \in own : one[t] \in Int
    OBVIOUS
  <2> HIDE DEF one, part, J
  <2> QED BY <1>1, <2>1, SumOfParts
<1>6. SumFunctionOnSet(count, J) = SumFunctionOnSet(shown, J)
  <2> HIDE DEF count, shown, J
  <2> QED BY <1>1, <1>3, SumSame
<1> QED BY <1>4, <1>5, <1>6

LEMMA Commutes ==
  ASSUME NEW a \in Int, NEW b \in Int
  PROVE  a * b = b * a
OBVIOUS

(* The value of the positions is the value of the single trades. *)
LEMMA ValueTally ==
  ASSUME NEW own \in SUBSET DOMAIN Trade, IsFiniteSet(own)
  PROVE  LET priced == {row \in Joined(own) : row[2] # 0}
             quoted == {t \in own : Prices[Trade[t].instrument] # <<>>}
         IN /\ priced = {} <=> quoted = {}
            /\ SumFunctionOnSet([row \in priced |-> Quantity(Of(own, row[1])) * Prices[row[1]][row[2]]], priced)
                 = SumFunctionOnSet([t \in quoted |-> Trade[t].quantity * Last(Prices[Trade[t].instrument])], quoted)
<1> DEFINE J == Joined(own)
           priced == {row \in J : row[2] # 0}
           quoted == {t \in own : Prices[Trade[t].instrument] # <<>>}
           price(t) == Last(Prices[Trade[t].instrument])
           value == [t \in quoted |-> Trade[t].quantity * price(t)]
           part == [t \in quoted |-> Dated(Trade[t].instrument)]
           sum == [row \in priced |-> SumFunctionOnSet(value, {t \in quoted : part[t] = row})]
           shown == [row \in priced |-> Quantity(Of(own, row[1])) * Prices[row[1]][row[2]]]
<1>1. /\ IsFiniteSet(J)
      /\ \A t \in own : Dated(Trade[t].instrument) \in J
      /\ \A row \in J : {t \in own : Dated(Trade[t].instrument) = row} = Of(own, row[1])
  BY Tally
<1>2. \A row \in J : \E t \in own : row = Dated(Trade[t].instrument)
  BY DEF Joined, Instruments
<1>3. IsFiniteSet(priced) /\ IsFiniteSet(quoted)
  <2> HIDE DEF J
  <2>1. priced \in SUBSET J /\ quoted \in SUBSET own
    OBVIOUS
  <2> QED BY <1>1, <2>1, FS_Subset
<1>4. \A t \in own : /\ Trade[t].quantity \in Int
                     /\ Trade[t].instrument \in DOMAIN Prices
                     /\ Prices[Trade[t].instrument] \in Seq(Nat)
  BY RestApiAssumption
<1>5. ASSUME NEW t \in own
      PROVE  /\ Dated(Trade[t].instrument)[2] # 0 <=> t \in quoted
             /\ t \in quoted => price(t) \in Int
  <2> DEFINE s == Prices[Trade[t].instrument]
  <2>1. s \in Seq(Nat) /\ Dated(Trade[t].instrument)[2] = Len(s) /\ (t \in quoted <=> s # <<>>) /\ price(t) = s[Len(s)]
    BY <1>4 DEF Dated, Last
  <2> HIDE DEF s, quoted, price
  <2>2. (s = <<>> => Len(s) = 0) /\ (s # <<>> => Len(s) \in Nat \ {0})
    BY <2>1, EmptySeq
  <2>3. s # <<>> => s[Len(s)] \in Nat
    <3>1. s # <<>> => Len(s) \in 1 .. Len(s)
      BY <2>2
    <3> QED BY <2>1, <3>1, ElementOfSeq
  <2> QED BY <2>1, <2>2, <2>3
<1>6. \A t \in quoted : t \in own /\ value[t] \in Int /\ part[t] \in priced
  BY <1>1, <1>4, <1>5
<1>7. priced = {} <=> quoted = {}
  BY <1>2, <1>5, <1>6
<1>8. ASSUME NEW row \in priced
      PROVE  sum[row] \in Int /\ sum[row] = shown[row]
  <2> DEFINE T == Of(own, row[1])
             k == Prices[row[1]][row[2]]
             quantity == [t \in T |-> Trade[t].quantity]
  <2>1. T = {t \in own : Dated(Trade[t].instrument) = row} /\ row[2] # 0
    BY <1>1
  <2>2. {t \in quoted : part[t] = row} = T /\ T \in SUBSET quoted
    <3> HIDE DEF T
    <3>1. \A t \in T : t \in own /\ Dated(Trade[t].instrument)[2] # 0
      BY <2>1
    <3>2. \A t \in T : t \in quoted
      BY <1>5, <3>1
    <3>3. \A t \in quoted : part[t] = Dated(Trade[t].instrument) /\ t \in own
      OBVIOUS
    <3> HIDE DEF quoted, part
    <3> QED BY <2>1, <3>2, <3>3
  <2>3. \A t \in T : price(t) = k
    BY <2>1 DEF Dated, Last
  <2>4. IsFiniteSet(T)
    BY <1>3, <2>2, FS_Subset
  <2>5. \A t \in T : quantity[t] \in Int /\ value[t] = quantity[t] * price(t) /\ price(t) \in Int
    BY <1>4, <1>5, <1>6, <2>2
  <2>6. Quantity(T) = SumFunctionOnSet(quantity, T)
    BY DEF Quantity
  <2>7. k \in Int
    <3>1. PICK t \in own : row = Dated(Trade[t].instrument)
      BY <1>2
    <3>2. t \in T
      BY <2>1, <3>1
    <3> HIDE DEF T, k, quantity
    <3> QED BY <2>3, <2>5, <3>2
  <2> HIDE DEF T, k, quantity, price, value
  <2>8. \A t \in T : quantity[t] \in Int /\ value[t] = k * quantity[t]
    BY <2>3, <2>5, <2>7, Commutes
  <2>9. SumFunctionOnSet(value, T) = k * SumFunctionOnSet(quantity, T)
    BY <2>4, <2>7, <2>8, SumTimes
  <2>10. SumFunctionOnSet(quantity, T) \in Int
    BY <2>4, <2>8, SumType
  <2>11. SumFunctionOnSet(value, T) = SumFunctionOnSet(quantity, T) * k
    BY <2>7, <2>9, <2>10, Commutes
  <2>12. sum[row] = SumFunctionOnSet(value, T) /\ shown[row] = Quantity(T) * k
    BY <2>2 DEF T, k
  <2> HIDE DEF sum, shown
  <2>13. SumFunctionOnSet(value, T) \in Int
    BY <2>7, <2>10, <2>11
  <2> QED BY <2>6, <2>11, <2>12, <2>13
<1>9. SumFunctionOnSet(value, quoted) = SumFunctionOnSet(sum, priced)
  <2> HIDE DEF value, part, priced, quoted
  <2> QED BY <1>3, <1>6, SumOfParts
<1>10. SumFunctionOnSet(sum, priced) = SumFunctionOnSet(shown, priced)
  <2> HIDE DEF sum, shown, priced
  <2> QED BY <1>3, <1>8, SumSame
<1> QED BY <1>7, <1>9, <1>10

LEMMA PositionsOfInstruments ==
  ASSUME NEW T
  PROVE  {p.instrument : p \in Positions(T)} = Instruments(T)
<1> DEFINE Pairs == {<<Trade[t].instrument, Trade[t].currency>> : t \in T}
           position(p) == [instrument |-> p[1], currency |-> p[2],
                           quantity |-> Quantity({t \in Of(T, p[1]) : Trade[t].currency = p[2]}),
                           trade_count |-> Cardinality({t \in Of(T, p[1]) : Trade[t].currency = p[2]})]
<1>1. Positions(T) = {position(p) : p \in Pairs}
  BY DEF Positions
<1>2. \A p : position(p).instrument = p[1]
  OBVIOUS
<1> HIDE DEF position
<1>3. \A q \in Positions(T) : \E p \in Pairs : q.instrument = p[1]
  BY <1>1, <1>2
<1>4. \A p \in Pairs : \E q \in Positions(T) : q.instrument = p[1]
  BY <1>1, <1>2
<1>5. \A p \in Pairs : p[1] \in Instruments(T)
  BY DEF Instruments
<1>6. ASSUME NEW i \in Instruments(T)
      PROVE  \E p \in Pairs : p[1] = i
  <2>1. PICK t \in T : i = Trade[t].instrument
    BY DEF Instruments
  <2>2. <<Trade[t].instrument, Trade[t].currency>> \in Pairs
    OBVIOUS
  <2> QED BY <2>1, <2>2
<1> QED BY <1>3, <1>4, <1>5, <1>6

LEMMA OverviewHolds == ApiInv => AccountsAgree
<1> SUFFICES ASSUME ApiInv, Serving, NEW c \in Caller, NEW u \in User \ drift,
                    NEW row \in user_accounts(c, u).body
             PROVE  LET own == {t \in TradesOf(u) : Trade[t].account = row.account}
                        priced == {t \in own : Prices[Trade[t].instrument] # <<>>}
                    IN /\ row.trade_count = Cardinality(own)
                       /\ row.position_count = Cardinality({p.instrument : p \in account_positions(c, u, row.account).body})
                       /\ row.market_value =
                            IF priced = {} THEN {}
                            ELSE {SumFunctionOnSet([t \in priced |-> Trade[t].quantity * Last(Prices[Trade[t].instrument])], priced)}
  BY DEF AccountsAgree
<1>1. Unrestricted(c) /\ row \in {AccountRow(a) : a \in AccountsOf(u)}
  BY DEF user_accounts, Forbidden, Answer
<1>2. PICK a \in AccountsOf(u) : row = AccountRow(a)
  BY <1>1
<1> DEFINE own == {t \in trades : Trade[t].account = a}
           J == Joined(own)
           rows == {r \in J : r[2] # 0}
           priced == {t \in own : Prices[Trade[t].instrument] # <<>>}
           value == SumFunctionOnSet([r \in rows |-> Quantity(Of(own, r[1])) * Prices[r[1]][r[2]]], rows)
<1>3. own \in SUBSET DOMAIN Trade /\ IsFiniteSet(own)
  <2>1. own \in SUBSET trades /\ IsFiniteSet(trades)
    BY RowsFinite DEF ApiInv
  <2> QED BY <2>1, FS_Subset DEF ApiInv, TypeOK
<1>4. row = [account |-> a,
             trade_count |-> SumFunctionOnSet([r \in J |-> Cardinality(Of(own, r[1]))], J),
             position_count |-> Cardinality(J),
             market_value |-> IF rows = {} THEN {} ELSE {value}]
  <2>1. UNION {{<<i, d>> : d \in IF Quoted(i) = {} THEN {0} ELSE Quoted(i)} : i \in Instruments(own)} = J
    BY <1>3, JoinedIsDated
  <2> HIDE DEF J
  <2> QED BY <1>2, <2>1 DEF AccountRow
<1>5. own = {t \in TradesOf(u) : Trade[t].account = a}
  <2>1. Account[a] = u
    BY DEF AccountsOf
  <2>2. TradesOf(u) = {t \in trades : Owner(t) = u}
    BY DEF ApiInv, LoadedRows, Serving
  <2>3. \A t \in trades : Trade[t].account = a => Owner(t) = u
    BY <2>1, TradeOwnerAssumption DEF Owner, ApiInv, TypeOK
  <2> QED BY <2>1, <2>2, <2>3
<1>6. account_positions(c, u, a).body = Positions(own)
  BY <1>1, <1>5 DEF account_positions, CanAccess, Answer
<1>7. {p.instrument : p \in Positions(own)} = Instruments(own)
  BY PositionsOfInstruments
<1>8. Cardinality(J) = Cardinality(Instruments(own))
  BY <1>3, Tally
<1>9. SumFunctionOnSet([r \in J |-> Cardinality(Of(own, r[1]))], J) = Cardinality(own)
  BY <1>3, TradesTally
<1>10. /\ rows = {} <=> priced = {}
       /\ value = SumFunctionOnSet([t \in priced |-> Trade[t].quantity * Last(Prices[Trade[t].instrument])], priced)
  BY <1>3, ValueTally
<1> HIDE DEF J, rows, value
<1>11. /\ row.account = a
       /\ row.trade_count = Cardinality(own)
       /\ row.position_count = Cardinality({p.instrument : p \in account_positions(c, u, a).body})
  BY <1>4, <1>6, <1>7, <1>8, <1>9
<1>12. row.market_value = IF rows = {} THEN {} ELSE {value}
  BY <1>4
<1> HIDE DEF own
<1> QED BY <1>5, <1>10, <1>11, <1>12

(* The overview that SQL aggregates from the rows and the pages made from    *)
(* memory agree on every account of a user of whom nothing changed: trades,  *)
(* positions and value at the latest prices.                                *)
THEOREM OverviewAgrees == Spec => []AccountsAgree
<1> QED BY OverviewHolds, RestInvariant, PTL

-----------------------------------------------------------------------------
(* The simulator, for any number of requests and of starts.                *)

(* The bound on starts counts those that have not spawned their loop. *)
StartsBounded ==
  Len(loop) + Cardinality(InCall("configure")) + abandoned <= MaxStarts

(* One call at a time, and what it finds of the loop it is about. *)
OneAtATime ==
  ~ disturbed =>
    /\ abandoned = 0
    /\ \A a, b \in Admin : call[a].at # "idle" /\ call[b].at # "idle" => a = b
    /\ (\A a \in Admin : call[a].at = "idle") =>
         Live \subseteq IF running THEN {handle} ELSE {}
    /\ \A a \in Admin :
         /\ call[a].at \in {"configure", "save"} => running
         /\ call[a].at \in {"signal", "take", "join"} => ~ running
         /\ call[a].at = "configure" => Live = {}
         /\ call[a].at \in {"signal", "take"} => Live \subseteq {handle}
         /\ call[a].at \in {"save", "join"} => Live \subseteq {call[a].loop}

SimulatorInv ==
  /\ SimulatorTypeOK
  /\ StartsBounded
  /\ LoopsAccounted
  /\ OneAtATime

-----------------------------------------------------------------------------
(* Counting.                                                                *)

LEMMA SameSum ==
  ASSUME NEW a \in Int, NEW b \in Int, NEW c \in Int, NEW d \in Int, NEW e \in Int, NEW n \in Int,
         b + c = d + e + n
  PROVE  a + b + c = a + d + e + n
OBVIOUS

LEMMA SumIsZero ==
  ASSUME NEW s \in Nat, NEW w \in Nat, NEW p \in Nat, NEW m \in Nat, 0 + 0 + 0 = 0 + s + w + p + m
  PROVE  p = 0
OBVIOUS

LEMMA HeardBalance ==
  ASSUME NEW w \in Int, NEW x \in Int, NEW p \in Int, NEW q \in Int, x + p = q + 1
  PROVE  (w - x) + q = w + p - 1
OBVIOUS

LEMMA FinishBalance ==
  ASSUME NEW l \in Int, NEW c \in Int, NEW a \in Int, NEW u \in Int, NEW s \in Int,
         NEW w \in Int, NEW p \in Int, NEW m \in Int, NEW v \in Int, NEW q \in Int,
         l + c + a = u + s + w + p + m, v + q = w + p - 1
  PROVE  (l - 1) + c + a = u + s + v + q + m
OBVIOUS

LEMMA TickBalance ==
  ASSUME NEW u \in Int, NEW s \in Int,
         NEW w \in Int, NEW p \in Int, NEW m \in Int, NEW v \in Int, NEW q \in Int, NEW n \in Int,
         v + q + n = w + p + m
  PROVE  u + s + v + q + n = u + s + w + p + m
OBVIOUS

(* Two finite sets that differ in one element. *)
LEMMA CountChange ==
  ASSUME NEW A, NEW B, NEW e, IsFiniteSet(A), A \ {e} = B \ {e}
  PROVE  /\ IsFiniteSet(B)
         /\ Cardinality(A) \in Nat /\ Cardinality(B) \in Nat
         /\ Cardinality(B) = Cardinality(A) + Count(e \in B) - Count(e \in A)
<1>1. CASE (e \in A) <=> (e \in B)
  <2>1. A = B
    BY <1>1
  <2> QED BY <1>1, <2>1, FS_CardinalityType DEF Count
<1>2. CASE e \in A /\ e \notin B
  <2>1. B = A \ {e}
    BY <1>2
  <2>2. IsFiniteSet(B) /\ Cardinality(B) = Cardinality(A) - 1
    BY <1>2, <2>1, FS_RemoveElement
  <2> QED BY <1>2, <2>2, FS_CardinalityType DEF Count
<1>3. CASE e \notin A /\ e \in B
  <2>1. B = A \union {e}
    BY <1>3
  <2>2. IsFiniteSet(B) /\ Cardinality(B) = Cardinality(A) + 1
    BY <1>3, <2>1, FS_AddElement
  <2> QED BY <1>3, <2>2, FS_CardinalityType DEF Count
<1> QED BY <1>1, <1>2, <1>3

LiveIn(q) == {l \in 1 .. Len(q) : q[l] # "done"}
WokenIn(q) == {l \in 1 .. Len(q) : q[l] = "woken"}

LEMMA LoopsFinite ==
  ASSUME NEW q \in Seq(Phase)
  PROVE  /\ IsFiniteSet(LiveIn(q)) /\ Cardinality(LiveIn(q)) \in Nat
         /\ IsFiniteSet(WokenIn(q)) /\ Cardinality(WokenIn(q)) \in Nat
<1>1. IsFiniteSet(1 .. Len(q))
  BY FS_Interval
<1>2. LiveIn(q) \subseteq 1 .. Len(q) /\ WokenIn(q) \subseteq 1 .. Len(q)
  BY DEF LiveIn, WokenIn
<1> QED BY <1>1, <1>2, FS_Subset, FS_CardinalityType

(* One loop goes to phase p. *)
Moved(q, r, l, p) ==
  /\ r \in Seq(Phase) /\ Len(r) = Len(q) /\ r[l] = p
  /\ \A m \in 1 .. Len(q) : m # l => r[m] = q[m]
  /\ Cardinality(LiveIn(r)) = Cardinality(LiveIn(q)) + Count(p # "done") - Count(q[l] # "done")
  /\ Cardinality(WokenIn(r)) = Cardinality(WokenIn(q)) + Count(p = "woken") - Count(q[l] = "woken")

LEMMA LoopMoves ==
  ASSUME NEW q \in Seq(Phase), NEW l \in 1 .. Len(q), NEW p \in Phase,
         NEW r, r = [q EXCEPT ![l] = p]
  PROVE  Moved(q, r, l, p)
<1>1. q \in [1 .. Len(q) -> Phase] /\ Len(q) \in Nat
  OBVIOUS
<1>2. r \in [1 .. Len(q) -> Phase] /\ r[l] = p /\ \A m \in 1 .. Len(q) : m # l => r[m] = q[m]
  BY <1>1
<1>3. r \in Seq(Phase) /\ Len(r) = Len(q)
  BY <1>1, <1>2
<1>4. LiveIn(q) \ {l} = LiveIn(r) \ {l} /\ WokenIn(q) \ {l} = WokenIn(r) \ {l}
  BY <1>2, <1>3 DEF LiveIn, WokenIn
<1>5. /\ (l \in LiveIn(q)) <=> (q[l] # "done")
      /\ (l \in LiveIn(r)) <=> (p # "done")
      /\ (l \in WokenIn(q)) <=> (q[l] = "woken")
      /\ (l \in WokenIn(r)) <=> (p = "woken")
  BY <1>2, <1>3 DEF LiveIn, WokenIn
<1>6. Cardinality(LiveIn(r)) = Cardinality(LiveIn(q)) + Count(l \in LiveIn(r)) - Count(l \in LiveIn(q))
  BY <1>4, LoopsFinite, CountChange
<1>7. Cardinality(WokenIn(r)) = Cardinality(WokenIn(q)) + Count(l \in WokenIn(r)) - Count(l \in WokenIn(q))
  BY <1>4, LoopsFinite, CountChange
<1> QED BY <1>2, <1>3, <1>5, <1>6, <1>7 DEF Moved, Count

(* One request goes to the frame r. *)
CallMoved(a, r) ==
  /\ call' \in [Admin -> Calls] /\ call'[a] = r
  /\ \A b \in Admin : b # a => call'[b] = call[b]
  /\ \A at \in At :
       /\ Cardinality(InCall(at)) \in Nat
       /\ Cardinality(InCall(at)') =
            Cardinality(InCall(at)) + Count(r.at = at) - Count(call[a].at = at)

LEMMA CallMoves ==
  ASSUME SimulatorTypeOK, NEW a \in Admin, NEW r \in Calls, call' = [call EXCEPT ![a] = r]
  PROVE  CallMoved(a, r)
<1>1. call' \in [Admin -> Calls] /\ call'[a] = r /\ \A b \in Admin : b # a => call'[b] = call[b]
  BY DEF SimulatorTypeOK
<1>2. ASSUME NEW at \in At
      PROVE  /\ Cardinality(InCall(at)) \in Nat
             /\ Cardinality(InCall(at)') =
                  Cardinality(InCall(at)) + Count(r.at = at) - Count(call[a].at = at)
  <2>1. InCall(at) \ {a} = InCall(at)' \ {a}
    BY <1>1 DEF InCall
  <2>2. IsFiniteSet(InCall(at))
    BY AdminAssumption, FS_Subset DEF InCall
  <2>3. ((a \in InCall(at)) <=> (call[a].at = at)) /\ ((a \in InCall(at)') <=> (r.at = at))
    BY <1>1 DEF InCall
  <2>4. /\ Cardinality(InCall(at)) \in Nat
        /\ Cardinality(InCall(at)') =
             Cardinality(InCall(at)) + Count(a \in InCall(at)') - Count(a \in InCall(at))
    BY <2>1, <2>2, CountChange
  <2> QED BY <2>3, <2>4 DEF Count
<1> QED BY <1>1, <1>2 DEF CallMoved


-----------------------------------------------------------------------------
LEMMA Facts ==
  ASSUME SimulatorTypeOK
  PROVE  /\ loop \in Seq(Phase) /\ Len(loop) \in Nat /\ Len(loop) <= MaxStarts
         /\ Cardinality(Live) \in Nat /\ Cardinality(Woken) \in Nat
         /\ Live = LiveIn(loop) /\ Woken = WokenIn(loop)
         /\ (Live = LiveIn(loop))' /\ (Woken = WokenIn(loop))'
         /\ \A at \in At : Cardinality(InCall(at)) \in Nat
         /\ \A a \in Admin : call[a] \in Calls /\ call[a].at \in At /\ call[a].loop \in 0 .. MaxStarts
         /\ handle \in 0 .. Len(loop) /\ handle \in 0 .. MaxStarts
         /\ merged \in Nat /\ abandoned \in Nat
<1>1. Live = LiveIn(loop) /\ Woken = WokenIn(loop) /\ (Live = LiveIn(loop))' /\ (Woken = WokenIn(loop))'
  BY DEF Live, Woken, LiveIn, WokenIn, Spawned
<1>2. loop \in Seq(Phase) /\ Len(loop) \in Nat /\ Len(loop) <= MaxStarts
  BY DEF SimulatorTypeOK
<1>3. \A at \in At : Cardinality(InCall(at)) \in Nat
  <2> SUFFICES ASSUME NEW at \in At PROVE Cardinality(InCall(at)) \in Nat
    OBVIOUS
  <2>1. InCall(at) \subseteq Admin
    BY DEF InCall
  <2> QED BY <2>1, AdminAssumption, FS_Subset, FS_CardinalityType
<1>4. \A a \in Admin : call[a] \in Calls /\ call[a].at \in At /\ call[a].loop \in 0 .. MaxStarts
  BY DEF SimulatorTypeOK, Calls
<1>5. handle \in 0 .. Len(loop) /\ handle \in 0 .. MaxStarts /\ merged \in Nat /\ abandoned \in Nat
  BY <1>2, MaxStartsAssumption DEF SimulatorTypeOK
<1> QED BY <1>1, <1>2, <1>3, <1>4, <1>5, LoopsFinite

(* Goto changes a frame's at. *)
LEMMA GotoMoves ==
  ASSUME SimulatorTypeOK, NEW a \in Admin, NEW at \in At, Goto(a, at)
  PROVE  LET r == [at |-> at, loop |-> call[a].loop]
         IN  r \in Calls /\ call' = [call EXCEPT ![a] = r]
<1> DEFINE r == [call[a] EXCEPT !.at = at]
           s == [at |-> at, loop |-> call[a].loop]
<1>1. call[a] \in [at : At, loop : 0 .. MaxStarts] /\ call \in [Admin -> Calls]
  BY DEF SimulatorTypeOK, Calls
<1>2. r = s /\ s \in Calls
  BY <1>1 DEF Calls
<1>3. call' = [call EXCEPT ![a] = r]
  BY DEF Goto
<1> QED BY <1>2, <1>3

-----------------------------------------------------------------------------
(* start.                                                                   *)

LEMMA StartKeeps ==
  ASSUME SimulatorInv, NEW a \in Admin, Start(a)
  PROVE  SimulatorInv'
<1> USE DEF SimulatorInv
<1> DEFINE r == [at |-> "configure", loop |-> call[a].loop]
<1>1. /\ call[a].at = "idle" /\ call[a].loop = 0 /\ ~ running /\ running'
      /\ Len(loop) + Cardinality(InCall("configure")) + abandoned < MaxStarts
      /\ UNCHANGED <<handle, loop, permit, merged, abandoned>>
      /\ disturbed' = (disturbed \/ Overlaps(a))
  BY DEF Start, sim, notify, SimulatorTypeOK
<1>2. r \in Calls /\ call' = [call EXCEPT ![a] = r]
  BY GotoMoves DEF Start, At
<1>3. CallMoved(a, r)
  BY <1>2, CallMoves
<1>4. /\ Cardinality(InCall("configure")') = Cardinality(InCall("configure")) + 1
      /\ Cardinality(InCall("signal")') = Cardinality(InCall("signal"))
      /\ Cardinality(InCall("configure")) \in Nat /\ Cardinality(InCall("signal")) \in Nat
  BY <1>1, <1>3 DEF CallMoved, At, Count
<1>5. Live' = Live /\ Woken' = Woken /\ Spawned' = Spawned
  BY <1>1 DEF Live, Woken, Spawned
<1>6. SimulatorTypeOK'
  BY <1>1, <1>3, <1>5 DEF SimulatorTypeOK, CallMoved
<1>7. StartsBounded'
  BY <1>1, <1>4, Facts, MaxStartsAssumption DEF StartsBounded
<1>8. LoopsAccounted'
  <2>1. Count(running) = 0 /\ Count(running') = 1
    BY <1>1 DEF Count
  <2>2. Cardinality(Live') = Cardinality(Live) /\ Cardinality(Woken') = Cardinality(Woken)
    BY <1>5
  <2>3. permit' = permit /\ merged' = merged /\ abandoned' = abandoned
    BY <1>1
  <2>4. /\ Cardinality(Live) \in Nat /\ Cardinality(Woken) \in Nat /\ abandoned \in Nat
        /\ merged \in Nat /\ Count(permit) \in Nat
    BY Facts DEF Count
  <2> QED BY <1>4, <2>1, <2>2, <2>3, <2>4 DEF LoopsAccounted
<1>9. OneAtATime'
  <2> SUFFICES ASSUME ~ disturbed' PROVE OneAtATime'
    BY DEF OneAtATime
  <2>1. ~ disturbed /\ \A b \in Admin : b # a => call[b].at = "idle"
    BY <1>1 DEF Overlaps
  <2>2. Live = {}
    BY <1>1, <2>1 DEF OneAtATime
  <2> QED BY <1>1, <1>3, <1>5, <2>1, <2>2 DEF OneAtATime, CallMoved
<1> QED BY <1>6, <1>7, <1>8, <1>9

LEMMA SpawnKeeps ==
  ASSUME SimulatorInv, NEW a \in Admin, Spawn(a)
  PROVE  SimulatorInv'
<1> USE DEF SimulatorInv
<1> DEFINE n == Len(loop) + 1
           r == [at |-> "save", loop |-> n]
<1>1. /\ call[a].at = "configure" /\ loop' = Append(loop, "ready")
      /\ UNCHANGED <<running, handle, permit, merged, abandoned, disturbed>>
      /\ call' = [call EXCEPT ![a] = [at |-> "save", loop |-> Len(loop')]]
  BY DEF Spawn, notify
<1>2. /\ loop' \in Seq(Phase) /\ Len(loop') = n /\ loop'[n] = "ready" /\ n \in Nat
      /\ \A m \in 1 .. Len(loop) : loop'[m] = loop[m]
  BY <1>1, Facts DEF Phase
<1>3. Cardinality(InCall("configure")) >= 1
  <2>1. a \in InCall("configure") /\ IsFiniteSet(InCall("configure"))
    BY <1>1, AdminAssumption, FS_Subset DEF InCall
  <2>2. Cardinality(InCall("configure")) # 0
    BY <2>1, FS_EmptySet
  <2> QED BY <2>2, Facts DEF At
<1>4. n <= MaxStarts /\ n >= 1
  BY <1>2, <1>3, Facts, MaxStartsAssumption DEF StartsBounded, At
<1>5. r \in Calls /\ call' = [call EXCEPT ![a] = r]
  BY <1>1, <1>2, <1>4, MaxStartsAssumption DEF Calls, At
<1>6. CallMoved(a, r)
  BY <1>5, CallMoves
<1>7. /\ Cardinality(InCall("configure")') = Cardinality(InCall("configure")) - 1
      /\ Cardinality(InCall("signal")') = Cardinality(InCall("signal"))
      /\ Cardinality(InCall("configure")) \in Nat /\ Cardinality(InCall("signal")) \in Nat
  BY <1>1, <1>6 DEF CallMoved, At, Count
<1>8. /\ Live' = Live \union {n} /\ n \notin Live /\ Woken' = Woken
      /\ \A m \in Spawned : m \in Spawned' /\ n \in Spawned'
  BY <1>2, Facts DEF Live, Woken, Spawned
<1>9. Cardinality(Live') = Cardinality(Live) + 1
  <2>1. IsFiniteSet(Live)
    BY Facts, LoopsFinite
  <2> QED BY <1>8, <2>1, FS_AddElement
<1>10. SimulatorTypeOK'
  <2>1. handle' \in 0 .. Len(loop')
    BY <1>1, <1>2, Facts
  <2>2. \A b \in Admin : IF call'[b].at \in {"save", "join"}
                         THEN call'[b].loop \in Spawned'
                         ELSE call'[b].loop = 0
    <3>1. n \in Spawned'
      BY <1>2, <1>4 DEF Spawned
    <3> QED BY <1>6, <1>8, <3>1 DEF SimulatorTypeOK, CallMoved
  <2> QED BY <1>1, <1>2, <1>4, <1>6, <2>1, <2>2 DEF SimulatorTypeOK, CallMoved
<1>11. StartsBounded'
  BY <1>1, <1>2, <1>7, Facts, MaxStartsAssumption DEF StartsBounded
<1>12. LoopsAccounted'
  BY <1>1, <1>7, <1>8, <1>9, Facts DEF LoopsAccounted, Count
<1>13. OneAtATime'
  BY <1>1, <1>6, <1>8 DEF OneAtATime, CallMoved
<1> QED BY <1>10, <1>11, <1>12, <1>13

(* What the steps of a call keep that leave the loops and the flag alone and *)
(* are about neither a loop to spawn nor a notification.                    *)
LEMMA CallStepKeeps ==
  ASSUME SimulatorInv, NEW a \in Admin, NEW r \in Calls, call' = [call EXCEPT ![a] = r],
         UNCHANGED <<running, loop, permit, merged, abandoned>>,
         handle' \in 0 .. Len(loop), disturbed' \in BOOLEAN,
         call[a].at \in {"save", "take", "join"}, r.at \in {"idle", "join"},
         IF r.at = "join" THEN r.loop \in Spawned ELSE r.loop = 0
  PROVE  /\ SimulatorTypeOK' /\ StartsBounded' /\ LoopsAccounted' /\ Live' = Live
         /\ call' \in [Admin -> Calls] /\ call'[a] = r
         /\ \A b \in Admin : b # a => call'[b] = call[b]
<1> USE DEF SimulatorInv
<1>1. CallMoved(a, r)
  BY CallMoves
<1>2. /\ Cardinality(InCall("configure")') = Cardinality(InCall("configure"))
      /\ Cardinality(InCall("signal")') = Cardinality(InCall("signal"))
  <2>1. \A at \in {"configure", "signal"} : Count(r.at = at) = 0 /\ Count(call[a].at = at) = 0
    BY DEF Count
  <2> QED BY <1>1, <2>1 DEF CallMoved, At
<1>3. Live' = Live /\ Woken' = Woken /\ Spawned' = Spawned
  BY DEF Live, Woken, Spawned
<1>4. SimulatorTypeOK'
  BY <1>1, <1>3 DEF SimulatorTypeOK, CallMoved
<1>5. StartsBounded' /\ LoopsAccounted'
  BY <1>2, <1>3 DEF StartsBounded, LoopsAccounted
<1> QED BY <1>1, <1>3, <1>4, <1>5 DEF CallMoved

LEMMA IdleIsCall == Idle \in Calls /\ Idle.at = "idle" /\ Idle.loop = 0
BY MaxStartsAssumption DEF Idle, Calls, At

LEMMA SaveKeeps ==
  ASSUME SimulatorInv, NEW a \in Admin, Save(a)
  PROVE  SimulatorInv'
<1> USE DEF SimulatorInv
<1>1. /\ call[a].at = "save" /\ handle' = call[a].loop /\ call' = [call EXCEPT ![a] = Idle]
      /\ UNCHANGED <<running, loop, permit, merged, abandoned, disturbed>>
  BY DEF Save, notify
<1>2. handle' \in 0 .. Len(loop) /\ disturbed' \in BOOLEAN
  BY <1>1, Facts DEF SimulatorTypeOK, Spawned
<1>3. /\ SimulatorTypeOK' /\ StartsBounded' /\ LoopsAccounted' /\ Live' = Live
      /\ call'[a] = Idle
      /\ \A b \in Admin : b # a => call'[b] = call[b]
  BY <1>1, <1>2, IdleIsCall, CallStepKeeps
<1>4. OneAtATime'
  BY <1>1, <1>3, IdleIsCall DEF OneAtATime
<1> QED BY <1>3, <1>4

-----------------------------------------------------------------------------
(* stop.                                                                    *)

(* A notification wakes a loop, is kept, or is merged: it is never lost. *)
LEMMA NotifyCounts ==
  ASSUME SimulatorTypeOK, NEW q \in Seq(Phase), NotifyOne(q)
  PROVE  /\ loop' \in Seq(Phase) /\ Len(loop') = Len(q) /\ LiveIn(loop') = LiveIn(q)
         /\ permit' \in BOOLEAN /\ merged' \in Nat
         /\ Cardinality(WokenIn(loop')) + Count(permit') + merged'
              = Cardinality(WokenIn(q)) + Count(permit) + merged + 1
<1>1. CASE \E i \in Parked(q) : loop' = [q EXCEPT ![i] = "woken"] /\ UNCHANGED <<permit, merged>>
  <2>1. PICK i \in Parked(q) : loop' = [q EXCEPT ![i] = "woken"]
    BY <1>1
  <2>2. i \in 1 .. Len(q) /\ q[i] = "parked" /\ "woken" \in Phase
    BY <2>1 DEF Parked, Phase
  <2>3. Moved(q, loop', i, "woken")
    BY <2>1, <2>2, LoopMoves
  <2>4. loop' \in Seq(Phase) /\ Len(loop') = Len(q) /\ LiveIn(loop') = LiveIn(q)
    BY <2>2, <2>3 DEF Moved, LiveIn
  <2>5. Count(q[i] = "woken") = 0 /\ Count("woken" = "woken") = 1
    BY <2>2 DEF Count
  <2>6. Cardinality(WokenIn(loop')) = Cardinality(WokenIn(q)) + 1
    BY <2>3, <2>5, LoopsFinite DEF Moved
  <2>7. Cardinality(WokenIn(q)) \in Nat /\ Count(permit) \in Nat /\ merged \in Nat
    BY LoopsFinite DEF Count, SimulatorTypeOK
  <2>8. permit' = permit /\ merged' = merged
    BY <1>1
  <2> QED BY <2>4, <2>6, <2>7, <2>8 DEF SimulatorTypeOK
<1>2. CASE loop' = q /\ permit' = TRUE /\ merged' = IF permit THEN merged + 1 ELSE merged
  <2>1. Cardinality(WokenIn(q)) \in Nat /\ merged \in Nat
    BY LoopsFinite DEF SimulatorTypeOK
  <2>2. Count(permit') + merged' = Count(permit) + merged + 1
    BY <1>2, <2>1 DEF Count
  <2>3. Count(permit) \in Nat /\ Count(permit') \in Nat /\ merged' \in Nat
    BY <1>2, <2>1 DEF Count
  <2>4. loop' \in Seq(Phase) /\ Len(loop') = Len(q) /\ LiveIn(loop') = LiveIn(q)
    BY <1>2
  <2>5. permit' \in BOOLEAN
    BY <1>2
  <2>6. Cardinality(WokenIn(loop')) = Cardinality(WokenIn(q))
    BY <1>2
  <2>7. Cardinality(WokenIn(q)) + Count(permit') + merged'
          = Cardinality(WokenIn(q)) + Count(permit) + merged + 1
    BY <2>1, <2>2, <2>3, SameSum
  <2> QED BY <2>3, <2>4, <2>5, <2>6, <2>7
<1> QED BY <1>1, <1>2 DEF NotifyOne

LEMMA StopKeeps ==
  ASSUME SimulatorInv, NEW a \in Admin, Stop(a)
  PROVE  SimulatorInv'
<1> USE DEF SimulatorInv
<1> DEFINE r == [at |-> "signal", loop |-> call[a].loop]
<1>1. /\ call[a].at = "idle" /\ call[a].loop = 0 /\ running /\ ~ running' /\ running' \in BOOLEAN
      /\ UNCHANGED <<handle, loop, permit, merged, abandoned>>
      /\ disturbed' = (disturbed \/ Overlaps(a))
  BY DEF Stop, sim, notify, SimulatorTypeOK
<1>2. r \in Calls /\ call' = [call EXCEPT ![a] = r]
  BY GotoMoves DEF Stop, At
<1>3. CallMoved(a, r)
  BY <1>2, CallMoves
<1>4. /\ Cardinality(InCall("configure")') = Cardinality(InCall("configure"))
      /\ Cardinality(InCall("signal")') = Cardinality(InCall("signal")) + 1
      /\ Cardinality(InCall("configure")) \in Nat /\ Cardinality(InCall("signal")) \in Nat
  BY <1>1, <1>3 DEF CallMoved, At, Count
<1>5. Live' = Live /\ Woken' = Woken /\ Spawned' = Spawned
  BY <1>1 DEF Live, Woken, Spawned
<1>6. SimulatorTypeOK'
  BY <1>1, <1>3, <1>5 DEF SimulatorTypeOK, CallMoved
<1>7. StartsBounded'
  BY <1>1, <1>4 DEF StartsBounded
<1>8. LoopsAccounted'
  <2>1. Count(running) = 1 /\ Count(running') = 0
    BY <1>1 DEF Count
  <2>2. Cardinality(Live') = Cardinality(Live) /\ Cardinality(Woken') = Cardinality(Woken)
    BY <1>5
  <2>3. permit' = permit /\ merged' = merged /\ abandoned' = abandoned
    BY <1>1
  <2>4. /\ Cardinality(Live) \in Nat /\ Cardinality(Woken) \in Nat /\ abandoned \in Nat
        /\ merged \in Nat /\ Count(permit) \in Nat
    BY Facts DEF Count
  <2> QED BY <1>4, <2>1, <2>2, <2>3, <2>4 DEF LoopsAccounted
<1>9. OneAtATime'
  <2> SUFFICES ASSUME ~ disturbed' PROVE OneAtATime'
    BY DEF OneAtATime
  <2>1. ~ disturbed /\ \A b \in Admin : b # a => call[b].at = "idle"
    BY <1>1 DEF Overlaps
  <2>2. Live \subseteq {handle}
    BY <1>1, <2>1 DEF OneAtATime
  <2> QED BY <1>1, <1>3, <1>5, <2>1, <2>2 DEF OneAtATime, CallMoved
<1> QED BY <1>6, <1>7, <1>8, <1>9

LEMMA SignalKeeps ==
  ASSUME SimulatorInv, NEW a \in Admin, Signal(a)
  PROVE  SimulatorInv'
<1> USE DEF SimulatorInv
<1> DEFINE r == [at |-> "take", loop |-> call[a].loop]
<1>1. /\ call[a].at = "signal" /\ call[a].loop = 0 /\ NotifyOne(loop)
      /\ UNCHANGED <<running, handle, abandoned, disturbed>>
  BY DEF Signal, SimulatorTypeOK
<1>2. r \in Calls /\ call' = [call EXCEPT ![a] = r]
  BY GotoMoves DEF Signal, At
<1>3. CallMoved(a, r)
  BY <1>2, CallMoves
<1>4. /\ Cardinality(InCall("configure")') = Cardinality(InCall("configure"))
      /\ Cardinality(InCall("signal")') = Cardinality(InCall("signal")) - 1
      /\ Cardinality(InCall("configure")) \in Nat /\ Cardinality(InCall("signal")) \in Nat
  BY <1>1, <1>3 DEF CallMoved, At, Count
<1>5. /\ loop' \in Seq(Phase) /\ Len(loop') = Len(loop) /\ LiveIn(loop') = LiveIn(loop)
      /\ permit' \in BOOLEAN /\ merged' \in Nat
      /\ Cardinality(WokenIn(loop')) + Count(permit') + merged'
           = Cardinality(WokenIn(loop)) + Count(permit) + merged + 1
  BY <1>1, Facts, NotifyCounts
<1>6. Live' = Live /\ Spawned' = Spawned
  BY <1>5, Facts DEF Spawned
<1>7. SimulatorTypeOK'
  BY <1>1, <1>3, <1>5, <1>6 DEF SimulatorTypeOK, CallMoved
<1>8. StartsBounded'
  BY <1>1, <1>4, <1>5 DEF StartsBounded
<1>9. LoopsAccounted'
  <2>1. Cardinality(Live') = Cardinality(Live) /\ Count(running') = Count(running)
    BY <1>1, <1>6
  <2>2. /\ Cardinality(Woken') + Count(permit') + merged' = Cardinality(Woken) + Count(permit) + merged + 1
    BY <1>5, Facts
  <2>3. /\ Cardinality(Live) \in Nat /\ Cardinality(Woken) \in Nat /\ Cardinality(Woken') \in Nat
        /\ abandoned \in Nat /\ merged \in Nat /\ merged' \in Nat
        /\ Count(permit) \in Nat /\ Count(permit') \in Nat /\ Count(running) \in Nat
    BY <1>5, Facts, LoopsFinite DEF Count
  <2>4. abandoned' = abandoned
    BY <1>1
  <2> QED BY <1>4, <2>1, <2>2, <2>3, <2>4 DEF LoopsAccounted
<1>10. OneAtATime'
  BY <1>1, <1>3, <1>6 DEF OneAtATime, CallMoved
<1> QED BY <1>7, <1>8, <1>9, <1>10

LEMMA TakeKeeps ==
  ASSUME SimulatorInv, NEW a \in Admin, Take(a)
  PROVE  SimulatorInv'
<1> USE DEF SimulatorInv
<1> DEFINE r == IF handle = 0 THEN Idle ELSE [at |-> "join", loop |-> handle]
<1>1. /\ call[a].at = "take" /\ handle' = 0 /\ call' = [call EXCEPT ![a] = r]
      /\ UNCHANGED <<running, loop, permit, merged, abandoned, disturbed>>
  BY DEF Take, notify
<1>2. handle \in 0 .. Len(loop) /\ handle \in 0 .. MaxStarts
  BY Facts
<1>3. /\ r \in Calls /\ r.at \in {"idle", "join"}
      /\ IF r.at = "join" THEN r.loop = handle /\ handle \in Spawned ELSE handle = 0 /\ r.loop = 0
  BY <1>2, IdleIsCall DEF Calls, At, Spawned
<1>4. 0 \in 0 .. Len(loop) /\ disturbed \in BOOLEAN /\ 0 \notin Live
  BY Facts DEF SimulatorTypeOK, Live, Spawned
<1> HIDE DEF r
<1>5. /\ SimulatorTypeOK' /\ StartsBounded' /\ LoopsAccounted' /\ Live' = Live
      /\ call'[a] = r
      /\ \A b \in Admin : b # a => call'[b] = call[b]
  BY <1>1, <1>3, <1>4, CallStepKeeps
<1>6. OneAtATime'
  BY <1>1, <1>3, <1>4, <1>5 DEF OneAtATime
<1> QED BY <1>5, <1>6

LEMMA JoinKeeps ==
  ASSUME SimulatorInv, NEW a \in Admin, Join(a)
  PROVE  SimulatorInv'
<1> USE DEF SimulatorInv
<1>1. /\ call[a].at = "join" /\ loop[call[a].loop] = "done" /\ call' = [call EXCEPT ![a] = Idle]
      /\ UNCHANGED <<running, handle, loop, permit, merged, abandoned, disturbed>>
  BY DEF Join, sim, notify
<1>2. handle' \in 0 .. Len(loop) /\ disturbed' \in BOOLEAN
  BY <1>1, Facts DEF SimulatorTypeOK
<1>3. /\ SimulatorTypeOK' /\ StartsBounded' /\ LoopsAccounted' /\ Live' = Live
      /\ call'[a] = Idle
      /\ \A b \in Admin : b # a => call'[b] = call[b]
  BY <1>1, <1>2, IdleIsCall, CallStepKeeps
<1>4. call[a].loop \notin Live
  BY <1>1 DEF Live
<1>5. OneAtATime'
  BY <1>1, <1>3, <1>4, IdleIsCall DEF OneAtATime
<1> QED BY <1>3, <1>5

LEMMA AbandonKeeps ==
  ASSUME SimulatorInv, NEW a \in Admin, Abandon(a)
  PROVE  SimulatorInv'
<1> USE DEF SimulatorInv
<1>1. /\ call[a].at \in {"configure", "save", "take", "join"} /\ call' = [call EXCEPT ![a] = Idle]
      /\ disturbed' = TRUE /\ UNCHANGED <<running, handle, loop, permit, merged>>
      /\ abandoned' = abandoned + Count(call[a].at = "configure")
  BY Facts DEF Abandon, sim, notify, Count
<1>2. CallMoved(a, Idle)
  BY <1>1, IdleIsCall, CallMoves
<1>3. /\ Cardinality(InCall("configure")') = Cardinality(InCall("configure")) - Count(call[a].at = "configure")
      /\ Cardinality(InCall("signal")') = Cardinality(InCall("signal"))
      /\ Cardinality(InCall("configure")) \in Nat /\ Cardinality(InCall("signal")) \in Nat
  <2>1. Count(Idle.at = "configure") = 0 /\ Count(Idle.at = "signal") = 0 /\ Count(call[a].at = "signal") = 0
    BY <1>1, IdleIsCall DEF Count
  <2>2. Count(call[a].at = "configure") \in Nat
    BY DEF Count
  <2> QED BY <1>2, <2>1, <2>2 DEF CallMoved, At
<1>4. Live' = Live /\ Woken' = Woken /\ Spawned' = Spawned
  BY <1>1 DEF Live, Woken, Spawned
<1>5. Count(call[a].at = "configure") \in Nat /\ abandoned \in Nat /\ Len(loop) \in Nat /\ Cardinality(Live) \in Nat
  BY Facts DEF Count
<1>6. SimulatorTypeOK'
  BY <1>1, <1>2, <1>4, <1>5, IdleIsCall DEF SimulatorTypeOK, CallMoved
<1>7. StartsBounded'
  BY <1>1, <1>3, <1>5 DEF StartsBounded
<1>8. LoopsAccounted'
  <2>1. Cardinality(InCall("configure")') + abandoned' = Cardinality(InCall("configure")) + abandoned + 0
    BY <1>1, <1>3, <1>5
  <2>2. Cardinality(Live') = Cardinality(Live) /\ Cardinality(Woken') = Cardinality(Woken)
    BY <1>4
  <2>5. running' = running /\ permit' = permit /\ merged' = merged
    BY <1>1
  <2>3. abandoned' \in Nat /\ Cardinality(InCall("configure")') \in Int
    BY <1>1, <1>3, <1>5
  <2>4. /\ Cardinality(Woken) \in Nat /\ merged \in Nat
        /\ Count(running) \in Nat /\ Count(permit) \in Nat
    BY Facts DEF Count
  <2>6. Cardinality(Live) + Cardinality(InCall("configure")') + abandoned'
          = Cardinality(Live) + Cardinality(InCall("configure")) + abandoned + 0
    BY <1>3, <1>5, <2>1, <2>3, SameSum
  <2>7. Cardinality(Live) + Cardinality(InCall("configure")') + abandoned'
          = Cardinality(Live) + Cardinality(InCall("configure")) + abandoned
    BY <1>3, <1>5, <2>6
  <2> QED BY <1>3, <2>2, <2>5, <2>7 DEF LoopsAccounted
<1>9. OneAtATime'
  BY <1>1 DEF OneAtATime
<1> QED BY <1>6, <1>7, <1>8, <1>9

-----------------------------------------------------------------------------
(* run_loop.                                                                *)

(* What a step of a loop keeps that settles the accounts: the calls stand    *)
(* still, and no loop comes alive.                                          *)
LEMMA LoopStepKeeps ==
  ASSUME SimulatorInv, UNCHANGED <<running, call, handle, abandoned, disturbed>>,
         loop' \in Seq(Phase), Len(loop') = Len(loop), permit' \in BOOLEAN, merged' \in Nat,
         LiveIn(loop') \subseteq LiveIn(loop), LoopsAccounted'
  PROVE  SimulatorInv'
<1> USE DEF SimulatorInv
<1>1. Live' \subseteq Live /\ Spawned' = Spawned
  BY Facts DEF Spawned
<1>2. SimulatorTypeOK'
  BY <1>1 DEF SimulatorTypeOK
<1>3. StartsBounded'
  <2>1. InCall("configure")' = InCall("configure")
    BY DEF InCall
  <2> QED BY <2>1 DEF StartsBounded
<1>4. OneAtATime'
  BY <1>1 DEF OneAtATime
<1> QED BY <1>2, <1>3, <1>4

(* A loop that neither ends nor hears or forgets a notification. *)
LEMMA QuietKeeps ==
  ASSUME SimulatorInv, UNCHANGED <<running, call, handle, permit, merged, abandoned, disturbed>>,
         NEW l \in Spawned, NEW p \in {"ready", "parked", "ticking"},
         loop[l] \in {"ready", "parked", "ticking"}, loop' = [loop EXCEPT ![l] = p]
  PROVE  SimulatorInv'
<1> USE DEF SimulatorInv
<1>1. loop \in Seq(Phase) /\ l \in 1 .. Len(loop) /\ p \in Phase
  BY Facts DEF Spawned, Phase
<1>2. Moved(loop, loop', l, p)
  BY <1>1, LoopMoves
<1>3. LiveIn(loop') = LiveIn(loop) /\ WokenIn(loop') = WokenIn(loop)
  BY <1>1, <1>2 DEF Moved, LiveIn, WokenIn
<1>4. Live' = Live /\ Woken' = Woken
  BY <1>3, Facts
<1>5. LoopsAccounted'
  <2>1. InCall("configure")' = InCall("configure") /\ InCall("signal")' = InCall("signal")
    BY DEF InCall
  <2> QED BY <1>4, <2>1 DEF LoopsAccounted
<1>6. loop' \in Seq(Phase) /\ Len(loop') = Len(loop) /\ permit' \in BOOLEAN /\ merged' \in Nat
  BY <1>2 DEF Moved, SimulatorTypeOK
<1> QED BY <1>3, <1>5, <1>6, LoopStepKeeps

LEMMA FinishKeeps ==
  ASSUME SimulatorInv, NEW l \in Spawned, Finish(l)
  PROVE  SimulatorInv'
<1> USE DEF SimulatorInv
<1>1. /\ loop[l] \in {"ready", "woken"} /\ loop' = [loop EXCEPT ![l] = "done"]
      /\ loop[l] = "ready" => permit = TRUE /\ permit' = FALSE
      /\ loop[l] = "woken" => permit' = permit
      /\ UNCHANGED <<running, call, handle, merged, abandoned, disturbed>>
  BY DEF Finish, SimulatorTypeOK
<1>2. loop \in Seq(Phase) /\ l \in 1 .. Len(loop) /\ "done" \in Phase
  BY Facts DEF Spawned, Phase
<1>3. Moved(loop, loop', l, "done")
  BY <1>1, <1>2, LoopMoves
<1>4. /\ Count("done" # "done") = 0 /\ Count(loop[l] # "done") = 1 /\ Count("done" = "woken") = 0
      /\ Count(loop[l] = "woken") + Count(permit) = Count(permit') + 1
      /\ Count(permit) \in Nat /\ Count(permit') \in Nat /\ Count(loop[l] = "woken") \in Nat
  BY <1>1 DEF Count, SimulatorTypeOK
<1>5. /\ Cardinality(LiveIn(loop')) = Cardinality(LiveIn(loop)) - 1
      /\ Cardinality(WokenIn(loop')) = Cardinality(WokenIn(loop)) - Count(loop[l] = "woken")
      /\ Cardinality(LiveIn(loop)) \in Nat /\ Cardinality(WokenIn(loop)) \in Nat
  BY <1>2, <1>3, <1>4, LoopsFinite DEF Moved
<1>6. LiveIn(loop') \subseteq LiveIn(loop)
  BY <1>2, <1>3 DEF Moved, LiveIn
<1>7. LoopsAccounted'
  <2>1. InCall("configure")' = InCall("configure") /\ InCall("signal")' = InCall("signal")
    BY <1>1 DEF InCall
  <2>2. Cardinality(Live') = Cardinality(Live) - 1 /\ Cardinality(Live) \in Nat
    BY <1>5, Facts
  <2>3. Cardinality(Woken') + Count(permit') = Cardinality(Woken) + Count(permit) - 1
    <3>1. Cardinality(Woken') = Cardinality(Woken) - Count(loop[l] = "woken") /\ Cardinality(Woken) \in Nat
      BY <1>5, Facts
    <3> QED BY <1>4, <3>1, HeardBalance
  <2>4. running' = running /\ merged' = merged /\ abandoned' = abandoned
    BY <1>1
  <2>5. /\ Cardinality(InCall("configure")) \in Nat /\ Cardinality(InCall("signal")) \in Nat
        /\ Cardinality(Woken) \in Nat /\ Cardinality(Woken') \in Int
        /\ Count(running) \in Nat /\ merged \in Nat /\ abandoned \in Nat
    BY <1>4, <1>5, Facts DEF Count, At
  <2> QED BY <1>4, <2>1, <2>2, <2>3, <2>4, <2>5, FinishBalance DEF LoopsAccounted
<1>8. loop' \in Seq(Phase) /\ Len(loop') = Len(loop) /\ permit' \in BOOLEAN /\ merged' \in Nat
  BY <1>1, <1>3 DEF Moved, SimulatorTypeOK
<1> QED BY <1>1, <1>6, <1>7, <1>8, LoopStepKeeps

LEMMA TickKeeps ==
  ASSUME SimulatorInv, NEW l \in Spawned, Tick(l)
  PROVE  SimulatorInv'
<1> USE DEF SimulatorInv
<1>1. UNCHANGED <<running, call, handle, abandoned, disturbed>>
  BY DEF Tick
<1>2. CASE loop[l] \in {"ready", "parked"} /\ loop' = [loop EXCEPT ![l] = "ticking"]
           /\ UNCHANGED <<permit, merged>>
  BY <1>1, <1>2, QuietKeeps
<1>3. CASE loop[l] = "woken" /\ NotifyOne([loop EXCEPT ![l] = "ticking"])
  <2> DEFINE q == [loop EXCEPT ![l] = "ticking"]
  <2>1. loop \in Seq(Phase) /\ l \in 1 .. Len(loop) /\ "ticking" \in Phase
    BY Facts DEF Spawned, Phase
  <2>2. Moved(loop, q, l, "ticking")
    BY <2>1, LoopMoves
  <2>3. q \in Seq(Phase) /\ Len(q) = Len(loop) /\ LiveIn(q) = LiveIn(loop)
    BY <1>3, <2>1, <2>2 DEF Moved, LiveIn
  <2>4. Count("ticking" = "woken") = 0 /\ Count(loop[l] = "woken") = 1
    BY <1>3 DEF Count
  <2>5. Cardinality(WokenIn(q)) = Cardinality(WokenIn(loop)) - 1
    BY <2>1, <2>2, <2>4, LoopsFinite DEF Moved
  <2>6. NotifyOne(q)
    BY <1>3
  <2> HIDE DEF q
  <2>7. /\ loop' \in Seq(Phase) /\ Len(loop') = Len(q) /\ LiveIn(loop') = LiveIn(q)
        /\ permit' \in BOOLEAN /\ merged' \in Nat
        /\ Cardinality(WokenIn(loop')) + Count(permit') + merged'
             = Cardinality(WokenIn(q)) + Count(permit) + merged + 1
    BY <2>3, <2>6, NotifyCounts
  <2>8. LoopsAccounted'
    <3>1. InCall("configure")' = InCall("configure") /\ InCall("signal")' = InCall("signal")
      BY <1>1 DEF InCall
    <3>2. Live' = Live
      BY <2>3, <2>7, Facts
    <3>3. /\ Cardinality(WokenIn(q)) \in Nat /\ Cardinality(WokenIn(loop)) \in Nat
          /\ Cardinality(WokenIn(loop')) \in Nat
          /\ Count(permit) \in Nat /\ Count(permit') \in Nat /\ merged \in Nat /\ merged' \in Nat
      BY <2>1, <2>3, <2>7, LoopsFinite, Facts DEF Count
    <3>4. Cardinality(Woken') + Count(permit') + merged' = Cardinality(Woken) + Count(permit) + merged
      BY <2>5, <2>7, <3>3, Facts
    <3>5. /\ Cardinality(Woken) \in Nat /\ Cardinality(Woken') \in Nat
          /\ Count(running) \in Nat /\ Cardinality(InCall("signal")) \in Nat
      BY <3>3, Facts DEF Count, At
    <3> QED BY <1>1, <3>1, <3>2, <3>3, <3>4, <3>5, TickBalance DEF LoopsAccounted
  <2> QED BY <1>1, <2>3, <2>7, <2>8, LoopStepKeeps
<1> QED BY <1>2, <1>3 DEF Tick

-----------------------------------------------------------------------------
LEMMA SimulatorInitEstablishes == SimulatorInit => SimulatorInv
<1> SUFFICES ASSUME SimulatorInit PROVE SimulatorInv
  OBVIOUS
<1>1. /\ ~ running /\ ~ permit /\ handle = 0 /\ merged = 0 /\ abandoned = 0 /\ disturbed = FALSE
      /\ running \in BOOLEAN /\ permit \in BOOLEAN
      /\ loop = <<>> /\ loop \in Seq(Phase) /\ Len(loop) = 0
      /\ call \in [Admin -> Calls] /\ \A a \in Admin : call[a] = Idle
  <2>1. <<>> \in Seq(Phase) /\ Len(<<>>) = 0
    OBVIOUS
  <2>2. call \in [Admin -> Calls] /\ \A a \in Admin : call[a] = Idle
    BY IdleIsCall DEF SimulatorInit
  <2> QED BY <2>1, <2>2 DEF SimulatorInit
<1>2. Spawned = {} /\ Live = {} /\ Woken = {}
  BY <1>1 DEF Spawned, Live, Woken
<1>3. InCall("configure") = {} /\ InCall("signal") = {}
  BY <1>1, IdleIsCall DEF InCall
<1>4. SimulatorTypeOK
  <2>1. Len(loop) <= MaxStarts /\ handle \in 0 .. Len(loop)
    BY <1>1, MaxStartsAssumption
  <2>2. \A a \in Admin : call[a].at \notin {"save", "join"} /\ call[a].loop = 0
    BY <1>1, IdleIsCall
  <2>3. merged \in Nat /\ abandoned \in Nat /\ disturbed \in BOOLEAN
    BY <1>1
  <2> QED BY <1>1, <2>1, <2>2, <2>3 DEF SimulatorTypeOK
<1>5. StartsBounded
  <2>1. Cardinality(InCall("configure")) = 0
    BY <1>3, FS_EmptySet
  <2> QED BY <1>1, <2>1, MaxStartsAssumption DEF StartsBounded
<1>6. LoopsAccounted
  <2>1. Count(running) = 0 /\ Count(permit) = 0
    BY <1>1 DEF Count
  <2>2. /\ Cardinality(InCall("configure")) = 0 /\ Cardinality(InCall("signal")) = 0
        /\ Cardinality(Live) = 0 /\ Cardinality(Woken) = 0
    BY <1>2, <1>3, FS_EmptySet
  <2>3. merged = 0 /\ abandoned = 0
    BY <1>1
  <2> QED BY <2>1, <2>2, <2>3 DEF LoopsAccounted
<1>7. OneAtATime
  BY <1>1, <1>2, IdleIsCall DEF OneAtATime
<1> QED BY <1>4, <1>5, <1>6, <1>7 DEF SimulatorInv

LEMMA SimulatorNextKeeps == SimulatorInv /\ [SimulatorNext]_simulator_vars => SimulatorInv'
<1> SUFFICES ASSUME SimulatorInv, [SimulatorNext]_simulator_vars PROVE SimulatorInv'
  OBVIOUS
<1>1. ASSUME NEW a \in Admin,
             \/ Start(a) \/ Spawn(a) \/ Save(a) \/ Stop(a) \/ Signal(a)
             \/ Take(a) \/ Join(a) \/ Abandon(a)
      PROVE  SimulatorInv'
  BY <1>1, StartKeeps, SpawnKeeps, SaveKeeps, StopKeeps, SignalKeeps, TakeKeeps, JoinKeeps, AbandonKeeps
<1>2. ASSUME NEW l \in Spawned, Park(l)
      PROVE  SimulatorInv'
  BY <1>2, QuietKeeps DEF Park, notify
<1>3. ASSUME NEW l \in Spawned, TickDone(l)
      PROVE  SimulatorInv'
  BY <1>3, QuietKeeps DEF TickDone, notify
<1>4. ASSUME NEW l \in Spawned, Finish(l) \/ Tick(l)
      PROVE  SimulatorInv'
  BY <1>4, FinishKeeps, TickKeeps
<1>5. CASE UNCHANGED simulator_vars
  <2>1. UNCHANGED <<running, call, handle, loop, permit, merged, abandoned, disturbed>>
    BY <1>5 DEF simulator_vars, sim, notify
  <2>2. Spawned' = Spawned /\ Live' = Live /\ Woken' = Woken
    BY <2>1 DEF Spawned, Live, Woken
  <2>3. InCall("configure")' = InCall("configure") /\ InCall("signal")' = InCall("signal")
    BY <2>1 DEF InCall
  <2>4. SimulatorTypeOK' /\ StartsBounded'
    BY <2>1, <2>2, <2>3 DEF SimulatorInv, SimulatorTypeOK, StartsBounded
  <2>5. LoopsAccounted' /\ OneAtATime'
    BY <2>1, <2>2, <2>3 DEF SimulatorInv, LoopsAccounted, OneAtATime
  <2> QED BY <2>4, <2>5 DEF SimulatorInv
<1> QED BY <1>1, <1>2, <1>3, <1>4, <1>5 DEF SimulatorNext

(* The strengthened invariant holds in every reachable state. *)
THEOREM SimulatorInvariant == SimulatorSpec => []SimulatorInv
BY SimulatorInitEstablishes, SimulatorNextKeeps, PTL DEF SimulatorSpec

(* A stored or awaited handle belongs to a loop that was spawned. *)
THEOREM SimulatorTypeCorrect == SimulatorSpec => []SimulatorTypeOK
<1>1. SimulatorInv => SimulatorTypeOK
  BY DEF SimulatorInv
<1> QED BY <1>1, SimulatorInvariant, PTL

(* However starts, stops and abandoned requests overlap, every loop runs     *)
(* because the flag is up or a notification for it is on its way or merged. *)
THEOREM LoopsAreAccounted == SimulatorSpec => []LoopsAccounted
<1>1. SimulatorInv => LoopsAccounted
  BY DEF SimulatorInv
<1> QED BY <1>1, SimulatorInvariant, PTL

(* After a stop that overlapped with nothing no loop writes any more, and no *)
(* permit waits to end the next one.                                        *)
THEOREM StopLeavesNothing == SimulatorSpec => []StoppedMeansStopped
<1>1. SimulatorInv => StoppedMeansStopped
  <2> SUFFICES ASSUME SimulatorInv, ~ disturbed, ~ running, InCall("idle") = Admin
               PROVE  Live = {} /\ ~ permit
    BY DEF StoppedMeansStopped
  <2>1. \A a \in Admin : call[a].at = "idle"
    BY DEF InCall
  <2>2. Live = {} /\ abandoned = 0
    BY <2>1 DEF SimulatorInv, OneAtATime
  <2>3. InCall("configure") = {} /\ Cardinality({}) = 0
    BY <2>1, FS_EmptySet DEF InCall
  <2>4. /\ Count(running) = 0 /\ Cardinality(InCall("signal")) \in Nat
        /\ Cardinality(Woken) \in Nat /\ Count(permit) \in Nat /\ merged \in Nat
    BY Facts DEF SimulatorInv, Count, At
  <2>5. Cardinality({}) + Cardinality({}) + 0
          = 0 + Cardinality(InCall("signal")) + Cardinality(Woken) + Count(permit) + merged
    BY <2>2, <2>3, <2>4 DEF SimulatorInv, LoopsAccounted
  <2>6. Count(permit) = 0
    BY <2>3, <2>4, <2>5, SumIsZero
  <2> QED BY <2>2, <2>6 DEF Count
<1> QED BY <1>1, SimulatorInvariant, PTL
=============================================================================
