------------------------------- MODULE RestApi -------------------------------
(***************************************************************************)
(* The REST routes about users, accounts, trades and API keys, over the    *)
(* two places they read: Postgres (queries/user_data.rs, queries/auth.rs)  *)
(* and the memory that load_from_postgres filled (user_data_store.rs), of  *)
(* which change data capture keeps up names and e-mail addresses only.     *)
(*                                                                         *)
(* An answer is a status and a set of records.  The slot exists, so that   *)
(* every change of a user's row comes on the feed; CdcPipeline has what    *)
(* may happen to it on the way.  Prices, instruments and organisations do  *)
(* not change, and what is computed from trades is in Portfolio.           *)
(***************************************************************************)
EXTENDS Integers, Sequences, FiniteSets, SequencesExt

CONSTANTS
  User,
  Org,
  Name, Email,
  Caller,        \* security contexts
  Account,       \* Account[a]: the owner of account a
  Currency,
  Trade,         \* Trade[t]: user, account, instrument, quantity and currency of trade t
  Prices,        \* Prices[i]: prices of instrument i by date
  Key,           \* ids of API keys
  Member,        \* Member[u]: organisation of user u when the program starts
  PageSize,
  MaxChanges     \* bound: committed changes of users, accounts, trades, keys

None == "none"

ASSUME RestApiAssumption ==
  /\ IsFiniteSet(User) /\ IsFiniteSet(DOMAIN Account) /\ IsFiniteSet(DOMAIN Trade)
  /\ Name # {} /\ Caller # {}
  /\ None \notin User \union Org \union Name \union Email \union DOMAIN Account \union DOMAIN Trade
  /\ User \intersect Org = {}
  /\ Caller \subseteq [user : User \union Org, role : {"admin", "user"}, org : Org \union {None}]
  /\ Account \in [DOMAIN Account -> User]
  /\ Trade \in [DOMAIN Trade -> [user : User, account : DOMAIN Account, instrument : DOMAIN Prices,
                               quantity : Int, currency : Currency]]
  /\ \A i \in DOMAIN Prices : Prices[i] \in Seq(Nat)
  /\ Member \in [User -> Org \union {None}]
  /\ PageSize \in Nat \ {0}
  /\ MaxChanges \in Nat

(* trades.user_id is a column of its own beside trades.account_id.  That it  *)
(* names the owner of the account is not enforced by the schema; both tools  *)
(* that write trades (seed_db.py, njorda_import.py) keep it.                *)
ASSUME TradeOwnerAssumption == \A t \in DOMAIN Trade : Trade[t].user = Account[Trade[t].account]

VARIABLES
  users,      \* users[u]: the row of u, if there is one
  accounts,   \* rows of accounts and of trades
  trades,
  keys,       \* keys[k]: the organisation of k and whether it is revoked
  read,       \* which queries of the bulk load have been answered
  summary,    \* UserDataStore.users
  order,      \* the order in which the DashMap of users is iterated
  held,       \* UserDataStore.trades
  feed,       \* images of users' rows on their way to apply_user
  reader,     \* a client that reads one page of data_users after the other
  drift,      \* history: users whose accounts or trades changed after a load
  changes

database == <<users, accounts, trades>>
memory == <<read, summary, order, held>>
vars == <<database, keys, memory, feed, reader, drift, changes>>

Optional(S) == S \union {None}
Row == [name : Optional(Name), email : Optional(Email), org : Optional(Org)]
UserSummary == [name : Optional(Name), email : Optional(Email), org : Optional(Org),
                trade_count : Nat, account_count : Nat]

(* f is a table of Ts under keys of S. *)
IsTable(f, S, T) == DOMAIN f \subseteq S /\ \A x \in DOMAIN f : f[x] \in T

TypeOK ==
  /\ IsTable(users, User, Row)
  /\ accounts \subseteq DOMAIN Account
  /\ trades \subseteq DOMAIN Trade
  /\ \A t \in trades : Trade[t].account \in accounts
  /\ \A a \in accounts : Account[a] \in DOMAIN users
  /\ IsTable(keys, Key, [org : Org, revoked : BOOLEAN])
  /\ read \subseteq {"users", "trades"}
  /\ IsTable(summary, User, UserSummary)
  /\ order \in SetToSeqs(DOMAIN summary)
  /\ held \subseteq DOMAIN Trade
  /\ feed \in Seq([user : User, name : Optional(Name), email : Optional(Email)])
  /\ reader \in [caller : Caller, pages : Nat, got : Seq(User)]
  /\ drift \subseteq User
  /\ changes \in 0 .. MaxChanges

Owner(t) == Trade[t].user

Init ==
  /\ \E known \in SUBSET User :
       users = [u \in known |-> [name |-> CHOOSE n \in Name : TRUE, email |-> None, org |-> Member[u]]]
  /\ accounts \in SUBSET {a \in DOMAIN Account : Account[a] \in DOMAIN users}
  /\ trades \in SUBSET {t \in DOMAIN Trade : Trade[t].account \in accounts}
  /\ keys = <<>>
  /\ read = {}
  /\ summary = <<>>
  /\ order = <<>>
  /\ held = {}
  /\ feed = <<>>
  /\ reader = [caller |-> CHOOSE c \in Caller : TRUE, pages |-> 0, got |-> <<>>]
  /\ drift = {}
  /\ changes = 0

-----------------------------------------------------------------------------
(* Who may do what (authz.rs).                                              *)

Unrestricted(c) == c.role = "admin" /\ c.org = None
CanAccess(c, u) == Unrestricted(c) \/ c.user = u
OrgAdmin(c, o) == c.role = "admin" /\ c.org \in {None, o}

Answer(status, body) == [status |-> status, body |-> body]
Forbidden == Answer(403, {})
NotFound == Answer(404, {})
Found(body) == IF body = {} THEN NotFound ELSE Answer(200, body)
Lookup(f, x) == {f[y] : y \in {x} \intersect DOMAIN f}

-----------------------------------------------------------------------------
(* Routes that read memory.                                                 *)

Matches(u, search) == search \in {None, u, summary[u].name, summary[u].email}

(* Faulty: the list is in the order of a value that changes. *)
ListedByName(c, org, search) ==
  LET found == {u \in DOMAIN summary : CanAccess(c, u)}
  IN CHOOSE list \in SetToSeqs(found) :
       \A i, j \in DOMAIN list :
         i < j /\ summary[list[j]].name = None => summary[list[i]].name = None

(* The members of a set of numbers, from the smallest. *)
Ascending(S) ==
  [n \in 1 .. Cardinality(S) |-> CHOOSE i \in S : Cardinality({j \in S : j <= i}) = n]

(* list_users with the filters of data_users: the users at the places that   *)
(* pass, in the order of the map.                                           *)
Listed(c, org, search) ==
  LET passed == {i \in DOMAIN order : /\ CanAccess(c, order[i])
                                      /\ org \in {None, summary[order[i]].org}
                                      /\ Matches(order[i], search)}
      places == Ascending(passed)
  IN [n \in DOMAIN places |-> order[places[n]]]

(* data_users: items, of total. *)
data_users(c, org, search, offset, limit) ==
  LET filtered == Listed(c, org, search)
      end == IF offset + limit < Len(filtered) THEN offset + limit ELSE Len(filtered)
  IN [items |-> SubSeq(filtered, offset + 1, end), total |-> Len(filtered)]

(* Faulty: the user is looked up before the caller is checked. *)
data_user_first(c, u) ==
  IF u \notin DOMAIN summary THEN NotFound
  ELSE IF ~ CanAccess(c, u) THEN Forbidden ELSE Answer(200, {summary[u]})

data_user(c, u) ==
  IF ~ CanAccess(c, u) THEN Forbidden ELSE Found(Lookup(summary, u))

TradesOf(u) == {t \in held : Owner(t) = u}

load_trades(c, u) == IF ~ CanAccess(c, u) THEN Forbidden ELSE Found(TradesOf(u))

(* What market_value and portfolio_report are computed from. *)
valued_trades(c, u) == load_trades(c, u)

Quantity(T) == SumFunctionOnSet([t \in T |-> Trade[t].quantity], T)
Instruments(T) == {Trade[t].instrument : t \in T}
Of(T, i) == {t \in T : Trade[t].instrument = i}

Positions(T) ==
  {[instrument |-> p[1], currency |-> p[2],
    quantity |-> Quantity({t \in Of(T, p[1]) : Trade[t].currency = p[2]}),
    trade_count |-> Cardinality({t \in Of(T, p[1]) : Trade[t].currency = p[2]})] :
   p \in {<<Trade[t].instrument, Trade[t].currency>> : t \in T}}

user_positions(c, u) ==
  IF ~ CanAccess(c, u) THEN Forbidden ELSE Answer(200, Positions(TradesOf(u)))

account_positions(c, u, a) ==
  IF ~ CanAccess(c, u) THEN Forbidden
  ELSE Answer(200, Positions({t \in TradesOf(u) : Trade[t].account = a}))

(* load_account_names and TradeSummary: the label comes from the database    *)
(* and is missing if the account is gone.                                   *)
Summarised(u, T) ==
  {[trade |-> t, account |-> IF Trade[t].account \in accounts THEN Trade[t].account ELSE None] : t \in T}

(* user_trades, position_trades and account_trades. *)
trades_where(c, u, selected) ==
  LET loaded == load_trades(c, u) IN
    IF loaded.status # 200 THEN loaded
    ELSE Answer(200, Summarised(u, loaded.body \intersect selected))

user_trades(c, u) == trades_where(c, u, DOMAIN Trade)
position_trades(c, u, i) == trades_where(c, u, Of(DOMAIN Trade, i))
account_trades(c, u, a) == trades_where(c, u, {t \in DOMAIN Trade : Trade[t].account = a})

data_stats ==
  [user_count |-> Len(order), trade_count |-> Cardinality(held),
   organization_count |-> Cardinality({summary[u].org : u \in ToSet(order)} \ {None})]

-----------------------------------------------------------------------------
(* Routes that read the database.                                           *)

(* Faulty: every price. *)
QuotedEver(i) == DOMAIN Prices[i]

(* The price a position is joined with, by its place in time: DISTINCT ON   *)
(* leaves the latest.                                                       *)
Quoted(i) == IF Prices[i] = <<>> THEN {} ELSE {Len(Prices[i])}

(* get_user_accounts: positions of an account LEFT JOIN their prices.        *)
AccountRow(a) ==
  LET own == {t \in trades : Trade[t].account = a}
      Joined == UNION {{<<i, d>> : d \in IF Quoted(i) = {} THEN {0} ELSE Quoted(i)} : i \in Instruments(own)}
      priced == {row \in Joined : row[2] # 0}
  IN [account |-> a,
      trade_count |-> SumFunctionOnSet([row \in Joined |-> Cardinality(Of(own, row[1]))], Joined),
      position_count |-> Cardinality(Joined),
      market_value |-> IF priced = {} THEN {}
                       ELSE {SumFunctionOnSet([row \in priced |-> Quantity(Of(own, row[1])) * Prices[row[1]][row[2]]],
                                             priced)}]

AccountsOf(u) == {a \in accounts : Account[a] = u}

user_accounts(c, u) ==
  IF ~ Unrestricted(c) THEN Forbidden ELSE Answer(200, {AccountRow(a) : a \in AccountsOf(u)})

get_user(c, u) ==
  IF ~ CanAccess(c, u) THEN Forbidden ELSE Found(Lookup(users, u))

Known == DOMAIN users

list_users(c) == IF ~ Unrestricted(c) THEN Forbidden ELSE Answer(200, Known)

OrgRow(o) == [org |-> o, user_count |-> Cardinality({u \in Known : users[u].org = o})]

list_organizations(c) == IF ~ Unrestricted(c) THEN Forbidden ELSE Answer(200, {OrgRow(o) : o \in Org})
get_organization(c, o) == IF ~ Unrestricted(c) THEN Forbidden ELSE Answer(200, {OrgRow(o)})

KeysOf(o) == {k \in DOMAIN keys : keys[k].org = o /\ ~ keys[k].revoked}

list_api_keys(c, o) == IF ~ OrgAdmin(c, o) THEN Forbidden ELSE Answer(200, KeysOf(o))

-----------------------------------------------------------------------------
(* Routes that write the database.                                          *)

create_user(c, u) ==
  IF ~ Unrestricted(c) THEN 403 ELSE IF u \in Known THEN 409 ELSE 201

update_user(c, u, email) ==
  IF ~ CanAccess(c, u) \/ (email # None /\ ~ Unrestricted(c)) THEN 403
  ELSE IF u \notin Known THEN 404 ELSE 200

(* Rows that refer to the user stop the statement.                           *)
delete_user(c, u) ==
  IF ~ Unrestricted(c) THEN 403
  ELSE IF AccountsOf(u) # {} THEN 409
  ELSE IF u \notin Known THEN 404 ELSE 204

create_api_key(c, o) == IF ~ OrgAdmin(c, o) THEN 403 ELSE 200

revoke_api_key(c, o, k) ==
  IF ~ OrgAdmin(c, o) THEN 403 ELSE IF k \notin KeysOf(o) THEN 404 ELSE 200

Image(u, row) == [user |-> u, name |-> row.name, email |-> row.email]

Changed == changes < MaxChanges /\ changes' = changes + 1

(* The row of u becomes image, or goes: a deletion carries the old row.      *)
Write(u, image, rows) ==
  /\ Changed
  /\ users' = rows
  /\ feed' = Append(feed, Image(u, image))
  /\ UNCHANGED <<accounts, trades, keys, memory, reader, drift>>

(* The table with a row for x. *)
Upsert(f, x, row) == [y \in DOMAIN f \union {x} |-> IF y = x THEN row ELSE f[y]]

Put(u, row) == Write(u, row, Upsert(users, u, row))

CreateUser(c, u, name, email) ==
  /\ create_user(c, u) = 201
  /\ Put(u, [name |-> name, email |-> email, org |-> None])

Coalesce(new, old) == IF new = None THEN old ELSE new

UpdateUser(c, u, name, email) ==
  /\ update_user(c, u, email) = 200
  /\ Put(u, [users[u] EXCEPT !.name = Coalesce(name, @), !.email = Coalesce(email, @)])

DeleteUser(c, u) ==
  /\ delete_user(c, u) = 204
  /\ Write(u, users[u], Restrict(users, Known \ {u}))

MakeKey(c, o, k) ==
  /\ create_api_key(c, o) = 200
  /\ k \notin DOMAIN keys
  /\ Changed
  /\ keys' = Upsert(keys, k, [org |-> o, revoked |-> FALSE])
  /\ UNCHANGED <<database, memory, feed, reader, drift>>

RevokeKey(c, o, k) ==
  /\ revoke_api_key(c, o, k) = 200
  /\ Changed
  /\ keys' = [keys EXCEPT ![k].revoked = TRUE]
  /\ UNCHANGED <<database, memory, feed, reader, drift>>

(* Accounts and trades come and go by other programs. *)
Import(rows, u) ==
  /\ Changed
  /\ accounts' = rows.accounts
  /\ trades' = rows.trades
  /\ drift' = IF read = {} THEN drift ELSE drift \union {u}
  /\ UNCHANGED <<users, keys, memory, feed, reader>>

ImportAccount(a) ==
  /\ Account[a] \in Known
  /\ a \notin accounts
  /\ Import([accounts |-> accounts \union {a}, trades |-> trades], Account[a])

ImportTrade(t) ==
  /\ Trade[t].account \in accounts
  /\ t \notin trades
  /\ Import([accounts |-> accounts, trades |-> trades \union {t}], Owner(t))

RemoveAccount(a) ==
  /\ a \in accounts
  /\ Import([accounts |-> accounts \ {a}, trades |-> {t \in trades : Trade[t].account # a}], Account[a])

-----------------------------------------------------------------------------
(* load_from_postgres: two of its queries, each with a snapshot of its own.  *)

(* list_users_with_trade_counts: a user's trades joined with its accounts.   *)
Padded(S) == IF S = {} THEN {None} ELSE S
JoinedRows(u) == Padded({t \in trades : Owner(t) = u}) \X Padded(AccountsOf(u))

(* Faulty: COUNT without DISTINCT. *)
CountAll(rows, n) == Cardinality({row \in rows : row[n] # None})

Distinct(rows, n) == Cardinality({row[n] : row \in rows} \ {None})

LoadUsers ==
  /\ "users" \notin read
  /\ read' = read \union {"users"}
  /\ summary' = [u \in Known |->
       [name |-> users[u].name, email |-> users[u].email, org |-> users[u].org,
        trade_count |-> Distinct(JoinedRows(u), 1), account_count |-> Distinct(JoinedRows(u), 2)]]
  /\ order' \in SetToSeqs(Known)
  /\ UNCHANGED <<database, keys, held, feed, reader, drift, changes>>

LoadTrades ==
  /\ "trades" \notin read
  /\ read' = read \union {"trades"}
  /\ held' = trades
  /\ UNCHANGED <<database, keys, summary, order, feed, reader, drift, changes>>

Serving == read = {"users", "trades"}

(* Faulty: only the name is taken over. *)
ApplyUserName ==
  LET image == Head(feed) IN
    /\ Serving
    /\ feed # <<>>
    /\ feed' = Tail(feed)
    /\ summary' = IF image.user \notin DOMAIN summary THEN summary
                  ELSE [summary EXCEPT ![image.user].name = Coalesce(image.name, @)]
    /\ UNCHANGED <<database, keys, read, order, held, reader, drift, changes>>

(* dispatch, apply_user and update_user_info: an update of a user that was   *)
(* loaded, for a column that has a value.                                   *)
ApplyUser ==
  LET image == Head(feed) IN
    /\ Serving
    /\ feed # <<>>
    /\ feed' = Tail(feed)
    /\ summary' = IF image.user \notin DOMAIN summary THEN summary
                  ELSE [summary EXCEPT ![image.user].name = Coalesce(image.name, @),
                                       ![image.user].email = Coalesce(image.email, @)]
    /\ UNCHANGED <<database, keys, read, order, held, reader, drift, changes>>

(* A client reads the pages of data_users one after the other.               *)
ReadPage(c) ==
  LET page == data_users(c, None, None, reader.pages * PageSize, PageSize)
  IN /\ Serving
     /\ reader.pages = 0 \/ (reader.caller = c /\ page.items # <<>>)
     /\ reader' = [caller |-> c, pages |-> reader.pages + 1, got |-> reader.got \o page.items]
     /\ UNCHANGED <<database, keys, memory, feed, drift, changes>>

Next ==
  \/ \E c \in Caller, u \in User :
       \/ \E name \in Optional(Name), email \in Optional(Email) : CreateUser(c, u, name, email) \/ UpdateUser(c, u, name, email)
       \/ DeleteUser(c, u)
  \/ \E c \in Caller, o \in Org, k \in Key : MakeKey(c, o, k) \/ RevokeKey(c, o, k)
  \/ \E a \in DOMAIN Account : ImportAccount(a) \/ RemoveAccount(a)
  \/ \E t \in DOMAIN Trade : ImportTrade(t)
  \/ LoadUsers
  \/ LoadTrades
  \/ ApplyUser
  \/ \E c \in Caller : ReadPage(c)

Spec == Init /\ [][Next]_vars

-----------------------------------------------------------------------------
(* The console shows counts that a join computed, counts over the trades in  *)
(* memory and sums over all of them side by side; they agree for every user  *)
(* of whom nothing changed since the first query of the load.               *)
CountsExplained ==
  Serving =>
    /\ \A u \in DOMAIN summary \ drift :
         /\ summary[u].trade_count = Cardinality(TradesOf(u))
         /\ summary[u].account_count = Cardinality(AccountsOf(u))
    /\ drift = {} =>
         data_stats.trade_count = SumFunctionOnSet([u \in ToSet(order) |-> summary[u].trade_count], ToSet(order))

(* The overview of a user's accounts, aggregated in SQL from the rows as     *)
(* they are, agrees with the pages of each account, made from memory: as     *)
(* many trades, as many positions (one held in two currencies is listed      *)
(* twice and counted once), and the value of the single trades at the        *)
(* latest price of their instruments; unless something changed.             *)
AccountsAgree ==
  Serving =>
    \A c \in Caller, u \in User \ drift :
      \A row \in user_accounts(c, u).body :
        LET own == {t \in TradesOf(u) : Trade[t].account = row.account}
            priced == {t \in own : Prices[Trade[t].instrument] # <<>>}
        IN /\ row.trade_count = Cardinality(own)
           /\ row.position_count = Cardinality({p.instrument : p \in account_positions(c, u, row.account).body})
           /\ row.market_value =
                IF priced = {} THEN {}
                ELSE {SumFunctionOnSet([t \in priced |-> Trade[t].quantity * Last(Prices[Trade[t].instrument])], priced)}

(* However updates, the load and the feed interleave, and though images from *)
(* before the load are applied after it, what memory has of a user with      *)
(* nothing on the feed is what the database has; but that a value that       *)
(* became null is kept.                                                     *)
NamesConverge ==
  \A u \in Known \intersect DOMAIN summary :
    (\A i \in DOMAIN feed : feed[i].user # u) =>
      /\ users[u].name \in {None, summary[u].name}
      /\ users[u].email \in {None, summary[u].email}

(* Pages read one after another hold every user the caller may see once,     *)
(* whatever changes of the users in between.                                *)
PagesTile ==
  /\ IsInjective(reader.got)
  /\ reader.pages > 0 /\ reader.pages * PageSize >= Len(order) =>
       ToSet(reader.got) = {u \in ToSet(order) : CanAccess(reader.caller, u)}

(* What a caller who is no unrestricted admin is told about another user is  *)
(* the same whether that user exists or not, and has what data or not; and a *)
(* key of one organisation neither sees nor revokes those of another.       *)
Confined ==
  \A c \in Caller :
    /\ ~ Unrestricted(c) =>
         \A u \in User \ {c.user} :
           /\ {data_user(c, u), get_user(c, u), user_accounts(c, u), user_positions(c, u), user_trades(c, u),
               valued_trades(c, u), list_users(c), list_organizations(c)} = {Forbidden}
           /\ \A o \in Org : get_organization(c, o) = Forbidden
           /\ \A a \in DOMAIN Account : {account_positions(c, u, a), account_trades(c, u, a)} = {Forbidden}
           /\ \A i \in DOMAIN Prices : position_trades(c, u, i) = Forbidden
           /\ {create_user(c, u), update_user(c, u, None), delete_user(c, u)} = {403}
           /\ u \notin ToSet(Listed(c, None, None))
    /\ c.org # None =>
         \A o \in Org, k \in Key :
           /\ list_api_keys(c, o).body \subseteq KeysOf(c.org)
           /\ revoke_api_key(c, o, k) = 200 => k \in KeysOf(c.org)
=============================================================================
