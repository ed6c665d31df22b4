----------------------------- MODULE CdcPipeline -----------------------------
(***************************************************************************)
(* A committed row change on its way from Postgres to the caches and to    *)
(* the console's pages: bulk load (main.rs, loader.rs), replication slot   *)
(* and stream (crates/calce-cdc/src/listener.rs), the event consumer       *)
(* (crates/calce-data/src/cdc.rs), the entity channel, the buffer of an    *)
(* event stream and a page that refetches (useEntityEvents.ts).            *)
(*                                                                         *)
(* A transaction changes one row and its place in the order of commits is  *)
(* its identity: cached and shown values are places in that order.  LSNs   *)
(* are counted in transactions committed before them: transactions         *)
(* overlap, so a change may lie before the commits of transactions that    *)
(* were sent before its own.                                               *)
(***************************************************************************)
EXTENDS Integers, Sequences, FiniteSets

CONSTANTS
  Price,      \* instruments with a price series
  Fx,         \* currency pairs
  User,
  Org,        \* organizations: never in memory, served from the database
  Seeded,     \* rows the database holds before the log begins
  QueueSize,  \* capacity of the channel between listener and consumer
  SignalSize, \* capacity of the entity event channel
  InboxSize,  \* capacity of the buffer of an event stream
  MaxChanges, \* bound: transactions committed
  MaxFaults   \* bound: connection losses and process restarts

Row == Price \union Fx \union User \union Org

ASSUME CdcAssumption ==
  /\ Seeded \subseteq Row
  /\ QueueSize \in Nat \ {0}
  /\ SignalSize \in Nat \ {0}
  /\ InboxSize \in Nat \ {0}
  /\ MaxChanges \in Nat
  /\ MaxFaults \in Nat

ASSUME DistinctTables ==
  /\ Price \intersect Fx = {} /\ Price \intersect User = {} /\ Fx \intersect User = {}
  /\ Org \intersect (Price \union Fx \union User) = {}

VARIABLES
  wal,      \* the log: row changes in commit order
  slot,     \* the slot's confirmed transaction; NoSlot before it exists
  origin,   \* transactions committed before the slot was created
  ack,      \* status update on its way to the server, or NoAck
  loaded,   \* tables the bulk load has read
  up,       \* the caches are built and the CDC tasks run
  gap,      \* transactions committed before this process created the slot
  conn,     \* the replication connection
  next,     \* last transaction read to its commit on this connection
  midway,   \* the change after next has been read, its commit not yet
  held,     \* change the listener is putting into its channel, 0 if none
  queue,    \* that channel
  current,  \* change the consumer is announcing, 0 if none
  cache,    \* cache[r]: position of the value in memory, or Absent
  signals,  \* the entity event channel
  inbox,    \* the buffer of the pages' event stream
  page,     \* page[r]: position of the value a page shows, or Absent
  listening, \* the EventSource of the pages is open
  unheard,  \* rows whose pages may have missed a signal, or are not open
  faults

process == <<loaded, up, gap>>
stream == <<conn, next, midway>>
pages == <<inbox, page, listening, unheard>>
vars == <<wal, slot, origin, ack, process, stream, held, queue, current, cache, signals, pages, faults>>

Absent == -1
NoSlot == -1
NoAck == -1

Op == {"put", "backfill", "delete"}
Change == [row : Row, op : Op]
Position == 0 .. MaxChanges

InMemory == {Price, Fx, User} \ {{}}
Tables == {Price, Fx, User, Org} \ {{}}
TableOf(r) == CHOOSE t \in Tables : r \in t

TypeOK ==
  /\ wal \in Seq(Change)
  /\ Len(wal) <= MaxChanges
  /\ slot \in Position \union {NoSlot}
  /\ origin \in 0 .. Len(wal)
  /\ ack \in 0 .. Len(wal) \union {NoAck}
  /\ loaded \subseteq InMemory
  /\ up \in BOOLEAN
  /\ gap \in 0 .. Len(wal)
  /\ conn \in {"off", "streaming", "broken"}
  /\ next \in 0 .. Len(wal)
  /\ midway \in BOOLEAN
  /\ held \in 0 .. Len(wal)
  /\ queue \in Seq(1 .. Len(wal))
  /\ Len(queue) <= QueueSize
  /\ current \in 0 .. Len(wal)
  /\ cache \in [Row -> Position \union {Absent}]
  /\ signals \in Seq(Row)
  /\ Len(signals) <= SignalSize
  /\ inbox \in Seq(Row)
  /\ Len(inbox) <= InboxSize
  /\ page \in [Row -> Position \union {Absent}]
  /\ listening \in BOOLEAN
  /\ unheard \subseteq Row
  /\ faults \in 0 .. MaxFaults

(* The changes of r, and the one that made r what the database holds.  A     *)
(* backfilled price is of an earlier date and leaves the latest one alone.  *)
ChangesOf(r) == {i \in 1 .. Len(wal) : wal[i].row = r}

LastOf(S) == IF S = {} THEN 0 ELSE CHOOSE i \in S : \A j \in S : j <= i

LastChange(r) == LastOf(ChangesOf(r))

InDatabase(r) ==
  LET last == LastOf({i \in ChangesOf(r) : wal[i].op # "backfill"}) IN
    IF last = 0 THEN IF r \in Seeded THEN 0 ELSE Absent
    ELSE IF wal[last].op = "put" THEN last ELSE Absent

(* What a route answers: organizations are read from the database, users,    *)
(* prices and rates from memory.                                            *)
Served(r) == IF r \in Org THEN InDatabase(r) ELSE cache[r]

Init ==
  /\ wal = <<>>
  /\ slot \in {NoSlot, 0}
  /\ origin = 0
  /\ ack = NoAck
  /\ loaded = {}
  /\ up = FALSE
  /\ gap = 0
  /\ conn = "off"
  /\ next = 0
  /\ midway = FALSE
  /\ held = 0
  /\ queue = <<>>
  /\ current = 0
  /\ cache = [r \in Row |-> Absent]
  /\ signals = <<>>
  /\ inbox = <<>>
  /\ page = [r \in Row |-> Absent]
  /\ listening = FALSE
  /\ unheard = Row
  /\ faults = 0

-----------------------------------------------------------------------------
(* Postgres: a transaction commits; a status update reaches the server.      *)

Commit(r, op) ==
  /\ Len(wal) < MaxChanges
  /\ op = "backfill" => r \in Price
  /\ wal' = Append(wal, [row |-> r, op |-> op])
  /\ UNCHANGED <<slot, origin, ack, process, stream, held, queue, current, cache, signals, pages, faults>>

Confirm ==
  /\ ack # NoAck
  /\ slot' = ack
  /\ ack' = NoAck
  /\ UNCHANGED <<wal, origin, process, stream, held, queue, current, cache, signals, pages, faults>>

-----------------------------------------------------------------------------
(* The process: bulk load, then the CDC tasks.                               *)

(* One query per table, each with a snapshot of its own. *)
Load(t) ==
  /\ t \notin loaded
  /\ loaded' = loaded \union {t}
  /\ cache' = [r \in Row |-> IF r \in t THEN InDatabase(r) ELSE cache[r]]
  /\ UNCHANGED <<wal, slot, origin, ack, up, gap, stream, held, queue, current, signals, pages, faults>>

StartCdc ==
  /\ ~ up
  /\ loaded = InMemory
  /\ up' = TRUE
  /\ UNCHANGED <<wal, slot, origin, ack, loaded, gap, stream, held, queue, current, cache, signals, pages, faults>>

(* The process ends and starts again: nothing it held survives. *)
Restart ==
  /\ faults < MaxFaults
  /\ faults' = faults + 1
  /\ loaded' = {}
  /\ up' = FALSE
  /\ gap' = 0
  /\ conn' = "off"
  /\ held' = 0
  /\ queue' = <<>>
  /\ current' = 0
  /\ cache' = [r \in Row |-> Absent]
  /\ signals' = <<>>
  /\ inbox' = <<>>
  /\ listening' = FALSE
  /\ unheard' = Row
  /\ UNCHANGED <<wal, slot, origin, ack, next, midway, page>>

-----------------------------------------------------------------------------
(* The listener.                                                            *)

(* ensure_slot finds no slot and creates one at the end of the log. *)
CreateSlot ==
  /\ up
  /\ conn = "off"
  /\ slot = NoSlot
  /\ slot' = Len(wal)
  /\ origin' = Len(wal)
  /\ gap' = Len(wal)
  /\ UNCHANGED <<wal, ack, loaded, up, stream, held, queue, current, cache, signals, pages, faults>>

(* Faulty: a temporary slot, that starts where the log ends. *)
ConnectAtEnd ==
  /\ up
  /\ conn = "off"
  /\ slot # NoSlot
  /\ conn' = "streaming"
  /\ next' = Len(wal)
  /\ midway' = FALSE
  /\ ack' = NoAck
  /\ UNCHANGED <<wal, slot, origin, process, held, queue, current, cache, signals, pages, faults>>

(* run_once with an existing slot: the server goes on from what was          *)
(* confirmed; the old connection, and a status update on it, is gone.       *)
Connect ==
  /\ up
  /\ conn = "off"
  /\ slot # NoSlot
  /\ conn' = "streaming"
  /\ next' = slot
  /\ midway' = FALSE
  /\ ack' = NoAck
  /\ UNCHANGED <<wal, slot, origin, process, held, queue, current, cache, signals, pages, faults>>

(* stream_loop is back at its head: no event waits for the channel. *)
Reading == conn = "streaming" /\ held = 0

ReadChange ==
  /\ Reading
  /\ ~ midway
  /\ next < Len(wal)
  /\ midway' = TRUE
  /\ held' = next + 1
  /\ UNCHANGED <<wal, slot, origin, ack, process, conn, next, queue, current, cache, signals, pages, faults>>

ReadCommit ==
  /\ Reading
  /\ midway
  /\ next' = next + 1
  /\ midway' = FALSE
  /\ UNCHANGED <<wal, slot, origin, ack, process, conn, held, queue, current, cache, signals, pages, faults>>

(* send_status_update, on a keep-alive that asks for it or every 10 s.  The  *)
(* position is that of the message before: of the commit, of a keep-alive,   *)
(* or of a change, which lies before those of others that overlap with its   *)
(* transaction.  Nothing before the origin is ever sent, so a position there *)
(* counts as the origin.                                                    *)
SendStatus ==
  /\ Reading
  /\ \E to \in IF midway THEN origin .. next ELSE {next} : ack' = to
  /\ UNCHANGED <<wal, slot, origin, process, stream, held, queue, current, cache, signals, pages, faults>>

Listening == <<wal, slot, origin, ack, process, stream, current, cache, signals, pages, faults>>

(* Faulty: an event that finds the channel full is dropped. *)
EnqueueOrDrop ==
  /\ held # 0
  /\ held' = 0
  /\ queue' = IF Len(queue) < QueueSize THEN Append(queue, held) ELSE queue
  /\ UNCHANGED Listening

(* The send waits for room; the loss of the connection does not cancel it. *)
Enqueue ==
  /\ held # 0
  /\ Len(queue) < QueueSize
  /\ held' = 0
  /\ queue' = Append(queue, held)
  /\ UNCHANGED Listening

LoseConnection ==
  /\ conn = "streaming"
  /\ faults < MaxFaults
  /\ conn' = "broken"
  /\ faults' = faults + 1
  /\ UNCHANGED <<wal, slot, origin, ack, process, next, midway, held, queue, current, cache, signals, pages>>

(* Faulty: the listener does not come back after an error. *)
GiveUp ==
  /\ conn = "broken"
  /\ held = 0
  /\ UNCHANGED vars

(* The next read fails; run sleeps and starts over. *)
BackOff ==
  /\ conn = "broken"
  /\ held = 0
  /\ conn' = "off"
  /\ UNCHANGED <<wal, slot, origin, ack, process, next, midway, held, queue, current, cache, signals, pages, faults>>

-----------------------------------------------------------------------------
(* The consumer: dispatch.                                                  *)

Cached(r) == cache[r] # Absent

(* apply_price, apply_fx_rate and apply_user reach only keys the cache has,  *)
(* and a deleted row carries no value; the date of a price is not looked at. *)
(* Prices and rates that are put are announced by their caches (LiveUpdates) *)
(* only; everything else, their deletes included, by entity_tx.  An          *)
(* instrument keeps its ticker here, so that a cached one is in the          *)
(* consumer's map.                                                          *)
Dispatch ==
  /\ current = 0
  /\ queue # <<>>
  /\ queue' = Tail(queue)
  /\ LET i == Head(queue)
         r == wal[i].row
         put == wal[i].op # "delete"
     IN /\ cache' = IF put /\ Cached(r) THEN [cache EXCEPT ![r] = i] ELSE cache
        /\ current' = IF put /\ r \in Price \union Fx THEN 0 ELSE i
  /\ UNCHANGED <<wal, slot, origin, ack, process, stream, held, signals, pages, faults>>

(* Faulty: a signal that finds the channel full is dropped. *)
AnnounceOrDrop ==
  /\ current # 0
  /\ signals' = IF Len(signals) < SignalSize THEN Append(signals, wal[current].row) ELSE signals
  /\ current' = 0
  /\ UNCHANGED <<wal, slot, origin, ack, process, stream, held, queue, cache, pages, faults>>

(* entity_tx.send(..).await *)
Announce ==
  /\ current # 0
  /\ Len(signals) < SignalSize
  /\ signals' = Append(signals, wal[current].row)
  /\ current' = 0
  /\ UNCHANGED <<wal, slot, origin, ack, process, stream, held, queue, cache, pages, faults>>

(* The dispatcher hands a signal to the event stream, whose buffer may be     *)
(* full or which nobody may have open: then it is gone.  Coalescing is in    *)
(* LiveUpdates.                                                             *)
FanOut ==
  /\ signals # <<>>
  /\ signals' = Tail(signals)
  /\ IF listening /\ Len(inbox) < InboxSize
     THEN inbox' = Append(inbox, Head(signals)) /\ UNCHANGED unheard
     ELSE unheard' = unheard \union TableOf(Head(signals)) /\ UNCHANGED inbox
  /\ UNCHANGED <<wal, slot, origin, ack, process, stream, held, queue, current, cache, page, listening, faults>>

(* A signal reaches the pages of its table, which ask for their rows again.  *)
Refetch ==
  /\ inbox # <<>>
  /\ up
  /\ listening
  /\ inbox' = Tail(inbox)
  /\ LET table == TableOf(Head(inbox)) IN
       /\ page' = [r \in Row |-> IF r \in table THEN Served(r) ELSE page[r]]
       /\ unheard' = unheard \ table
  /\ UNCHANGED <<wal, slot, origin, ack, process, stream, held, queue, current, cache, signals, listening, faults>>

(* The EventSource loses its connection, with what was in the buffer, and    *)
(* subscribes anew after a pause; the pages are told of neither.            *)
LoseEvents ==
  /\ listening
  /\ faults < MaxFaults
  /\ listening' = FALSE
  /\ unheard' = unheard \union UNION {TableOf(inbox[n]) : n \in 1 .. Len(inbox)}
  /\ inbox' = <<>>
  /\ faults' = faults + 1
  /\ UNCHANGED <<wal, slot, origin, ack, process, stream, held, queue, current, cache, signals, page>>

Resubscribe ==
  /\ ~ listening
  /\ up
  /\ listening' = TRUE
  /\ UNCHANGED <<wal, slot, origin, ack, process, stream, held, queue, current, cache, signals, inbox, page, unheard, faults>>

(* The pages are opened, and their queries answered once they listen; where  *)
(* the answer comes first, this is Resubscribe.                             *)
Visit ==
  /\ ~ listening
  /\ up
  /\ listening' = TRUE
  /\ page' = [r \in Row |-> Served(r)]
  /\ unheard' = {}
  /\ UNCHANGED <<wal, slot, origin, ack, process, stream, held, queue, current, cache, signals, inbox, faults>>

Work ==
  \/ Confirm
  \/ \E t \in InMemory : Load(t)
  \/ StartCdc
  \/ CreateSlot
  \/ Connect
  \/ ReadChange
  \/ ReadCommit
  \/ SendStatus
  \/ Enqueue
  \/ BackOff
  \/ Dispatch
  \/ Announce
  \/ FanOut
  \/ Refetch
  \/ Resubscribe
  \/ Visit

Next ==
  \/ \E r \in Row, op \in Op : Commit(r, op)
  \/ Work
  \/ Restart
  \/ LoseConnection
  \/ LoseEvents

(* Tasks run, the server answers and clients read: each part on its own.     *)
(* A page need not come back: with an access token that expired meanwhile    *)
(* its attempts fail until another request has renewed it.                  *)
Fairness ==
  /\ \A t \in SUBSET Row : WF_vars(t \in InMemory /\ Load(t))
  /\ WF_vars(StartCdc)
  /\ WF_vars(CreateSlot)
  /\ WF_vars(Connect)
  /\ WF_vars(ReadChange)
  /\ WF_vars(ReadCommit)
  /\ WF_vars(Enqueue)
  /\ WF_vars(BackOff)
  /\ WF_vars(Dispatch)
  /\ WF_vars(Announce)
  /\ WF_vars(FanOut)
  /\ WF_vars(Refetch)

Spec == Init /\ [][Next]_vars /\ Fairness

-----------------------------------------------------------------------------
InQueue(i) == \E n \in 1 .. Len(queue) : queue[n] = i

(* Change i will be dispatched once more, or for the first time. *)
Coming(i) ==
  \/ InQueue(i)
  \/ i = held
  \/ IF conn = "streaming" THEN i > next /\ ~ (midway /\ i = next + 1)
     ELSE slot # NoSlot /\ i > slot

(* The cache is to hold what the last change of r wrote. *)
Tracked(r) ==
  /\ Cached(r)
  /\ LastChange(r) > 0
  /\ wal[LastChange(r)].op = "put"

(* "On reconnect, streaming resumes from the last confirmed LSN with no data *)
(* loss" (docs/cdc.md:50): whenever a loaded row is not in memory what it is *)
(* in the database, the change that made it so is still to be dispatched,   *)
(* through redelivery, lost acknowledgements and restarts; except for what   *)
(* was committed before the slot existed.                                   *)
NoChangeLost ==
  slot # NoSlot =>
    \A r \in Row : Tracked(r) =>
      \/ cache[r] = LastChange(r)
      \/ Coming(LastChange(r))
      \/ LastChange(r) <= gap

(* A signal for the pages of a table is on its way to them.                  *)
Signalled(table) ==
  \/ current # 0 /\ wal[current].row \in table
  \/ \E n \in 1 .. Len(signals) : signals[n] \in table
  \/ \E n \in 1 .. Len(inbox) : inbox[n] \in table

(* The change that made r what the database holds has yet to be announced.   *)
ToBeAnnounced(r) == slot = NoSlot \/ Coming(LastChange(r)) \/ LastChange(r) <= gap

(* "Signal-only: ... The frontend always refetches" (docs/live-updates.md    *)
(* :110): a page of users or organizations that shows anything but what its  *)
(* route would answer now has a signal on its way, or one to come with a     *)
(* change of the database that its route reads; unless a signal was dropped  *)
(* by a full buffer or went by while the EventSource was not open.  For a    *)
(* change made before the slot existed there is none.                        *)
StalePagesSignalled ==
  \A r \in (User \union Org) \ unheard : page[r] # Served(r) =>
    Signalled(TableOf(r)) \/ (r \in Org /\ ToBeAnnounced(r))

(* What the listener hands on has no holes: behind a change comes its        *)
(* successor or, redelivered, an earlier one; and the stream goes on at the  *)
(* latest with the successor of what was handed on last.                    *)
Handed == IF held = 0 THEN queue ELSE Append(queue, held)

StreamHasNoHoles ==
  /\ \A n \in 1 .. Len(Handed) - 1 : Handed[n + 1] <= Handed[n] + 1
  /\ Handed # <<>> =>
       LET last == Handed[Len(Handed)] IN
         IF conn = "streaming" THEN next + (IF midway THEN 1 ELSE 0) <= last
         ELSE slot <= last

(* Once the last transaction is committed and the last fault is over, the    *)
(* caches come to hold what the database holds and keep it, and the pages of *)
(* users and organizations that missed no signal show what is served.       *)
EventuallyFresh ==
  <>[]/\ \A r \in Row : Tracked(r) /\ LastChange(r) > gap => cache[r] = LastChange(r)
      /\ \A r \in (User \union Org) \ unheard :
           page[r] # Served(r) => r \in Org /\ LastChange(r) <= gap

(* "CDC keeps these caches fresh by streaming changes from Postgres as they  *)
(* happen, without requiring a restart" (docs/cdc.md:7): a row the database  *)
(* holds is in the cache of a running process as it is in the database, or   *)
(* a change of it is still to be dispatched.                                *)
CachesKeptFresh ==
  up /\ slot # NoSlot =>
    \A r \in Row \ Org : InDatabase(r) # Absent =>
      \/ cache[r] = InDatabase(r)
      \/ \E i \in ChangesOf(r) : Coming(i)
=============================================================================
