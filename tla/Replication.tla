----------------------------- MODULE Replication -----------------------------
(***************************************************************************)
(* The replication client of crates/calce-cdc: logging in (wire.rs),       *)
(* looking for the slot and the publication and creating them              *)
(* (listener.rs), decoding pgoutput into events (protocol.rs, listener.rs) *)
(* and the key under which the consumer announces an event (cdc.rs).       *)
(*                                                                         *)
(* Several processes may run it against one server, while tables change,   *)
(* lose a column or are truncated.  CdcPipeline has what becomes of an     *)
(* event; there the publication exists and one process runs.               *)
(*                                                                         *)
(* A transaction changes one row (or empties one table).  A position is a  *)
(* number of transactions committed before it.  Transactions overlap: they *)
(* are sent in the order of their commits, but a change has the position   *)
(* at which it was made, before the commits of others.  The server does    *)
(* what a status update says, also where it goes back; one that ignores    *)
(* that sends less a second time.                                          *)
(***************************************************************************)
EXTENDS Integers, Sequences

CONSTANTS
  Process,
  Table,
  Replicated,    \* REPLICATED_TABLES
  External,      \* tables with a column external_id
  Full,          \* tables whose replica identity is FULL
  Earlier,       \* sets of tables an earlier version may have published
  Credentials,   \* how processes may be configured to log in
  MaxChanges,    \* bound: transactions
  Migrating,     \* bound: tables a migration may drop a column of
  MaxFaults      \* bound: connection losses

ASSUME ReplicationAssumption ==
  /\ Replicated \subseteq Table
  /\ External \subseteq Table
  /\ Earlier \subseteq SUBSET Table
  /\ Full \subseteq Table
  /\ Credentials \subseteq [url : {"valid", "malformed"},
                            password : {"none", "wrong", "right"},
                            asked : {"trust", "password", "sasl"}]
  /\ MaxChanges \in Nat
  /\ Migrating \subseteq Table
  /\ MaxFaults \in Nat

VARIABLES
  wal,         \* the log: changes in commit order
  shape,       \* shape[t]: "old", or "new" once a column was dropped
  slot,        \* confirmed position of the slot; None before it exists
  origin,      \* position at which the slot was created
  created,     \* position at which the publication was created, or None
  since,       \* since[t]: position from which t is published, or None
  active,      \* process whose connection has the slot, Ghost, or Nobody
  credentials, \* what DATABASE_URL and the server's configuration are
  pc,          \* where run_once is in each process
  missing,     \* tables ensure_publication is about to add
  at,          \* last transaction sent on the connection
  midway,      \* the change after at was sent, its commit not yet
  sent,        \* sent[p][t]: shape the server last described, or Unknown
  cache,       \* cache[p][t]: schema_cache
  lsn,         \* last_lsn; None is 0
  event,       \* the event put into a channel last, until the next commit
  handed,      \* history: changes put into a channel by any process
  faults

server == <<slot, origin, created, since>>
connection == <<at, midway, sent, cache, lsn>>
output == <<event, handed>>
database == <<wal, shape>>
vars == <<database, server, active, credentials, pc, missing, connection, output, faults>>

None == -1
Ghost == "ghost"
Nobody == "nobody"
Unknown == "unknown"
NoEvent == [at |-> 0]

ASSUME ProcessAssumption == Process \intersect {Ghost, Nobody} = {}

Position == 0 .. MaxChanges
Shape == {"old", "new"}
Op == {"write", "delete", "truncate"}
Change == [table : Table, op : Op, shape : Shape, made : Position]

Setup == {"slot", "createSlot", "publication", "createPublication", "tables", "addTables", "start"}
Connected == Setup \union {"stream"}

(* The columns of a table in the order the server sends them.               *)
Layout(t, s) ==
  <<"id">> \o (IF t \in External THEN <<"external_id">> ELSE <<>>)
           \o (IF s = "old" THEN <<"dropped">> ELSE <<>>) \o <<"data">>

(* Text of a column of the row of change i; NULL, an unchanged TOAST value   *)
(* and a value in binary format are the same to the client.                 *)
Null == [of |-> "null", at |-> 0]
Text(column, i) == [of |-> column, at |-> i]

Event == [at : 1 .. MaxChanges, columns : UNION {[C -> [of : {"null", "id", "external_id", "dropped", "data"}, at : Position]] :
                                                 C \in SUBSET {"id", "external_id", "dropped", "data"}}]

TypeOK ==
  /\ wal \in Seq(Change)
  /\ Len(wal) <= MaxChanges
  /\ \A i \in 1 .. Len(wal) : wal[i].made < i
  /\ shape \in [Table -> Shape]
  /\ slot \in Position \union {None}
  /\ origin \in Position
  /\ created \in Position \union {None}
  /\ since \in [Table -> Position \union {None}]
  /\ active \in Process \union {Ghost, Nobody}
  /\ credentials \in Credentials
  /\ pc \in [Process -> Connected \union {"connect", "backoff"}]
  /\ missing \in [Process -> SUBSET Replicated]
  /\ at \in [Process -> Position]
  /\ midway \in [Process -> BOOLEAN]
  /\ sent \in [Process -> [Table -> Shape \union {Unknown}]]
  /\ cache \in [Process -> [Table -> Shape \union {Unknown}]]
  /\ lsn \in [Process -> Position \union {None}]
  /\ event = NoEvent \/ event \in Event
  /\ handed \subseteq 1 .. Len(wal)
  /\ faults \in 0 .. MaxFaults
  /\ \A p \in Process : active = p <=> pc[p] = "stream"

(* Slot and publication may be left from an earlier version, which          *)
(* replicated fewer tables, or the publication alone, if the slot was       *)
(* dropped.                                                                 *)
Init ==
  /\ wal = <<>>
  /\ shape = [t \in Table |-> "old"]
  /\ slot \in {None, 0}
  /\ origin = 0
  /\ created \in {slot, 0}
  /\ \E old \in Earlier :
       since = [t \in Table |-> IF created = 0 /\ t \in old THEN 0 ELSE None]
  /\ active = Nobody
  /\ credentials \in Credentials
  /\ pc = [p \in Process |-> "connect"]
  /\ missing = [p \in Process |-> {}]
  /\ at = [p \in Process |-> 0]
  /\ midway = [p \in Process |-> FALSE]
  /\ sent = [p \in Process |-> [t \in Table |-> Unknown]]
  /\ cache = sent
  /\ lsn = [p \in Process |-> None]
  /\ event = NoEvent
  /\ handed = {}
  /\ faults = 0

-----------------------------------------------------------------------------
(* The database.                                                            *)

(* The transaction may have been open since any earlier position.  (A column *)
(* is dropped when no transaction on its table is open.)                    *)
Commit(t, op, made) ==
  /\ Len(wal) < MaxChanges
  /\ wal' = Append(wal, [table |-> t, op |-> op, shape |-> shape[t], made |-> made])
  /\ UNCHANGED <<shape, server, active, credentials, pc, missing, connection, output, faults>>

DropColumn(t) ==
  /\ shape[t] = "old"
  /\ shape' = [shape EXCEPT ![t] = "new"]
  /\ UNCHANGED <<wal, server, active, credentials, pc, missing, connection, output, faults>>

-----------------------------------------------------------------------------
(* run_once: each query is answered in one step, and an error ends the       *)
(* connection.                                                              *)

Goto(p, there) == pc' = [pc EXCEPT ![p] = there]

(* from_url and the start-up exchange: a password is asked for in the clear, *)
(* as MD5 or by SCRAM, and a server may ask for none.                       *)
CanLogIn ==
  /\ credentials.url = "valid"
  /\ credentials.asked = "trust" \/ credentials.password = "right"

LogIn(p) ==
  /\ pc[p] = "connect"
  /\ Goto(p, IF CanLogIn THEN "slot" ELSE "backoff")
  /\ UNCHANGED <<database, server, active, credentials, missing, connection, output, faults>>

FindSlot(p) ==
  /\ pc[p] = "slot"
  /\ Goto(p, IF slot = None THEN "createSlot" ELSE "publication")
  /\ UNCHANGED <<database, server, active, credentials, missing, connection, output, faults>>

CreateSlot(p) ==
  /\ pc[p] = "createSlot"
  /\ IF slot = None
     THEN /\ slot' = Len(wal)
          /\ origin' = Len(wal)
          /\ Goto(p, "publication")
     ELSE /\ Goto(p, "backoff")
          /\ UNCHANGED <<slot, origin>>
  /\ UNCHANGED <<database, created, since, active, credentials, missing, connection, output, faults>>

FindPublication(p) ==
  /\ pc[p] = "publication"
  /\ Goto(p, IF created = None THEN "createPublication" ELSE "tables")
  /\ UNCHANGED <<database, server, active, credentials, missing, connection, output, faults>>

Publish(T) == since' = [t \in Table |-> IF t \in T THEN Len(wal) ELSE since[t]]

CreatePublication(p) ==
  /\ pc[p] = "createPublication"
  /\ IF created = None
     THEN created' = Len(wal) /\ Publish(Replicated) /\ Goto(p, "start")
     ELSE Goto(p, "backoff") /\ UNCHANGED <<created, since>>
  /\ UNCHANGED <<database, slot, origin, active, credentials, missing, connection, output, faults>>

FindTables(p) ==
  /\ pc[p] = "tables"
  /\ missing' = [missing EXCEPT ![p] = {t \in Replicated : since[t] = None}]
  /\ Goto(p, IF missing'[p] = {} THEN "start" ELSE "addTables")
  /\ UNCHANGED <<database, server, active, credentials, connection, output, faults>>

(* The statement fails as a whole if a table has been added meanwhile.      *)
AddTables(p) ==
  /\ pc[p] = "addTables"
  /\ IF \A t \in missing[p] : since[t] = None
     THEN Publish(missing[p]) /\ Goto(p, "start")
     ELSE Goto(p, "backoff") /\ UNCHANGED since
  /\ missing' = [missing EXCEPT ![p] = {}]
  /\ UNCHANGED <<database, slot, origin, created, active, credentials, connection, output, faults>>

Later(a, b) == IF a < b THEN b ELSE a

(* The locals of stream_loop and the server's side of the connection.       *)
Fresh == [t \in Table |-> Unknown]

Stream(p, from) ==
  /\ at' = [at EXCEPT ![p] = from]
  /\ midway' = [midway EXCEPT ![p] = FALSE]
  /\ sent' = [sent EXCEPT ![p] = Fresh]
  /\ cache' = [cache EXCEPT ![p] = Fresh]
  /\ lsn' = [lsn EXCEPT ![p] = None]

Restart(p, from) ==
  /\ active' = p
  /\ Stream(p, from)
  /\ Goto(p, "stream")

(* Faulty: streaming starts where the log ends. *)
StartAtEnd(p) ==
  /\ pc[p] = "start"
  /\ IF active = Nobody THEN Restart(p, Len(wal))
     ELSE Goto(p, "backoff") /\ UNCHANGED <<active, connection>>
  /\ UNCHANGED <<database, server, credentials, missing, output, faults>>

(* Faulty: the answer to START_REPLICATION is not looked at. *)
StartUnchecked(p) ==
  /\ pc[p] = "start"
  /\ Restart(p, Later(slot, origin))
  /\ UNCHANGED <<database, server, credentials, missing, output, faults>>

(* START_REPLICATION and the fresh locals of stream_loop.  The server goes   *)
(* on from what was confirmed, which is not before the restart_lsn asked     *)
(* for, has nothing from before the slot was created, and lets one           *)
(* connection at a time have the slot.                                      *)
StartReplication(p) ==
  /\ pc[p] = "start"
  /\ IF active = Nobody THEN Restart(p, Later(slot, origin))
     ELSE Goto(p, "backoff") /\ UNCHANGED <<active, connection>>
  /\ UNCHANGED <<database, server, credentials, missing, output, faults>>

(* Faulty: the listener does not come back after an error. *)
GiveUp(p) ==
  /\ pc[p] = "backoff"
  /\ Goto(p, "backoff")
  /\ UNCHANGED <<database, server, active, credentials, missing, connection, output, faults>>

(* run sleeps and starts over.  Its channel stays open as long as the        *)
(* process lives.                                                           *)
BackOff(p) ==
  /\ pc[p] = "backoff"
  /\ Goto(p, "connect")
  /\ UNCHANGED <<database, server, active, credentials, missing, connection, output, faults>>

-----------------------------------------------------------------------------
(* stream_loop: one message of the server read by the client.  Begin         *)
(* changes nothing and comes with the message after it.                     *)

Upcoming(p) == at[p] + 1

Reading(p) == pc[p] = "stream" /\ ~ midway[p] /\ Upcoming(p) <= Len(wal)

(* pgoutput looks up the publication as it was when the row changed.         *)
Decodable(i) == created <= wal[i].made

Published(i) == since[wal[i].table] # None /\ since[wal[i].table] <= wal[i].made

Described(p, i) == sent[p][wal[i].table] = wal[i].shape

Undecodable(p) ==
  /\ Reading(p)
  /\ ~ Decodable(Upcoming(p))
  /\ active' = Nobody
  /\ Stream(p, 0)
  /\ Goto(p, "backoff")
  /\ UNCHANGED <<database, server, credentials, missing, output, faults>>

Skip(p) ==
  /\ Reading(p)
  /\ Decodable(Upcoming(p))
  /\ ~ Published(Upcoming(p))
  /\ at' = [at EXCEPT ![p] = Upcoming(p)]
  /\ UNCHANGED <<database, server, active, credentials, pc, missing, midway, sent, cache, lsn, output, faults>>

(* Faulty: a description the cache has already is not replaced. *)
LearnOnce(p, t, s) ==
  cache' = [cache EXCEPT ![p][t] = IF @ = Unknown THEN s ELSE @]

Learn(p, t, s) == cache' = [cache EXCEPT ![p][t] = s]

(* A Relation message comes before the first change of a table on a          *)
(* connection and after its columns have changed, and has the position of    *)
(* the change after it.                                                     *)
ReadRelation(p) ==
  LET change == wal[Upcoming(p)] IN
    /\ Reading(p)
    /\ Decodable(Upcoming(p))
    /\ Published(Upcoming(p))
    /\ ~ Described(p, Upcoming(p))
    /\ sent' = [sent EXCEPT ![p][change.table] = change.shape]
    /\ Learn(p, change.table, change.shape)
    /\ lsn' = [lsn EXCEPT ![p] = change.made]
    /\ UNCHANGED <<database, server, active, credentials, pc, missing, at, midway, output, faults>>

(* The tuple of change i: the new row, also where the old one precedes it;   *)
(* of a deleted row the key columns, or all under the identity FULL.        *)
Tuple(i) ==
  LET columns == Layout(wal[i].table, wal[i].shape) IN
    [n \in 1 .. Len(columns) |->
       IF wal[i].op = "delete" /\ wal[i].table \notin Full /\ columns[n] # "id"
       THEN Null ELSE Text(columns[n], i)]

(* build_column_map: names from the cached description, zipped with values.  *)
ColumnMap(names, tuple) ==
  LET both == {n \in 1 .. Len(names) : n <= Len(tuple)} IN
    [c \in {names[n] : n \in both} |-> tuple[CHOOSE n \in both : names[n] = c]]

(* last_lsn is the position of the message, were it lower than before.  A    *)
(* change of a table not described is dropped, and Truncate is a message     *)
(* the client does not know.                                                *)
ReadChange(p) ==
  LET i == Upcoming(p)
      described == cache[p][wal[i].table]
      hand == wal[i].op # "truncate" /\ described # Unknown
  IN /\ Reading(p)
     /\ Decodable(i)
     /\ Published(i)
     /\ Described(p, i)
     /\ midway' = [midway EXCEPT ![p] = TRUE]
     /\ lsn' = [lsn EXCEPT ![p] = wal[i].made]
     /\ event' = IF hand THEN [at |-> i, columns |-> ColumnMap(Layout(wal[i].table, described), Tuple(i))]
                 ELSE event
     /\ handed' = IF hand THEN handed \union {i} ELSE handed
     /\ UNCHANGED <<database, server, active, credentials, pc, missing, at, sent, cache, faults>>

ReadCommit(p) ==
  /\ pc[p] = "stream"
  /\ midway[p]
  /\ at' = [at EXCEPT ![p] = Upcoming(p)]
  /\ lsn' = [lsn EXCEPT ![p] = Upcoming(p)]
  /\ midway' = [midway EXCEPT ![p] = FALSE]
  /\ event' = NoEvent
  /\ UNCHANGED <<database, server, active, credentials, pc, missing, sent, cache, handed, faults>>

(* Faulty: the answer is sent before the position is taken over. *)
KeepAliveAnswered(p, replyRequested) ==
  /\ pc[p] = "stream"
  /\ lsn' = [lsn EXCEPT ![p] = Later(@, at[p])]
  /\ slot' = IF replyRequested THEN Later(lsn[p], 0) ELSE slot
  /\ UNCHANGED <<database, origin, created, since, active, credentials, pc, missing, at, midway, sent, cache, output, faults>>

(* A keep-alive carries the position the server has decoded to; one that     *)
(* asks for a reply is answered with a status update.                       *)
KeepAlive(p, replyRequested) ==
  /\ pc[p] = "stream"
  /\ lsn' = [lsn EXCEPT ![p] = Later(@, at[p])]
  /\ slot' = IF replyRequested THEN lsn'[p] ELSE slot
  /\ UNCHANGED <<database, origin, created, since, active, credentials, pc, missing, at, midway, sent, cache, output, faults>>

(* Every ten seconds, after a message. *)
SendStatus(p) ==
  /\ pc[p] = "stream"
  /\ lsn[p] # None
  /\ slot' = lsn[p]
  /\ UNCHANGED <<database, origin, created, since, active, credentials, pc, missing, connection, output, faults>>

-----------------------------------------------------------------------------
(* A connection is lost, or its process ends and is started again.  The      *)
(* server keeps the slot active until it notices.                           *)

LoseConnection(p) ==
  /\ pc[p] \in Connected
  /\ faults < MaxFaults
  /\ faults' = faults + 1
  /\ active' = IF active = p THEN Ghost ELSE active
  /\ missing' = [missing EXCEPT ![p] = {}]
  /\ Stream(p, 0)
  /\ Goto(p, "backoff")
  /\ UNCHANGED <<database, server, credentials, output>>

Notice ==
  /\ active = Ghost
  /\ active' = Nobody
  /\ UNCHANGED <<database, server, credentials, pc, missing, connection, output, faults>>

Advance(p) ==
  \/ LogIn(p)
  \/ FindSlot(p)
  \/ CreateSlot(p)
  \/ FindPublication(p)
  \/ CreatePublication(p)
  \/ FindTables(p)
  \/ AddTables(p)
  \/ StartReplication(p)
  \/ BackOff(p)
  \/ Undecodable(p)
  \/ Skip(p)
  \/ ReadRelation(p)
  \/ ReadChange(p)
  \/ ReadCommit(p)

Next ==
  \/ \E t \in Table, op \in Op, made \in 0 .. Len(wal) : Commit(t, op, made)
  \/ \E t \in Migrating : DropColumn(t)
  \/ \E p \in Process :
       \/ Advance(p)
       \/ \E replyRequested \in BOOLEAN : KeepAlive(p, replyRequested)
       \/ SendStatus(p)
       \/ LoseConnection(p)
  \/ Notice

(* Tasks run and the server answers, sends and notices.                     *)
Fairness ==
  /\ \A p \in Process : WF_vars(Advance(p))
  /\ WF_vars(Notice)

Spec == Init /\ [][Next]_vars /\ Fairness

-----------------------------------------------------------------------------
(* "Column name -> text value" (lib.rs): an event has under every name the   *)
(* value of the column of that name, of the row that changed, or none, also  *)
(* while the columns of the table change under a connection.                *)
ColumnsAligned ==
  event # NoEvent =>
    \A c \in DOMAIN event.columns : event.columns[c] \in {Null, Text(c, event.at)}

(* Faulty: the id is looked up first. *)
EntityIdInternal(columns) == IF "id" \in DOMAIN columns THEN columns["id"] ELSE Null

(* dispatch (cdc.rs): external_id where there is such a column, with or      *)
(* without a value, else id.                                                *)
EntityId(columns) ==
  IF "external_id" \in DOMAIN columns THEN columns["external_id"]
  ELSE IF "id" \in DOMAIN columns THEN columns["id"] ELSE Null

(* An event names its row as the pages know it, by external_id where the     *)
(* table has one; except that a deleted row of a table with an external_id   *)
(* and the default replica identity is announced as "unknown".              *)
KeyNamesRow ==
  event # NoEvent =>
    LET t == wal[event.at].table IN
      EntityId(event.columns) =
        IF wal[event.at].op = "delete" /\ t \in External \ Full THEN Null
        ELSE Text(IF t \in External THEN "external_id" ELSE "id", event.at)

(* Whatever the slot has confirmed or a connection has gone past, no change  *)
(* of a published table since the slot exists was passed over: some process  *)
(* put it into its channel.  A table that was emptied is never announced.   *)
Reached(i) ==
  \/ slot # None /\ i <= slot
  \/ \E p \in Process : pc[p] = "stream" /\ i <= at[p]

NothingPassedOver ==
  \A i \in origin + 1 .. Len(wal) :
    Reached(i) /\ Published(i) /\ wal[i].op # "truncate" => i \in handed

(* What the slot has confirmed is taken back only by the connection that      *)
(* streams, while it is at a change that was made before it was confirmed:   *)
(* to where that change was made, so that what may come a second time are    *)
(* transactions that overlapped with the one being read.                    *)
TakenBackByOverlap ==
  [][slot # None /\ slot' < slot =>
       \E p \in Process : pc[p] = "stream" /\ at[p] < Len(wal) /\ slot' = wal[Upcoming(p)].made]_slot

(* A change that was made between the creation of the slot and that of the   *)
(* publication cannot be decoded, however often it is tried.                *)
Stuck == slot # None /\ \E i \in Later(slot, origin) + 1 .. Len(wal) : ~ Decodable(i)

(* "On reconnect, streaming resumes from the last confirmed LSN"             *)
(* (docs/cdc.md:50): if processes can log in, then through races for the      *)
(* slot and the publication, slots still held by dead connections and lost    *)
(* connections one of them comes to follow the log to its end and keeps       *)
(* doing so; unless the stream is stuck for ever.                            *)
StreamsAgain ==
  CanLogIn =>
    <>[](Stuck \/ \E p \in Process : pc[p] = "stream" /\ at[p] = Len(wal) /\ ~ midway[p])
=============================================================================
