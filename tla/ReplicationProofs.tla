-------------------------- MODULE ReplicationProofs --------------------------
(***************************************************************************)
(* What TLAPS proves of the replication client, for any processes, tables, *)
(* configurations, transactions, migrations and lost connections.          *)
(*                                                                         *)
(* The argument: only the connection that has the slot moves it, and only  *)
(* to where it has read; what it has read of published tables it has put   *)
(* into its channel.  A change goes through the cached description of its  *)
(* table, which is what the server described last, which is the shape the  *)
(* table had when the change was made.                                     *)
(***************************************************************************)
EXTENDS Replication, SequenceTheorems, TLAPS

(* Nothing that is confirmed or read lies beyond the end of the log, and a   *)
(* commit that is still to come is in it.                                   *)
PlacesInLog ==
  /\ slot <= Len(wal) /\ origin <= Len(wal)
  /\ \A p \in Process :
       /\ lsn[p] <= at[p]
       /\ at[p] <= Len(wal)
       /\ midway[p] => pc[p] = "stream" /\ at[p] < Len(wal)

(* A process past the look-up of the slot goes on because there is one. *)
SlotFound ==
  \A p \in Process :
    pc[p] \notin {"connect", "slot", "createSlot", "backoff"} => slot # None

(* The client knows a table as the server described it on this connection. *)
SameDescriptions == cache = sent

(* The change before an outstanding commit is in the channel. *)
MidwayHanded ==
  \A p \in Process : midway[p] /\ wal[Upcoming(p)].op # "truncate" => Upcoming(p) \in handed

(* An event is a change of the log in the columns its table had then. *)
EventIsRow ==
  event # NoEvent =>
    LET i == event.at IN
      /\ i \in 1 .. Len(wal)
      /\ event.columns = ColumnMap(Layout(wal[i].table, wal[i].shape), Tuple(i))

Inv ==
  /\ TypeOK
  /\ PlacesInLog
  /\ SlotFound
  /\ SameDescriptions
  /\ MidwayHanded
  /\ EventIsRow
  /\ NothingPassedOver

USE ReplicationAssumption, ProcessAssumption

-----------------------------------------------------------------------------
(* The log.                                                                 *)

LEMMA LogFields ==
  ASSUME TypeOK, NEW i \in 1 .. Len(wal)
  PROVE  /\ wal[i].table \in Table /\ wal[i].op \in Op /\ wal[i].shape \in Shape
         /\ wal[i].made \in Position /\ wal[i].made < i
<1>1. wal[i] \in Change /\ wal[i].made < i
  BY DEF TypeOK
<1> QED BY <1>1 DEF Change

(* A commit leaves the changes before it as they are. *)
LEMMA CommitExtends ==
  ASSUME TypeOK, NEW t \in Table, NEW op \in Op, NEW made \in 0 .. Len(wal), Commit(t, op, made)
  PROVE  /\ wal' \in Seq(Change) /\ Len(wal') = Len(wal) + 1 /\ Len(wal) \in Nat
         /\ Len(wal') <= MaxChanges
         /\ \A i \in 1 .. Len(wal) : wal'[i] = wal[i] /\ Tuple(i)' = Tuple(i)
         /\ \A i \in 1 .. Len(wal') : wal'[i].made < i
<1> DEFINE c == [table |-> t, op |-> op, shape |-> shape[t], made |-> made]
<1>1. c \in Change /\ c.made <= Len(wal) /\ Len(wal) \in Nat /\ made \in Nat
  BY DEF TypeOK, Change, Position
<1>2. wal \in Seq(Change) /\ wal' = Append(wal, c) /\ Len(wal) < MaxChanges
  BY DEF TypeOK, Commit
<1> HIDE DEF c
<1>3. wal' \in Seq(Change) /\ Len(wal') = Len(wal) + 1 /\ Len(wal) \in Nat
  BY <1>1, <1>2
<1>4. \A i \in 1 .. Len(wal) : wal'[i] = wal[i]
  BY <1>1, <1>2
<1>5. \A i \in 1 .. Len(wal) : Tuple(i)' = Tuple(i)
  BY <1>4 DEF Tuple
<1>6. wal'[Len(wal) + 1] = c
  BY <1>1, <1>2
<1>7. ASSUME NEW i \in 1 .. Len(wal') PROVE wal'[i].made < i
  <2>1. CASE i \in 1 .. Len(wal)
    BY <1>4, <2>1, LogFields
  <2>2. CASE i = Len(wal) + 1
    BY <1>1, <1>6, <2>2 DEF c
  <2> QED BY <1>3, <2>1, <2>2
<1> QED BY <1>2, <1>3, <1>4, <1>5, <1>7

(* No table is published from a place before it was: what is passed over     *)
(* remains allowed to be.                                                   *)
LEMMA PublishLater ==
  ASSUME TypeOK, NEW T \in SUBSET Table, Publish(T), UNCHANGED wal
  PROVE  /\ since' \in [Table -> Position \union {None}]
         /\ \A i \in 1 .. Len(wal) : Published(i)' => Published(i)
<1>1. Len(wal) \in Position
  BY DEF TypeOK, Position
<1>2. since' = [t \in Table |-> IF t \in T THEN Len(wal) ELSE since[t]]
  BY DEF Publish
<1>3. since' \in [Table -> Position \union {None}]
  BY <1>1, <1>2 DEF TypeOK
<1>4. ASSUME NEW i \in 1 .. Len(wal), Published(i)'
      PROVE  Published(i)
  <2>1. wal[i].table \in Table /\ wal[i].made \in Position /\ wal[i].made < i
    BY LogFields
  <2>2. since'[wal[i].table] # None /\ since'[wal[i].table] <= wal[i].made
    BY <1>4 DEF Published
  <2>3. since'[wal[i].table] = since[wal[i].table]
    BY <1>1, <1>2, <2>1, <2>2 DEF Position
  <2> QED BY <2>2, <2>3 DEF Published
<1> QED BY <1>3, <1>4

(* The start and the end of a stream clear what belongs to a connection. *)
LEMMA StreamClears ==
  ASSUME TypeOK, SameDescriptions, NEW p \in Process, NEW from \in Position, Stream(p, from)
  PROVE  /\ at' \in [Process -> Position] /\ at'[p] = from
         /\ midway' \in [Process -> BOOLEAN] /\ midway'[p] = FALSE
         /\ sent' \in [Process -> [Table -> Shape \union {Unknown}]]
         /\ cache' = sent'
         /\ lsn' \in [Process -> Position \union {None}] /\ lsn'[p] = None
         /\ \A q \in Process \ {p} : at'[q] = at[q] /\ midway'[q] = midway[q] /\ lsn'[q] = lsn[q]
BY DEF Stream, TypeOK, SameDescriptions, Fresh

(* A step that only moves processes about before their streams. *)
LEMMA WalkKeeps ==
  ASSUME Inv, NEW p \in Process, NEW there \in Setup \union {"connect", "backoff"}, pc[p] # "stream",
         Goto(p, there),
         UNCHANGED <<database, active, credentials, connection, output, faults>>,
         missing' \in [Process -> SUBSET Replicated],
         created' \in Position \union {None},
         since' \in [Table -> Position \union {None}],
         \A i \in 1 .. Len(wal) : Published(i)' => Published(i),
         UNCHANGED <<slot, origin>>,
         there \notin {"connect", "slot", "createSlot", "backoff"} => slot # None
  PROVE  Inv'
<1> USE DEF Inv
<1>1. TypeOK'
  BY DEF TypeOK, Goto, Connected, Setup, database, connection, output
<1>2. PlacesInLog'
  BY DEF PlacesInLog, TypeOK, Goto, database, connection
<1>3. SlotFound'
  BY DEF SlotFound, TypeOK, Goto
<1>4. SameDescriptions' /\ MidwayHanded'
  BY DEF SameDescriptions, MidwayHanded, Upcoming, database, connection, output
<1>5. EventIsRow'
  BY DEF EventIsRow, Tuple, database, output
<1>6. NothingPassedOver'
  <2>0. wal' = wal /\ origin' = origin /\ handed' = handed
    BY DEF database, output
  <2> SUFFICES ASSUME NEW i \in origin + 1 .. Len(wal), Reached(i)', Published(i)', wal[i].op # "truncate"
               PROVE  i \in handed
    BY <2>0 DEF NothingPassedOver
  <2>1. i \in 1 .. Len(wal)
    BY DEF TypeOK, Position
  <2>2. Reached(i)
    BY DEF Reached, TypeOK, Goto, Setup, connection
  <2> QED BY <2>1, <2>2 DEF NothingPassedOver
<1> QED BY <1>1, <1>2, <1>3, <1>4, <1>5, <1>6
LEMMA LogInKeeps == ASSUME Inv, NEW p \in Process, LogIn(p) PROVE Inv'
<1>1. missing' = missing /\ created' = created /\ since' = since /\ UNCHANGED <<slot, origin, wal>>
  BY DEF LogIn, server, database
<1>2. \A i \in 1 .. Len(wal) : Published(i)' => Published(i)
  BY <1>1 DEF Published
<1>3. TypeOK
  BY DEF Inv
<1> QED BY <1>1, <1>2, <1>3, WalkKeeps DEF LogIn, Setup, TypeOK

LEMMA FindSlotKeeps == ASSUME Inv, NEW p \in Process, FindSlot(p) PROVE Inv'
<1>1. missing' = missing /\ created' = created /\ since' = since /\ UNCHANGED <<slot, origin, wal>>
  BY DEF FindSlot, server, database
<1>2. \A i \in 1 .. Len(wal) : Published(i)' => Published(i)
  BY <1>1 DEF Published
<1>3. TypeOK
  BY DEF Inv
<1> QED BY <1>1, <1>2, <1>3, WalkKeeps DEF FindSlot, Setup, TypeOK

LEMMA BackOffKeeps == ASSUME Inv, NEW p \in Process, BackOff(p) PROVE Inv'
<1>1. missing' = missing /\ created' = created /\ since' = since /\ UNCHANGED <<slot, origin, wal>>
  BY DEF BackOff, server, database
<1>2. \A i \in 1 .. Len(wal) : Published(i)' => Published(i)
  BY <1>1 DEF Published
<1>3. TypeOK
  BY DEF Inv
<1> QED BY <1>1, <1>2, <1>3, WalkKeeps DEF BackOff, TypeOK

LEMMA FindPublicationKeeps == ASSUME Inv, NEW p \in Process, FindPublication(p) PROVE Inv'
<1>1. missing' = missing /\ created' = created /\ since' = since /\ UNCHANGED <<slot, origin, wal>>
  BY DEF FindPublication, server, database
<1>2. \A i \in 1 .. Len(wal) : Published(i)' => Published(i)
  BY <1>1 DEF Published
<1>3. TypeOK /\ slot # None
  BY DEF Inv, SlotFound, FindPublication
<1> QED BY <1>1, <1>2, <1>3, WalkKeeps DEF FindPublication, Setup, TypeOK

LEMMA FindTablesKeeps == ASSUME Inv, NEW p \in Process, FindTables(p) PROVE Inv'
<1>1. created' = created /\ since' = since /\ UNCHANGED <<slot, origin, wal>>
  BY DEF FindTables, server, database
<1>2. \A i \in 1 .. Len(wal) : Published(i)' => Published(i)
  BY <1>1 DEF Published
<1>3. TypeOK /\ slot # None
  BY DEF Inv, SlotFound, FindTables
<1>4. missing' \in [Process -> SUBSET Replicated]
  BY <1>3 DEF FindTables, TypeOK
<1> QED BY <1>1, <1>2, <1>3, <1>4, WalkKeeps DEF FindTables, Setup, TypeOK

LEMMA CreatePublicationKeeps == ASSUME Inv, NEW p \in Process, CreatePublication(p) PROVE Inv'
<1>1. /\ pc[p] = "createPublication" /\ missing' = missing /\ UNCHANGED <<slot, origin, wal>>
      /\ UNCHANGED <<database, active, credentials, connection, output, faults>>
  BY DEF CreatePublication, database
<1>2. TypeOK /\ slot # None
  BY <1>1 DEF Inv, SlotFound
<1>3. Len(wal) \in Position /\ missing \in [Process -> SUBSET Replicated]
  BY <1>2 DEF TypeOK, Position
<1>4. CASE created = None
  <2>1. created' = Len(wal) /\ Publish(Replicated) /\ Goto(p, "start")
    BY <1>4 DEF CreatePublication
  <2>2. /\ since' \in [Table -> Position \union {None}]
        /\ \A i \in 1 .. Len(wal) : Published(i)' => Published(i)
    BY <1>1, <1>2, <2>1, PublishLater
  <2> QED BY <1>1, <1>2, <1>3, <2>1, <2>2, WalkKeeps DEF Setup
<1>5. CASE created # None
  <2>1. created' = created /\ since' = since /\ Goto(p, "backoff")
    BY <1>5 DEF CreatePublication
  <2>2. \A i \in 1 .. Len(wal) : Published(i)' => Published(i)
    BY <1>1, <2>1 DEF Published
  <2>3. created' \in Position \union {None} /\ since' \in [Table -> Position \union {None}]
    BY <1>2, <2>1 DEF TypeOK
  <2> QED BY <1>1, <1>2, <1>3, <2>1, <2>2, <2>3, WalkKeeps
<1> QED BY <1>4, <1>5

LEMMA AddTablesKeeps == ASSUME Inv, NEW p \in Process, AddTables(p) PROVE Inv'
<1>1. /\ pc[p] = "addTables" /\ created' = created /\ UNCHANGED <<slot, origin, wal>>
      /\ UNCHANGED <<database, active, credentials, connection, output, faults>>
  BY DEF AddTables, database
<1>2. /\ TypeOK /\ slot # None /\ missing \in [Process -> SUBSET Replicated]
      /\ created' \in Position \union {None}
  BY <1>1 DEF Inv, SlotFound, TypeOK
<1>3. missing' \in [Process -> SUBSET Replicated] /\ missing[p] \in SUBSET Table
  BY <1>2 DEF AddTables
<1>4. CASE \A t \in missing[p] : since[t] = None
  <2>1. Publish(missing[p]) /\ Goto(p, "start")
    BY <1>4 DEF AddTables
  <2>2. /\ since' \in [Table -> Position \union {None}]
        /\ \A i \in 1 .. Len(wal) : Published(i)' => Published(i)
    BY <1>1, <1>2, <1>3, <2>1, PublishLater
  <2> QED BY <1>1, <1>2, <1>3, <2>1, <2>2, WalkKeeps DEF Setup
<1>5. CASE ~ \A t \in missing[p] : since[t] = None
  <2>1. since' = since /\ Goto(p, "backoff")
    BY <1>5 DEF AddTables
  <2>2. \A i \in 1 .. Len(wal) : Published(i)' => Published(i)
    BY <1>1, <2>1 DEF Published
  <2>3. since' \in [Table -> Position \union {None}]
    BY <1>2, <2>1 DEF TypeOK
  <2> QED BY <1>1, <1>2, <1>3, <2>1, <2>2, <2>3, WalkKeeps
<1> QED BY <1>4, <1>5

(* A slot starts where the log ends: of what is after it nothing is read.    *)
LEMMA CreateSlotKeeps == ASSUME Inv, NEW p \in Process, CreateSlot(p) PROVE Inv'
<1>1. /\ pc[p] = "createSlot" /\ missing' = missing /\ UNCHANGED <<created, since>>
      /\ UNCHANGED <<database, active, credentials, connection, output, faults>>
  BY DEF CreateSlot, database
<1>2. TypeOK /\ Len(wal) \in Position /\ missing \in [Process -> SUBSET Replicated]
  BY DEF Inv, TypeOK, Position
<1>3. \A i \in 1 .. Len(wal) : Published(i)' => Published(i)
  BY <1>1 DEF Published, database
<1>4. CASE slot # None
  <2>1. UNCHANGED <<slot, origin>> /\ Goto(p, "backoff")
    BY <1>4 DEF CreateSlot
  <2> QED BY <1>1, <1>2, <1>3, <2>1, WalkKeeps DEF TypeOK
<1>5. CASE slot = None
  <2>1. slot' = Len(wal) /\ origin' = Len(wal) /\ Goto(p, "publication")
    BY <1>5 DEF CreateSlot
  <2> USE DEF Inv
  <2>2. TypeOK'
    BY <1>1, <1>2, <2>1 DEF TypeOK, Goto, Connected, Setup, database, connection, output
  <2>3. PlacesInLog'
    BY <1>1, <1>2, <2>1 DEF PlacesInLog, TypeOK, Goto, Position, database, connection
  <2>4. SlotFound'
    BY <1>1, <1>2, <2>1 DEF SlotFound, TypeOK, Goto, Position, None
  <2>5. SameDescriptions' /\ MidwayHanded'
    BY <1>1 DEF SameDescriptions, MidwayHanded, Upcoming, database, connection, output
  <2>6. EventIsRow'
    BY <1>1 DEF EventIsRow, Tuple, database, output
  <2>7. NothingPassedOver'
    BY <1>1, <1>2, <2>1 DEF NothingPassedOver, Position, database
  <2> QED BY <2>2, <2>3, <2>4, <2>5, <2>6, <2>7
<1> QED BY <1>4, <1>5
-----------------------------------------------------------------------------
(* The stream.                                                              *)

(* A connection ends, and the server keeps the slot for it or not. *)
LEMMA DisconnectKeeps ==
  ASSUME Inv, NEW p \in Process, Stream(p, 0), Goto(p, "backoff"),
         IF active = p THEN active' \in {Ghost, Nobody} ELSE active' = active,
         missing' \in [Process -> SUBSET Replicated],
         faults' \in 0 .. MaxFaults,
         UNCHANGED <<database, server, credentials, output>>
  PROVE  Inv'
<1> USE DEF Inv
<1>1. UNCHANGED <<wal, shape, slot, origin, created, since, event, handed, credentials>>
  BY DEF database, server, output
<1>2. 0 \in Position
  BY DEF Position
<1>3. /\ at' \in [Process -> Position] /\ at'[p] = 0
      /\ midway' \in [Process -> BOOLEAN] /\ midway'[p] = FALSE
      /\ sent' \in [Process -> [Table -> Shape \union {Unknown}]]
      /\ cache' = sent'
      /\ lsn' \in [Process -> Position \union {None}] /\ lsn'[p] = None
      /\ \A q \in Process \ {p} : at'[q] = at[q] /\ midway'[q] = midway[q] /\ lsn'[q] = lsn[q]
  BY <1>2, StreamClears
<1>4. /\ pc' \in [Process -> Connected \union {"connect", "backoff"}] /\ pc'[p] = "backoff"
      /\ \A q \in Process \ {p} : pc'[q] = pc[q]
  BY DEF Goto, TypeOK
<1>5. TypeOK'
  BY <1>1, <1>3, <1>4 DEF TypeOK
<1>6. PlacesInLog'
  <2>1. /\ at \in [Process -> Position] /\ lsn \in [Process -> Position \union {None}] /\ Len(wal) \in Nat
    BY DEF TypeOK
  <2>2. ASSUME NEW q \in Process
        PROVE  lsn'[q] <= at'[q] /\ at'[q] <= Len(wal) /\ (midway'[q] => pc'[q] = "stream" /\ at'[q] < Len(wal))
    <3>1. CASE q = p
      BY <1>3, <2>1, <3>1 DEF None
    <3>2. CASE q # p
      BY <1>3, <1>4, <3>2 DEF PlacesInLog
    <3> QED BY <3>1, <3>2
  <2> QED BY <1>1, <2>2 DEF PlacesInLog
<1>7. SlotFound' /\ SameDescriptions'
  BY <1>1, <1>3, <1>4 DEF SlotFound, SameDescriptions
<1>8. MidwayHanded'
  BY <1>1, <1>3 DEF MidwayHanded, Upcoming
<1>9. EventIsRow'
  BY <1>1 DEF EventIsRow, Tuple
<1>10. NothingPassedOver'
  <2> SUFFICES ASSUME NEW i \in origin + 1 .. Len(wal), Reached(i)', Published(i)', wal[i].op # "truncate"
               PROVE  i \in handed
    BY <1>1 DEF NothingPassedOver
  <2>1. Published(i)
    BY <1>1 DEF Published
  <2>2. Reached(i)
    BY <1>1, <1>3, <1>4 DEF Reached
  <2> QED BY <2>1, <2>2 DEF NothingPassedOver
<1> QED BY <1>5, <1>6, <1>7, <1>8, <1>9, <1>10

LEMMA LoseConnectionKeeps == ASSUME Inv, NEW p \in Process, LoseConnection(p) PROVE Inv'
<1>1. TypeOK
  BY DEF Inv
<1>2. missing' \in [Process -> SUBSET Replicated] /\ faults' \in 0 .. MaxFaults
  <2>1. missing \in [Process -> SUBSET Replicated] /\ faults \in 0 .. MaxFaults
    BY <1>1 DEF TypeOK
  <2>2. missing' = [missing EXCEPT ![p] = {}] /\ faults' = faults + 1 /\ faults < MaxFaults
    BY DEF LoseConnection
  <2> QED BY <2>1, <2>2
<1>3. IF active = p THEN active' \in {Ghost, Nobody} ELSE active' = active
  BY DEF LoseConnection
<1> QED BY <1>2, <1>3, DisconnectKeeps DEF LoseConnection

LEMMA UndecodableKeeps == ASSUME Inv, NEW p \in Process, Undecodable(p) PROVE Inv'
<1>1. TypeOK
  BY DEF Inv
<1>2. missing' \in [Process -> SUBSET Replicated] /\ faults' \in 0 .. MaxFaults
  BY <1>1 DEF Undecodable, TypeOK
<1>3. active' \in {Ghost, Nobody} /\ active = p
  BY <1>1 DEF Undecodable, Reading, TypeOK
<1> QED BY <1>2, <1>3, DisconnectKeeps DEF Undecodable

(* The stream goes on where the slot is. *)
LEMMA StartReplicationKeeps == ASSUME Inv, NEW p \in Process, StartReplication(p) PROVE Inv'
<1>1. TypeOK /\ pc[p] = "start" /\ slot # None
  BY DEF Inv, StartReplication, SlotFound
<1>2. UNCHANGED <<wal, shape, slot, origin, created, since, event, handed, credentials, missing, faults>>
  BY DEF StartReplication, database, server, output
<1>3. /\ slot \in Position /\ origin \in Position /\ missing \in [Process -> SUBSET Replicated]
      /\ Later(slot, origin) \in Position /\ Later(slot, origin) <= Len(wal)
      /\ Later(slot, origin) = slot \/ Later(slot, origin) = origin
  BY <1>1 DEF TypeOK, Later, Inv, PlacesInLog
<1>4. CASE active # Nobody
  <2>1. Goto(p, "backoff") /\ UNCHANGED <<active, connection>>
    BY <1>4 DEF StartReplication
  <2>2. \A i \in 1 .. Len(wal) : Published(i)' => Published(i)
    BY <1>2 DEF Published
  <2>3. created' \in Position \union {None} /\ since' \in [Table -> Position \union {None}]
    BY <1>1, <1>2 DEF TypeOK
  <2>4. UNCHANGED <<database, active, credentials, connection, output, faults>>
    BY <1>2, <2>1 DEF database, output
  <2> QED BY <1>1, <1>2, <1>3, <2>1, <2>2, <2>3, <2>4, WalkKeeps
<1>5. CASE active = Nobody
  <2> USE DEF Inv
  <2>1. active' = p /\ Stream(p, Later(slot, origin)) /\ Goto(p, "stream")
    BY <1>5 DEF StartReplication, Restart
  <2>2. /\ at' \in [Process -> Position] /\ at'[p] = Later(slot, origin)
        /\ midway' \in [Process -> BOOLEAN] /\ midway'[p] = FALSE
        /\ sent' \in [Process -> [Table -> Shape \union {Unknown}]]
        /\ cache' = sent'
        /\ lsn' \in [Process -> Position \union {None}] /\ lsn'[p] = None
        /\ \A q \in Process \ {p} : at'[q] = at[q] /\ midway'[q] = midway[q] /\ lsn'[q] = lsn[q]
    BY <1>3, <2>1, StreamClears
  <2>3. /\ pc' \in [Process -> Connected \union {"connect", "backoff"}] /\ pc'[p] = "stream"
        /\ \A q \in Process \ {p} : pc'[q] = pc[q]
    BY <2>1 DEF Goto, TypeOK, Connected
  <2>4. TypeOK'
    BY <1>2, <1>5, <2>1, <2>2, <2>3 DEF TypeOK
  <2>5. PlacesInLog'
    <3>1. /\ at \in [Process -> Position] /\ lsn \in [Process -> Position \union {None}] /\ Len(wal) \in Nat
      BY DEF TypeOK
    <3>2. ASSUME NEW q \in Process
          PROVE  lsn'[q] <= at'[q] /\ at'[q] <= Len(wal) /\ (midway'[q] => pc'[q] = "stream" /\ at'[q] < Len(wal))
      <4>1. CASE q = p
        BY <1>3, <2>2, <3>1, <4>1 DEF Position, None
      <4>2. CASE q # p
        BY <2>2, <2>3, <4>2 DEF PlacesInLog
      <4> QED BY <4>1, <4>2
    <3> QED BY <1>2, <3>2 DEF PlacesInLog
  <2>6. SlotFound' /\ SameDescriptions'
    BY <1>1, <1>2, <2>2, <2>3 DEF SlotFound, SameDescriptions
  <2>7. MidwayHanded'
    BY <1>2, <2>2 DEF MidwayHanded, Upcoming
  <2>8. EventIsRow'
    BY <1>2 DEF EventIsRow, Tuple
  <2>9. NothingPassedOver'
    <3> SUFFICES ASSUME NEW i \in origin + 1 .. Len(wal), Reached(i)', Published(i)', wal[i].op # "truncate"
                 PROVE  i \in handed
      BY <1>2 DEF NothingPassedOver
    <3>1. Published(i)
      BY <1>2 DEF Published
    <3>2. Reached(i)
      <4>1. i \in Int /\ i > origin
        BY <1>3 DEF Position
      <4>2. at'[p] = slot \/ at'[p] = origin
        BY <1>3, <2>2
      <4>3. ~ (i <= origin)
        BY <1>3, <4>1 DEF Position
      <4>4. ASSUME NEW q \in Process, pc'[q] = "stream", i <= at'[q] PROVE Reached(i)
        <5>1. CASE q = p
          BY <1>1, <4>2, <4>3, <4>4, <5>1 DEF Reached
        <5>2. CASE q # p
          BY <2>2, <2>3, <4>4, <5>2 DEF Reached
        <5> QED BY <5>1, <5>2
      <4> QED BY <1>2, <4>4 DEF Reached
    <3> QED BY <3>1, <3>2 DEF NothingPassedOver
  <2> QED BY <2>4, <2>5, <2>6, <2>7, <2>8, <2>9
<1> QED BY <1>4, <1>5
(* The change at which a process reads is a change of the log. *)
LEMMA ReadingPlace ==
  ASSUME TypeOK, NEW p \in Process, Reading(p)
  PROVE  /\ pc[p] = "stream" /\ Upcoming(p) = at[p] + 1 /\ ~ midway[p]
         /\ Upcoming(p) \in 1 .. Len(wal) /\ Upcoming(p) \in Position
         /\ wal[Upcoming(p)].table \in Table /\ wal[Upcoming(p)].shape \in Shape
         /\ wal[Upcoming(p)].made \in Position /\ wal[Upcoming(p)].made <= at[p]
<1>1. at[p] \in Nat /\ Len(wal) \in Nat /\ Len(wal) <= MaxChanges
  BY DEF TypeOK, Position
<1>2. pc[p] = "stream" /\ ~ midway[p] /\ Upcoming(p) = at[p] + 1 /\ Upcoming(p) <= Len(wal)
  BY DEF Reading, Upcoming
<1>3. Upcoming(p) \in 1 .. Len(wal) /\ Upcoming(p) \in Position
  BY <1>1, <1>2 DEF Position
<1>4. wal[Upcoming(p)].made \in Position /\ wal[Upcoming(p)].made < Upcoming(p)
  BY <1>3, LogFields
<1>5. wal[Upcoming(p)].made <= at[p]
  BY <1>1, <1>2, <1>4 DEF Position
<1> QED BY <1>2, <1>3, <1>4, <1>5, LogFields

(* Passing a change that was not published passes over nothing. *)
LEMMA SkipKeeps == ASSUME Inv, NEW p \in Process, Skip(p) PROVE Inv'
<1> USE DEF Inv
<1> DEFINE i == Upcoming(p)
<1>1. UNCHANGED <<wal, shape, slot, origin, created, since, event, handed, credentials, active, pc,
                  missing, midway, sent, cache, lsn, faults>>
  BY DEF Skip, database, server, output
<1>2. /\ pc[p] = "stream" /\ i = at[p] + 1 /\ ~ midway[p]
      /\ i \in 1 .. Len(wal) /\ i \in Position /\ ~ Published(i)
  BY ReadingPlace DEF Skip
<1>3. at' = [at EXCEPT ![p] = i]
  BY DEF Skip
<1> HIDE DEF i
<1>4. TypeOK'
  BY <1>1, <1>2, <1>3 DEF TypeOK
<1>5. PlacesInLog'
  <2>1. at \in [Process -> Position] /\ lsn \in [Process -> Position \union {None}]
    BY DEF TypeOK
  <2> QED BY <1>1, <1>2, <1>3, <2>1 DEF PlacesInLog, Position, None
<1>6. SlotFound' /\ SameDescriptions'
  BY <1>1 DEF SlotFound, SameDescriptions
<1>7. MidwayHanded'
  BY <1>1, <1>2, <1>3 DEF MidwayHanded, Upcoming, TypeOK
<1>8. EventIsRow'
  BY <1>1 DEF EventIsRow, Tuple
<1>9. NothingPassedOver'
  <2> SUFFICES ASSUME NEW n \in origin + 1 .. Len(wal), Reached(n)', Published(n)', wal[n].op # "truncate"
               PROVE  n \in handed
    BY <1>1 DEF NothingPassedOver
  <2>1. Published(n) /\ n # i
    BY <1>1, <1>2 DEF Published
  <2>2. Reached(n)
    <3>1. n \in Int /\ at \in [Process -> Position]
      BY DEF TypeOK, Position
    <3> QED BY <1>1, <1>2, <1>3, <2>1, <3>1 DEF Reached, Position
  <2> QED BY <2>1, <2>2 DEF NothingPassedOver
<1> QED BY <1>4, <1>5, <1>6, <1>7, <1>8, <1>9

(* Server and client learn the same, for the change to come. *)
LEMMA ReadRelationKeeps == ASSUME Inv, NEW p \in Process, ReadRelation(p) PROVE Inv'
<1> USE DEF Inv
<1> DEFINE change == wal[Upcoming(p)]
<1>1. UNCHANGED <<wal, shape, slot, origin, created, since, event, handed, credentials, active, pc,
                  missing, at, midway, faults>>
  BY DEF ReadRelation, database, server, output
<1>2. change.table \in Table /\ change.shape \in Shape /\ change.made \in Position /\ change.made <= at[p]
  BY ReadingPlace DEF ReadRelation
<1>3. /\ sent' = [sent EXCEPT ![p][change.table] = change.shape]
      /\ cache' = [cache EXCEPT ![p][change.table] = change.shape]
      /\ lsn' = [lsn EXCEPT ![p] = change.made]
  BY DEF ReadRelation, Learn
<1> HIDE DEF change
<1>4. /\ sent' \in [Process -> [Table -> Shape \union {Unknown}]]
      /\ cache' \in [Process -> [Table -> Shape \union {Unknown}]]
      /\ lsn' \in [Process -> Position \union {None}]
  <2>1. /\ sent \in [Process -> [Table -> Shape \union {Unknown}]]
        /\ cache \in [Process -> [Table -> Shape \union {Unknown}]]
        /\ lsn \in [Process -> Position \union {None}] /\ at \in [Process -> Position]
    BY DEF TypeOK
  <2> QED BY <1>2, <1>3, <2>1
<1>5. TypeOK'
  BY <1>1, <1>4 DEF TypeOK
<1>6. PlacesInLog'
  <2>1. at \in [Process -> Position] /\ lsn \in [Process -> Position \union {None}]
    BY DEF TypeOK
  <2> QED BY <1>1, <1>2, <1>3, <2>1 DEF PlacesInLog, Position, None
<1>7. SlotFound' /\ SameDescriptions'
  BY <1>1, <1>3 DEF SlotFound, SameDescriptions
<1>8. MidwayHanded' /\ NothingPassedOver'
  BY <1>1 DEF MidwayHanded, Upcoming, NothingPassedOver, Reached, Published
<1>9. EventIsRow'
  BY <1>1 DEF EventIsRow, Tuple
<1> QED BY <1>5, <1>6, <1>7, <1>8, <1>9

(* The commit is of a change that is in the channel. *)
LEMMA ReadCommitKeeps == ASSUME Inv, NEW p \in Process, ReadCommit(p) PROVE Inv'
<1> USE DEF Inv
<1> DEFINE i == Upcoming(p)
<1>1. UNCHANGED <<wal, shape, slot, origin, created, since, handed, credentials, active, pc,
                  missing, sent, cache, faults>>
  BY DEF ReadCommit, database, server
<1>2. /\ pc[p] = "stream" /\ i = at[p] + 1
      /\ i \in 1 .. Len(wal) /\ i \in Position
      /\ wal[i].op # "truncate" => i \in handed
  <2>1. at[p] \in Nat /\ Len(wal) \in Nat /\ Len(wal) <= MaxChanges
    BY DEF TypeOK, Position
  <2>2. pc[p] = "stream" /\ i = at[p] + 1 /\ at[p] < Len(wal)
    BY DEF ReadCommit, PlacesInLog, Upcoming
  <2>3. wal[i].op # "truncate" => i \in handed
    BY DEF ReadCommit, MidwayHanded
  <2> HIDE DEF i
  <2> QED BY <2>1, <2>2, <2>3 DEF Position
<1>3. /\ at' = [at EXCEPT ![p] = i] /\ lsn' = [lsn EXCEPT ![p] = i]
      /\ midway' = [midway EXCEPT ![p] = FALSE] /\ event' = NoEvent
  BY DEF ReadCommit
<1> HIDE DEF i
<1>4. TypeOK'
  <2>1. /\ at \in [Process -> Position] /\ lsn \in [Process -> Position \union {None}]
        /\ midway \in [Process -> BOOLEAN]
    BY DEF TypeOK
  <2>2. /\ at' \in [Process -> Position] /\ lsn' \in [Process -> Position \union {None}]
        /\ midway' \in [Process -> BOOLEAN]
    BY <1>2, <1>3, <2>1
  <2> QED BY <1>1, <1>3, <2>2 DEF TypeOK
<1>5. PlacesInLog'
  <2>1. /\ at \in [Process -> Position] /\ lsn \in [Process -> Position \union {None}]
        /\ midway \in [Process -> BOOLEAN]
    BY DEF TypeOK
  <2> QED BY <1>1, <1>2, <1>3, <2>1 DEF PlacesInLog, Position, None
<1>6. SlotFound' /\ SameDescriptions' /\ EventIsRow'
  BY <1>1, <1>3 DEF SlotFound, SameDescriptions, EventIsRow
<1>7. MidwayHanded'
  BY <1>1, <1>3 DEF MidwayHanded, Upcoming, TypeOK
<1>8. NothingPassedOver'
  <2> SUFFICES ASSUME NEW n \in origin + 1 .. Len(wal), Reached(n)', Published(n)', wal[n].op # "truncate"
               PROVE  n \in handed
    BY <1>1 DEF NothingPassedOver
  <2>1. Published(n)
    BY <1>1 DEF Published
  <2>2. Reached(n) \/ n = i
    <3>1. n \in Int /\ at \in [Process -> Position]
      BY DEF TypeOK, Position
    <3> QED BY <1>1, <1>2, <1>3, <3>1 DEF Reached, Position
  <2> QED BY <1>2, <2>1, <2>2 DEF NothingPassedOver
<1> QED BY <1>4, <1>5, <1>6, <1>7, <1>8
-----------------------------------------------------------------------------
(* The columns of an event.                                                 *)

Column == {"id", "external_id", "dropped", "data"}

(* A table has no column twice, and the columns its entity is named by. *)
LEMMA LayoutColumns ==
  ASSUME NEW t, NEW s \in Shape
  PROVE  /\ Layout(t, s) \in Seq(Column)
         /\ \A m, n \in 1 .. Len(Layout(t, s)) : Layout(t, s)[m] = Layout(t, s)[n] => m = n
         /\ \E n \in 1 .. Len(Layout(t, s)) : Layout(t, s)[n] = "id"
         /\ t \in External <=> \E n \in 1 .. Len(Layout(t, s)) : Layout(t, s)[n] = "external_id"
<1> DEFINE a == <<"id">>
           b == IF t \in External THEN <<"external_id">> ELSE <<>>
           c == IF s = "old" THEN <<"dropped">> ELSE <<>>
           d == <<"data">>
           L == ((a \o b) \o c) \o d
<1>1. Layout(t, s) = L
  BY DEF Layout
<1>2. /\ a \in Seq(Column) /\ Len(a) = 1 /\ a[1] = "id"
      /\ d \in Seq(Column) /\ Len(d) = 1 /\ d[1] = "data"
  BY DEF Column
<1>3. /\ b \in Seq(Column)
      /\ t \in External => Len(b) = 1 /\ b[1] = "external_id"
      /\ t \notin External => Len(b) = 0
  <2>1. CASE t \in External
    <3>1. b = <<"external_id">>
      BY <2>1
    <3> QED BY <2>1, <3>1 DEF Column
  <2>2. CASE t \notin External
    <3>1. b = <<>>
      BY <2>2
    <3> QED BY <2>2, <3>1
  <2> QED BY <2>1, <2>2
<1>4. /\ c \in Seq(Column)
      /\ s = "old" => Len(c) = 1 /\ c[1] = "dropped"
      /\ s # "old" => Len(c) = 0
  <2>1. CASE s = "old"
    <3>1. c = <<"dropped">>
      BY <2>1
    <3> QED BY <2>1, <3>1 DEF Column
  <2>2. CASE s # "old"
    <3>1. c = <<>>
      BY <2>2
    <3> QED BY <2>2, <3>1
  <2> QED BY <2>1, <2>2
<1> HIDE DEF a, b, c, d
<1>5. /\ a \o b \in Seq(Column) /\ Len(a \o b) = 1 + Len(b)
      /\ (a \o b)[1] = "id" /\ (t \in External => (a \o b)[2] = "external_id")
  BY <1>2, <1>3, ConcatProperties
<1>6. /\ (a \o b) \o c \in Seq(Column) /\ Len((a \o b) \o c) = 1 + Len(b) + Len(c)
      /\ ((a \o b) \o c)[1] = "id"
      /\ t \in External => ((a \o b) \o c)[2] = "external_id"
      /\ s = "old" => ((a \o b) \o c)[2 + Len(b)] = "dropped"
  BY <1>3, <1>4, <1>5, ConcatProperties
<1>7. /\ L \in Seq(Column) /\ Len(L) = 2 + Len(b) + Len(c)
      /\ L[1] = "id" /\ L[2 + Len(b) + Len(c)] = "data"
      /\ t \in External => L[2] = "external_id"
      /\ s = "old" => L[2 + Len(b)] = "dropped"
  BY <1>2, <1>3, <1>4, <1>6, ConcatProperties
<1> HIDE DEF L
<1>8. CASE t \in External /\ s = "old"
  <2>1. Len(b) = 1 /\ Len(c) = 1
    BY <1>3, <1>4, <1>8
  <2>2. Len(L) = 4 /\ L[1] = "id" /\ L[2] = "external_id" /\ L[3] = "dropped" /\ L[4] = "data"
    BY <1>7, <1>8, <2>1
  <2>3. 1 .. Len(L) = {1, 2, 3, 4}
    BY <2>2
  <2> QED BY <1>1, <1>7, <1>8, <2>2, <2>3
<1>9. CASE t \in External /\ s # "old"
  <2>1. Len(b) = 1 /\ Len(c) = 0
    BY <1>3, <1>4, <1>9
  <2>2. Len(L) = 3 /\ L[1] = "id" /\ L[2] = "external_id" /\ L[3] = "data"
    BY <1>7, <1>9, <2>1
  <2>3. 1 .. Len(L) = {1, 2, 3}
    BY <2>2
  <2> QED BY <1>1, <1>7, <1>9, <2>2, <2>3
<1>10. CASE t \notin External /\ s = "old"
  <2>1. Len(b) = 0 /\ Len(c) = 1
    BY <1>3, <1>4, <1>10
  <2>2. Len(L) = 3 /\ L[1] = "id" /\ L[2] = "dropped" /\ L[3] = "data"
    BY <1>7, <1>10, <2>1
  <2>3. 1 .. Len(L) = {1, 2, 3}
    BY <2>2
  <2> QED BY <1>1, <1>7, <1>10, <2>2, <2>3
<1>11. CASE t \notin External /\ s # "old"
  <2>1. Len(b) = 0 /\ Len(c) = 0
    BY <1>3, <1>4, <1>11
  <2>2. Len(L) = 2 /\ L[1] = "id" /\ L[2] = "data"
    BY <1>7, <1>11, <2>1
  <2>3. 1 .. Len(L) = {1, 2}
    BY <2>2
  <2> QED BY <1>1, <1>7, <1>11, <2>2, <2>3
<1> QED BY <1>8, <1>9, <1>10, <1>11

(* The value of a column of change i. *)
Sent(i, c) ==
  IF wal[i].op = "delete" /\ wal[i].table \notin Full /\ c # "id" THEN Null ELSE Text(c, i)

(* Zipped with the names they were sent under, values are found by name. *)
LEMMA RowColumns ==
  ASSUME TypeOK, NEW i \in 1 .. Len(wal)
  PROVE  LET names == Layout(wal[i].table, wal[i].shape)
             columns == ColumnMap(names, Tuple(i))
         IN /\ DOMAIN columns = {names[n] : n \in 1 .. Len(names)}
            /\ columns = [c \in DOMAIN columns |-> Sent(i, c)]
<1> DEFINE names == Layout(wal[i].table, wal[i].shape)
           columns == ColumnMap(names, Tuple(i))
           both == {n \in 1 .. Len(names) : n <= Len(Tuple(i))}
<1>1. wal[i].table \in Table /\ wal[i].shape \in Shape
  BY LogFields
<1>2. names \in Seq(Column) /\ \A m, n \in 1 .. Len(names) : names[m] = names[n] => m = n
  BY <1>1, LayoutColumns
<1>3. Tuple(i) = [n \in 1 .. Len(names) |-> Sent(i, names[n])]
  BY DEF Tuple, Sent
<1>4. Len(Tuple(i)) = Len(names)
  <2> HIDE DEF names
  <2> QED BY <1>2, <1>3
<1>5. both = 1 .. Len(names)
  <2> HIDE DEF names
  <2> QED BY <1>2, <1>4
<1>6. columns = [c \in {names[n] : n \in both} |-> Tuple(i)[CHOOSE n \in both : names[n] = c]]
  BY DEF ColumnMap
<1>7. DOMAIN columns = {names[n] : n \in 1 .. Len(names)}
  BY <1>5, <1>6
<1>8. ASSUME NEW c \in DOMAIN columns
      PROVE  columns[c] = Sent(i, c)
  <2> DEFINE n == CHOOSE m \in both : names[m] = c
  <2>1. n \in 1 .. Len(names) /\ names[n] = c
    <3> HIDE DEF names, columns, both
    <3> QED BY <1>5, <1>7
  <2>2. columns[c] = Tuple(i)[n]
    BY <1>6
  <2> HIDE DEF n, names, columns
  <2> QED BY <1>3, <2>1, <2>2
<1> HIDE DEF names, columns
<1>9. columns = [c \in DOMAIN columns |-> Sent(i, c)]
  BY <1>6, <1>8
<1> QED BY <1>7, <1>9 DEF names, columns

(* A row is an event of the types of Event. *)
LEMMA RowIsEvent ==
  ASSUME TypeOK, NEW i \in 1 .. Len(wal)
  PROVE  [at |-> i, columns |-> ColumnMap(Layout(wal[i].table, wal[i].shape), Tuple(i))] \in Event
<1> DEFINE names == Layout(wal[i].table, wal[i].shape)
           columns == ColumnMap(names, Tuple(i))
<1>1. wal[i].table \in Table /\ wal[i].shape \in Shape
  BY LogFields
<1>2. names \in Seq(Column)
  BY <1>1, LayoutColumns
<1>3. DOMAIN columns = {names[n] : n \in 1 .. Len(names)} /\ columns = [c \in DOMAIN columns |-> Sent(i, c)]
  BY RowColumns
<1>4. i \in 1 .. MaxChanges /\ i \in Position /\ 0 \in Position
  BY DEF TypeOK, Position
<1> HIDE DEF names, columns
<1>5. DOMAIN columns \in SUBSET Column
  BY <1>2, <1>3
<1>6. \A c \in Column : Sent(i, c) \in [of : {"null", "id", "external_id", "dropped", "data"}, at : Position]
  BY <1>4 DEF Sent, Null, Text, Column
<1>7. columns \in [DOMAIN columns -> [of : {"null", "id", "external_id", "dropped", "data"}, at : Position]]
  BY <1>3, <1>5, <1>6
<1>8. columns \in UNION {[C -> [of : {"null", "id", "external_id", "dropped", "data"}, at : Position]] :
                         C \in SUBSET {"id", "external_id", "dropped", "data"}}
  BY <1>5, <1>7 DEF Column
<1> QED BY <1>4, <1>8 DEF Event, columns, names

-----------------------------------------------------------------------------

(* A change is decoded with the columns it was made with, and is in the      *)
(* channel before its commit.                                               *)
LEMMA ReadChangeKeeps == ASSUME Inv, NEW p \in Process, ReadChange(p) PROVE Inv'
<1> USE DEF Inv
<1> DEFINE i == Upcoming(p)
           row == [at |-> i, columns |-> ColumnMap(Layout(wal[i].table, wal[i].shape), Tuple(i))]
<1>1. UNCHANGED <<wal, shape, slot, origin, created, since, credentials, active, pc,
                  missing, at, sent, cache, faults>>
  BY DEF ReadChange, database, server
<1>2. /\ pc[p] = "stream" /\ i = at[p] + 1 /\ i \in 1 .. Len(wal) /\ i \in Position
      /\ wal[i].table \in Table /\ wal[i].shape \in Shape
      /\ wal[i].made \in Position /\ wal[i].made <= at[p]
  BY ReadingPlace DEF ReadChange
<1>3. cache[p][wal[i].table] = wal[i].shape
  BY DEF ReadChange, Described, SameDescriptions
<1>4. wal[i].shape # Unknown
  BY <1>2 DEF Shape, Unknown
<1>5. /\ midway' = [midway EXCEPT ![p] = TRUE] /\ lsn' = [lsn EXCEPT ![p] = wal[i].made]
      /\ event' = IF wal[i].op # "truncate" THEN row ELSE event
      /\ handed' = IF wal[i].op # "truncate" THEN handed \union {i} ELSE handed
  BY <1>3, <1>4 DEF ReadChange
<1>6. row \in Event
  BY <1>2, RowIsEvent
<1>7. row.at = i /\ row.columns = ColumnMap(Layout(wal[i].table, wal[i].shape), Tuple(i))
  OBVIOUS
<1> HIDE DEF i, row
<1>8. TypeOK'
  <2>1. /\ midway \in [Process -> BOOLEAN] /\ lsn \in [Process -> Position \union {None}]
        /\ at \in [Process -> Position] /\ handed \subseteq 1 .. Len(wal)
        /\ event = NoEvent \/ event \in Event
    BY DEF TypeOK
  <2>2. midway' \in [Process -> BOOLEAN] /\ lsn' \in [Process -> Position \union {None}]
    BY <1>2, <1>5, <2>1
  <2>3. event' = NoEvent \/ event' \in Event
    BY <1>5, <1>6, <2>1
  <2>4. handed' \subseteq 1 .. Len(wal)
    BY <1>2, <1>5, <2>1
  <2> QED BY <1>1, <2>2, <2>3, <2>4 DEF TypeOK
<1>9. PlacesInLog'
  <2>1. /\ at \in [Process -> Position] /\ lsn \in [Process -> Position \union {None}]
        /\ midway \in [Process -> BOOLEAN] /\ Len(wal) \in Nat
    BY DEF TypeOK
  <2> QED BY <1>1, <1>2, <1>5, <2>1 DEF PlacesInLog, Position, None
<1>10. SlotFound' /\ SameDescriptions'
  BY <1>1 DEF SlotFound, SameDescriptions
<1>11. MidwayHanded'
  <2> SUFFICES ASSUME NEW q \in Process, midway'[q], wal[Upcoming(q)].op # "truncate"
               PROVE  Upcoming(q) \in handed'
    BY <1>1 DEF MidwayHanded, Upcoming
  <2>1. CASE q = p
    BY <1>5, <2>1 DEF i
  <2>2. CASE q # p
    <3>1. midway[q]
      BY <1>5, <2>2 DEF TypeOK
    <3> QED BY <1>5, <3>1 DEF MidwayHanded
  <2> QED BY <2>1, <2>2
<1>12. EventIsRow'
  <2>1. CASE wal[i].op = "truncate"
    <3>1. event' = event
      BY <1>5, <2>1
    <3> QED BY <1>1, <3>1 DEF EventIsRow, Tuple
  <2>2. CASE wal[i].op # "truncate"
    <3>1. event' = row /\ event'.at = i
      BY <1>5, <1>7, <2>2
    <3> QED BY <1>1, <1>2, <1>7, <3>1 DEF EventIsRow, Tuple
  <2> QED BY <2>1, <2>2
<1>13. NothingPassedOver'
  BY <1>1, <1>5 DEF NothingPassedOver, Reached, Published
<1> QED BY <1>8, <1>9, <1>10, <1>11, <1>12, <1>13

(* The slot follows a connection to where it has read. *)
LEMMA ConfirmKeeps ==
  ASSUME Inv, NEW p \in Process, pc[p] = "stream",
         lsn' \in [Process -> Position \union {None}], \A q \in Process : lsn'[q] <= at[q],
         slot' = slot \/ (slot' \in Position /\ slot' <= at[p]),
         UNCHANGED <<database, origin, created, since, active, credentials, pc, missing, at, midway,
                     sent, cache, output, faults>>
  PROVE  Inv'
<1> USE DEF Inv
<1>1. UNCHANGED <<wal, shape, event, handed>>
  BY DEF database, output
<1>2. /\ at \in [Process -> Position] /\ Len(wal) \in Nat /\ at[p] <= Len(wal)
      /\ slot \in Position \union {None}
  BY DEF TypeOK, PlacesInLog
<1>3. TypeOK'
  BY <1>1, <1>2 DEF TypeOK
<1>4. PlacesInLog'
  BY <1>1, <1>2 DEF PlacesInLog, Position, None
<1>5. SlotFound'
  BY <1>2 DEF SlotFound, Position, None
<1>6. SameDescriptions' /\ MidwayHanded' /\ EventIsRow'
  BY <1>1 DEF SameDescriptions, MidwayHanded, Upcoming, EventIsRow, Tuple
<1>7. NothingPassedOver'
  <2> SUFFICES ASSUME NEW n \in origin + 1 .. Len(wal), Reached(n)', Published(n)', wal[n].op # "truncate"
               PROVE  n \in handed
    BY <1>1 DEF NothingPassedOver
  <2>1. Published(n)
    BY <1>1 DEF Published
  <2>2. Reached(n)
    <3>1. n \in Int
      BY DEF TypeOK, Position
    <3> QED BY <1>2, <3>1 DEF Reached, Position
  <2> QED BY <2>1, <2>2 DEF NothingPassedOver
<1> QED BY <1>3, <1>4, <1>5, <1>6, <1>7

LEMMA KeepAliveKeeps ==
  ASSUME Inv, NEW p \in Process, NEW replyRequested \in BOOLEAN, KeepAlive(p, replyRequested)
  PROVE  Inv'
<1>1. /\ at \in [Process -> Position] /\ lsn \in [Process -> Position \union {None}]
      /\ \A q \in Process : lsn[q] <= at[q]
  BY DEF Inv, TypeOK, PlacesInLog
<1>2. Later(lsn[p], at[p]) = at[p]
  BY <1>1 DEF Later, Position, None
<1>3. lsn' = [lsn EXCEPT ![p] = at[p]]
  BY <1>2 DEF KeepAlive
<1>4. lsn' \in [Process -> Position \union {None}] /\ \A q \in Process : lsn'[q] <= at[q]
  BY <1>1, <1>3 DEF Position
<1>5. slot' = slot \/ (slot' \in Position /\ slot' <= at[p])
  BY <1>1, <1>3 DEF KeepAlive, Position
<1> QED BY <1>4, <1>5, ConfirmKeeps DEF KeepAlive

LEMMA SendStatusKeeps == ASSUME Inv, NEW p \in Process, SendStatus(p) PROVE Inv'
<1>1. /\ at \in [Process -> Position] /\ lsn \in [Process -> Position \union {None}]
      /\ \A q \in Process : lsn[q] <= at[q]
  BY DEF Inv, TypeOK, PlacesInLog
<1>2. slot' \in Position /\ slot' <= at[p]
  BY <1>1 DEF SendStatus
<1> QED BY <1>1, <1>2, ConfirmKeeps DEF SendStatus, connection

-----------------------------------------------------------------------------
(* The database and the server.                                             *)

LEMMA NoticeKeeps == ASSUME Inv, Notice PROVE Inv'
<1> USE DEF Inv
<1>1. UNCHANGED <<wal, shape, slot, origin, created, since, credentials, pc, missing, at, midway, sent,
                  cache, lsn, event, handed, faults>> /\ active = Ghost /\ active' = Nobody
  BY DEF Notice, database, server, connection, output
<1>2. TypeOK'
  BY <1>1 DEF TypeOK
<1>3. PlacesInLog' /\ SlotFound' /\ SameDescriptions'
  BY <1>1 DEF PlacesInLog, SlotFound, SameDescriptions
<1>4. MidwayHanded' /\ NothingPassedOver'
  BY <1>1 DEF MidwayHanded, Upcoming, NothingPassedOver, Reached, Published
<1>5. EventIsRow'
  BY <1>1 DEF EventIsRow, Tuple
<1> QED BY <1>2, <1>3, <1>4, <1>5

LEMMA DropColumnKeeps == ASSUME Inv, NEW t \in Migrating, DropColumn(t) PROVE Inv'
<1> USE DEF Inv
<1>1. UNCHANGED <<wal, slot, origin, created, since, credentials, active, pc, missing, at, midway, sent,
                  cache, lsn, event, handed, faults>> /\ shape' = [shape EXCEPT ![t] = "new"]
  BY DEF DropColumn, server, connection, output
<1>2. shape' \in [Table -> Shape]
  BY <1>1 DEF TypeOK, Shape
<1>3. TypeOK'
  BY <1>1, <1>2 DEF TypeOK
<1>4. PlacesInLog' /\ SlotFound' /\ SameDescriptions'
  BY <1>1 DEF PlacesInLog, SlotFound, SameDescriptions
<1>5. MidwayHanded' /\ NothingPassedOver'
  BY <1>1 DEF MidwayHanded, Upcoming, NothingPassedOver, Reached, Published
<1>6. EventIsRow'
  BY <1>1 DEF EventIsRow, Tuple
<1> QED BY <1>3, <1>4, <1>5, <1>6

(* What is new in the log nobody has reached. *)
LEMMA CommitKeeps ==
  ASSUME Inv, NEW t \in Table, NEW op \in Op, NEW made \in 0 .. Len(wal), Commit(t, op, made)
  PROVE  Inv'
<1> USE DEF Inv
<1>1. UNCHANGED <<shape, slot, origin, created, since, credentials, active, pc, missing, at, midway, sent,
                  cache, lsn, event, handed, faults>>
  BY DEF Commit, server, connection, output
<1>2. /\ wal' \in Seq(Change) /\ Len(wal') = Len(wal) + 1 /\ Len(wal) \in Nat
      /\ Len(wal') <= MaxChanges
      /\ \A i \in 1 .. Len(wal) : wal'[i] = wal[i] /\ Tuple(i)' = Tuple(i)
      /\ \A i \in 1 .. Len(wal') : wal'[i].made < i
  BY CommitExtends
<1>3. /\ at \in [Process -> Position] /\ lsn \in [Process -> Position \union {None}]
      /\ slot \in Position \union {None} /\ origin \in Position /\ handed \subseteq 1 .. Len(wal)
  BY DEF TypeOK
<1>4. TypeOK'
  <2>1. handed' \subseteq 1 .. Len(wal')
    BY <1>1, <1>2, <1>3
  <2> QED BY <1>1, <1>2, <2>1 DEF TypeOK
<1>5. PlacesInLog'
  BY <1>1, <1>2, <1>3 DEF PlacesInLog, Position, None
<1>6. SlotFound' /\ SameDescriptions'
  BY <1>1 DEF SlotFound, SameDescriptions
<1>7. MidwayHanded'
  <2> SUFFICES ASSUME NEW q \in Process, midway[q], wal'[Upcoming(q)].op # "truncate"
               PROVE  Upcoming(q) \in handed
    BY <1>1 DEF MidwayHanded, Upcoming
  <2>1. Upcoming(q) \in 1 .. Len(wal)
    BY <1>2, <1>3 DEF PlacesInLog, Upcoming, Position
  <2> QED BY <1>2, <2>1 DEF MidwayHanded
<1>8. EventIsRow'
  <2> SUFFICES ASSUME event # NoEvent
               PROVE  /\ event.at \in 1 .. Len(wal')
                      /\ event.columns = ColumnMap(Layout(wal'[event.at].table, wal'[event.at].shape),
                                                   Tuple(event.at)')
    BY <1>1 DEF EventIsRow
  <2>1. /\ event.at \in 1 .. Len(wal)
        /\ event.columns = ColumnMap(Layout(wal[event.at].table, wal[event.at].shape), Tuple(event.at))
    BY DEF EventIsRow
  <2>2. wal'[event.at] = wal[event.at]
    BY <1>2, <2>1
  <2>3. event.at \in 1 .. Len(wal')
    BY <1>2, <2>1
  <2> QED BY <1>1, <2>1, <2>2, <2>3 DEF Tuple
<1>9. NothingPassedOver'
  <2> SUFFICES ASSUME NEW n \in origin + 1 .. Len(wal'), Reached(n)', Published(n)', wal'[n].op # "truncate"
               PROVE  n \in handed
    BY <1>1 DEF NothingPassedOver
  <2>1. Reached(n)
    BY <1>1 DEF Reached
  <2>2. n \in 1 .. Len(wal) /\ n \in origin + 1 .. Len(wal)
    BY <1>2, <1>3, <2>1 DEF Reached, PlacesInLog, Position, None
  <2>3. wal'[n] = wal[n]
    BY <1>2, <2>2
  <2>4. Published(n)
    BY <1>1, <2>3 DEF Published
  <2> QED BY <2>1, <2>2, <2>3, <2>4 DEF NothingPassedOver
<1> QED BY <1>4, <1>5, <1>6, <1>7, <1>8, <1>9

-----------------------------------------------------------------------------

LEMMA InitEstablishes == Init => Inv
<1> SUFFICES ASSUME Init
             PROVE  Inv
  OBVIOUS
<1>1. wal = <<>> /\ Len(wal) = 0 /\ wal \in Seq(Change)
  BY DEF Init
<1>2. 0 \in Position /\ MaxChanges \in Nat
  BY DEF Position
<1>3. \E old \in Earlier : since = [t \in Table |-> IF created = 0 /\ t \in old THEN 0 ELSE None]
  BY DEF Init
<1>4. since \in [Table -> Position \union {None}]
  BY <1>2, <1>3
<1>5. slot \in {None, 0} /\ created \in {None, 0} /\ origin = 0
  BY DEF Init
<1>6. TypeOK
  BY <1>1, <1>2, <1>4, <1>5 DEF Init, TypeOK, Shape, Ghost, Nobody
<1>7. PlacesInLog
  BY <1>1, <1>5 DEF Init, PlacesInLog, None
<1>8. SlotFound /\ SameDescriptions /\ MidwayHanded /\ EventIsRow
  BY DEF Init, SlotFound, SameDescriptions, MidwayHanded, EventIsRow
<1>9. NothingPassedOver
  BY <1>1, <1>5 DEF NothingPassedOver
<1> QED BY <1>6, <1>7, <1>8, <1>9 DEF Inv

LEMMA NextKeeps == Inv /\ [Next]_vars => Inv'
<1> SUFFICES ASSUME Inv, [Next]_vars
             PROVE  Inv'
  OBVIOUS
<1>1. ASSUME NEW t \in Table, NEW op \in Op, NEW made \in 0 .. Len(wal), Commit(t, op, made) PROVE Inv'
  BY <1>1, CommitKeeps
<1>2. ASSUME NEW t \in Migrating, DropColumn(t) PROVE Inv'
  BY <1>2, DropColumnKeeps
<1>3. ASSUME NEW p \in Process, Advance(p) PROVE Inv'
  BY <1>3, LogInKeeps, FindSlotKeeps, CreateSlotKeeps, FindPublicationKeeps, CreatePublicationKeeps,
     FindTablesKeeps, AddTablesKeeps, StartReplicationKeeps, BackOffKeeps, UndecodableKeeps, SkipKeeps,
     ReadRelationKeeps, ReadChangeKeeps, ReadCommitKeeps DEF Advance
<1>4. ASSUME NEW p \in Process, NEW replyRequested \in BOOLEAN, KeepAlive(p, replyRequested) PROVE Inv'
  BY <1>4, KeepAliveKeeps
<1>5. ASSUME NEW p \in Process, SendStatus(p) PROVE Inv'
  BY <1>5, SendStatusKeeps
<1>6. ASSUME NEW p \in Process, LoseConnection(p) PROVE Inv'
  BY <1>6, LoseConnectionKeeps
<1>7. CASE Notice
  BY <1>7, NoticeKeeps
<1>8. CASE UNCHANGED vars
  <2>1. UNCHANGED <<wal, shape, slot, origin, created, since, active, credentials, pc, missing, at, midway,
                    sent, cache, lsn, event, handed, faults>>
    BY <1>8 DEF vars, database, server, connection, output
  <2> QED BY <2>1 DEF Inv, TypeOK, PlacesInLog, SlotFound, SameDescriptions, MidwayHanded, Upcoming,
                      EventIsRow, Tuple, NothingPassedOver, Reached, Published
<1> QED BY <1>1, <1>2, <1>3, <1>4, <1>5, <1>6, <1>7, <1>8 DEF Next

(* The invariant holds of every number of clients of one slot, whatever they *)
(* are interrupted in and whatever the tables become meanwhile.             *)
THEOREM ReplicationInvariant == Spec => []Inv
BY InitEstablishes, NextKeeps, PTL DEF Spec

(* The variables keep their types; at most one connection has the slot, and  *)
(* only a process that streams has it.                                      *)
THEOREM TypeCorrect == Spec => []TypeOK
<1>1. Inv => TypeOK
  BY DEF Inv
<1> QED BY <1>1, ReplicationInvariant, PTL

(* parse_relation, parse_tuple and build_column_map: an event has under      *)
(* every name the value of that column of the row that changed, or none,     *)
(* whatever columns are dropped under a connection.                         *)
THEOREM ColumnsAreAligned == Spec => []ColumnsAligned
<1>1. Inv => ColumnsAligned
  <2> SUFFICES ASSUME Inv, event # NoEvent, NEW c \in DOMAIN event.columns
               PROVE  event.columns[c] \in {Null, Text(c, event.at)}
    BY DEF ColumnsAligned
  <2> DEFINE i == event.at
  <2>1. /\ TypeOK /\ i \in 1 .. Len(wal)
        /\ event.columns = ColumnMap(Layout(wal[i].table, wal[i].shape), Tuple(i))
    BY DEF Inv, EventIsRow
  <2> HIDE DEF i
  <2>2. event.columns = [d \in DOMAIN event.columns |-> Sent(i, d)]
    BY <2>1, RowColumns
  <2>3. event.columns[c] = Sent(i, c)
    BY <2>2
  <2> QED BY <2>3 DEF Sent, i
<1> QED BY <1>1, ReplicationInvariant, PTL

(* dispatch: an event is announced under the external_id of its row where    *)
(* the table has one and else under its id, but for deleted rows of which    *)
(* the server sends no external_id.                                         *)
THEOREM EventsNameTheirRow == Spec => []KeyNamesRow
<1>1. Inv => KeyNamesRow
  <2> DEFINE i == event.at
             t == wal[i].table
             names == Layout(t, wal[i].shape)
             columns == event.columns
  <2> SUFFICES ASSUME Inv, event # NoEvent
               PROVE  EntityId(columns) =
                        IF wal[i].op = "delete" /\ t \in External \ Full THEN Null
                        ELSE Text(IF t \in External THEN "external_id" ELSE "id", i)
    BY DEF KeyNamesRow
  <2>1. TypeOK /\ i \in 1 .. Len(wal) /\ columns = ColumnMap(names, Tuple(i))
    BY DEF Inv, EventIsRow
  <2>2. t \in Table /\ wal[i].shape \in Shape
    BY <2>1, LogFields
  <2> HIDE DEF i
  <2>3. DOMAIN columns = {names[n] : n \in 1 .. Len(names)} /\ columns = [c \in DOMAIN columns |-> Sent(i, c)]
    BY <2>1, RowColumns
  <2>4. "id" \in DOMAIN columns /\ (t \in External <=> "external_id" \in DOMAIN columns)
    BY <2>2, <2>3, LayoutColumns
  <2> HIDE DEF columns, names
  <2>5. CASE t \in External
    <3>1. EntityId(columns) = Sent(i, "external_id")
      BY <2>3, <2>4, <2>5 DEF EntityId
    <3> QED BY <2>5, <3>1 DEF Sent
  <2>6. CASE t \notin External
    <3>1. EntityId(columns) = Sent(i, "id")
      BY <2>3, <2>4, <2>6 DEF EntityId
    <3> QED BY <2>6, <3>1 DEF Sent
  <2> QED BY <2>5, <2>6
<1> QED BY <1>1, ReplicationInvariant, PTL

(* stream_loop: what the slot confirms and what a connection goes past has   *)
(* been put into a channel, through lost connections, restarts and races for *)
(* the slot and the publication.                                            *)
THEOREM NothingIsPassedOver == Spec => []NothingPassedOver
<1>1. Inv => NothingPassedOver
  BY DEF Inv
<1> QED BY <1>1, ReplicationInvariant, PTL

-----------------------------------------------------------------------------
(* The slot goes back to a change under way only: whoever streams is not      *)
(* behind it, and knows a place that is not behind it either, or else the    *)
(* place of the change it reads.                                            *)

(* A table is published at most once, by a process that saw that it was not. *)
PublishedOnce ==
  /\ created = None => \A t \in Table : since[t] = None
  /\ \A p \in Process : pc[p] \in {"tables", "addTables"} => created # None

AtChange(p) ==
  /\ at[p] < Len(wal)
  /\ Published(Upcoming(p))
  /\ lsn[p] = wal[Upcoming(p)].made

SlotBehind ==
  \A p \in Process :
    pc[p] = "stream" => slot <= at[p] /\ (lsn[p] # None => slot <= lsn[p] \/ AtChange(p))

StaysPublished == \A t \in Table : since[t] # None => since'[t] = since[t]

LEMMA PublishesOnce ==
  ASSUME TypeOK, PublishedOnce, [Next]_vars
  PROVE  PublishedOnce' /\ StaysPublished
<1>1. /\ pc \in [Process -> Connected \union {"connect", "backoff"}]
      /\ since \in [Table -> Position \union {None}] /\ created \in Position \union {None}
      /\ Len(wal) \in Nat /\ missing \in [Process -> SUBSET Replicated]
  BY DEF TypeOK
<1>2. ASSUME UNCHANGED <<created, since>>,
             \A q \in Process : pc'[q] \in {"tables", "addTables"} => pc[q] \in {"tables", "addTables"}
                                                                       \/ created # None
      PROVE  PublishedOnce' /\ StaysPublished
  BY <1>2 DEF PublishedOnce, StaysPublished
<1>3. ASSUME NEW p \in Process, NEW there \in Connected \union {"connect", "backoff"}, Goto(p, there),
             UNCHANGED <<created, since>>,
             there \in {"tables", "addTables"} => created # None
      PROVE  PublishedOnce' /\ StaysPublished
  BY <1>1, <1>2, <1>3 DEF Goto
<1>4. ASSUME NEW p \in Process, CreatePublication(p)
      PROVE  PublishedOnce' /\ StaysPublished
  <2>1. CASE created = None
    <3>1. /\ created' = Len(wal) /\ pc' = [pc EXCEPT ![p] = "start"] /\ Len(wal) # None
          /\ \A t \in Table : since[t] = None
      BY <1>1, <1>4, <2>1 DEF CreatePublication, Goto, PublishedOnce, None
    <3> QED BY <1>1, <3>1 DEF PublishedOnce, StaysPublished
  <2>2. CASE created # None
    BY <1>3, <1>4, <2>2 DEF CreatePublication
  <2> QED BY <2>1, <2>2
<1>5. ASSUME NEW p \in Process, AddTables(p)
      PROVE  PublishedOnce' /\ StaysPublished
  <2>1. CASE \A t \in missing[p] : since[t] = None
    <3>1. /\ created' = created /\ created # None /\ pc' = [pc EXCEPT ![p] = "start"]
          /\ since' = [t \in Table |-> IF t \in missing[p] THEN Len(wal) ELSE since[t]]
      BY <1>5, <2>1 DEF AddTables, Publish, Goto, PublishedOnce
    <3> QED BY <1>1, <2>1, <3>1 DEF PublishedOnce, StaysPublished
  <2>2. CASE ~ \A t \in missing[p] : since[t] = None
    <3>1. UNCHANGED <<created, since>> /\ Goto(p, "backoff")
      BY <1>5, <2>2 DEF AddTables
    <3> QED BY <1>3, <3>1
  <2> QED BY <2>1, <2>2
<1>6. ASSUME NEW p \in Process, FindTables(p)
      PROVE  PublishedOnce' /\ StaysPublished
  <2>1. created # None /\ UNCHANGED <<created, since>>
    BY <1>6 DEF FindTables, PublishedOnce, server
  <2>2. Goto(p, "start") \/ Goto(p, "addTables")
    BY <1>6 DEF FindTables
  <2> QED BY <1>3, <2>1, <2>2 DEF Connected, Setup
<1>7. ASSUME NEW p \in Process, FindPublication(p)
      PROVE  PublishedOnce' /\ StaysPublished
  <2>1. UNCHANGED <<created, since>>
    BY <1>7 DEF FindPublication, server
  <2>2. Goto(p, "createPublication") \/ (created # None /\ Goto(p, "tables"))
    BY <1>7 DEF FindPublication
  <2> QED BY <1>3, <2>1, <2>2 DEF Connected, Setup
<1>8. ASSUME NEW p \in Process,
             \/ LogIn(p) \/ FindSlot(p) \/ CreateSlot(p) \/ StartReplication(p) \/ BackOff(p)
             \/ Undecodable(p) \/ LoseConnection(p)
      PROVE  PublishedOnce' /\ StaysPublished
  <2>1. UNCHANGED <<created, since>>
    BY <1>8 DEF LogIn, FindSlot, CreateSlot, StartReplication, BackOff, Undecodable, LoseConnection, server
  <2>2. \E there \in {"slot", "createSlot", "publication", "stream", "connect", "backoff"} : Goto(p, there)
    BY <1>8 DEF LogIn, FindSlot, CreateSlot, StartReplication, Restart, BackOff, Undecodable, LoseConnection
  <2> QED BY <1>3, <2>1, <2>2 DEF Connected, Setup
<1>9. CASE \/ \E t \in Table, op \in Op, made \in 0 .. Len(wal) : Commit(t, op, made)
           \/ \E t \in Migrating : DropColumn(t)
           \/ \E p \in Process :
                \/ Skip(p) \/ ReadRelation(p) \/ ReadChange(p) \/ ReadCommit(p) \/ SendStatus(p)
                \/ \E replyRequested \in BOOLEAN : KeepAlive(p, replyRequested)
           \/ Notice
           \/ UNCHANGED vars
  <2>1. UNCHANGED <<created, since, pc>>
    BY <1>9 DEF Commit, DropColumn, Skip, ReadRelation, ReadChange, ReadCommit, SendStatus, KeepAlive,
                Notice, vars, server
  <2> QED BY <1>2, <2>1
<1> QED BY <1>4, <1>5, <1>6, <1>7, <1>8, <1>9 DEF Next, Advance

(* A connection that reads on stays ahead of the slot, and what it confirms  *)
(* takes the slot back only at a change.                                    *)
TakenBack ==
  slot # None /\ slot' < slot =>
    \E p \in Process : pc[p] = "stream" /\ at[p] < Len(wal) /\ slot' = wal[Upcoming(p)].made

LEMMA StreamStaysAhead ==
  ASSUME TypeOK, PlacesInLog, SlotBehind, NEW p \in Process, pc[p] = "stream",
         Skip(p) \/ ReadRelation(p) \/ ReadChange(p) \/ ReadCommit(p) \/ SendStatus(p)
           \/ (\E replyRequested \in BOOLEAN : KeepAlive(p, replyRequested))
  PROVE  SlotBehind' /\ TakenBack
<1>1. /\ at \in [Process -> Position] /\ lsn \in [Process -> Position \union {None}]
      /\ slot \in Position \union {None} /\ lsn[p] <= at[p] /\ slot <= at[p] /\ Len(wal) \in Nat
      /\ lsn[p] # None => slot <= lsn[p] \/ AtChange(p)
  BY DEF TypeOK, PlacesInLog, SlotBehind
<1>2. \A q \in Process \ {p} : pc[q] # "stream"
  BY DEF TypeOK
<1>3. pc' = pc /\ wal' = wal /\ since' = since
  BY DEF Skip, ReadRelation, ReadChange, ReadCommit, SendStatus, KeepAlive, database, server
<1>4. SUFFICES /\ slot' <= at'[p] /\ (lsn'[p] # None => slot' <= lsn'[p] \/ AtChange(p)')
               /\ slot <= slot' \/ (AtChange(p) /\ slot' = lsn[p])
  <2>1. slot <= slot' /\ slot # None => ~ (slot' < slot)
    <3>1. slot' = slot \/ slot' \in Int
      BY <1>1 DEF Skip, ReadRelation, ReadChange, ReadCommit, SendStatus, KeepAlive, server, Later, Position, None
    <3> QED BY <1>1, <3>1 DEF Position, None
  <2> QED BY <1>2, <1>3, <1>4, <2>1 DEF SlotBehind, TakenBack, AtChange
<1>5. CASE Skip(p)
  <2>1. ~ AtChange(p)
    BY <1>5 DEF Skip, AtChange
  <2> QED BY <1>1, <1>5, <2>1 DEF Skip, Upcoming, server, Position, None
<1>6. CASE ReadRelation(p) \/ ReadChange(p)
  <2>1. slot' = slot /\ at' = at /\ lsn'[p] = wal[Upcoming(p)].made
    BY <1>1, <1>6 DEF ReadRelation, ReadChange, server
  <2>2. at[p] < Len(wal) /\ Published(Upcoming(p))
    BY <1>1, <1>6 DEF ReadRelation, ReadChange, Reading, Upcoming, Position
  <2>3. AtChange(p)'
    BY <1>3, <2>1, <2>2 DEF AtChange, Published, Upcoming
  <2> QED BY <1>1, <2>1, <2>3 DEF Position, None
<1>7. CASE ReadCommit(p)
  BY <1>1, <1>7 DEF ReadCommit, Upcoming, server, Position, None
<1>8. CASE SendStatus(p)
  <2>1. slot' = lsn[p] /\ lsn[p] # None /\ UNCHANGED <<at, lsn>>
    BY <1>8 DEF SendStatus, connection
  <2> QED BY <1>1, <2>1 DEF Position, None
<1>9. ASSUME NEW replyRequested \in BOOLEAN, KeepAlive(p, replyRequested)
      PROVE  /\ slot' <= at'[p] /\ (lsn'[p] # None => slot' <= lsn'[p] \/ AtChange(p)')
             /\ slot <= slot' \/ (AtChange(p) /\ slot' = lsn[p])
  <2>1. lsn'[p] = at[p] /\ at' = at
    BY <1>1, <1>9 DEF KeepAlive, Later, Position, None
  <2>2. slot' = slot \/ slot' = at[p]
    BY <1>9, <2>1 DEF KeepAlive
  <2> QED BY <1>1, <2>1, <2>2 DEF Position, None
<1> QED BY <1>5, <1>6, <1>7, <1>8, <1>9

(* A step after which a process streams that did not, or one that leaves     *)
(* slot and streams alone; what is at a change is at it still.              *)
LEMMA OtherStepsKeepSlot ==
  ASSUME TypeOK, PlacesInLog, SlotFound, SlotBehind, StaysPublished, [Next]_vars,
         \A p \in Process : ~ (Skip(p) \/ ReadRelation(p) \/ ReadChange(p) \/ ReadCommit(p) \/ SendStatus(p)
                                \/ (\E replyRequested \in BOOLEAN : KeepAlive(p, replyRequested)))
  PROVE  SlotBehind' /\ (slot # None => slot' = slot)
<1>1. /\ at \in [Process -> Position] /\ lsn \in [Process -> Position \union {None}]
      /\ pc \in [Process -> Connected \union {"connect", "backoff"}] /\ origin \in Position
      /\ midway \in [Process -> BOOLEAN] /\ slot \in Position \union {None} /\ Len(wal) \in Nat
  BY DEF TypeOK
<1>2. /\ Len(wal) <= Len(wal') /\ Len(wal') \in Nat
      /\ \A i \in 1 .. Len(wal) : wal'[i] = wal[i]
  <2>1. CASE \E t \in Table, op \in Op, made \in 0 .. Len(wal) : Commit(t, op, made)
    BY <1>1, <2>1, CommitExtends
  <2>2. CASE ~ \E t \in Table, op \in Op, made \in 0 .. Len(wal) : Commit(t, op, made)
    <3>1. wal' = wal
      BY <2>2 DEF Next, Advance, DropColumn, LogIn, FindSlot, CreateSlot, FindPublication, CreatePublication,
                  FindTables, AddTables, StartReplication, BackOff, Undecodable, LoseConnection, Notice,
                  vars, database
    <3> QED BY <1>1, <3>1
  <2> QED BY <2>1, <2>2
<1>3. ASSUME NEW q \in Process, AtChange(q), at'[q] = at[q], lsn'[q] = lsn[q]
      PROVE  AtChange(q)'
  <2>1. Upcoming(q) \in 1 .. Len(wal) /\ Upcoming(q)' = Upcoming(q)
    BY <1>1, <1>3 DEF AtChange, Upcoming, Position
  <2>2. wal[Upcoming(q)].table \in Table /\ wal'[Upcoming(q)] = wal[Upcoming(q)]
    BY <1>2, <2>1, LogFields
  <2>3. Published(Upcoming(q))'
    BY <1>3, <2>1, <2>2 DEF AtChange, Published, StaysPublished
  <2>4. at'[q] < Len(wal')
    BY <1>1, <1>2, <1>3 DEF AtChange, Position
  <2> QED BY <1>3, <2>1, <2>2, <2>3, <2>4 DEF AtChange
<1>4. ASSUME slot' = slot,
             \A q \in Process : pc'[q] = "stream" =>
               \/ pc[q] = "stream" /\ at'[q] = at[q] /\ lsn'[q] = lsn[q]
               \/ slot <= at'[q] /\ lsn'[q] = None
      PROVE  SlotBehind'
  BY <1>3, <1>4 DEF SlotBehind
<1>5. ASSUME NEW p \in Process, NEW there \in Setup \union {"connect", "backoff"}, Goto(p, there),
             UNCHANGED <<slot, connection>>
      PROVE  SlotBehind' /\ slot' = slot
  <2>1. \A q \in Process : pc'[q] = "stream" => pc[q] = "stream"
    BY <1>1, <1>5 DEF Goto, Setup
  <2> QED BY <1>4, <1>5, <2>1 DEF connection
<1>6. ASSUME NEW p \in Process, Stream(p, 0), Goto(p, "backoff"), slot' = slot
      PROVE  SlotBehind'
  <2>1. \A q \in Process : pc'[q] = "stream" => q # p /\ pc[q] = "stream"
    BY <1>1, <1>6 DEF Goto
  <2>2. \A q \in Process \ {p} : at'[q] = at[q] /\ lsn'[q] = lsn[q]
    BY <1>1, <1>6 DEF Stream
  <2> QED BY <1>4, <1>6, <2>1, <2>2
<1>7. ASSUME NEW p \in Process, CreateSlot(p)
      PROVE  SlotBehind' /\ (slot # None => slot' = slot)
  <2>1. CASE slot = None
    <3>1. \A q \in Process : pc[q] # "stream"
      BY <2>1 DEF SlotFound
    <3>2. \A q \in Process : pc'[q] # "stream"
      BY <1>1, <1>7, <2>1, <3>1 DEF CreateSlot, Goto
    <3> QED BY <2>1, <3>2 DEF SlotBehind
  <2>2. CASE slot # None
    <3>1. Goto(p, "backoff") /\ UNCHANGED <<slot, connection>>
      BY <1>7, <2>2 DEF CreateSlot
    <3> QED BY <1>5, <3>1
  <2> QED BY <2>1, <2>2
<1>8. ASSUME NEW p \in Process, StartReplication(p)
      PROVE  SlotBehind' /\ slot' = slot
  <2>1. slot' = slot
    BY <1>8 DEF StartReplication, server
  <2>2. CASE active = Nobody
    <3>1. /\ at' = [at EXCEPT ![p] = Later(slot, origin)] /\ lsn' = [lsn EXCEPT ![p] = None]
          /\ pc' = [pc EXCEPT ![p] = "stream"]
      BY <1>8, <2>2 DEF StartReplication, Restart, Stream, Goto
    <3>2. slot <= Later(slot, origin)
      BY <1>1 DEF Later, Position, None
    <3>3. ASSUME NEW q \in Process, pc'[q] = "stream"
          PROVE  \/ pc[q] = "stream" /\ at'[q] = at[q] /\ lsn'[q] = lsn[q]
                 \/ slot <= at'[q] /\ lsn'[q] = None
      BY <1>1, <3>1, <3>2, <3>3
    <3> QED BY <1>4, <2>1, <3>3
  <2>3. CASE active # Nobody
    <3>1. Goto(p, "backoff") /\ UNCHANGED connection
      BY <1>8, <2>3 DEF StartReplication
    <3> QED BY <1>5, <2>1, <3>1
  <2> QED BY <2>2, <2>3
<1>9. ASSUME NEW p \in Process, Undecodable(p) \/ LoseConnection(p)
      PROVE  SlotBehind' /\ slot' = slot
  BY <1>6, <1>9 DEF Undecodable, LoseConnection, server
<1>10. ASSUME NEW p \in Process,
             LogIn(p) \/ FindSlot(p) \/ FindPublication(p) \/ CreatePublication(p) \/ FindTables(p)
               \/ AddTables(p) \/ BackOff(p)
      PROVE  SlotBehind' /\ slot' = slot
  <2>1. UNCHANGED <<slot, connection>>
    BY <1>10 DEF LogIn, FindSlot, FindPublication, CreatePublication, FindTables, AddTables, BackOff, server
  <2>2. \E there \in Setup \union {"connect", "backoff"} : Goto(p, there)
    BY <1>10 DEF LogIn, FindSlot, FindPublication, CreatePublication, FindTables, AddTables, BackOff, Setup
  <2> QED BY <1>5, <2>1, <2>2
<1>11. CASE \/ \E t \in Table, op \in Op, made \in 0 .. Len(wal) : Commit(t, op, made)
            \/ \E t \in Migrating : DropColumn(t)
            \/ Notice
            \/ UNCHANGED vars
  <2>1. UNCHANGED <<slot, pc, at, lsn>>
    BY <1>11 DEF Commit, DropColumn, Notice, vars, server, connection
  <2> QED BY <1>4, <2>1
<1> QED BY <1>7, <1>8, <1>9, <1>10, <1>11 DEF Next, Advance

LEMMA SlotSteps ==
  ASSUME Inv, PublishedOnce, SlotBehind, [Next]_vars
  PROVE  SlotBehind' /\ TakenBack
<1> DEFINE Moves(p) ==
      \/ Skip(p) \/ ReadRelation(p) \/ ReadChange(p) \/ ReadCommit(p) \/ SendStatus(p)
      \/ \E replyRequested \in BOOLEAN : KeepAlive(p, replyRequested)
<1>1. TypeOK /\ PlacesInLog /\ SlotFound /\ slot \in Position \union {None}
  BY DEF Inv, TypeOK
<1>2. CASE \E p \in Process : Moves(p)
  <2> PICK p \in Process : Moves(p)
    BY <1>2
  <2>1. pc[p] = "stream"
    BY DEF Skip, ReadRelation, ReadChange, Reading, ReadCommit, SendStatus, KeepAlive
  <2> QED BY <1>1, <2>1, StreamStaysAhead
<1>3. CASE ~ \E p \in Process : Moves(p)
  <2>1. StaysPublished
    BY <1>1, PublishesOnce
  <2>2. SlotBehind' /\ (slot # None => slot' = slot)
    BY <1>1, <1>3, <2>1, OtherStepsKeepSlot
  <2> QED BY <1>1, <2>2 DEF TakenBack, Position, None
<1> QED BY <1>2, <1>3

(* stream_loop, send_status_update: through lost connections and races for   *)
(* the slot, what was confirmed is taken back only by a status update sent   *)
(* at a change made before, whose position last_lsn has taken over.          *)
THEOREM SlotIsTakenBackByOverlap == Spec => TakenBackByOverlap
<1>1. Init => SlotBehind /\ PublishedOnce
  <2>1. Init => SlotBehind
    BY DEF Init, SlotBehind
  <2>2. Init => PublishedOnce
    BY DEF Init, PublishedOnce, None
  <2> QED BY <2>1, <2>2
<1>2. Inv /\ SlotBehind /\ PublishedOnce /\ [Next]_vars => SlotBehind' /\ PublishedOnce'
  BY SlotSteps, PublishesOnce DEF Inv
<1>3. Inv /\ SlotBehind /\ PublishedOnce /\ [Next]_vars
        => [slot # None /\ slot' < slot =>
              \E p \in Process : pc[p] = "stream" /\ at[p] < Len(wal) /\ slot' = wal[Upcoming(p)].made]_slot
  BY SlotSteps DEF TakenBack
<1> QED BY <1>1, <1>2, <1>3, ReplicationInvariant, PTL DEF Spec, TakenBackByOverlap
=============================================================================
