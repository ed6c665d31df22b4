----------------------------- MODULE LiveUpdates -----------------------------
(***************************************************************************)
(* From a change of a cached value to a subscriber that shows it           *)
(* (crates/calce-datastructs: the mutators of cache.rs and the dispatcher  *)
(* of pubsub.rs; the stream of crates/calce-api/src/routes/events.rs).     *)
(*                                                                         *)
(* Events are signals: they name a key and a kind, never a value.  A       *)
(* writer stores first and then tries to put a signal into a bounded       *)
(* channel; the dispatcher collapses equal signals within a window and     *)
(* tries to put each into every subscriber's bounded buffer; a subscriber  *)
(* that takes a signal reads the value again.  Values are version numbers. *)
(*                                                                         *)
(* All subscribers here hear every key, as entity_events_sse does; who is  *)
(* registered for which key is SubscriptionRegistry's subject.             *)
(***************************************************************************)
EXTENDS Integers, Sequences, FiniteSets

CONSTANTS
  Key,
  Writer,       \* threads that change cached values
  Subscriber,
  Nothing,      \* a writer that owes no signal
  ChannelSize,  \* capacity of the event channel
  Buffer,       \* capacity of a subscriber's channel
  MaxStores     \* bound: stores in one behaviour

ASSUME LiveUpdatesAssumption ==
  /\ IsFiniteSet(Subscriber)
  /\ ChannelSize \in Nat \ {0}
  /\ Buffer \in Nat \ {0}
  /\ MaxStores \in Nat

Kind == {"current", "history"}
Event == Key \X Kind

ASSUME NothingAssumption == Nothing \notin Event

VARIABLES
  version,   \* version[e]: number of stores to the value e is about
  owed,      \* owed[w]: the event w has stored for and not signalled yet
  channel,   \* the event channel
  pending,   \* events collapsed in the current window
  task,      \* where dispatcher_loop is
  stop,      \* shutdown was called, or the PubSub dropped
  promised,  \* events at the head of the channel that were there at stop
  inbox,     \* inbox[s]: the channel of s
  seen,      \* seen[s][e]: version s read last
  missed,    \* missed[s]: events whose signal to s was dropped since s read them
  stats      \* DispatcherStats

vars == <<version, owed, channel, pending, task, stop, promised, inbox, seen, missed, stats>>

Stat == {"received", "coalesced", "sent", "dropped"}

Running == {"wait", "drain", "sleep", "redrain", "flush", "lastdrain", "lastflush"}

TypeOK ==
  /\ version \in [Event -> Nat]
  /\ owed \in [Writer -> Event \union {Nothing}]
  /\ channel \in Seq(Event)
  /\ Len(channel) <= ChannelSize
  /\ pending \subseteq Event
  /\ task \in Running \union {"off", "stopped"}
  /\ stop \in BOOLEAN
  /\ promised \in 0 .. Len(channel)
  /\ inbox \in [Subscriber -> Seq(Event)]
  /\ \A s \in Subscriber : Len(inbox[s]) <= Buffer
  /\ seen \in [Subscriber -> [Event -> Nat]]
  /\ missed \in [Subscriber -> SUBSET Event]
  /\ stats \in [Stat -> Nat]

Init ==
  /\ version = [e \in Event |-> 0]
  /\ owed = [w \in Writer |-> Nothing]
  /\ channel = <<>>
  /\ pending = {}
  /\ task = "off"
  /\ stop = FALSE
  /\ promised = 0
  /\ inbox = [s \in Subscriber |-> <<>>]
  /\ seen = [s \in Subscriber |-> [e \in Event |-> 0]]
  /\ missed = [s \in Subscriber |-> {}]
  /\ stats = [x \in Stat |-> 0]

-----------------------------------------------------------------------------
(* The writers: update_current, update_history, append_history.             *)

Stores == {x \in Event \X (1 .. MaxStores) : x[2] <= version[x[1]]}

Store(w, e) ==
  /\ owed[w] = Nothing
  /\ Cardinality(Stores) < MaxStores
  /\ version' = [version EXCEPT ![e] = @ + 1]
  /\ owed' = [owed EXCEPT ![w] = e]
  /\ UNCHANGED <<channel, pending, task, stop, promised, inbox, seen, missed, stats>>

(* try_send into the event channel: a full or closed channel takes nothing   *)
(* and the writer does not learn of it.                                      *)
Signal(w) ==
  /\ owed[w] # Nothing
  /\ owed' = [owed EXCEPT ![w] = Nothing]
  /\ \/ /\ Len(channel) < ChannelSize
        /\ task # "stopped"
        /\ channel' = Append(channel, owed[w])
        /\ UNCHANGED missed
     \/ /\ Len(channel) = ChannelSize \/ task = "stopped"
        /\ missed' = [s \in Subscriber |-> missed[s] \union {owed[w]}]
        /\ UNCHANGED channel
  /\ UNCHANGED <<version, pending, task, stop, promised, inbox, seen, stats>>

-----------------------------------------------------------------------------
(* dispatcher_loop                                                          *)

(* start(): the second call finds no receiver and returns false. *)
Start ==
  /\ task = "off"
  /\ task' = "wait"
  /\ UNCHANGED <<version, owed, channel, pending, stop, promised, inbox, seen, missed, stats>>

(* shutdown(), or the drop of the PubSub: stop_rx becomes ready.  (Every      *)
(* process starts the dispatcher first; all senders being gone while stop_rx *)
(* is not ready needs a PubSub that is dropped and alive, and cannot happen.) *)
Shutdown ==
  /\ ~ stop
  /\ task # "off"
  /\ stop' = TRUE
  /\ promised' = Len(channel)
  /\ UNCHANGED <<version, owed, channel, pending, task, inbox, seen, missed, stats>>

(* Faulty: events that differ only in their kind are collapsed. *)
CoalesceByKey ==
  /\ channel # <<>>
  /\ channel' = Tail(channel)
  /\ promised' = IF promised > 0 THEN promised - 1 ELSE 0
  /\ pending' = {e \in pending : e[1] # Head(channel)[1]} \union {Head(channel)}
  /\ stats' = [stats EXCEPT !["received"] = @ + 1,
                            !["coalesced"] = @ + Cardinality(pending) + 1 - Cardinality(pending')]

(* Faulty: a repeated event is counted as coalesced and counted on. *)
CoalesceUncounted ==
  /\ channel # <<>>
  /\ channel' = Tail(channel)
  /\ promised' = IF promised > 0 THEN promised - 1 ELSE 0
  /\ pending' = pending \union {Head(channel)}
  /\ stats' = [stats EXCEPT !["received"] = @ + 1]

(* try_recv and coalesce: take one event, collapse it with an equal one. *)
Coalesce ==
  /\ channel # <<>>
  /\ channel' = Tail(channel)
  /\ promised' = IF promised > 0 THEN promised - 1 ELSE 0
  /\ pending' = pending \union {Head(channel)}
  /\ stats' = [stats EXCEPT !["received"] = @ + 1,
                            !["coalesced"] = IF Head(channel) \in pending THEN @ + 1 ELSE @]

Outside == <<version, owed, stop, inbox, seen, missed>>

(* Faulty: on stop the channel is not drained before the last flush. *)
HearStopUndrained ==
  /\ task = "wait"
  /\ stop
  /\ task' = "lastflush"
  /\ UNCHANGED <<Outside, channel, pending, promised, stats>>

(* The select is biased: a stop that is ready goes first. *)
HearStop ==
  /\ task = "wait"
  /\ stop
  /\ task' = "lastdrain"
  /\ UNCHANGED <<Outside, channel, pending, promised, stats>>

ReceiveFirst ==
  /\ task = "wait"
  /\ ~ stop
  /\ Coalesce
  /\ task' = "drain"
  /\ UNCHANGED Outside

DrainOne ==
  /\ task \in {"drain", "redrain", "lastdrain"}
  /\ Coalesce
  /\ UNCHANGED <<Outside, task>>

(* try_recv finds the channel empty: the loop it was in is over. *)
DrainedTo ==
  [drain |-> "sleep", redrain |-> "flush", lastdrain |-> "lastflush"]

Drained ==
  /\ task \in DOMAIN DrainedTo
  /\ channel = <<>>
  /\ task' = DrainedTo[task]
  /\ UNCHANGED <<Outside, channel, pending, promised, stats>>

(* The coalesce window passes. *)
WindowOver ==
  /\ task = "sleep"
  /\ task' = "redrain"
  /\ UNCHANGED <<Outside, channel, pending, promised, stats>>

Fits(s) == Len(inbox[s]) < Buffer

Reached == {s \in Subscriber : Fits(s)}

(* flush_pending hands one pending event to fan_out. *)
FanOut(e) ==
  /\ task \in {"flush", "lastflush"}
  /\ e \in pending
  /\ pending' = pending \ {e}
  /\ inbox' = [s \in Subscriber |-> IF Fits(s) THEN Append(inbox[s], e) ELSE inbox[s]]
  /\ missed' = [s \in Subscriber |-> IF Fits(s) THEN missed[s] ELSE missed[s] \union {e}]
  /\ stats' = [stats EXCEPT !["sent"] = @ + Cardinality(Reached),
                            !["dropped"] = @ + Cardinality(Subscriber \ Reached)]
  /\ UNCHANGED <<version, owed, channel, task, stop, promised, seen>>

(* Faulty: the loop goes back to sleep with an event left in the map. *)
FlushedAlmost ==
  /\ task = "flush"
  /\ Cardinality(pending) <= 1
  /\ task' = "wait"
  /\ UNCHANGED <<Outside, channel, pending, promised, stats>>

Flushed ==
  /\ task = "flush"
  /\ pending = {}
  /\ task' = "wait"
  /\ UNCHANGED <<Outside, channel, pending, promised, stats>>

(* The loop returns and drops the receiver with what arrived meanwhile. *)
Finish ==
  /\ task = "lastflush"
  /\ pending = {}
  /\ task' = "stopped"
  /\ missed' = [s \in Subscriber |->
                   missed[s] \union {channel[i] : i \in DOMAIN channel}]
  /\ channel' = <<>>
  /\ promised' = 0
  /\ UNCHANGED <<version, owed, pending, stop, inbox, seen, stats>>

Dispatch ==
  \/ HearStop
  \/ ReceiveFirst
  \/ DrainOne
  \/ Drained
  \/ WindowOver
  \/ \E e \in Event : FanOut(e)
  \/ Flushed
  \/ Finish

-----------------------------------------------------------------------------
(* The subscriber takes a signal and reads the value it is about. *)
Refetch(s) ==
  /\ inbox[s] # <<>>
  /\ inbox' = [inbox EXCEPT ![s] = Tail(@)]
  /\ LET e == Head(inbox[s]) IN
       /\ seen' = [seen EXCEPT ![s][e] = version[e]]
       /\ missed' = [missed EXCEPT ![s] = @ \ {e}]
  /\ UNCHANGED <<version, owed, channel, pending, task, stop, promised, stats>>

Next ==
  \/ \E w \in Writer, e \in Event : Store(w, e)
  \/ \E w \in Writer : Signal(w)
  \/ Start
  \/ Shutdown
  \/ Dispatch
  \/ \E s \in Subscriber : Refetch(s)

(* The process starts the dispatcher, a call that stored goes on to signal,  *)
(* the dispatcher task and the timer run, clients read their streams.        *)
Fairness ==
  /\ WF_vars(Start)
  /\ \A w \in Writer : WF_vars(Signal(w))
  /\ WF_vars(Dispatch)
  /\ \A s \in Subscriber : WF_vars(Refetch(s))

Spec == Init /\ [][Next]_vars /\ Fairness

-----------------------------------------------------------------------------
InChannel(e) == \E i \in 1 .. Len(channel) : channel[i] = e
InInbox(s, e) == \E i \in 1 .. Len(inbox[s]) : inbox[s][i] = e

(* A signal about e that s has not acted on is still somewhere on its way. *)
InFlight(s, e) ==
  \/ \E w \in Writer : owed[w] = e
  \/ InChannel(e)
  \/ e \in pending
  \/ InInbox(s, e)

(* "The frontend always refetches" (docs/live-updates.md): a subscriber that *)
(* shows an old value either has a signal about it coming, or a signal about *)
(* it was dropped on a full buffer.  Coalescing and the order of store and   *)
(* signal lose nothing.                                                      *)
StaleOnlyWhileSignalled ==
  \A s \in Subscriber, e \in Event :
    seen[s][e] # version[e] => InFlight(s, e) \/ e \in missed[s]

(* Every event taken from the channel is collapsed, still pending, or was    *)
(* offered to each subscriber, where it was sent or counted as dropped.      *)
StatsConserved ==
  stats["sent"] + stats["dropped"] =
    Cardinality(Subscriber) *
      (stats["received"] - stats["coalesced"] - Cardinality(pending))

(* What was accepted into the channel before shutdown was called has been    *)
(* taken out by the time the last flush begins ("Flush remaining events from *)
(* the channel", pubsub.rs:337).                                             *)
ShutdownDrains == task = "lastflush" => promised = 0

(* After the last store every subscriber comes to show the latest value of   *)
(* everything it was not refused a signal about.                             *)
EventuallyFresh ==
  <>[](\A s \in Subscriber, e \in Event :
         seen[s][e] = version[e] \/ e \in missed[s])
=============================================================================
