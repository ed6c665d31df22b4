------------------------ MODULE SubscriptionRegistry ------------------------
(***************************************************************************)
(* The subscription registry of the pub/sub system                         *)
(* (crates/calce-datastructs/src/pubsub.rs, SubscriptionRegistry).         *)
(*                                                                         *)
(* Three DashMaps are kept without a common lock: per_key (who listens to  *)
(* a key), per_subscriber (which keys an id was registered under) and      *)
(* broadcast (who listens to everything).  Every access to one map entry   *)
(* is atomic, nothing wider is.  Any number of client threads subscribe    *)
(* and unsubscribe while the dispatcher task fans events out and itself    *)
(* unsubscribes the ids whose receiver turned out to be dropped.           *)
(*                                                                         *)
(* An id is used once (next_id.fetch_add), so one member of Subscriber is  *)
(* one subscription together with the thread that holds it.                *)
(***************************************************************************)
EXTENDS Integers, FiniteSets

CONSTANTS
  Key,          \* keys events are about
  Subscriber,   \* ids next_id hands out, each used at most once
  Dispatcher,   \* the dispatcher task, as a caller of unsubscribe
  Buffer        \* buffer_size of every subscription's channel

ASSUME RegistryAssumption ==
  /\ Dispatcher \notin Subscriber
  /\ Buffer \in Nat \ {0}

VARIABLES
  per_key,         \* per_key[k]: ids listed under k ({} when there is no entry)
  entries,         \* keys that have an entry in the per_key map
  per_subscriber,  \* per_subscriber[s]: keys remembered for s
  known,           \* ids that have an entry in the per_subscriber map
  broadcast,       \* ids in the broadcast map
  keys,            \* keys[s]: the deduplicated keys subscribe was called with
  open,            \* ids whose Receiver exists
  inbox,           \* inbox[s]: notifications waiting in s's channel
  phase,           \* phase[s]: where the life of subscription s is
  step,            \* step[w]: where caller w is inside unsubscribe
  todo,            \* todo[w]: keys its loop has not reached, {} outside it
  pruning,         \* pruning[w]: {k} between retain and remove_if on k
  task,            \* where the dispatcher is inside fan_out
  dead,            \* ids fan_out found closed under the key
  dead_broadcast,  \* ids fan_out found closed in the broadcast map
  victim           \* the id the dispatcher is unsubscribing

maps == <<per_key, entries, per_subscriber, known, broadcast>>
receivers == <<open, inbox>>
frames == <<step, todo, pruning>>
fan == <<task, dead, dead_broadcast, victim>>
registry_vars == <<maps, keys, receivers, phase, frames, fan>>

Worker == Subscriber \union {Dispatcher}

(* The id caller w passes to unsubscribe. *)
Target(w) == IF w = Dispatcher THEN victim ELSE w

RegistryTypeOK ==
  /\ per_key \in [Key -> SUBSET Subscriber]
  /\ entries \subseteq Key
  /\ per_subscriber \in [Subscriber -> SUBSET Key]
  /\ known \subseteq Subscriber
  /\ broadcast \subseteq Subscriber
  /\ keys \in [Subscriber -> SUBSET Key]
  /\ open \subseteq Subscriber
  /\ inbox \in [Subscriber -> 0 .. Buffer]
  /\ phase \in [Subscriber -> {"unused", "listing", "live", "left"}]
  /\ step \in [Worker -> {"idle", "unlist", "forget", "sweep"}]
  /\ todo \in [Worker -> SUBSET Key]
  /\ pruning \in [Worker -> SUBSET Key]
  /\ task \in {"idle", "broadcast", "reap"}
  /\ dead \subseteq Subscriber
  /\ dead_broadcast \subseteq Subscriber
  /\ victim \in Subscriber \union {Dispatcher}

RegistryInit ==
  /\ per_key = [k \in Key |-> {}]
  /\ entries = {}
  /\ per_subscriber = [s \in Subscriber |-> {}]
  /\ known = {}
  /\ broadcast = {}
  /\ keys = [s \in Subscriber |-> {}]
  /\ open = {}
  /\ inbox = [s \in Subscriber |-> 0]
  /\ phase = [s \in Subscriber |-> "unused"]
  /\ step = [w \in Worker |-> "idle"]
  /\ todo = [w \in Worker |-> {}]
  /\ pruning = [w \in Worker |-> {}]
  /\ task = "idle"
  /\ dead = {}
  /\ dead_broadcast = {}
  /\ victim = Dispatcher

-----------------------------------------------------------------------------
(* subscribe(keys): the channel is created and per_subscriber is written    *)
(* before the first key is listed.                                          *)

Subscribe(s, ks) ==
  /\ phase[s] = "unused"
  /\ phase' = [phase EXCEPT ![s] = "listing"]
  /\ keys' = [keys EXCEPT ![s] = ks]
  /\ known' = known \union {s}
  /\ per_subscriber' = [per_subscriber EXCEPT ![s] = ks]
  /\ open' = open \union {s}
  /\ UNCHANGED <<per_key, entries, broadcast, inbox, frames, fan>>

(* per_key.entry(key).or_default().push(..), one key of the loop. *)
ListKey(s, k) ==
  /\ phase[s] = "listing"
  /\ k \in keys[s]
  /\ s \notin per_key[k]
  /\ entries' = entries \union {k}
  /\ per_key' = [per_key EXCEPT ![k] = @ \union {s}]
  /\ UNCHANGED <<per_subscriber, known, broadcast, keys, receivers, phase, frames, fan>>

(* The loop is over and the Subscription is returned to the caller. *)
SubscribeReturn(s) ==
  /\ phase[s] = "listing"
  /\ \A k \in keys[s] : s \in per_key[k]
  /\ phase' = [phase EXCEPT ![s] = "live"]
  /\ UNCHANGED <<maps, keys, receivers, frames, fan>>

SubscribeAll(s) ==
  /\ phase[s] = "unused"
  /\ phase' = [phase EXCEPT ![s] = "live"]
  /\ broadcast' = broadcast \union {s}
  /\ open' = open \union {s}
  /\ UNCHANGED <<per_key, entries, per_subscriber, known, keys, inbox, frames, fan>>

(* The owner of the subscription reads one notification. *)
Receive(s) ==
  /\ s \in open
  /\ phase[s] # "listing"
  /\ inbox[s] > 0
  /\ inbox' = [inbox EXCEPT ![s] = @ - 1]
  /\ UNCHANGED <<maps, keys, open, phase, frames, fan>>

(* The owner drops the Receiver: what waits in the channel goes with it. *)
DropReceiver(s) ==
  /\ s \in open
  /\ phase[s] # "listing"
  /\ open' = open \ {s}
  /\ inbox' = [inbox EXCEPT ![s] = 0]
  /\ UNCHANGED <<maps, keys, phase, frames, fan>>

-----------------------------------------------------------------------------
(* unsubscribe(id), run by the owner or by the dispatcher.                  *)

UnsubscribeCall(s) ==
  /\ phase[s] = "live"
  /\ phase' = [phase EXCEPT ![s] = "left"]
  /\ step' = [step EXCEPT ![s] = "unlist"]
  /\ UNCHANGED <<maps, keys, receivers, todo, pruning, fan>>

(* broadcast.remove(&id) *)
Unlist(w) ==
  /\ step[w] = "unlist"
  /\ broadcast' = broadcast \ {Target(w)}
  /\ step' = [step EXCEPT ![w] = "forget"]
  /\ UNCHANGED <<per_key, entries, per_subscriber, known, keys, receivers, phase,
                 todo, pruning, fan>>

(* per_subscriber.remove(&id): one caller gets the keys, any other returns. *)
Forget(w) ==
  /\ step[w] = "forget"
  /\ \/ /\ Target(w) \in known
        /\ known' = known \ {Target(w)}
        /\ per_subscriber' = [per_subscriber EXCEPT ![Target(w)] = {}]
        /\ todo' = [todo EXCEPT ![w] = per_subscriber[Target(w)]]
        /\ step' = [step EXCEPT ![w] = "sweep"]
     \/ /\ Target(w) \notin known
        /\ step' = [step EXCEPT ![w] = "idle"]
        /\ UNCHANGED <<known, per_subscriber, todo>>
  /\ UNCHANGED <<per_key, entries, broadcast, keys, receivers, phase, pruning, fan>>

(* get_mut(&key) and retain, under the entry's guard. *)
Retain(w, k) ==
  /\ step[w] = "sweep"
  /\ pruning[w] = {}
  /\ k \in todo[w]
  /\ per_key' = [per_key EXCEPT ![k] = @ \ {Target(w)}]
  /\ todo' = [todo EXCEPT ![w] = @ \ {k}]
  /\ pruning' = [pruning EXCEPT ![w] = {k}]
  /\ UNCHANGED <<entries, per_subscriber, known, broadcast, keys, receivers, phase,
                 step, fan>>

(* Faulty: the entry is removed without looking again whether it is empty. *)
PruneBlindly(w, k) ==
  /\ step[w] = "sweep"
  /\ k \in pruning[w]
  /\ per_key' = [per_key EXCEPT ![k] = {}]
  /\ entries' = entries \ {k}
  /\ pruning' = [pruning EXCEPT ![w] = {}]
  /\ UNCHANGED <<per_subscriber, known, broadcast, keys, receivers, phase, step,
                 todo, fan>>

(* per_key.remove_if(&key, |_, v| v.is_empty()), after the guard is dropped: *)
(* the emptiness test and the removal are one step.                          *)
Prune(w, k) ==
  /\ step[w] = "sweep"
  /\ k \in pruning[w]
  /\ entries' = IF per_key[k] = {} THEN entries \ {k} ELSE entries
  /\ pruning' = [pruning EXCEPT ![w] = {}]
  /\ UNCHANGED <<per_key, per_subscriber, known, broadcast, keys, receivers, phase,
                 step, todo, fan>>

(* Faulty: unsubscribe stops after the first key it cleaned. *)
UnsubscribeReturnEarly(w) ==
  /\ step[w] = "sweep"
  /\ pruning[w] = {}
  /\ step' = [step EXCEPT ![w] = "idle"]
  /\ todo' = [todo EXCEPT ![w] = {}]
  /\ UNCHANGED <<maps, keys, receivers, phase, pruning, fan>>

UnsubscribeReturn(w) ==
  /\ step[w] = "sweep"
  /\ pruning[w] = {}
  /\ todo[w] = {}
  /\ step' = [step EXCEPT ![w] = "idle"]
  /\ UNCHANGED <<maps, keys, receivers, phase, todo, pruning, fan>>

-----------------------------------------------------------------------------
(* fan_out(event), run by the dispatcher.                                   *)

(* try_send to every id of `to`: a full or closed channel takes nothing. *)
TrySend(to) ==
  inbox' = [s \in Subscriber |->
              IF s \in to \intersect open /\ inbox[s] < Buffer
              THEN inbox[s] + 1 ELSE inbox[s]]

(* Faulty: a closed channel is skipped and not remembered. *)
FanKeyForgetful(k) ==
  /\ task = "idle"
  /\ TrySend(per_key[k])
  /\ task' = "broadcast"
  /\ UNCHANGED <<maps, keys, open, phase, frames, dead, dead_broadcast, victim>>

(* The loop over per_key[k] runs under the entry's guard, so no other thread *)
(* changes the list meanwhile; the closed ids are only remembered.           *)
FanKey(k) ==
  /\ task = "idle"
  /\ TrySend(per_key[k])
  /\ dead' = per_key[k] \ open
  /\ task' = "broadcast"
  /\ UNCHANGED <<maps, keys, open, phase, frames, dead_broadcast, victim>>

(* The loop over the broadcast map. *)
FanBroadcast ==
  /\ task = "broadcast"
  /\ TrySend(broadcast)
  /\ dead_broadcast' = broadcast \ open
  /\ task' = "reap"
  /\ UNCHANGED <<maps, keys, open, phase, frames, dead, victim>>

(* for sid in dead { self.unsubscribe(sid) } *)
Reap(s) ==
  /\ task = "reap"
  /\ step[Dispatcher] = "idle"
  /\ s \in dead
  /\ dead' = dead \ {s}
  /\ victim' = s
  /\ step' = [step EXCEPT ![Dispatcher] = "unlist"]
  /\ UNCHANGED <<maps, keys, receivers, phase, todo, pruning, task, dead_broadcast>>

(* for sid in dead_broadcast { self.broadcast.remove(&sid) } *)
ReapBroadcast(s) ==
  /\ task = "reap"
  /\ step[Dispatcher] = "idle"
  /\ dead = {}
  /\ s \in dead_broadcast
  /\ broadcast' = broadcast \ {s}
  /\ dead_broadcast' = dead_broadcast \ {s}
  /\ UNCHANGED <<per_key, entries, per_subscriber, known, keys, receivers, phase,
                 frames, task, dead, victim>>

FanOutReturn ==
  /\ task = "reap"
  /\ step[Dispatcher] = "idle"
  /\ dead = {}
  /\ dead_broadcast = {}
  /\ task' = "idle"
  /\ victim' = Dispatcher
  /\ UNCHANGED <<maps, keys, receivers, phase, frames, dead, dead_broadcast>>

-----------------------------------------------------------------------------
Unsubscribe(w) ==
  \/ Unlist(w)
  \/ Forget(w)
  \/ \E k \in Key : Retain(w, k) \/ Prune(w, k)
  \/ UnsubscribeReturn(w)

FanOut ==
  \/ \E k \in Key : FanKey(k)
  \/ FanBroadcast
  \/ \E s \in Subscriber : Reap(s) \/ ReapBroadcast(s)
  \/ FanOutReturn

Owner(s) ==
  \/ \E ks \in SUBSET Key : Subscribe(s, ks)
  \/ \E k \in Key : ListKey(s, k)
  \/ SubscribeReturn(s)
  \/ SubscribeAll(s)
  \/ Receive(s)
  \/ DropReceiver(s)
  \/ UnsubscribeCall(s)

RegistryNext ==
  \/ \E s \in Subscriber : Owner(s)
  \/ \E w \in Worker : Unsubscribe(w)
  \/ FanOut

(* A call that has begun runs to its end: the threads are scheduled and no   *)
(* step of unsubscribe or fan_out waits for anything.  Nothing makes clients *)
(* call, receivers read, or events arrive.                                   *)
RegistryFairness ==
  /\ \A w \in Worker : WF_registry_vars(Unsubscribe(w))
  /\ WF_registry_vars(task # "idle" /\ FanOut)

RegistrySpec == RegistryInit /\ [][RegistryNext]_registry_vars /\ RegistryFairness

-----------------------------------------------------------------------------
(* Who may still be on the way to remove s from the list of k. *)
Sweeping(s, k) ==
  \E w \in Worker : step[w] = "sweep" /\ Target(w) = s /\ k \in todo[w]

(* A subscription that was returned, was not given back and whose receiver   *)
(* exists is listed under every key it asked for (or in the broadcast map):  *)
(* no concurrent unsubscribe of somebody else, no cleanup by the dispatcher  *)
(* ever takes a live subscriber out (pubsub.rs:115, "avoiding TOCTOU race"). *)
LiveSubscribersListed ==
  \A s \in open :
    phase[s] = "live" =>
      /\ \A k \in keys[s] : s \in per_key[k]
      /\ s \notin known => s \in broadcast

(* Wherever an id is listed somebody can still find it: either              *)
(* per_subscriber leads to it or a running unsubscribe is about to remove   *)
(* it.  So once the owner's unsubscribe has returned and the dispatcher is   *)
(* not cleaning the same id, no list holds it, and its stream ends.          *)
NoOrphanedListing ==
  \A s \in Subscriber, k \in Key :
    s \in per_key[k] =>
      \/ s \in known /\ k \in per_subscriber[s]
      \/ Sweeping(s, k)

(* The map of keys does not grow with the history of subscriptions: when no *)
(* unsubscribe is running, each entry of per_key lists somebody.             *)
NoEmptyEntryAtRest ==
  (\A w \in Worker : step[w] = "idle") => \A k \in entries : per_key[k] # {}

(* Events of k arriving again and again eventually clean a dropped receiver *)
(* out of k's list, and out of the lists of its other keys.                  *)
DroppedReceiversReclaimed ==
  \A s \in Subscriber, k \in Key :
    []<><<FanKey(k)>>_registry_vars =>
      ((phase[s] # "listing" /\ s \notin open /\ s \in per_key[k])
         ~> (\A j \in Key : s \notin per_key[j]))

=============================================================================
