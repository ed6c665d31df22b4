----------------------------- MODULE SeriesCache -----------------------------
(***************************************************************************)
(* One key of the time-series cache (crates/calce-datastructs/src/cache.rs,*)
(* TimeSeriesCache).                                                       *)
(*                                                                         *)
(* A caller of update_current, update_history or append_history holds the  *)
(* shared guard of the map entry from data.get until it returns; insert    *)
(* needs the entry exclusively.  Under the guard the history is an Arc     *)
(* that rcu replaces by compare-and-swap, so callers overwrite each other's*)
(* work unless the swap notices that the Arc has changed.                  *)
(***************************************************************************)
EXTENDS Integers, Sequences

CONSTANTS
  Thread,      \* threads that call the cache
  Value,       \* prices and rates
  Index,       \* positions update_history may be called with
  Absent,      \* the map has no entry for the key
  Inserted,    \* histories insert may be called with
  Capacity,    \* capacity of the event channel
  MaxCalls     \* bound: calls (insert included) in one behaviour

ASSUME CacheAssumption ==
  /\ Index \subseteq Nat \ {0}
  /\ Inserted \subseteq Seq(Value)
  /\ Absent \notin [current : Value, history : Seq(Value)]
  /\ Capacity \in Nat \ {0}
  /\ MaxCalls \in Nat

VARIABLES
  data,      \* the entry of the key
  arc,       \* identity of the Arc that holds data.history
  pc,        \* pc[t]: where thread t is; "idle" is outside the cache
  call,      \* call[t]: its method and arguments
  old,       \* old[t]: the history rcu handed to the closure
  old_arc,   \* old_arc[t]: the identity of that Arc
  wired,     \* notify_tx is set
  events,    \* kinds of the events in the channel
  calls      \* calls begun so far

cache_vars == <<data, arc, pc, call, old, old_arc, wired, events, calls>>

Call ==
  [method : {"update_current", "append_history"}, value : Value]
    \union [method : {"update_history"}, index : Index, value : Value]

Entry == [current : Value, history : Seq(Value)]

Held(t) == pc[t] # "idle"

CacheTypeOK ==
  /\ data \in Entry \union {Absent}
  /\ arc \in Nat
  /\ pc \in [Thread -> {"idle", "store", "check", "load", "swap", "notify"}]
  /\ call \in [Thread -> Call \union {Absent}]
  /\ old \in [Thread -> Seq(Value) \union {Absent}]
  /\ old_arc \in [Thread -> Nat \union {Absent}]
  /\ \A t \in Thread : Held(t) => call[t] \in Call /\ data # Absent
  /\ \A t \in Thread : pc[t] = "swap" => old[t] \in Seq(Value) /\ old_arc[t] \in Nat
  /\ wired \in BOOLEAN
  /\ events \in Seq({"current", "history"})
  /\ Len(events) <= Capacity
  /\ calls \in 0 .. MaxCalls

CacheInit ==
  /\ data = Absent
  /\ arc = 0
  /\ pc = [t \in Thread |-> "idle"]
  /\ call = [t \in Thread |-> Absent]
  /\ old = [t \in Thread |-> Absent]
  /\ old_arc = [t \in Thread |-> Absent]
  /\ wired \in BOOLEAN
  /\ events = <<>>
  /\ calls = 0

(* Faulty: the entry is replaced while callers still hold it. *)
InsertUnlocked(c, h) ==
  /\ calls < MaxCalls
  /\ data' = [current |-> c, history |-> h]
  /\ arc' = arc + 1
  /\ calls' = calls + 1
  /\ UNCHANGED <<pc, call, old, old_arc, wired, events>>

(* insert(key, current, history): exclusive, and no event is sent. *)
Insert(c, h) ==
  /\ calls < MaxCalls
  /\ \A t \in Thread : ~ Held(t)
  /\ data' = [current |-> c, history |-> h]
  /\ arc' = arc + 1
  /\ calls' = calls + 1
  /\ UNCHANGED <<pc, call, old, old_arc, wired, events>>

(* set_notifier: succeeds once. *)
SetNotifier ==
  /\ ~ wired
  /\ wired' = TRUE
  /\ UNCHANGED <<data, arc, pc, call, old, old_arc, events, calls>>

FirstStep(c) ==
  CASE c.method = "update_current" -> "store"
    [] c.method = "update_history" -> "check"
    [] c.method = "append_history" -> "load"

(* data.get(key): the guard is taken, or the call ends in KeyNotFound. *)
Begin(t, c) ==
  /\ calls < MaxCalls
  /\ pc[t] = "idle"
  /\ data # Absent
  /\ call' = [call EXCEPT ![t] = c]
  /\ pc' = [pc EXCEPT ![t] = FirstStep(c)]
  /\ calls' = calls + 1
  /\ UNCHANGED <<data, arc, old, old_arc, wired, events>>

(* entry.current.store(..) *)
StoreCurrent(t) ==
  /\ pc[t] = "store"
  /\ data' = [data EXCEPT !.current = call[t].value]
  /\ pc' = [pc EXCEPT ![t] = "notify"]
  /\ UNCHANGED <<arc, call, old, old_arc, wired, events, calls>>

(* history.load_full() and the bounds check; IndexOutOfBounds returns. *)
CheckIndex(t) ==
  /\ pc[t] = "check"
  /\ pc' = [pc EXCEPT ![t] =
              IF call[t].index <= Len(data.history) THEN "load" ELSE "idle"]
  /\ UNCHANGED <<data, arc, call, old, old_arc, wired, events, calls>>

(* rcu loads the Arc its closure will copy. *)
Load(t) ==
  /\ pc[t] = "load"
  /\ old' = [old EXCEPT ![t] = data.history]
  /\ old_arc' = [old_arc EXCEPT ![t] = arc]
  /\ pc' = [pc EXCEPT ![t] = "swap"]
  /\ UNCHANGED <<data, arc, call, wired, events, calls>>

(* What the closure makes of the history it was given. *)
Modified(t) ==
  IF call[t].method = "update_history"
  THEN [old[t] EXCEPT ![call[t].index] = call[t].value]
  ELSE Append(old[t], call[t].value)

(* Faulty: a plain store instead of the compare-and-swap. *)
StoreBlindly(t) ==
  /\ pc[t] = "swap"
  /\ data' = [data EXCEPT !.history = Modified(t)]
  /\ arc' = arc + 1
  /\ pc' = [pc EXCEPT ![t] = "notify"]
  /\ UNCHANGED <<call, old, old_arc, wired, events, calls>>

(* The swap succeeds only on the Arc that was copied, else rcu starts over. *)
CompareAndSwap(t) ==
  /\ pc[t] = "swap"
  /\ \/ /\ arc = old_arc[t]
        /\ data' = [data EXCEPT !.history = Modified(t)]
        /\ arc' = arc + 1
        /\ pc' = [pc EXCEPT ![t] = "notify"]
     \/ /\ arc # old_arc[t]
        /\ pc' = [pc EXCEPT ![t] = "load"]
        /\ UNCHANGED <<data, arc>>
  /\ UNCHANGED <<call, old, old_arc, wired, events, calls>>

Kind(t) == IF call[t].method = "update_current" THEN "current" ELSE "history"

(* try_send, whose failure is ignored; the guard goes with the return. *)
Notify(t) ==
  /\ pc[t] = "notify"
  /\ events' = IF wired /\ Len(events) < Capacity
               THEN Append(events, Kind(t)) ELSE events
  /\ pc' = [pc EXCEPT ![t] = "idle"]
  /\ UNCHANGED <<data, arc, call, old, old_arc, wired, calls>>

(* The dispatcher takes an event from the channel. *)
Take ==
  /\ events # <<>>
  /\ events' = Tail(events)
  /\ UNCHANGED <<data, arc, pc, call, old, old_arc, wired, calls>>

Step(t) ==
  \/ StoreCurrent(t)
  \/ CheckIndex(t)
  \/ Load(t)
  \/ CompareAndSwap(t)
  \/ Notify(t)

CacheNext ==
  \/ \E c \in Value, h \in Inserted : Insert(c, h)
  \/ SetNotifier
  \/ \E t \in Thread, c \in Call : Begin(t, c)
  \/ \E t \in Thread : Step(t)
  \/ Take

CacheSpec == CacheInit /\ [][CacheNext]_cache_vars

-----------------------------------------------------------------------------
(* rcu's closure writes new[index] without a check of its own (cache.rs:140) *)
(* and would panic out of bounds: the check made on an earlier load still    *)
(* holds for every history rcu may hand to the closure.                      *)
IndexInBounds ==
  \A t \in Thread :
    pc[t] = "swap" /\ call[t].method = "update_history" =>
      call[t].index <= Len(old[t])

(* "history only grows" (cache.rs:135): as long as anybody is inside a call  *)
(* on the key its history is neither shortened nor exchanged for another.    *)
GrowsWhileHeld ==
  [][(\E t \in Thread : Held(t)) => Len(data'.history) >= Len(data.history)]_data

(* A call waits until its store or swap is done, then only has to notify. *)
Status(t) ==
  CASE pc[t] = "idle" -> "none"
    [] pc[t] = "notify" -> "done"
    [] OTHER -> "waiting"

(* Concurrent calls take effect one at a time, each at one instant: in       *)
(* particular no append and no history update is lost to another.            *)
Atomic == INSTANCE AtomicSeries
  WITH Entry <- [current : Value, history : Inserted],
       series <- data,
       status <- [t \in Thread |-> Status(t)],
       asked <- call
ImplementsAtomicSeries == Atomic!SeriesSpec
=============================================================================
