-------------------------- MODULE DatastructsProofs --------------------------
(***************************************************************************)
(* What TLAPS proves of crates/calce-datastructs: of the time-series       *)
(* cache, for any threads, values, positions, channel capacity and number  *)
(* of calls, and of the subscription registry, for every set of keys and   *)
(* of subscriptions and every buffer size.  (The dispatcher between the    *)
(* two is in LiveUpdatesProofs.)                                           *)
(***************************************************************************)
EXTENDS SeriesCache, SubscriptionRegistry, TLAPS

-----------------------------------------------------------------------------
(* The cache: the unchecked write in rcu's closure stays in bounds, and      *)
(* concurrent calls are atomic.                                             *)
(*                                                                         *)
(* A caller that has passed the bounds check holds the entry's guard, so     *)
(* insert cannot run, and every swap keeps or extends the length.  A swap    *)
(* that succeeds acts on the history it copied, because nobody replaced the  *)
(* Arc in between.                                                          *)

(* Past its bounds check a caller's index is in the current history too. *)
CheckedIndexHolds ==
  \A t \in Thread :
    pc[t] \in {"load", "swap"} /\ call[t].method = "update_history" =>
      call[t].index <= Len(data.history)

(* Identities of Arcs are never reused, so the same Arc is the same history. *)
SameArcSameHistory ==
  \A t \in Thread :
    pc[t] = "swap" => old_arc[t] <= arc /\ (old_arc[t] = arc => old[t] = data.history)

(* Each method has its own first steps. *)
MethodsKeepTheirSteps ==
  \A t \in Thread :
    /\ pc[t] = "store" => call[t].method = "update_current"
    /\ pc[t] = "check" => call[t].method = "update_history"
    /\ pc[t] \in {"load", "swap"} => call[t].method # "update_current"

CacheInv ==
  /\ CacheTypeOK
  /\ MethodsKeepTheirSteps
  /\ CheckedIndexHolds
  /\ SameArcSameHistory
  /\ IndexInBounds

(* The fields a call has. *)
LEMMA CallFields ==
  ASSUME NEW c \in Call
  PROVE  /\ c.method \in {"update_current", "update_history", "append_history"}
         /\ c.value \in Value
         /\ c.method = "update_history" => c.index \in Index /\ c.index \in Nat \ {0}
<1>1. CASE c \in [method : {"update_current", "append_history"}, value : Value]
  BY <1>1
<1>2. CASE c \in [method : {"update_history"}, index : Index, value : Value]
  BY <1>2, CacheAssumption
<1> QED BY <1>1, <1>2 DEF Call

(* Copying a history and changing it in bounds, or at its end. *)
LEMMA ModifiedHistory ==
  ASSUME CacheTypeOK, MethodsKeepTheirSteps, IndexInBounds, NEW t \in Thread, pc[t] = "swap"
  PROVE  /\ Modified(t) \in Seq(Value)
         /\ Len(Modified(t)) >= Len(old[t])
<1>1. old[t] \in Seq(Value) /\ call[t] \in Call /\ call[t].method # "update_current"
  BY DEF CacheTypeOK, Held, MethodsKeepTheirSteps
<1>2. CASE call[t].method = "update_history"
  <2>1. call[t].index \in 1 .. Len(old[t]) /\ call[t].value \in Value
    BY <1>1, <1>2, CallFields DEF IndexInBounds
  <2> QED BY <1>1, <1>2, <2>1 DEF Modified
<1>3. CASE call[t].method = "append_history"
  <2>1. call[t].value \in Value
    BY <1>1, CallFields
  <2> QED BY <1>1, <1>3, <2>1 DEF Modified
<1> QED BY <1>1, <1>2, <1>3, CallFields

LEMMA CacheInitEstablishes == CacheInit => CacheInv
BY CacheAssumption DEF CacheInit, CacheInv, CacheTypeOK, Held, MethodsKeepTheirSteps, CheckedIndexHolds,
   SameArcSameHistory, IndexInBounds

(* Nobody holds the entry, so nothing is owed to the old history. *)
LEMMA InsertKeeps ==
  ASSUME CacheInv, NEW c \in Value, NEW h \in Inserted, Insert(c, h)
  PROVE  CacheInv'
<1> USE CacheAssumption DEF CacheInv, Insert, Held
<1>1. CacheTypeOK'
  BY DEF CacheTypeOK, Entry
<1>2. MethodsKeepTheirSteps' /\ IndexInBounds'
  BY DEF MethodsKeepTheirSteps, IndexInBounds, CacheTypeOK
<1>3. CheckedIndexHolds' /\ SameArcSameHistory'
  BY DEF CheckedIndexHolds, SameArcSameHistory, CacheTypeOK
<1> QED BY <1>1, <1>2, <1>3

LEMMA BeginKeeps ==
  ASSUME CacheInv, NEW t \in Thread, NEW c \in Call, Begin(t, c)
  PROVE  CacheInv'
<1> USE DEF CacheInv, Begin
<1>0. c.method \in {"update_current", "update_history", "append_history"}
  BY CallFields
<1>1. CacheTypeOK'
  <2>1. FirstStep(c) \in {"store", "check", "load"}
    BY <1>0 DEF FirstStep
  <2>2. pc' \in [Thread -> {"idle", "store", "check", "load", "swap", "notify"}]
    BY <2>1 DEF CacheTypeOK
  <2>3. calls' \in 0 .. MaxCalls
    BY CacheAssumption DEF CacheTypeOK
  <2> QED BY <2>1, <2>2, <2>3 DEF CacheTypeOK, Held
<1> USE <1>0 DEF FirstStep
<1>2. MethodsKeepTheirSteps'
  BY DEF MethodsKeepTheirSteps, CacheTypeOK
<1>3. CheckedIndexHolds' /\ SameArcSameHistory' /\ IndexInBounds'
  BY DEF CheckedIndexHolds, SameArcSameHistory, IndexInBounds, CacheTypeOK
<1> QED BY <1>1, <1>2, <1>3

LEMMA StoreCurrentKeeps ==
  ASSUME CacheInv, NEW t \in Thread, StoreCurrent(t)
  PROVE  CacheInv'
<1> USE CacheAssumption DEF CacheInv, StoreCurrent
<1>1. call[t].value \in Value /\ data \in Entry
  BY CallFields DEF CacheTypeOK, Held, MethodsKeepTheirSteps
<1>2. data' \in Entry /\ data'.history = data.history
  BY <1>1 DEF Entry
<1>3. CacheTypeOK'
  BY <1>2 DEF CacheTypeOK, Held, Entry
<1>4. MethodsKeepTheirSteps' /\ IndexInBounds'
  BY DEF MethodsKeepTheirSteps, IndexInBounds, CacheTypeOK
<1>5. CheckedIndexHolds' /\ SameArcSameHistory'
  BY <1>2 DEF CheckedIndexHolds, SameArcSameHistory, CacheTypeOK
<1> QED BY <1>3, <1>4, <1>5

(* The check is what CheckedIndexHolds remembers. *)
LEMMA CheckIndexKeeps ==
  ASSUME CacheInv, NEW t \in Thread, CheckIndex(t)
  PROVE  CacheInv'
<1> USE DEF CacheInv, CheckIndex
<1>1. CacheTypeOK'
  BY DEF CacheTypeOK, Held
<1>2. MethodsKeepTheirSteps' /\ SameArcSameHistory' /\ IndexInBounds'
  BY DEF MethodsKeepTheirSteps, SameArcSameHistory, IndexInBounds, CacheTypeOK
<1>3. CheckedIndexHolds'
  BY DEF CheckedIndexHolds, MethodsKeepTheirSteps, CacheTypeOK
<1> QED BY <1>1, <1>2, <1>3

LEMMA LoadKeeps ==
  ASSUME CacheInv, NEW t \in Thread, Load(t)
  PROVE  CacheInv'
<1> USE DEF CacheInv, Load
<1>1. data.history \in Seq(Value)
  BY DEF CacheTypeOK, Held, Entry
<1>2. CacheTypeOK'
  BY <1>1 DEF CacheTypeOK, Held
<1>3. MethodsKeepTheirSteps' /\ CheckedIndexHolds'
  BY DEF MethodsKeepTheirSteps, CheckedIndexHolds, CacheTypeOK
<1>4. SameArcSameHistory' /\ IndexInBounds'
  BY DEF SameArcSameHistory, CheckedIndexHolds, IndexInBounds, CacheTypeOK
<1> QED BY <1>2, <1>3, <1>4

(* A swap replaces the history by one at least as long, under a new Arc. *)
LEMMA CompareAndSwapKeeps ==
  ASSUME CacheInv, NEW t \in Thread, CompareAndSwap(t)
  PROVE  CacheInv'
<1> USE DEF CacheInv, CompareAndSwap
<1>1. CASE arc # old_arc[t]
  <2>1. CacheTypeOK'
    BY <1>1 DEF CacheTypeOK, Held
  <2>2. MethodsKeepTheirSteps' /\ CheckedIndexHolds' /\ SameArcSameHistory' /\ IndexInBounds'
    BY <1>1 DEF MethodsKeepTheirSteps, CheckedIndexHolds, SameArcSameHistory, IndexInBounds, CacheTypeOK
  <2> QED BY <2>1, <2>2
<1>2. CASE arc = old_arc[t]
  <2>1. data \in Entry /\ old[t] = data.history
    BY <1>2, CacheAssumption DEF CacheTypeOK, Held, SameArcSameHistory, Entry
  <2>2. Modified(t) \in Seq(Value) /\ Len(Modified(t)) >= Len(data.history)
    BY <2>1, ModifiedHistory
  <2>3. data' \in Entry /\ data'.history = Modified(t) /\ data' # Absent
    BY <1>2, <2>1, <2>2, CacheAssumption DEF Entry
  <2>4. CacheTypeOK'
    <3>1. pc' \in [Thread -> {"idle", "store", "check", "load", "swap", "notify"}] /\ arc' \in Nat
      BY <1>2 DEF CacheTypeOK
    <3>2. \A u \in Thread : pc'[u] # "idle" => pc[u] # "idle"
      BY <1>2 DEF CacheTypeOK
    <3>3. \A u \in Thread : pc'[u] = "swap" => pc[u] = "swap"
      BY <1>2 DEF CacheTypeOK
    <3> QED BY <1>2, <2>3, <3>1, <3>2, <3>3 DEF CacheTypeOK, Held
  <2>5. MethodsKeepTheirSteps' /\ IndexInBounds'
    BY <1>2 DEF MethodsKeepTheirSteps, IndexInBounds, CacheTypeOK
  <2>6. CheckedIndexHolds'
    <3>1. Len(data'.history) \in Nat /\ Len(data.history) \in Nat
      BY <2>1, <2>3 DEF Entry
    <3>2. \A u \in Thread :
            pc[u] \in {"load", "swap"} /\ call[u].method = "update_history" => call[u].index \in Nat
      BY CallFields DEF CacheTypeOK, Held
    <3> QED BY <1>2, <2>2, <2>3, <3>1, <3>2 DEF CheckedIndexHolds, CacheTypeOK
  <2>7. SameArcSameHistory'
    BY <1>2 DEF SameArcSameHistory, CacheTypeOK
  <2> QED BY <2>4, <2>5, <2>6, <2>7
<1> QED BY <1>1, <1>2

LEMMA NotifyKeeps ==
  ASSUME CacheInv, NEW t \in Thread, Notify(t)
  PROVE  CacheInv'
<1> USE CacheAssumption DEF CacheInv, Notify
<1>1. CacheTypeOK'
  BY DEF CacheTypeOK, Held, Kind
<1>2. MethodsKeepTheirSteps' /\ CheckedIndexHolds' /\ SameArcSameHistory' /\ IndexInBounds'
  BY DEF MethodsKeepTheirSteps, CheckedIndexHolds, SameArcSameHistory, IndexInBounds, CacheTypeOK
<1> QED BY <1>1, <1>2

(* Taking the first element. *)
LEMMA TailShorter ==
  ASSUME NEW S, NEW q \in Seq(S), q # <<>>
  PROVE  Tail(q) \in Seq(S) /\ Len(q) \in Nat /\ Len(Tail(q)) = Len(q) - 1
OBVIOUS

(* Wiring the notifier and draining the channel leave the entry alone. *)
LEMMA ChannelKeeps ==
  ASSUME CacheInv, SetNotifier \/ Take
  PROVE  CacheInv'
<1> USE DEF CacheInv, SetNotifier, Take
<1>1. CacheTypeOK'
  <2>1. CASE Take
    <3>1. events \in Seq({"current", "history"}) /\ events # <<>> /\ Len(events) <= Capacity
      BY <2>1 DEF CacheTypeOK
    <3>2. events' \in Seq({"current", "history"}) /\ Len(events) \in Nat
      BY <2>1, <3>1, TailShorter
    <3>3. Len(events') = Len(events) - 1
      BY <2>1, <3>1, TailShorter
    <3>4. Len(events') <= Capacity
      BY <3>1, <3>2, <3>3, CacheAssumption
    <3> QED BY <2>1, <3>2, <3>4 DEF CacheTypeOK, Held
  <2>2. CASE SetNotifier
    BY <2>2 DEF CacheTypeOK, Held
  <2> QED BY <2>1, <2>2
<1>2. MethodsKeepTheirSteps' /\ CheckedIndexHolds' /\ SameArcSameHistory' /\ IndexInBounds'
  BY DEF MethodsKeepTheirSteps, CheckedIndexHolds, SameArcSameHistory, IndexInBounds
<1> QED BY <1>1, <1>2

LEMMA CacheNextKeeps == CacheInv /\ [CacheNext]_cache_vars => CacheInv'
<1> SUFFICES ASSUME CacheInv, [CacheNext]_cache_vars PROVE CacheInv'
  OBVIOUS
<1>1. CASE \E c \in Value, h \in Inserted : Insert(c, h)
  BY <1>1, InsertKeeps
<1>2. CASE \E t \in Thread, c \in Call : Begin(t, c)
  BY <1>2, BeginKeeps
<1>3. CASE \E t \in Thread : Step(t)
  BY <1>3, StoreCurrentKeeps, CheckIndexKeeps, LoadKeeps, CompareAndSwapKeeps, NotifyKeeps
  DEF Step
<1>4. CASE SetNotifier \/ Take
  BY <1>4, ChannelKeeps
<1>5. CASE UNCHANGED cache_vars
  BY <1>5 DEF cache_vars, CacheInv, CacheTypeOK, Held, MethodsKeepTheirSteps, CheckedIndexHolds,
     SameArcSameHistory, IndexInBounds
<1> QED BY <1>1, <1>2, <1>3, <1>4, <1>5 DEF CacheNext

(* The strengthened invariant holds in every reachable state. *)
THEOREM CacheInvariant == CacheSpec => []CacheInv
BY CacheInitEstablishes, CacheNextKeeps, PTL DEF CacheSpec

(* Every variable stays in its type; the channel keeps its capacity. *)
THEOREM CacheTypeCorrect == CacheSpec => []CacheTypeOK
BY CacheInvariant, PTL DEF CacheInv

(* new[index] = value in update_history's closure never panics. *)
THEOREM UpdateStaysInBounds == CacheSpec => []IndexInBounds
BY CacheInvariant, PTL DEF CacheInv

-----------------------------------------------------------------------------
(* While a caller is inside, the only step that changes the history is a swap. *)
LEMMA StepGrows ==
  ASSUME CacheInv, [CacheNext]_cache_vars, NEW u \in Thread, Held(u), data' # data
  PROVE  Len(data'.history) >= Len(data.history)
<1>1. data \in Entry /\ Len(data.history) \in Nat
  BY CacheAssumption DEF CacheInv, CacheTypeOK, Held, Entry
<1>2. ASSUME NEW t \in Thread, StoreCurrent(t) PROVE data'.history = data.history
  BY <1>1, <1>2 DEF StoreCurrent, Entry
<1>3. ASSUME NEW t \in Thread, CompareAndSwap(t)
      PROVE  Len(data'.history) >= Len(data.history)
  <2>1. arc = old_arc[t] /\ data'.history = Modified(t)
    BY <1>1, <1>3 DEF CompareAndSwap, Entry
  <2>2. old[t] = data.history
    BY <1>3, <2>1 DEF CompareAndSwap, CacheInv, SameArcSameHistory
  <2> QED BY <1>3, <2>1, <2>2, ModifiedHistory DEF CompareAndSwap, CacheInv
<1>4. \E t \in Thread : StoreCurrent(t) \/ CompareAndSwap(t)
  BY DEF CacheNext, Step, cache_vars, Insert, SetNotifier, Begin, CheckIndex, Load, Notify, Take, Held
<1> QED BY <1>1, <1>2, <1>3, <1>4

(* As long as anybody is inside a call on the key, its history only grows. *)
THEOREM HistoryGrowsWhileHeld == CacheSpec => GrowsWhileHeld
<1>1. CacheInv /\ [CacheNext]_cache_vars =>
        [(\E t \in Thread : Held(t)) => Len(data'.history) >= Len(data.history)]_data
  BY StepGrows
<1> QED BY <1>1, CacheInvariant, PTL DEF CacheSpec, GrowsWhileHeld

-----------------------------------------------------------------------------
(* The refinement: insert, begin, store, swap, a failed check and notify are *)
(* Replace, Request, Apply, Apply, Refuse and Return of AtomicSeries; every  *)
(* other step stutters there.                                                *)

statuses == [t \in Thread |-> Status(t)]

LEMMA InitRefines == CacheInit => Atomic!SeriesInit
BY DEF CacheInit, Atomic!SeriesInit, Status

(* A step of thread t that leaves its own pc's class alone moves no status. *)
LEMMA StatusOf ==
  ASSUME CacheTypeOK, CacheTypeOK', NEW t \in Thread, NEW p,
         pc' = [pc EXCEPT ![t] = p]
  PROVE  statuses' = [statuses EXCEPT ![t] = Status(t)']
<1>1. \A u \in Thread : u # t => Status(u)' = Status(u)
  BY DEF Status, CacheTypeOK
<1> QED BY <1>1 DEF statuses

LEMMA BeginRefines ==
  ASSUME CacheInv, CacheTypeOK', NEW t \in Thread, NEW c \in Call, Begin(t, c)
  PROVE  Atomic!Request(t, c)
<1>1. FirstStep(c) \in {"store", "check", "load"}
  BY CallFields DEF FirstStep
<1>2. Status(t) = "none" /\ Status(t)' = "waiting"
  BY <1>1 DEF Begin, Status, CacheInv, CacheTypeOK
<1>3. statuses' = [statuses EXCEPT ![t] = "waiting"] /\ statuses[t] = "none"
  BY <1>2, StatusOf DEF Begin, CacheInv, statuses
<1> QED BY <1>3 DEF Begin, Atomic!Request, statuses

LEMMA StoreCurrentRefines ==
  ASSUME CacheInv, CacheTypeOK', NEW t \in Thread, StoreCurrent(t)
  PROVE  Atomic!Apply(t)
<1>1. Status(t) = "waiting" /\ Status(t)' = "done"
  BY DEF StoreCurrent, Status, CacheInv, CacheTypeOK
<1>2. statuses' = [statuses EXCEPT ![t] = "done"] /\ statuses[t] = "waiting"
  BY <1>1, StatusOf DEF StoreCurrent, CacheInv, statuses
<1>3. call[t].method = "update_current"
  BY DEF StoreCurrent, CacheInv, MethodsKeepTheirSteps
<1>4. data' = Atomic!Effect(data, call[t]) /\ Atomic!InBounds(data, call[t])
  BY <1>3 DEF StoreCurrent, Atomic!Effect, Atomic!InBounds
<1> QED BY <1>2, <1>4 DEF StoreCurrent, Atomic!Apply, statuses

LEMMA CheckIndexRefines ==
  ASSUME CacheInv, CacheTypeOK', NEW t \in Thread, CheckIndex(t)
  PROVE  Atomic!Refuse(t) \/ UNCHANGED <<data, statuses, call>>
<1>1. call[t].method = "update_history" /\ Status(t) = "waiting"
  BY DEF CheckIndex, CacheInv, MethodsKeepTheirSteps, Status
<1>2. CASE call[t].index <= Len(data.history)
  <2>1. Status(t)' = "waiting"
    BY <1>2 DEF CheckIndex, Status, CacheInv, CacheTypeOK
  <2>2. statuses' = statuses
    BY <1>1, <2>1, StatusOf DEF CheckIndex, CacheInv, statuses
  <2> QED BY <2>2 DEF CheckIndex
<1>3. CASE ~ (call[t].index <= Len(data.history))
  <2>1. Status(t)' = "none"
    BY <1>3 DEF CheckIndex, Status, CacheInv, CacheTypeOK
  <2>2. statuses' = [statuses EXCEPT ![t] = "none"] /\ statuses[t] = "waiting"
    BY <1>1, <2>1, StatusOf DEF CheckIndex, CacheInv, statuses
  <2> QED BY <1>1, <1>3, <2>2 DEF CheckIndex, Atomic!Refuse, Atomic!InBounds, statuses
<1> QED BY <1>2, <1>3

LEMMA LoadRefines ==
  ASSUME CacheInv, CacheTypeOK', NEW t \in Thread, Load(t)
  PROVE  UNCHANGED <<data, statuses, call>>
<1>1. Status(t) = "waiting" /\ Status(t)' = "waiting"
  BY DEF Load, Status, CacheInv, CacheTypeOK
<1>2. statuses' = statuses
  BY <1>1, StatusOf DEF Load, CacheInv, statuses
<1> QED BY <1>2 DEF Load

LEMMA CompareAndSwapRefines ==
  ASSUME CacheInv, CacheTypeOK', NEW t \in Thread, CompareAndSwap(t)
  PROVE  Atomic!Apply(t) \/ UNCHANGED <<data, statuses, call>>
<1>1. Status(t) = "waiting"
  BY DEF CompareAndSwap, Status
<1>2. CASE arc # old_arc[t]
  <2>1. Status(t)' = "waiting"
    BY <1>2 DEF CompareAndSwap, Status, CacheInv, CacheTypeOK
  <2>2. statuses' = statuses
    BY <1>1, <1>2, <2>1, StatusOf DEF CompareAndSwap, CacheInv, statuses
  <2> QED BY <1>2, <2>2 DEF CompareAndSwap
<1>3. CASE arc = old_arc[t]
  <2>1. Status(t)' = "done"
    BY <1>3 DEF CompareAndSwap, Status, CacheInv, CacheTypeOK
  <2>2. statuses' = [statuses EXCEPT ![t] = "done"] /\ statuses[t] = "waiting"
    BY <1>1, <1>3, <2>1, StatusOf DEF CompareAndSwap, CacheInv, statuses
  <2>3. old[t] = data.history
    BY <1>3 DEF CompareAndSwap, CacheInv, SameArcSameHistory
  <2>4. call[t].method \in {"update_history", "append_history"}
    BY CallFields DEF CompareAndSwap, CacheInv, CacheTypeOK, Held, MethodsKeepTheirSteps
  <2>5. data' = Atomic!Effect(data, call[t])
    BY <1>3, <2>3, <2>4 DEF CompareAndSwap, Modified, Atomic!Effect
  <2>6. Atomic!InBounds(data, call[t])
    BY <2>3 DEF CompareAndSwap, CacheInv, IndexInBounds, Atomic!InBounds
  <2> QED BY <2>2, <2>5, <2>6, <1>3 DEF CompareAndSwap, Atomic!Apply, statuses
<1> QED BY <1>2, <1>3

LEMMA NotifyRefines ==
  ASSUME CacheInv, CacheTypeOK', NEW t \in Thread, Notify(t)
  PROVE  Atomic!Return(t)
<1>1. Status(t) = "done" /\ Status(t)' = "none"
  BY DEF Notify, Status, CacheInv, CacheTypeOK
<1>2. statuses' = [statuses EXCEPT ![t] = "none"] /\ statuses[t] = "done"
  BY <1>1, StatusOf DEF Notify, CacheInv, statuses
<1> QED BY <1>2 DEF Notify, Atomic!Return, statuses

LEMMA NextRefines ==
  ASSUME CacheInv, CacheInv', [CacheNext]_cache_vars
  PROVE  Atomic!SeriesNext \/ UNCHANGED <<data, statuses, call>>
<1> USE DEF CacheInv
<1>1. CASE \E c \in Value, h \in Inserted : Insert(c, h)
  <2>1. UNCHANGED <<statuses, call>> /\ data' \in [current : Value, history : Inserted]
    BY <1>1 DEF Insert, statuses, Status
  <2> QED BY <2>1 DEF Atomic!SeriesNext, Atomic!Replace, statuses
<1>2. CASE \E t \in Thread, c \in Call : Begin(t, c)
  BY <1>2, BeginRefines DEF Atomic!SeriesNext
<1>3. CASE \E t \in Thread : Step(t)
  BY <1>3, StoreCurrentRefines, CheckIndexRefines, LoadRefines, CompareAndSwapRefines, NotifyRefines
  DEF Step, Atomic!SeriesNext
<1>4. CASE SetNotifier \/ Take \/ UNCHANGED cache_vars
  BY <1>4 DEF SetNotifier, Take, cache_vars, statuses, Status
<1> QED BY <1>1, <1>2, <1>3, <1>4 DEF CacheNext

(* The cache under concurrent calls implements the atomic series: no append  *)
(* and no update is lost, and each takes effect between begin and return.    *)
THEOREM CacheIsAtomic == CacheSpec => ImplementsAtomicSeries
<1>1. CacheInv /\ CacheInv' /\ [CacheNext]_cache_vars => [Atomic!SeriesNext]_<<data, statuses, call>>
  BY NextRefines
<1> QED BY <1>1, InitRefines, CacheInvariant, PTL
  DEF CacheSpec, ImplementsAtomicSeries, Atomic!SeriesSpec, statuses

-----------------------------------------------------------------------------
(* The registry.  LiveSubscribersListed, NoOrphanedListing and               *)
(* NoEmptyEntryAtRest are not inductive: they say nothing of who is inside   *)
(* which call.  Their strengthening RegistryInv adds what each phase of a    *)
(* subscription excludes, that the dispatcher only cleans ids whose receiver *)
(* is gone, and what an idle frame of unsubscribe holds.                    *)

(* An id that was not handed out is nowhere. *)
UnusedIdsAbsent ==
  \A s \in Subscriber :
    phase[s] = "unused" =>
      /\ s \notin open /\ s \notin known /\ s \notin broadcast
      /\ s \notin dead /\ s \notin dead_broadcast /\ s # victim
      /\ keys[s] = {} /\ \A k \in Key : s \notin per_key[k]

(* A subscription still being listed is known, is nobody's target, and is    *)
(* listed only under keys it asked for.                                      *)
ListingIdsUntouched ==
  \A s \in Subscriber :
    phase[s] = "listing" =>
      /\ s \in open /\ s \in known /\ per_subscriber[s] = keys[s]
      /\ s \notin dead /\ s \notin dead_broadcast /\ s # victim
      /\ \A k \in Key : s \in per_key[k] => k \in keys[s]

(* A live subscription is either known with all its keys, or in broadcast. *)
LiveIdsRegistered ==
  \A s \in open :
    phase[s] = "live" =>
      \/ s \in known /\ per_subscriber[s] = keys[s] /\ \A k \in keys[s] : s \in per_key[k]
      \/ s \notin known /\ s \in broadcast /\ keys[s] = {}

(* Only the owner, after giving the subscription back, runs unsubscribe; the *)
(* dispatcher runs it only on ids whose receiver is gone.                    *)
CallersEntitled ==
  /\ \A s \in Subscriber : step[s] # "idle" => phase[s] = "left"
  /\ dead \intersect open = {}
  /\ dead_broadcast \intersect open = {}
  /\ step[Dispatcher] # "idle" => victim \in Subscriber /\ victim \notin open

(* The loop variables of unsubscribe exist only inside its loop, which is    *)
(* between retain and remove_if on one key at most.                          *)
FramesClean ==
  \A w \in Worker :
    /\ step[w] # "sweep" => todo[w] = {} /\ pruning[w] = {}
    /\ \A j, k \in pruning[w] : j = k

(* An entry that lists nobody is one some caller is about to prune. *)
EmptyEntriesPending ==
  \A k \in entries : per_key[k] = {} => \E w \in Worker : k \in pruning[w]

RegistryInv ==
  /\ RegistryTypeOK
  /\ UnusedIdsAbsent
  /\ ListingIdsUntouched
  /\ LiveIdsRegistered
  /\ CallersEntitled
  /\ FramesClean
  /\ NoOrphanedListing
  /\ EmptyEntriesPending

(* The parts of the invariant are visible to every lemma on a step. *)
USE RegistryAssumption DEF RegistryInv, RegistryTypeOK, UnusedIdsAbsent, ListingIdsUntouched, LiveIdsRegistered,
  CallersEntitled, FramesClean, NoOrphanedListing, Sweeping, EmptyEntriesPending,
  Worker, Target, maps, receivers, frames, fan

(* A fresh id is known before anything lists it. *)
LEMMA SubscribeKeeps ==
  ASSUME NEW s \in Subscriber, NEW ks \in SUBSET Key, RegistryInv, Subscribe(s, ks)
  PROVE  RegistryInv'
<1>1. UnusedIdsAbsent'
  BY DEF Subscribe
<1>2. ListingIdsUntouched'
  BY DEF Subscribe
<1>3. NoOrphanedListing'
  BY DEF Subscribe
<1>4. RegistryTypeOK' /\ LiveIdsRegistered' /\ CallersEntitled'
  BY DEF Subscribe
<1>5. FramesClean' /\ EmptyEntriesPending'
  BY DEF Subscribe
<1> QED BY <1>1, <1>2, <1>3, <1>4, <1>5

(* The listed key is one that per_subscriber remembers. *)
LEMMA ListKeyKeeps ==
  ASSUME NEW s \in Subscriber, NEW k \in Key, RegistryInv, ListKey(s, k)
  PROVE  RegistryInv'
<1>1. ListingIdsUntouched'
  BY DEF ListKey
<1>2. NoOrphanedListing'
  BY DEF ListKey
<1>3. EmptyEntriesPending'
  BY DEF ListKey
<1>4. RegistryTypeOK' /\ UnusedIdsAbsent' /\ LiveIdsRegistered'
  BY DEF ListKey
<1>5. CallersEntitled' /\ FramesClean'
  BY DEF ListKey
<1> QED BY <1>1, <1>2, <1>3, <1>4, <1>5

(* The loop over the keys is over, so all of them list the id. *)
LEMMA SubscribeReturnKeeps ==
  ASSUME NEW s \in Subscriber, RegistryInv, SubscribeReturn(s)
  PROVE  RegistryInv'
<1>1. LiveIdsRegistered'
  BY DEF SubscribeReturn
<1>2. RegistryTypeOK' /\ UnusedIdsAbsent' /\ ListingIdsUntouched' /\ CallersEntitled'
  BY DEF SubscribeReturn
<1>3. FramesClean' /\ NoOrphanedListing' /\ EmptyEntriesPending'
  BY DEF SubscribeReturn
<1> QED BY <1>1, <1>2, <1>3

(* A fresh id goes to the broadcast map alone. *)
LEMMA SubscribeAllKeeps ==
  ASSUME NEW s \in Subscriber, RegistryInv, SubscribeAll(s)
  PROVE  RegistryInv'
<1>1. UnusedIdsAbsent'
  BY DEF SubscribeAll
<1>2. LiveIdsRegistered'
  BY DEF SubscribeAll
<1>3. RegistryTypeOK' /\ ListingIdsUntouched' /\ CallersEntitled'
  BY DEF SubscribeAll
<1>4. FramesClean' /\ NoOrphanedListing' /\ EmptyEntriesPending'
  BY DEF SubscribeAll
<1> QED BY <1>1, <1>2, <1>3, <1>4

(* Reading the channel touches no map. *)
LEMMA ReceiveKeeps ==
  ASSUME NEW s \in Subscriber, RegistryInv, Receive(s)
  PROVE  RegistryInv'
BY DEF Receive

(* Fewer receivers: nothing that is known to be closed reopens. *)
LEMMA DropReceiverKeeps ==
  ASSUME NEW s \in Subscriber, RegistryInv, DropReceiver(s)
  PROVE  RegistryInv'
<1>1. CallersEntitled'
  BY DEF DropReceiver
<1>2. RegistryTypeOK' /\ UnusedIdsAbsent' /\ ListingIdsUntouched' /\ LiveIdsRegistered'
  BY DEF DropReceiver
<1>3. FramesClean' /\ NoOrphanedListing' /\ EmptyEntriesPending'
  BY DEF DropReceiver
<1> QED BY <1>1, <1>2, <1>3

(* The owner leaves the live phase before any map changes. *)
LEMMA UnsubscribeCallKeeps ==
  ASSUME NEW s \in Subscriber, RegistryInv, UnsubscribeCall(s)
  PROVE  RegistryInv'
<1>1. CallersEntitled'
  BY DEF UnsubscribeCall
<1>2. LiveIdsRegistered'
  BY DEF UnsubscribeCall
<1>3. RegistryTypeOK' /\ UnusedIdsAbsent' /\ ListingIdsUntouched'
  BY DEF UnsubscribeCall
<1>4. FramesClean' /\ NoOrphanedListing' /\ EmptyEntriesPending'
  BY DEF UnsubscribeCall
<1> QED BY <1>1, <1>2, <1>3, <1>4

(* Only an id that is not live and open leaves the broadcast map. *)
LEMMA UnlistKeeps ==
  ASSUME NEW w \in Worker, RegistryInv, Unlist(w)
  PROVE  RegistryInv'
<1>1. LiveIdsRegistered'
  BY DEF Unlist
<1>2. RegistryTypeOK' /\ UnusedIdsAbsent' /\ ListingIdsUntouched' /\ CallersEntitled'
  BY DEF Unlist
<1>3. FramesClean' /\ NoOrphanedListing' /\ EmptyEntriesPending'
  BY DEF Unlist
<1> QED BY <1>1, <1>2, <1>3

(* The keys taken out of per_subscriber are the ones the loop will visit. *)
LEMMA ForgetKeeps ==
  ASSUME NEW w \in Worker, RegistryInv, Forget(w)
  PROVE  RegistryInv'
<1>1. LiveIdsRegistered'
  BY DEF Forget
<1>2. ListingIdsUntouched'
  BY DEF Forget
<1>3. FramesClean'
  BY DEF Forget
<1>4. NoOrphanedListing'
  BY DEF Forget
<1>5. RegistryTypeOK' /\ UnusedIdsAbsent'
  BY DEF Forget
<1>6. CallersEntitled' /\ EmptyEntriesPending'
  BY DEF Forget
<1> QED BY <1>1, <1>2, <1>3, <1>4, <1>5, <1>6

(* One id leaves one list, which may now be empty and is about to be pruned. *)
LEMMA RetainKeeps ==
  ASSUME NEW w \in Worker, NEW k \in Key, RegistryInv, Retain(w, k)
  PROVE  RegistryInv'
<1>1. LiveIdsRegistered'
  BY DEF Retain
<1>2. FramesClean'
  BY DEF Retain
<1>3. NoOrphanedListing'
  BY DEF Retain
<1>4. EmptyEntriesPending'
  BY DEF Retain
<1>5. RegistryTypeOK' /\ UnusedIdsAbsent'
  BY DEF Retain
<1>6. ListingIdsUntouched' /\ CallersEntitled'
  BY DEF Retain
<1> QED BY <1>1, <1>2, <1>3, <1>4, <1>5, <1>6

(* The entry goes only if it lists nobody at this very step. *)
LEMMA PruneKeeps ==
  ASSUME NEW w \in Worker, NEW k \in Key, RegistryInv, Prune(w, k)
  PROVE  RegistryInv'
<1>1. FramesClean'
  BY DEF Prune
<1>2. EmptyEntriesPending'
  BY DEF Prune
<1>3. RegistryTypeOK' /\ UnusedIdsAbsent' /\ ListingIdsUntouched'
  BY DEF Prune
<1>4. LiveIdsRegistered' /\ CallersEntitled' /\ NoOrphanedListing'
  BY DEF Prune
<1> QED BY <1>1, <1>2, <1>3, <1>4

(* The loop has no key left: nothing it owed is forgotten. *)
LEMMA UnsubscribeReturnKeeps ==
  ASSUME NEW w \in Worker, RegistryInv, UnsubscribeReturn(w)
  PROVE  RegistryInv'
<1>1. FramesClean'
  BY DEF UnsubscribeReturn
<1>2. NoOrphanedListing'
  BY DEF UnsubscribeReturn
<1>3. RegistryTypeOK' /\ UnusedIdsAbsent' /\ ListingIdsUntouched'
  BY DEF UnsubscribeReturn
<1>4. LiveIdsRegistered' /\ CallersEntitled' /\ EmptyEntriesPending'
  BY DEF UnsubscribeReturn
<1> QED BY <1>1, <1>2, <1>3, <1>4

(* Only closed ids are remembered as dead. *)
LEMMA FanKeyKeeps ==
  ASSUME NEW k \in Key, RegistryInv, FanKey(k)
  PROVE  RegistryInv'
<1>1. UnusedIdsAbsent'
  BY DEF FanKey, TrySend
<1>2. ListingIdsUntouched'
  BY DEF FanKey, TrySend
<1>3. CallersEntitled'
  BY DEF FanKey, TrySend
<1>4. RegistryTypeOK' /\ LiveIdsRegistered' /\ FramesClean'
  BY DEF FanKey, TrySend
<1>5. NoOrphanedListing' /\ EmptyEntriesPending'
  BY DEF FanKey, TrySend
<1> QED BY <1>1, <1>2, <1>3, <1>4, <1>5

(* Only closed ids are remembered as dead. *)
LEMMA FanBroadcastKeeps ==
  ASSUME RegistryInv, FanBroadcast
  PROVE  RegistryInv'
<1>1. UnusedIdsAbsent'
  BY DEF FanBroadcast, TrySend
<1>2. ListingIdsUntouched'
  BY DEF FanBroadcast, TrySend
<1>3. CallersEntitled'
  BY DEF FanBroadcast, TrySend
<1>4. RegistryTypeOK' /\ LiveIdsRegistered' /\ FramesClean'
  BY DEF FanBroadcast, TrySend
<1>5. NoOrphanedListing' /\ EmptyEntriesPending'
  BY DEF FanBroadcast, TrySend
<1> QED BY <1>1, <1>2, <1>3, <1>4, <1>5

(* The dispatcher's target is an id found closed, and ids never reopen. *)
LEMMA ReapKeeps ==
  ASSUME NEW s \in Subscriber, RegistryInv, Reap(s)
  PROVE  RegistryInv'
<1>1. CallersEntitled'
  BY DEF Reap
<1>2. UnusedIdsAbsent'
  BY DEF Reap
<1>3. NoOrphanedListing'
  BY DEF Reap
<1>4. RegistryTypeOK' /\ ListingIdsUntouched' /\ LiveIdsRegistered'
  BY DEF Reap
<1>5. FramesClean' /\ EmptyEntriesPending'
  BY DEF Reap
<1> QED BY <1>1, <1>2, <1>3, <1>4, <1>5

(* The id that leaves the broadcast map is closed. *)
LEMMA ReapBroadcastKeeps ==
  ASSUME NEW s \in Subscriber, RegistryInv, ReapBroadcast(s)
  PROVE  RegistryInv'
<1>1. LiveIdsRegistered'
  BY DEF ReapBroadcast
<1>2. RegistryTypeOK' /\ UnusedIdsAbsent' /\ ListingIdsUntouched' /\ CallersEntitled'
  BY DEF ReapBroadcast
<1>3. FramesClean' /\ NoOrphanedListing' /\ EmptyEntriesPending'
  BY DEF ReapBroadcast
<1> QED BY <1>1, <1>2, <1>3

(* The frame is idle when the target is reset. *)
LEMMA FanOutReturnKeeps ==
  ASSUME RegistryInv, FanOutReturn
  PROVE  RegistryInv'
<1>1. UnusedIdsAbsent'
  BY DEF FanOutReturn
<1>2. CallersEntitled'
  BY DEF FanOutReturn
<1>3. RegistryTypeOK' /\ ListingIdsUntouched' /\ LiveIdsRegistered'
  BY DEF FanOutReturn
<1>4. FramesClean' /\ NoOrphanedListing' /\ EmptyEntriesPending'
  BY DEF FanOutReturn
<1> QED BY <1>1, <1>2, <1>3, <1>4

LEMMA RegistryInitEstablishes == RegistryInit => RegistryInv
BY DEF RegistryInit

LEMMA RegistryNextKeeps == RegistryInv /\ [RegistryNext]_registry_vars => RegistryInv'
<1> SUFFICES ASSUME RegistryInv, [RegistryNext]_registry_vars PROVE RegistryInv'
  OBVIOUS
<1> USE DEF Owner, Unsubscribe, FanOut
<1>1. CASE \E s \in Subscriber : Owner(s)
  BY <1>1, SubscribeKeeps, ListKeyKeeps, SubscribeReturnKeeps, SubscribeAllKeeps,
     ReceiveKeeps, DropReceiverKeeps, UnsubscribeCallKeeps
<1>2. CASE \E w \in Worker : Unsubscribe(w)
  BY <1>2, UnlistKeeps, ForgetKeeps, RetainKeeps, PruneKeeps, UnsubscribeReturnKeeps
<1>3. CASE FanOut
  BY <1>3, FanKeyKeeps, FanBroadcastKeeps, ReapKeeps, ReapBroadcastKeeps, FanOutReturnKeeps
<1>4. CASE UNCHANGED registry_vars
  BY <1>4 DEF registry_vars
<1> QED BY <1>1, <1>2, <1>3, <1>4 DEF RegistryNext

(* The strengthened invariant holds in every reachable state. *)
THEOREM RegistryInvariant == RegistrySpec => []RegistryInv
BY RegistryInitEstablishes, RegistryNextKeeps, PTL DEF RegistrySpec

(* Every variable stays in its type: in particular no channel ever holds     *)
(* more than buffer_size notifications (try_send refuses instead).           *)
THEOREM RegistryTypeCorrect == RegistrySpec => []RegistryTypeOK
BY RegistryInvariant, PTL DEF RegistryInv

(* subscribe, unsubscribe and the dispatcher's cleanup, interleaved in any   *)
(* way, never take a live subscription out of a list it asked to be in.      *)
THEOREM LiveSubscribersStayListed == RegistrySpec => []LiveSubscribersListed
<1>1. RegistryInv => LiveSubscribersListed
  BY DEF LiveSubscribersListed
<1> QED BY <1>1, RegistryInvariant, PTL

(* Every listing can still be found by somebody who will remove it, so no    *)
(* id is left behind in a list after its unsubscribe.                        *)
THEOREM NoListingOrphaned == RegistrySpec => []NoOrphanedListing
<1>1. RegistryInv => NoOrphanedListing
  BY DEF RegistryInv
<1> QED BY <1>1, RegistryInvariant, PTL

(* Once no unsubscribe is running, per_key holds no empty entry. *)
THEOREM EntriesPruned == RegistrySpec => []NoEmptyEntryAtRest
<1>1. RegistryInv => NoEmptyEntryAtRest
  BY DEF NoEmptyEntryAtRest
<1> QED BY <1>1, RegistryInvariant, PTL
=============================================================================
