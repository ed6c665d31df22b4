-------------------------- MODULE LiveUpdatesProofs --------------------------
(***************************************************************************)
(* What TLAPS proves of the update pipeline, for any number of keys,       *)
(* writers and subscribers and any channel sizes.                          *)
(*                                                                         *)
(* StaleOnlyWhileSignalled follows each signal from hand to hand and is    *)
(* inductive together with the types.  ShutdownDrains also needs where the *)
(* dispatcher can be once stop was called.                                 *)
(***************************************************************************)
EXTENDS LiveUpdates, FiniteSetTheorems, TLAPS

(* The last rounds are for a dispatcher that heard of the stop, and the      *)
(* last flush begins with nothing owed to the callers before it.            *)
LastRounds ==
  /\ task \in {"lastdrain", "lastflush", "stopped"} => stop
  /\ ShutdownDrains

PipelineInv == TypeOK /\ StaleOnlyWhileSignalled /\ LastRounds

USE LiveUpdatesAssumption, NothingAssumption
  DEF PipelineInv, TypeOK, StaleOnlyWhileSignalled, LastRounds, ShutdownDrains,
      InFlight, InChannel, InInbox, Running, Outside

(* What append and tail do to the elements of a channel. *)
LEMMA AppendElements ==
  ASSUME NEW q \in Seq(Event), NEW x \in Event
  PROVE  /\ Append(q, x) \in Seq(Event)
         /\ Len(Append(q, x)) = Len(q) + 1
         /\ \E i \in 1 .. Len(Append(q, x)) : Append(q, x)[i] = x
         /\ \A i \in 1 .. Len(q) : i \in 1 .. Len(Append(q, x)) /\ Append(q, x)[i] = q[i]
<1>1. Len(Append(q, x)) = Len(q) + 1 /\ Len(q) \in Nat
  OBVIOUS
<1>2. Append(q, x)[Len(q) + 1] = x
  OBVIOUS
<1> QED BY <1>1, <1>2

LEMMA TailElements ==
  ASSUME NEW q \in Seq(Event), q # <<>>
  PROVE  /\ Head(q) \in Event
         /\ Tail(q) \in Seq(Event)
         /\ Len(Tail(q)) = Len(q) - 1
         /\ Len(q) \in Nat \ {0}
         /\ \A i \in 1 .. Len(q) :
              q[i] = Head(q) \/ \E j \in 1 .. Len(Tail(q)) : Tail(q)[j] = q[i]
<1>1. Head(q) = q[1] /\ Len(q) \in Nat \ {0} /\ Tail(q) \in Seq(Event)
  OBVIOUS
<1>2. Len(Tail(q)) = Len(q) - 1
  OBVIOUS
<1>3. \A j \in 1 .. Len(q) - 1 : Tail(q)[j] = q[j + 1]
  OBVIOUS
<1>4. ASSUME NEW i \in 1 .. Len(q), i # 1
      PROVE  \E j \in 1 .. Len(Tail(q)) : Tail(q)[j] = q[i]
  <2>1. i - 1 \in 1 .. Len(q) - 1 /\ (i - 1) + 1 = i
    BY <1>1, <1>4
  <2> QED BY <1>2, <1>3, <2>1
<1> QED BY <1>1, <1>2, <1>4

(* The store makes every subscriber stale about e and the writer owe e. *)
LEMMA StoreKeeps ==
  ASSUME NEW w \in Writer, NEW e \in Event, PipelineInv, Store(w, e)
  PROVE  PipelineInv'
<1>1. TypeOK' /\ LastRounds'
  BY DEF Store
<1>2. StaleOnlyWhileSignalled'
  BY DEF Store
<1> QED BY <1>1, <1>2

(* What the writer owed is in the channel, or counted as missed. *)
LEMMA SignalKeeps ==
  ASSUME NEW w \in Writer, PipelineInv, Signal(w)
  PROVE  PipelineInv'
<1>1. owed[w] \in Event
  BY DEF Signal
<1>2. TypeOK'
  <2>1. channel' \in Seq(Event) /\ Len(channel') <= ChannelSize /\ promised' \in 0 .. Len(channel')
    <3>1. CASE Len(channel) < ChannelSize /\ channel' = Append(channel, owed[w])
      BY <1>1, <3>1, AppendElements DEF Signal
    <3>2. CASE UNCHANGED channel
      BY <3>2 DEF Signal
    <3> QED BY <3>1, <3>2 DEF Signal
  <2>2. owed' \in [Writer -> Event \union {Nothing}] /\ missed' \in [Subscriber -> SUBSET Event]
    BY <1>1 DEF Signal
  <2> QED BY <2>1, <2>2 DEF Signal
<1>3. CASE channel' = Append(channel, owed[w])
  <2>1. \A e \in Event : InChannel(e) \/ e = owed[w] => InChannel(e)'
    <3>1. /\ \E i \in 1 .. Len(channel') : channel'[i] = owed[w]
          /\ \A i \in 1 .. Len(channel) :
               i \in 1 .. Len(channel') /\ channel'[i] = channel[i]
      BY <1>1, <1>3, AppendElements
    <3> QED BY <3>1
  <2>2. \A s \in Subscriber, e \in Event : InFlight(s, e) => InFlight(s, e)'
    BY <2>1 DEF Signal
  <2>3. version' = version /\ seen' = seen /\ missed \in [Subscriber -> SUBSET Event]
    BY DEF Signal
  <2>4. missed' = missed
    BY <1>3 DEF Signal
  <2>5. StaleOnlyWhileSignalled'
    <3> SUFFICES ASSUME NEW s \in Subscriber, NEW e \in Event, seen'[s][e] # version'[e]
                 PROVE  InFlight(s, e)' \/ e \in missed'[s]
      OBVIOUS
    <3>1. InFlight(s, e) \/ e \in missed[s]
      BY <2>3
    <3> QED BY <3>1, <2>2, <2>4
  <2> QED BY <1>2, <2>5 DEF Signal
<1>4. CASE missed' = [s \in Subscriber |-> missed[s] \union {owed[w]}] /\ UNCHANGED channel
  BY <1>2, <1>4 DEF Signal
<1> QED BY <1>3, <1>4 DEF Signal

LEMMA StartKeeps == ASSUME PipelineInv, Start PROVE PipelineInv'
BY DEF Start

LEMMA ShutdownKeeps == ASSUME PipelineInv, Shutdown PROVE PipelineInv'
BY DEF Shutdown

(* The event at the head moves into pending. *)
LEMMA CoalesceMoves ==
  ASSUME PipelineInv, Coalesce, UNCHANGED Outside
  PROVE  /\ channel' \in Seq(Event) /\ Len(channel') <= ChannelSize
         /\ pending' \subseteq Event
         /\ promised' \in 0 .. Len(channel')
         /\ stats' \in [Stat -> Nat]
         /\ StaleOnlyWhileSignalled'
<1>1. /\ Head(channel) \in Event /\ channel' \in Seq(Event)
      /\ Len(channel') = Len(channel) - 1 /\ Len(channel) \in Nat \ {0}
  BY TailElements DEF Coalesce
<1>2. promised' \in 0 .. Len(channel')
  BY <1>1 DEF Coalesce
<1>3. stats' \in [Stat -> Nat]
  BY SMTT(30) DEF Coalesce, Stat
<1>4. \A e \in Event : InChannel(e) \/ e \in pending => InChannel(e)' \/ e \in pending'
  <2>1. /\ channel # <<>> /\ channel' = Tail(channel)
        /\ pending' = pending \union {Head(channel)}
    BY DEF Coalesce
  <2>2. \A i \in 1 .. Len(channel) :
          channel[i] = Head(channel) \/ \E j \in 1 .. Len(channel') : channel'[j] = channel[i]
    BY <2>1, TailElements
  <2> QED BY <2>1, <2>2
<1>5. StaleOnlyWhileSignalled'
  BY <1>4
<1>6. Len(channel') <= ChannelSize
  BY <1>1
<1>7. pending' \subseteq Event
  BY <1>1 DEF Coalesce
<1> QED BY <1>1, <1>2, <1>3, <1>5, <1>6, <1>7

LEMMA HearStopKeeps == ASSUME PipelineInv, HearStop PROVE PipelineInv'
BY DEF HearStop

LEMMA ReceiveFirstKeeps == ASSUME PipelineInv, ReceiveFirst PROVE PipelineInv'
<1>1. TypeOK'
  BY CoalesceMoves DEF ReceiveFirst
<1> QED BY <1>1, CoalesceMoves DEF ReceiveFirst

LEMMA DrainOneKeeps == ASSUME PipelineInv, DrainOne PROVE PipelineInv'
<1>1. TypeOK'
  BY CoalesceMoves DEF DrainOne
<1> QED BY <1>1, CoalesceMoves DEF DrainOne

(* An empty channel owes nothing, so the last flush begins even. *)
LEMMA DrainedKeeps == ASSUME PipelineInv, Drained PROVE PipelineInv'
<1>1. promised = 0
  BY DEF Drained
<1>2. /\ task \in {"drain", "redrain", "lastdrain"}
      /\ task' = CASE task = "drain" -> "sleep"
                   [] task = "redrain" -> "flush"
                   [] task = "lastdrain" -> "lastflush"
  BY DEF Drained, DrainedTo
<1> QED BY <1>1, <1>2 DEF Drained

LEMMA WindowOverKeeps == ASSUME PipelineInv, WindowOver PROVE PipelineInv'
BY DEF WindowOver

(* Every subscriber has the event in its inbox or is counted as missing it. *)
LEMMA FanOutKeeps ==
  ASSUME NEW e \in Event, PipelineInv, FanOut(e)
  PROVE  PipelineInv'
<1>1. Cardinality(Reached) \in Nat /\ Cardinality(Subscriber \ Reached) \in Nat
  BY FS_Subset, FS_CardinalityType DEF Reached
<1>2. stats' \in [Stat -> Nat]
  <2>1. /\ stats["sent"] + Cardinality(Reached) \in Nat
        /\ stats["dropped"] + Cardinality(Subscriber \ Reached) \in Nat
    BY <1>1 DEF Stat
  <2>2. stats' = [stats EXCEPT !["sent"] = @ + Cardinality(Reached),
                               !["dropped"] = @ + Cardinality(Subscriber \ Reached)]
    BY DEF FanOut
  <2> QED BY <2>1, <2>2 DEF Stat
<1>3. \A s \in Subscriber :
        /\ inbox'[s] \in Seq(Event) /\ Len(inbox'[s]) <= Buffer
        /\ \A x \in Event : InInbox(s, x) => InInbox(s, x)'
        /\ InInbox(s, e)' \/ e \in missed'[s]
        /\ missed[s] \subseteq missed'[s]
  <2> SUFFICES ASSUME NEW s \in Subscriber
               PROVE  /\ inbox'[s] \in Seq(Event) /\ Len(inbox'[s]) <= Buffer
                      /\ \A x \in Event : InInbox(s, x) => InInbox(s, x)'
                      /\ InInbox(s, e)' \/ e \in missed'[s]
                      /\ missed[s] \subseteq missed'[s]
    OBVIOUS
  <2>1. CASE Fits(s)
    <3>1. inbox'[s] = Append(inbox[s], e) /\ missed'[s] = missed[s]
      BY <2>1 DEF FanOut
    <3>2. Len(inbox[s]) < Buffer /\ Len(inbox[s]) \in Nat /\ inbox[s] \in Seq(Event)
      BY <2>1 DEF Fits
    <3>3. /\ inbox'[s] \in Seq(Event) /\ Len(inbox'[s]) = Len(inbox[s]) + 1
          /\ \E i \in 1 .. Len(inbox'[s]) : inbox'[s][i] = e
          /\ \A i \in 1 .. Len(inbox[s]) :
               i \in 1 .. Len(inbox'[s]) /\ inbox'[s][i] = inbox[s][i]
      <4> DEFINE q == inbox[s]
      <4>1. q \in Seq(Event)
        BY <3>2
      <4>2. inbox'[s] = Append(q, e)
        BY <3>1
      <4> HIDE DEF q
      <4>3. /\ Append(q, e) \in Seq(Event) /\ Len(Append(q, e)) = Len(q) + 1
            /\ \E i \in 1 .. Len(Append(q, e)) : Append(q, e)[i] = e
            /\ \A i \in 1 .. Len(q) : i \in 1 .. Len(Append(q, e)) /\ Append(q, e)[i] = q[i]
        BY <4>1, AppendElements
      <4> QED BY <4>2, <4>3 DEF q
    <3>4. Len(inbox'[s]) <= Buffer
      BY <3>2, <3>3
    <3> QED BY <3>1, <3>3, <3>4
  <2>2. CASE ~ Fits(s)
    <3>1. inbox'[s] = inbox[s] /\ missed'[s] = missed[s] \union {e}
      BY <2>2 DEF FanOut
    <3> QED BY <3>1
  <2> QED BY <2>1, <2>2
<1>4. inbox' \in [Subscriber -> Seq(Event)] /\ missed' \in [Subscriber -> SUBSET Event]
  BY <1>3 DEF FanOut
<1>5. TypeOK' /\ LastRounds'
  BY <1>2, <1>3, <1>4 DEF FanOut
<1>6. StaleOnlyWhileSignalled'
  <2> SUFFICES ASSUME NEW s \in Subscriber, NEW x \in Event, seen'[s][x] # version'[x]
               PROVE  InFlight(s, x)' \/ x \in missed'[s]
    OBVIOUS
  <2>1. InFlight(s, x) \/ x \in missed[s]
    BY DEF FanOut
  <2>2. InChannel(x)' = InChannel(x) /\ owed' = owed /\ (x \in pending => x = e \/ x \in pending')
    BY DEF FanOut
  <2>3. (InInbox(s, x) => InInbox(s, x)') /\ (x \in missed[s] => x \in missed'[s])
    BY <1>3
  <2>4. x = e => InInbox(s, x)' \/ x \in missed'[s]
    BY <1>3
  <2> HIDE DEF PipelineInv, TypeOK, StaleOnlyWhileSignalled, InInbox, InChannel
  <2> QED BY <2>1, <2>2, <2>3, <2>4
<1> QED BY <1>5, <1>6

LEMMA FlushedKeeps == ASSUME PipelineInv, Flushed PROVE PipelineInv'
BY DEF Flushed

(* What is still in the channel when the receiver is dropped is missed. *)
LEMMA FinishKeeps == ASSUME PipelineInv, Finish PROVE PipelineInv'
<1>1. DOMAIN channel = 1 .. Len(channel) /\ \A i \in DOMAIN channel : channel[i] \in Event
  OBVIOUS
<1>2. TypeOK' /\ LastRounds'
  BY <1>1 DEF Finish
<1>3. \A s \in Subscriber, e \in Event : InChannel(e) => e \in missed'[s]
  BY <1>1 DEF Finish
<1>4. StaleOnlyWhileSignalled'
  BY <1>3 DEF Finish
<1> QED BY <1>2, <1>4

(* The signal is used up and the value it is about is fresh. *)
LEMMA RefetchKeeps ==
  ASSUME NEW s \in Subscriber, PipelineInv, Refetch(s)
  PROVE  PipelineInv'
<1> DEFINE e == Head(inbox[s])
<1>1. /\ e \in Event /\ Tail(inbox[s]) \in Seq(Event)
      /\ Len(Tail(inbox[s])) = Len(inbox[s]) - 1 /\ Len(inbox[s]) \in Nat \ {0}
  BY TailElements DEF Refetch
<1>2. inbox' = [inbox EXCEPT ![s] = Tail(inbox[s])]
  BY DEF Refetch
<1>3. seen' = [seen EXCEPT ![s][e] = version[e]] /\ missed' = [missed EXCEPT ![s] = @ \ {e}]
  BY DEF Refetch
<1>4. TypeOK' /\ LastRounds'
  BY <1>1, <1>2, <1>3, SMTT(30) DEF Refetch
<1>5. \A r \in Subscriber, x \in Event :
        InInbox(r, x) /\ (r # s \/ x # e) => InInbox(r, x)'
  <2> SUFFICES ASSUME NEW r \in Subscriber, NEW x \in Event, InInbox(r, x), r # s \/ x # e
               PROVE  InInbox(r, x)'
    OBVIOUS
  <2>1. CASE r = s
    <3>1. inbox'[s] = Tail(inbox[s]) /\ inbox[s] \in Seq(Event) /\ inbox[s] # <<>>
      BY <1>2 DEF Refetch
    <3>2. \A i \in 1 .. Len(inbox[s]) :
            inbox[s][i] = e \/ \E j \in 1 .. Len(inbox'[s]) : inbox'[s][j] = inbox[s][i]
      <4> DEFINE q == inbox[s]
      <4>1. q \in Seq(Event) /\ q # <<>>
        BY <3>1
      <4>2. inbox'[s] = Tail(q)
        BY <3>1
      <4> HIDE DEF q
      <4>3. \A i \in 1 .. Len(q) :
              q[i] = Head(q) \/ \E j \in 1 .. Len(Tail(q)) : Tail(q)[j] = q[i]
        BY <4>1, TailElements
      <4> QED BY <4>2, <4>3 DEF q
    <3> QED BY <2>1, <3>2
  <2>2. CASE r # s
    BY <1>2, <2>2
  <2> QED BY <2>1, <2>2
<1>6. seen'[s][e] = version'[e]
  BY <1>1, <1>3 DEF Refetch
<1>7. StaleOnlyWhileSignalled'
  <2> SUFFICES ASSUME NEW r \in Subscriber, NEW x \in Event, seen'[r][x] # version'[x]
               PROVE  InFlight(r, x)' \/ x \in missed'[r]
    OBVIOUS
  <2>1. r # s \/ x # e
    BY <1>6
  <2>2. seen'[r][x] = seen[r][x] /\ version' = version
    BY <1>1, <1>3, <2>1 DEF Refetch
  <2>3. InFlight(r, x) \/ x \in missed[r]
    BY <2>2
  <2>4. x \in missed[r] => x \in missed'[r]
    BY <1>3, <2>1
  <2>5. InFlight(r, x) => InFlight(r, x)'
    <3>1. InInbox(r, x) => InInbox(r, x)'
      BY <1>5, <2>1
    <3>2. owed' = owed /\ channel' = channel /\ pending' = pending
      BY DEF Refetch
    <3> HIDE DEF PipelineInv, TypeOK, StaleOnlyWhileSignalled, InInbox
    <3> QED BY <3>1, <3>2
  <2> QED BY <2>3, <2>4, <2>5
<1> QED BY <1>4, <1>7

LEMMA InitEstablishes == Init => PipelineInv
<1> SUFFICES ASSUME Init PROVE PipelineInv
  OBVIOUS
<1>1. channel = <<>> /\ Len(channel) = 0 /\ channel \in Seq(Event)
  BY DEF Init
<1>2. inbox \in [Subscriber -> Seq(Event)] /\ \A s \in Subscriber : Len(inbox[s]) = 0
  BY DEF Init
<1>3. \A s \in Subscriber : Len(inbox[s]) <= Buffer
  BY <1>2
<1>4. Len(channel) <= ChannelSize /\ promised \in 0 .. Len(channel)
  BY <1>1 DEF Init
<1>5. seen \in [Subscriber -> [Event -> Nat]] /\ missed \in [Subscriber -> SUBSET Event]
  BY DEF Init
<1>6. /\ version \in [Event -> Nat] /\ stats \in [Stat -> Nat]
      /\ owed \in [Writer -> Event \union {Nothing}]
  BY DEF Init
<1>7. task = "off" /\ stop \in BOOLEAN /\ pending \subseteq Event
  BY DEF Init
<1>8. TypeOK
  BY <1>1, <1>2, <1>3, <1>4, <1>5, <1>6, <1>7
<1>9. StaleOnlyWhileSignalled
  BY DEF Init
<1> QED BY <1>7, <1>8, <1>9

LEMMA NextKeeps == PipelineInv /\ [Next]_vars => PipelineInv'
<1> SUFFICES ASSUME PipelineInv, [Next]_vars PROVE PipelineInv'
  OBVIOUS
<1>1. CASE \E w \in Writer, e \in Event : Store(w, e)
  BY <1>1, StoreKeeps
<1>2. CASE \E w \in Writer : Signal(w)
  BY <1>2, SignalKeeps
<1>3. CASE Start \/ Shutdown
  BY <1>3, StartKeeps, ShutdownKeeps
<1>4. CASE Dispatch
  BY <1>4, HearStopKeeps, ReceiveFirstKeeps, DrainOneKeeps, DrainedKeeps, WindowOverKeeps,
     FanOutKeeps, FlushedKeeps, FinishKeeps DEF Dispatch
<1>5. CASE \E s \in Subscriber : Refetch(s)
  BY <1>5, RefetchKeeps
<1>6. CASE UNCHANGED vars
  BY <1>6 DEF vars
<1> QED BY <1>1, <1>2, <1>3, <1>4, <1>5, <1>6 DEF Next

(* The invariant holds in every reachable state. *)
THEOREM PipelineInvariant == Spec => []PipelineInv
BY InitEstablishes, NextKeeps, PTL DEF Spec

(* No channel ever holds more than its capacity, and every counter counts. *)
THEOREM TypeCorrect == Spec => []TypeOK
<1>1. PipelineInv => TypeOK
  OBVIOUS
<1> QED BY <1>1, PipelineInvariant, PTL

(* However stores, signals, windows and refetches interleave, a subscriber   *)
(* that shows an old value has a signal coming or was dropped on full.       *)
THEOREM NoSignalLost == Spec => []StaleOnlyWhileSignalled
<1>1. PipelineInv => StaleOnlyWhileSignalled
  OBVIOUS
<1> QED BY <1>1, PipelineInvariant, PTL

(* What the channel held when shutdown was called is out of it before the    *)
(* last flush.                                                              *)
THEOREM ShutdownDrainsChannel == Spec => []ShutdownDrains
<1>1. PipelineInv => ShutdownDrains
  OBVIOUS
<1> QED BY <1>1, PipelineInvariant, PTL

-----------------------------------------------------------------------------
(* The statistics.  Coalescing moves one on the right-hand side from what    *)
(* was received to what is pending or was pending already; a fan-out takes   *)
(* one from pending and adds one per subscriber on the left.                *)

CountInv == IsFiniteSet(pending) /\ StatsConserved

Fanned == stats["received"] - stats["coalesced"] - Cardinality(pending)

LEMMA CountersAreNumbers ==
  ASSUME PipelineInv, IsFiniteSet(pending)
  PROVE  /\ \A x \in Stat : stats[x] \in Nat
         /\ Cardinality(pending) \in Nat
         /\ Cardinality(Subscriber) \in Nat
         /\ Fanned \in Int
<1>1. Cardinality(pending) \in Nat /\ Cardinality(Subscriber) \in Nat
  BY FS_CardinalityType
<1> QED BY <1>1 DEF Fanned, Stat

(* An event taken from the channel is one more pending or one more coalesced. *)
LEMMA CoalesceCounts ==
  ASSUME PipelineInv, CountInv, Coalesce
  PROVE  CountInv'
<1> DEFINE e == Head(channel)
<1>1. IsFiniteSet(pending) /\ pending' = pending \union {e}
  BY DEF CountInv, Coalesce
<1>2. /\ IsFiniteSet(pending')
      /\ Cardinality(pending') = IF e \in pending THEN Cardinality(pending) ELSE Cardinality(pending) + 1
  BY <1>1, FS_AddElement
<1>3. /\ stats'["received"] = stats["received"] + 1
      /\ stats'["coalesced"] = IF e \in pending THEN stats["coalesced"] + 1 ELSE stats["coalesced"]
      /\ stats'["sent"] = stats["sent"] /\ stats'["dropped"] = stats["dropped"]
  BY DEF Coalesce, Stat
<1>4. Fanned' = Fanned
  BY <1>1, <1>2, <1>3, CountersAreNumbers DEF Fanned, Stat
<1> QED BY <1>2, <1>3, <1>4 DEF CountInv, StatsConserved, Fanned

(* One event offered to everybody: as many sent or dropped as subscribers. *)
LEMMA FanOutCounts ==
  ASSUME PipelineInv, CountInv, NEW e \in Event, FanOut(e)
  PROVE  CountInv'
<1> DEFINE n == Cardinality(Subscriber)
<1>1. IsFiniteSet(pending) /\ e \in pending /\ pending' = pending \ {e}
  BY DEF CountInv, FanOut
<1>2. IsFiniteSet(pending') /\ Cardinality(pending') = Cardinality(pending) - 1
  BY <1>1, FS_RemoveElement
<1>3. Cardinality(Reached) + Cardinality(Subscriber \ Reached) = n
  <2>1. Reached \subseteq Subscriber /\ IsFiniteSet(Reached) /\ IsFiniteSet(Subscriber \ Reached)
    BY FS_Subset DEF Reached
  <2>2. /\ Cardinality(Reached) \in Nat
        /\ Cardinality(Subscriber \ Reached) = n - Cardinality(Subscriber \intersect Reached)
    BY <2>1, FS_Difference, FS_CardinalityType
  <2>3. Cardinality(Subscriber \intersect Reached) = Cardinality(Reached)
    <3>1. Subscriber \intersect Reached = Reached
      BY <2>1
    <3> QED BY <3>1
  <2>4. n \in Nat
    BY FS_CardinalityType
  <2> HIDE DEF n, PipelineInv
  <2> QED BY <2>2, <2>3, <2>4
<1>4. /\ stats'["received"] = stats["received"] /\ stats'["coalesced"] = stats["coalesced"]
      /\ stats'["sent"] = stats["sent"] + Cardinality(Reached)
      /\ stats'["dropped"] = stats["dropped"] + Cardinality(Subscriber \ Reached)
  <2>1. /\ stats' = [stats EXCEPT !["sent"] = @ + Cardinality(Reached),
                                  !["dropped"] = @ + Cardinality(Subscriber \ Reached)]
        /\ stats \in [Stat -> Nat]
    BY DEF FanOut
  <2> HIDE DEF PipelineInv
  <2> QED BY <2>1 DEF Stat
<1>5. Fanned' = Fanned + 1
  <2>1. stats["received"] \in Nat /\ stats["coalesced"] \in Nat /\ Cardinality(pending) \in Nat
    BY <1>1, CountersAreNumbers DEF Stat
  <2> HIDE DEF PipelineInv
  <2> QED BY <1>2, <1>4, <2>1 DEF Fanned
<1>6. Cardinality(Reached) \in Nat /\ Cardinality(Subscriber \ Reached) \in Nat
  BY FS_Subset, FS_CardinalityType DEF Reached
<1>7. stats'["sent"] + stats'["dropped"] = (stats["sent"] + stats["dropped"]) + n
  BY <1>1, <1>3, <1>4, <1>6, CountersAreNumbers DEF Stat
<1>8. stats["sent"] + stats["dropped"] = n * Fanned
  BY DEF CountInv, StatsConserved, Fanned
<1>9. n \in Nat /\ Fanned \in Int
  BY <1>1, CountersAreNumbers
<1>10. n * Fanned + n = n * (Fanned + 1)
  <2> HIDE DEF n
  <2> QED BY <1>9
<1> QED BY <1>2, <1>5, <1>7, <1>8, <1>10 DEF CountInv, StatsConserved, Fanned

(* The counters, once all is offered, agree: what was received and not       *)
(* coalesced was offered to each subscriber once.                           *)
THEOREM StatisticsAddUp == Spec => []StatsConserved
<1>1. Init => CountInv
  <2> SUFFICES ASSUME Init PROVE CountInv
    OBVIOUS
  <2>1. pending = {} /\ \A x \in Stat : stats[x] = 0
    BY DEF Init
  <2>2. Cardinality(pending) = 0 /\ IsFiniteSet(pending) /\ Cardinality(Subscriber) \in Nat
    BY <2>1, FS_EmptySet, FS_CardinalityType
  <2> QED BY <2>1, <2>2 DEF CountInv, StatsConserved, Stat
<1>2. PipelineInv /\ CountInv /\ [Next]_vars => CountInv'
  <2> SUFFICES ASSUME PipelineInv, CountInv, [Next]_vars PROVE CountInv'
    OBVIOUS
  <2> HIDE DEF PipelineInv
  <2>1. CASE ReceiveFirst \/ DrainOne
    BY <2>1, CoalesceCounts DEF ReceiveFirst, DrainOne
  <2>2. CASE \E e \in Event : FanOut(e)
    BY <2>2, FanOutCounts
  <2>3. CASE UNCHANGED <<pending, stats>>
    BY <2>3 DEF CountInv, StatsConserved
  <2> QED BY <2>1, <2>2, <2>3
      DEF Next, Dispatch, Store, Signal, Start, Shutdown, HearStop, Drained, WindowOver,
          Flushed, Finish, Refetch, vars
<1>3. CountInv => StatsConserved
  BY DEF CountInv
<1> QED BY <1>1, <1>2, <1>3, PipelineInvariant, PTL DEF Spec
=============================================================================
