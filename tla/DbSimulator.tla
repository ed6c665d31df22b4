---------------------------- MODULE DbSimulator ----------------------------
(***************************************************************************)
(* The writing simulator of crates/calce-api/src/db_simulator.rs: start    *)
(* and stop, called by administrators at any moment, around a flag, a      *)
(* tokio::sync::Notify and the handle of the task that run_loop runs in.   *)
(*                                                                         *)
(* A step is what runs between two points where another task can come in:  *)
(* an access to the flag, a notification, a lock, a poll of the select.    *)
(* What a tick writes, the configuration and the counters are left out.    *)
(***************************************************************************)
EXTENDS Integers, Sequences, FiniteSets

CONSTANTS
  Admin,    \* the requests that can be in flight at once
  MaxStarts \* bound: calls of start that found the simulator stopped

ASSUME AdminAssumption == IsFiniteSet(Admin)
ASSUME MaxStartsAssumption == MaxStarts \in Nat

VARIABLES
  running,   \* the flag
  call,      \* the call each request is in, and the loop it is about
  handle,    \* the loop whose JoinHandle is stored, 0 if none
  loop,      \* every run_loop spawned so far
  permit,    \* Notify: a notification nobody was waiting for
  merged,    \* notifications that found the permit already there
  abandoned, \* starts whose client left before the loop was spawned
  disturbed  \* two calls overlapped, or one was abandoned

sim == <<handle, loop>>
notify == <<permit, merged>>
simulator_vars == <<running, call, sim, notify, abandoned, disturbed>>

Phase == {"ready", "parked", "woken", "ticking", "done"}
At == {"idle", "configure", "save", "signal", "take", "join"}

Calls == [at : At, loop : 0 .. MaxStarts]
Idle == [at |-> "idle", loop |-> 0]

Spawned == 1 .. Len(loop)
Live == {l \in Spawned : loop[l] # "done"}
Woken == {l \in Spawned : loop[l] = "woken"}
InCall(at) == {a \in Admin : call[a].at = at}

SimulatorTypeOK ==
  /\ running \in BOOLEAN
  /\ loop \in Seq(Phase)
  /\ Len(loop) <= MaxStarts
  /\ call \in [Admin -> Calls]
  /\ \A a \in Admin : IF call[a].at \in {"save", "join"}
                    THEN call[a].loop \in Spawned
                    ELSE call[a].loop = 0
  /\ handle \in 0 .. Len(loop)
  /\ permit \in BOOLEAN
  /\ merged \in Nat
  /\ abandoned \in Nat
  /\ disturbed \in BOOLEAN

SimulatorInit ==
  /\ running = FALSE
  /\ call = [a \in Admin |-> Idle]
  /\ handle = 0
  /\ loop = <<>>
  /\ permit = FALSE
  /\ merged = 0
  /\ abandoned = 0
  /\ disturbed = FALSE

-----------------------------------------------------------------------------
(* Notify::notify_one, called while the loops are as in l.  Which of several *)
(* waiting loops hears it makes no difference here.                         *)

Parked(l) == {i \in DOMAIN l : l[i] = "parked"}

(* Faulty: only who is waiting is notified, as by notify_waiters. *)
NotifyWaiting(l) ==
  /\ \/ \E i \in Parked(l) : loop' = [l EXCEPT ![i] = "woken"]
     \/ Parked(l) = {} /\ loop' = l
  /\ UNCHANGED <<permit, merged>>

NotifyOne(l) ==
  \/ /\ \E i \in Parked(l) : loop' = [l EXCEPT ![i] = "woken"]
     /\ UNCHANGED <<permit, merged>>
  \/ /\ Parked(l) = {}
     /\ loop' = l
     /\ permit' = TRUE
     /\ merged' = IF permit THEN merged + 1 ELSE merged

-----------------------------------------------------------------------------
(* start and stop.                                                          *)

Goto(a, at) == call' = [call EXCEPT ![a].at = at]
Overlaps(a) == \E b \in Admin \ {a} : call[b].at # "idle"

(* start found the flag down.  One that finds it up returns and does nothing. *)
Start(a) ==
  /\ call[a].at = "idle"
  /\ Len(loop) + Cardinality(InCall("configure")) + abandoned < MaxStarts
  /\ ~ running
  /\ running' = TRUE
  /\ Goto(a, "configure")
  /\ disturbed' = (disturbed \/ Overlaps(a))
  /\ UNCHANGED <<sim, notify, abandoned>>

(* The configuration is stored and the loop spawned. *)
Spawn(a) ==
  /\ call[a].at = "configure"
  /\ loop' = Append(loop, "ready")
  /\ call' = [call EXCEPT ![a] = [at |-> "save", loop |-> Len(loop')]]
  /\ UNCHANGED <<running, handle, notify, abandoned, disturbed>>

(* stop holds the handle's mutex for as long as it waits for the loop. *)
HandleFree == \A a \in Admin : call[a].at # "join"

Save(a) ==
  /\ call[a].at = "save"
  /\ HandleFree
  /\ handle' = call[a].loop
  /\ call' = [call EXCEPT ![a] = Idle]
  /\ UNCHANGED <<running, loop, notify, abandoned, disturbed>>

(* stop found the flag up.  One that finds it down returns. *)
Stop(a) ==
  /\ call[a].at = "idle"
  /\ running
  /\ running' = FALSE
  /\ Goto(a, "signal")
  /\ disturbed' = (disturbed \/ Overlaps(a))
  /\ UNCHANGED <<sim, notify, abandoned>>

Signal(a) ==
  /\ call[a].at = "signal"
  /\ NotifyOne(loop)
  /\ Goto(a, "take")
  /\ UNCHANGED <<running, handle, abandoned, disturbed>>

(* Faulty: the handle is dropped instead of awaited. *)
TakeDetached(a) ==
  /\ call[a].at = "take"
  /\ HandleFree
  /\ handle' = 0
  /\ call' = [call EXCEPT ![a] = Idle]
  /\ UNCHANGED <<running, loop, notify, abandoned, disturbed>>

Take(a) ==
  /\ call[a].at = "take"
  /\ HandleFree
  /\ handle' = 0
  /\ call' = [call EXCEPT ![a] = IF handle = 0 THEN Idle ELSE [at |-> "join", loop |-> handle]]
  /\ UNCHANGED <<running, loop, notify, abandoned, disturbed>>

Join(a) ==
  /\ call[a].at = "join"
  /\ loop[call[a].loop] = "done"
  /\ call' = [call EXCEPT ![a] = Idle]
  /\ UNCHANGED <<running, sim, notify, abandoned, disturbed>>

(* The client is gone and its handler is dropped where it awaits: a lock is  *)
(* not taken, a handle it has is detached, a mutex it holds is released.    *)
Abandon(a) ==
  /\ call[a].at \in {"configure", "save", "take", "join"}
  /\ call' = [call EXCEPT ![a] = Idle]
  /\ abandoned' = IF call[a].at = "configure" THEN abandoned + 1 ELSE abandoned
  /\ disturbed' = TRUE
  /\ UNCHANGED <<running, sim, notify>>

-----------------------------------------------------------------------------
(* run_loop.                                                                *)

(* The select is polled: nothing is ready, the loop waits. *)
Park(l) ==
  /\ loop[l] = "ready"
  /\ ~ permit
  /\ loop' = [loop EXCEPT ![l] = "parked"]
  /\ UNCHANGED <<running, call, handle, notify, abandoned, disturbed>>

(* notified() is ready: by the permit, or because this loop was woken. *)
Finish(l) ==
  /\ \/ loop[l] = "ready" /\ permit /\ permit' = FALSE
     \/ loop[l] = "woken" /\ UNCHANGED permit
  /\ loop' = [loop EXCEPT ![l] = "done"]
  /\ UNCHANGED <<running, call, handle, merged, abandoned, disturbed>>

(* sleep() is ready, and is polled first: the other future is dropped, and a *)
(* notification it had already been given goes on to the next.              *)
Tick(l) ==
  /\ \/ /\ loop[l] \in {"ready", "parked"}
        /\ loop' = [loop EXCEPT ![l] = "ticking"]
        /\ UNCHANGED <<permit, merged>>
     \/ /\ loop[l] = "woken"
        /\ NotifyOne([loop EXCEPT ![l] = "ticking"])
  /\ UNCHANGED <<running, call, handle, abandoned, disturbed>>

TickDone(l) ==
  /\ loop[l] = "ticking"
  /\ loop' = [loop EXCEPT ![l] = "ready"]
  /\ UNCHANGED <<running, call, handle, notify, abandoned, disturbed>>

SimulatorNext ==
  \/ \E a \in Admin :
       \/ Start(a)
       \/ Spawn(a)
       \/ Save(a)
       \/ Stop(a)
       \/ Signal(a)
       \/ Take(a)
       \/ Join(a)
       \/ Abandon(a)
  \/ \E l \in Spawned :
       \/ Park(l)
       \/ Finish(l)
       \/ Tick(l)
       \/ TickDone(l)

(* Tasks are scheduled.  The select polls its two futures in random order,   *)
(* so that a notification cannot be passed over for ever; the mutex is fair. *)
Fairness ==
  /\ \A a \in Admin :
       /\ WF_simulator_vars(Spawn(a)) /\ WF_simulator_vars(Signal(a)) /\ WF_simulator_vars(Join(a))
       /\ SF_simulator_vars(Save(a)) /\ SF_simulator_vars(Take(a))
  /\ \A l \in 1 .. MaxStarts :
       /\ WF_simulator_vars(l \in Spawned /\ Park(l)) /\ WF_simulator_vars(l \in Spawned /\ TickDone(l))
       /\ SF_simulator_vars(l \in Spawned /\ Finish(l))

SimulatorSpec == SimulatorInit /\ [][SimulatorNext]_simulator_vars /\ Fairness

-----------------------------------------------------------------------------
Count(b) == IF b THEN 1 ELSE 0

(* Every loop is paid for: it runs because the flag is up, or the            *)
(* notification that will end it is on its way, or that one was absorbed by  *)
(* another.  And no notification is on its way that no loop will take,       *)
(* unless a start gave up after it had raised the flag.                      *)
LoopsAccounted ==
  Cardinality(Live) + Cardinality(InCall("configure")) + abandoned =
    Count(running) + Cardinality(InCall("signal")) + Cardinality(Woken) + Count(permit) + merged

(* When stop has answered, and calls never overlapped, nothing writes to the *)
(* database any more and no permit is left that would end a later loop.      *)
StoppedMeansStopped ==
  ~ disturbed /\ ~ running /\ InCall("idle") = Admin => Live = {} /\ ~ permit

(* stop answers, unless calls overlapped: the loop it waits for, with the    *)
(* mutex in its hand, does get the notification.                            *)
StopReturns ==
  \A a \in Admin : call[a].at = "join" ~> call[a].at # "join" \/ disturbed
=============================================================================
