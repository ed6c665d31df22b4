---------------------------- MODULE AtomicSeries ----------------------------
(***************************************************************************)
(* What the time-series cache promises its callers about one key: a call   *)
(* changes the entry at one instant between its begin and its return, as   *)
(* if no other call were running.  Nothing here loads, compares or         *)
(* retries; SeriesCache is shown to implement it.                          *)
(***************************************************************************)
EXTENDS Integers, Sequences

CONSTANTS
  Thread,     \* the callers
  Call,       \* methods with their arguments
  Entry,      \* what insert may put under the key
  Absent      \* the key has no entry

VARIABLES
  series,     \* Absent, or the current value and the history of the key
  status,     \* status[t]: "none", "waiting" for its effect, or "done"
  asked       \* asked[t]: the last call t made

SeriesInit ==
  /\ series = Absent
  /\ status = [t \in Thread |-> "none"]
  /\ asked = [t \in Thread |-> Absent]

(* What a call makes of the entry. *)
Effect(e, c) ==
  CASE c.method = "update_current" -> [e EXCEPT !.current = c.value]
    [] c.method = "update_history" -> [e EXCEPT !.history = [@ EXCEPT ![c.index] = c.value]]
    [] c.method = "append_history" -> [e EXCEPT !.history = Append(@, c.value)]

InBounds(e, c) == c.method = "update_history" => c.index <= Len(e.history)

Replace ==
  /\ series' \in Entry
  /\ UNCHANGED <<status, asked>>

Request(t, c) ==
  /\ series # Absent
  /\ status[t] = "none"
  /\ status' = [status EXCEPT ![t] = "waiting"]
  /\ asked' = [asked EXCEPT ![t] = c]
  /\ UNCHANGED series

Apply(t) ==
  /\ status[t] = "waiting"
  /\ InBounds(series, asked[t])
  /\ series' = Effect(series, asked[t])
  /\ status' = [status EXCEPT ![t] = "done"]
  /\ UNCHANGED asked

Refuse(t) ==
  /\ status[t] = "waiting"
  /\ ~ InBounds(series, asked[t])
  /\ status' = [status EXCEPT ![t] = "none"]
  /\ UNCHANGED <<series, asked>>

Return(t) ==
  /\ status[t] = "done"
  /\ status' = [status EXCEPT ![t] = "none"]
  /\ UNCHANGED <<series, asked>>

SeriesNext ==
  \/ Replace
  \/ \E t \in Thread, c \in Call : Request(t, c)
  \/ \E t \in Thread : Apply(t) \/ Refuse(t) \/ Return(t)

SeriesSpec == SeriesInit /\ [][SeriesNext]_<<series, status, asked>>
=============================================================================
