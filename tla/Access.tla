------------------------------- MODULE Access -------------------------------
(***************************************************************************)
(* What lets a request in, as far as time and other requests decide it:    *)
(* the lockout of an account after failed logins                           *)
(* (crates/calce-api/src/routes/auth.rs) and the cache that API keys are   *)
(* looked up in (crates/calce-data/src/auth).  One account and one key:    *)
(* rows and cache entries of others are never touched.                     *)
(*                                                                         *)
(* A request runs from one query to the next; between two of them any      *)
(* other request may run, time may pass, and the client may leave.         *)
(***************************************************************************)
EXTENDS Integers, FiniteSets

CONSTANTS
  Request,      \* the requests that may be open at once
  Threshold,    \* LOCKOUT_THRESHOLD
  LockTime,     \* LOCKOUT_DURATION_MINUTES
  CacheTTL,     \* CACHE_TTL
  Expiry,       \* what expires_at a key may be created with
  Never,        \* NULL
  Nothing,      \* no row, no entry
  MaxTime,      \* bounds: the clock,
  MaxLogins     \* logins

ASSUME RequestAssumption == IsFiniteSet(Request) /\ Request # {}
ASSUME TimeAssumption ==
  /\ Threshold \in Nat \ {0}
  /\ LockTime \in Nat \ {0}
  /\ CacheTTL \in Nat \ {0}
  /\ MaxTime \in Nat
  /\ MaxLogins \in Nat
ASSUME NeverAssumption == Never \notin Nat /\ Expiry \subseteq Nat \cup {Never}

VARIABLES
  clock,
  credential,  \* the row of user_credentials
  api_key,     \* the row of api_keys
  cache,       \* the entry of ApiKeyCache
  frame,       \* where each request is, and what it has read
  logins,
  failures,    \* history: failures recorded since the last reset
  locks,       \* history: how often the account was locked
  accepted,    \* history: the last acceptance of the key
  settled      \* history: the key was evicted after its revocation, with no
               \* look-up in flight that had read the row before

account == <<credential, logins, failures, locks>>
keys == <<api_key, cache, accepted, settled>>
access_vars == <<clock, account, keys, frame>>

Time == 0 .. MaxTime
Credential == [failed_attempts : Nat, locked_until : Nat \cup {Never}]
KeyRow == [expires_at : Expiry, revoked_at : Time \cup {Never}]

ASSUME NothingAssumption == Nothing \notin KeyRow

AtRest == [at |-> "idle"]
RequestFrame ==
  {AtRest}
  \cup [at : {"right", "wrong"}, credential : Credential, locks : Nat]
  \cup [at : {"miss", "evict"}]
  \cup [at : {"found"}, row : KeyRow, read : Time]

AccessTypeOK ==
  /\ clock \in Time
  /\ credential \in Credential
  /\ api_key \in KeyRow \cup {Nothing}
  /\ cache # Nothing => /\ cache.row \in KeyRow
                       /\ cache.filled \in Time
                       /\ cache.delay \in Time
  /\ frame \in [Request -> RequestFrame]
  /\ logins \in 0 .. MaxLogins
  /\ failures \in Nat
  /\ locks \in Nat
  /\ accepted # Nothing => accepted.time \in Time /\ accepted.delay \in Time
  /\ settled \in BOOLEAN

AccessInit ==
  /\ clock = 0
  /\ credential = [failed_attempts |-> 0, locked_until |-> Never]
  /\ api_key = Nothing
  /\ cache = Nothing
  /\ frame = [r \in Request |-> AtRest]
  /\ logins = 0
  /\ failures = 0
  /\ locks = 0
  /\ accepted = Nothing
  /\ settled = FALSE

Passes == clock < MaxTime /\ clock' = clock + 1 /\ UNCHANGED <<account, keys, frame>>

At(r, place) == frame[r].at = place

Proceed(r, f) == frame' = [frame EXCEPT ![r] = f]

(* The client leaves, or a query fails: the handler ends where it awaits. *)
Abandon(r) ==
  /\ ~ At(r, "idle")
  /\ Proceed(r, AtRest)
  /\ UNCHANGED <<clock, account, keys>>

-----------------------------------------------------------------------------
(* login. *)

(* The credential is read and the password verified. *)
Verify(r) ==
  /\ At(r, "idle")
  /\ logins < MaxLogins
  /\ logins' = logins + 1
  /\ \E password \in {"right", "wrong"} :
       Proceed(r, [at |-> password, credential |-> credential, locks |-> locks])
  /\ UNCHANGED <<clock, credential, failures, locks, keys>>

(* Faulty: the count that was read is written back. *)
RecordFailureRead(r) ==
  LET new_count == frame[r].credential.failed_attempts + 1
  IN /\ At(r, "wrong")
     /\ IF new_count >= Threshold
        THEN /\ credential' = [failed_attempts |-> new_count, locked_until |-> clock + LockTime]
             /\ locks' = locks + 1
        ELSE /\ credential' = [credential EXCEPT !.failed_attempts = new_count]
             /\ UNCHANGED locks
     /\ failures' = failures + 1
     /\ Proceed(r, AtRest)
     /\ UNCHANGED <<clock, logins, keys>>

(* record_failed_attempt: the count that was read decides whether to lock,   *)
(* the one of the row is incremented.                                       *)
RecordFailure(r) ==
  /\ At(r, "wrong")
  /\ IF frame[r].credential.failed_attempts + 1 >= Threshold
     THEN /\ credential' = [failed_attempts |-> credential.failed_attempts + 1,
                            locked_until |-> clock + LockTime]
          /\ locks' = locks + 1
     ELSE /\ credential' = [credential EXCEPT !.failed_attempts = @ + 1]
          /\ UNCHANGED locks
  /\ failures' = failures + 1
  /\ Proceed(r, AtRest)
  /\ UNCHANGED <<clock, logins, keys>>

(* Faulty: the lockout is not looked at. *)
NotLockedOut(c) == TRUE

NotLocked(c) == c.locked_until # Never => c.locked_until <= clock

Refuse(r) ==
  /\ At(r, "right")
  /\ ~ NotLocked(frame[r].credential)
  /\ Proceed(r, AtRest)
  /\ UNCHANGED <<clock, account, keys>>

(* Tokens are issued, after the failures that were read are forgotten. *)
Enter(r) ==
  /\ At(r, "right")
  /\ NotLocked(frame[r].credential)
  /\ Proceed(r, AtRest)
  /\ IF frame[r].credential.failed_attempts > 0
     THEN /\ credential' = [failed_attempts |-> 0, locked_until |-> Never]
          /\ failures' = 0
     ELSE UNCHANGED <<credential, failures>>
  /\ UNCHANGED <<clock, logins, locks, keys>>

-----------------------------------------------------------------------------
(* API keys. *)

CreateKey ==
  /\ api_key = Nothing
  /\ \E e \in Expiry : api_key' = [expires_at |-> e, revoked_at |-> Never]
  /\ UNCHANGED <<clock, account, cache, accepted, settled, frame>>

(* validate_cached_key. *)
Valid(row) ==
  /\ row.revoked_at = Never
  /\ row.expires_at # Never => row.expires_at >= clock

Answer(entry) ==
  accepted' = IF Valid(entry.row) THEN [time |-> clock, delay |-> entry.delay] ELSE accepted

Cached == cache # Nothing /\ clock < cache.filled + CacheTTL

(* Faulty: an entry lives on while it is used. *)
HitAndKeep(r) ==
  /\ At(r, "idle")
  /\ Cached
  /\ Answer(cache)
  /\ cache' = [cache EXCEPT !.filled = clock]
  /\ UNCHANGED <<clock, account, api_key, settled, frame>>

(* validate_bearer_token answers from the cache, *)
Hit(r) ==
  /\ At(r, "idle")
  /\ Cached
  /\ Answer(cache)
  /\ UNCHANGED <<clock, account, api_key, cache, settled, frame>>

(* or goes to the database, *)
Miss(r) ==
  /\ At(r, "idle")
  /\ ~ Cached
  /\ Proceed(r, [at |-> "miss"])
  /\ UNCHANGED <<clock, account, keys>>

LookUp(r) ==
  /\ At(r, "miss")
  /\ Proceed(r, IF api_key = Nothing THEN AtRest
             ELSE [at |-> "found", row |-> api_key, read |-> clock])
  /\ UNCHANGED <<clock, account, keys>>

(* and keeps what it found, whatever it says. *)
Fill(r) ==
  LET entry == [row |-> frame[r].row, filled |-> clock, delay |-> clock - frame[r].read]
  IN /\ At(r, "found")
     /\ cache' = entry
     /\ Answer(entry)
     /\ Proceed(r, AtRest)
     /\ UNCHANGED <<clock, account, api_key, settled>>

(* The cache is full and gives up the entry. *)
Displace ==
  /\ cache # Nothing
  /\ cache' = Nothing
  /\ UNCHANGED <<clock, account, api_key, accepted, settled, frame>>

Revoke(r) ==
  /\ At(r, "idle")
  /\ api_key # Nothing
  /\ api_key.revoked_at = Never
  /\ api_key' = [api_key EXCEPT !.revoked_at = clock]
  /\ Proceed(r, [at |-> "evict"])
  /\ UNCHANGED <<clock, account, cache, accepted, settled>>

NoneReadBefore == \A r \in Request : At(r, "found") => frame[r].row.revoked_at # Never

(* Faulty: another entry than the key's is evicted. *)
EvictOther(r) ==
  /\ At(r, "evict")
  /\ Proceed(r, AtRest)
  /\ settled' = NoneReadBefore
  /\ UNCHANGED <<clock, account, api_key, cache, accepted>>

Evict(r) ==
  /\ At(r, "evict")
  /\ cache' = Nothing
  /\ Proceed(r, AtRest)
  /\ settled' = NoneReadBefore
  /\ UNCHANGED <<clock, account, api_key, accepted>>

-----------------------------------------------------------------------------
LogInOrFail(r) == Verify(r) \/ RecordFailure(r) \/ Refuse(r) \/ Enter(r)

Validate(r) == Hit(r) \/ Miss(r) \/ LookUp(r) \/ Fill(r)

AccessNext ==
  \/ \E r \in Request : LogInOrFail(r) \/ Validate(r) \/ Revoke(r) \/ Evict(r) \/ Abandon(r)
  \/ CreateKey \/ Displace \/ Passes

AccessSpec == AccessInit /\ [][AccessNext]_access_vars

-----------------------------------------------------------------------------
(* Requests that read the count before they add to it may pass the           *)
(* threshold, but only by one for each other request that was open: without *)
(* a lock no more failures are recorded.                                    *)
LocksInTime ==
  credential.locked_until = Never => failures < Threshold + Cardinality(Request) - 1

(* A lock in force is lifted only by a right password that was being         *)
(* verified already when the lock was set.                                  *)
InForce == credential.locked_until # Never /\ credential.locked_until > clock

LockYieldsOnlyToRace ==
  [][InForce /\ credential'.locked_until = Never =>
       \E r \in Request : At(r, "right") /\ frame[r].locks < locks]_access_vars

(* A key is not accepted after it expired, and not longer after it was       *)
(* revoked than an entry lives and its look-up took.                        *)
AcceptedInWindow ==
  accepted # Nothing =>
    /\ api_key.expires_at # Never => accepted.time <= api_key.expires_at
    /\ api_key.revoked_at # Never =>
         accepted.time < api_key.revoked_at + CacheTTL + accepted.delay

(* Once evicted, with no look-up under way that had found it valid, a        *)
(* revoked key is not accepted from the cache again.                        *)
RevocationSticks ==
  settled => cache = Nothing \/ ~ Valid(cache.row)
=============================================================================
