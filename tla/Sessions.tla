------------------------------ MODULE Sessions ------------------------------
(***************************************************************************)
(* Refresh tokens: the handlers of crates/calce-api/src/routes/auth.rs     *)
(* with the queries of crates/calce-data/src/queries/auth.rs, and the tabs *)
(* of one browser (services/calce-console/src/api/client.ts), which share  *)
(* one stored token.                                                       *)
(*                                                                         *)
(* Every query is a transaction of its own, so that requests interleave    *)
(* between the look-up of a token, its rotation and the insertion of its   *)
(* successor.  A token is its row number.  Time is what a comparison with  *)
(* it says: a rotated token is within the grace period and later is not, a *)
(* token expires.                                                          *)
(***************************************************************************)
EXTENDS Integers, Sequences, FiniteSets

CONSTANTS
  Tab,
  MaxTokens  \* bound: refresh tokens minted

ASSUME MaxTokensAssumption == MaxTokens \in Nat

VARIABLES
  row,         \* the table refresh_tokens
  stored,      \* the refresh token in the browser's localStorage, 0 if none
  tab,         \* the refresh each tab has in flight
  interrupted, \* families that lost a rotation between its two writes
  ended,       \* families revoked while no rotation of theirs was in flight
  behind       \* a reply within the grace period put the stored token back, or
               \* the tab that rotated it was gone before it had the reply

vars == <<row, stored, tab, interrupted, ended, behind>>

Token == 1 .. MaxTokens
Family == 1 .. MaxTokens

Row == [family : Family,
        superseded : {"no", "grace", "past"},
        revoked : BOOLEAN,
        expired : BOOLEAN]

Step == {"idle", "find", "graced", "replay", "supersede", "create", "reply", "reject"}

Frame == [at : Step, token : 0 .. MaxTokens, answer : 0 .. MaxTokens]

TypeOK ==
  /\ row \in Seq(Row)
  /\ Len(row) <= MaxTokens
  /\ stored \in 0 .. Len(row)
  /\ tab \in [Tab -> Frame]
  /\ \A t \in Tab : tab[t].token <= Len(row) /\ tab[t].answer <= Len(row)
  /\ interrupted \subseteq Family
  /\ ended \subseteq Family
  /\ behind \in BOOLEAN

Idle == [at |-> "idle", token |-> 0, answer |-> 0]

Init ==
  /\ row = <<>>
  /\ stored = 0
  /\ tab = [t \in Tab |-> Idle]
  /\ interrupted = {}
  /\ ended = {}
  /\ behind = FALSE

Issued == 1 .. Len(row)

Fresh(f) == [family |-> f, superseded |-> "no", revoked |-> FALSE, expired |-> FALSE]

(* find_active_family_token *)
Active(i) == row[i].superseded = "no" /\ ~ row[i].revoked /\ ~ row[i].expired

ActiveIn(f) == {i \in Issued : row[i].family = f /\ Active(i)}

(* Rotations of family f that have found their token active and go on. *)
Rotating(f) ==
  {t \in Tab : tab[t].at \in {"supersede", "create"} /\ row[tab[t].token].family = f}

(* revoke_token_family *)
Revoked(f) ==
  [i \in Issued |-> IF row[i].family = f THEN [row[i] EXCEPT !.revoked = TRUE] ELSE row[i]]

EndFamily(f) ==
  /\ row' = Revoked(f)
  /\ ended' = IF Rotating(f) = {} THEN ended \union {f} ELSE ended

-----------------------------------------------------------------------------
(* Time.                                                                    *)

(* The grace period of a rotated token ends. *)
GraceEnds(i) ==
  /\ row[i].superseded = "grace"
  /\ row' = [row EXCEPT ![i].superseded = "past"]
  /\ UNCHANGED <<stored, tab, interrupted, ended, behind>>

Expire(i) ==
  /\ ~ row[i].expired
  /\ row' = [row EXCEPT ![i].expired = TRUE]
  /\ UNCHANGED <<stored, tab, interrupted, ended, behind>>

-----------------------------------------------------------------------------
(* Sessions begin and end.                                                  *)

(* login, its password accepted: a new family. *)
Login ==
  /\ Len(row) < MaxTokens
  /\ row' = Append(row, Fresh(Len(row) + 1))
  /\ stored' = Len(row')
  /\ behind' = FALSE
  /\ UNCHANGED <<tab, interrupted, ended>>

(* api.logout: the browser forgets its tokens and tells nobody. *)
Forget ==
  /\ stored # 0
  /\ stored' = 0
  /\ UNCHANGED <<row, tab, interrupted, ended, behind>>

(* POST /auth/logout with any token of a family, known to be expired or not. *)
Logout(i) ==
  /\ EndFamily(row[i].family)
  /\ UNCHANGED <<stored, tab, interrupted, behind>>

-----------------------------------------------------------------------------
(* One refresh: fetchApi and refreshTokens in the tab, refresh in the server. *)

Goto(t, step) == tab' = [tab EXCEPT ![t].at = step]

(* A request was refused with 401. *)
StartRefresh(t) ==
  /\ tab[t].at = "idle"
  /\ stored # 0
  /\ tab' = [tab EXCEPT ![t] = [at |-> "find", token |-> stored, answer |-> 0]]
  /\ UNCHANGED <<row, stored, interrupted, ended, behind>>

(* Faulty: the look-up does not ask for revoked_at. *)
FindAnyway(t) ==
  /\ tab[t].at = "find"
  /\ LET r == row[tab[t].token] IN
       \/ r.expired /\ Goto(t, "reject")
       \/ ~ r.expired /\ r.superseded = "grace" /\ Goto(t, "graced")
       \/ ~ r.expired /\ r.superseded = "past" /\ Goto(t, "replay")
       \/ ~ r.expired /\ r.superseded = "no" /\ Goto(t, "supersede")
  /\ UNCHANGED <<row, stored, interrupted, ended, behind>>

(* find_refresh_token and the decisions taken on that row. *)
Find(t) ==
  /\ tab[t].at = "find"
  /\ LET r == row[tab[t].token]
         usable == ~ r.revoked /\ ~ r.expired
     IN \/ ~ usable /\ Goto(t, "reject")
        \/ usable /\ r.superseded = "grace" /\ Goto(t, "graced")
        \/ usable /\ r.superseded = "past" /\ Goto(t, "replay")
        \/ usable /\ r.superseded = "no" /\ Goto(t, "supersede")
  /\ UNCHANGED <<row, stored, interrupted, ended, behind>>

(* Within the grace period: the token that was presented is handed back. *)
Grace(t) ==
  /\ tab[t].at = "graced"
  /\ LET i == tab[t].token IN
       \/ ActiveIn(row[i].family) = {} /\ Goto(t, "reject")
       \/ /\ ActiveIn(row[i].family) # {}
          /\ tab' = [tab EXCEPT ![t] = [at |-> "reply", token |-> i, answer |-> i]]
  /\ UNCHANGED <<row, stored, interrupted, ended, behind>>

(* AuthService::refresh of calce-python, by which the AI service answers for *)
(* the same tables, does not ask whether the family has an active token.    *)
GraceUnasked(t) ==
  /\ tab[t].at = "graced"
  /\ tab' = [tab EXCEPT ![t] = [at |-> "reply", token |-> tab[t].token, answer |-> tab[t].token]]
  /\ UNCHANGED <<row, stored, interrupted, ended, behind>>

Replay(t) ==
  /\ tab[t].at = "replay"
  /\ EndFamily(row[tab[t].token].family)
  /\ Goto(t, "reject")
  /\ UNCHANGED <<stored, interrupted, behind>>

(* supersede_refresh_token, whatever the row says by now. *)
Supersede(t) ==
  /\ tab[t].at = "supersede"
  /\ row' = [row EXCEPT ![tab[t].token].superseded = "grace"]
  /\ Goto(t, "create")
  /\ UNCHANGED <<stored, interrupted, ended, behind>>

(* Faulty: the successor begins a family of its own, as after a login. *)
CreateNewFamily(t) ==
  /\ tab[t].at = "create"
  /\ Len(row) < MaxTokens
  /\ row' = Append(row, Fresh(Len(row) + 1))
  /\ tab' = [tab EXCEPT ![t] = [at |-> "reply", token |-> tab[t].token, answer |-> Len(row')]]
  /\ UNCHANGED <<stored, interrupted, ended, behind>>

(* issue_tokens: create_refresh_token in the same family. *)
Create(t) ==
  /\ tab[t].at = "create"
  /\ Len(row) < MaxTokens
  /\ row' = Append(row, Fresh(row[tab[t].token].family))
  /\ tab' = [tab EXCEPT ![t] = [at |-> "reply", token |-> tab[t].token, answer |-> Len(row')]]
  /\ UNCHANGED <<stored, interrupted, ended, behind>>

(* Faulty: the tab keeps the refresh token it has. *)
AdoptAccessOnly(t) ==
  /\ tab[t].at = "reply"
  /\ behind' = (tab[t].answer = tab[t].token)
  /\ tab' = [tab EXCEPT ![t] = Idle]
  /\ UNCHANGED <<row, stored, interrupted, ended>>

(* The tab stores what the reply holds. *)
Adopt(t) ==
  /\ tab[t].at = "reply"
  /\ stored' = tab[t].answer
  /\ behind' = (tab[t].answer = tab[t].token)
  /\ tab' = [tab EXCEPT ![t] = Idle]
  /\ UNCHANGED <<row, interrupted, ended>>

(* Refused: the tab forgets the tokens and shows the login page. *)
SessionExpired(t) ==
  /\ tab[t].at = "reject"
  /\ stored' = 0
  /\ tab' = [tab EXCEPT ![t] = Idle]
  /\ UNCHANGED <<row, interrupted, ended, behind>>

(* The handler of t goes no further than it has. *)
Interrupt(t) ==
  /\ tab[t].at # "idle"
  /\ interrupted' = IF tab[t].at = "create"
                    THEN interrupted \union {row[tab[t].token].family}
                    ELSE interrupted
  /\ tab' = [tab EXCEPT ![t] = Idle]
  /\ UNCHANGED <<row, ended>>

(* The request or its reply is lost, a query fails, or the server stops: the *)
(* tab takes it for an expired session.                                     *)
Fail(t) ==
  /\ Interrupt(t)
  /\ stored' = 0
  /\ UNCHANGED behind

(* The handler of t has rotated its token, of which its tab knows nothing yet. *)
Rotated(t) == tab[t].at = "create" \/ (tab[t].at = "reply" /\ tab[t].answer # tab[t].token)

(* The tab is closed or reloaded with its refresh in flight: nobody is left  *)
(* to take the reply or to clear the storage.  The handler may have come to  *)
(* its end or be cut off anywhere.                                          *)
Leave(t) ==
  /\ Interrupt(t)
  /\ behind' = (behind \/ (Rotated(t) /\ tab[t].token = stored))
  /\ UNCHANGED stored

Next ==
  \/ \E i \in Issued : GraceEnds(i) \/ Expire(i) \/ Logout(i)
  \/ Login
  \/ Forget
  \/ \E t \in Tab :
       \/ StartRefresh(t)
       \/ Find(t)
       \/ Grace(t)
       \/ GraceUnasked(t)
       \/ Replay(t)
       \/ Supersede(t)
       \/ Create(t)
       \/ Adopt(t)
       \/ SessionExpired(t)
       \/ Fail(t)
       \/ Leave(t)

Spec == Init /\ [][Next]_vars

-----------------------------------------------------------------------------
(* Rotation never strands a session: a family that was not revoked has a     *)
(* token that was not rotated, or a rotation about to insert one, or a       *)
(* rotation of it died between its two writes.                              *)
SessionHasSuccessor ==
  \A i \in Issued :
    LET f == row[i].family IN
      \/ row[i].revoked
      \/ f \in interrupted
      \/ \E j \in Issued : row[j].family = f /\ row[j].superseded = "no"
      \/ \E t \in Tab : tab[t].at = "create" /\ row[tab[t].token].family = f

(* Logout "revokes the entire token family" (docs/auth.md:79), and so does   *)
(* a replay: once done while no rotation was in flight, no token of the      *)
(* family is ever active again.                                             *)
EndedStaysEnded == \A f \in ended : ActiveIn(f) = {}

(* What the tabs share stays usable through refreshes that cross, fail or     *)
(* are refused: the stored token is the newest its holder was given, unless  *)
(* a tab is just rotating it, a reply within the grace period put the old    *)
(* one back, or the tab that rotated it was closed before it had the reply.  *)
StoredTokenCurrent ==
  stored # 0 /\ row[stored].superseded # "no" =>
    \/ \E t \in Tab : Rotated(t) /\ tab[t].token = stored
    \/ behind

(* "Each refresh invalidates the old token and issues a new one" and "does   *)
(* not mint a new refresh token (prevents token proliferation)"              *)
(* (docs/auth.md:72): a family never has two active tokens.                 *)
OneActiveToken ==
  \A i, j \in Issued :
    Active(i) /\ Active(j) /\ row[i].family = row[j].family => i = j
=============================================================================
