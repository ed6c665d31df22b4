------------------------------ MODULE AuthProofs -----------------------------
(***************************************************************************)
(* What TLAPS proves of how callers are let in: of the session protocol,   *)
(* for any number of tabs and of tokens, and of the lockout and the API    *)
(* keys, for any finite set of requests, any threshold and any times.      *)
(*                                                                         *)
(* Of sessions, EndedStaysEnded is not inductive: that no token of an      *)
(* ended family is active also needs that none is about to be minted, and  *)
(* that families are not reused.  StoredTokenCurrent needs that the answer *)
(* a tab is about to store is known to nobody else.                        *)
(***************************************************************************)
EXTENDS Sessions, Access, FiniteSetTheorems, TLAPS

(* A tab presents a token exactly while it has a refresh in flight. *)
FramesMatch ==
  \A t \in Tab :
    /\ tab[t].at # "idle" => tab[t].token \in Issued
    /\ tab[t].at = "idle" => tab[t].token = 0
    /\ tab[t].at = "reply" => tab[t].answer \in Issued

(* Families are named after their first token. *)
FamiliesNumbered ==
  /\ \A i \in Issued : row[i].family <= Len(row)
  /\ \A f \in ended : f <= Len(row)

(* An ended family has only revoked tokens and no rotation in flight. *)
EndedForGood ==
  \A f \in ended :
    /\ \A i \in Issued : row[i].family = f => row[i].revoked
    /\ \A t \in Tab : tab[t].at \in {"supersede", "create"} => row[tab[t].token].family # f

(* A newly minted token on its way to its tab is known to nobody else. *)
AnswersFresh ==
  \A t \in Tab :
    tab[t].at = "reply" /\ tab[t].answer # tab[t].token =>
      /\ row[tab[t].answer].superseded = "no"
      /\ tab[t].answer # stored
      /\ \A u \in Tab :
           /\ tab[u].token # tab[t].answer
           /\ u # t /\ tab[u].at = "reply" => tab[u].answer # tab[t].answer

SessionInv ==
  /\ TypeOK
  /\ FramesMatch
  /\ FamiliesNumbered
  /\ EndedForGood
  /\ AnswersFresh
  /\ SessionHasSuccessor
  /\ StoredTokenCurrent

-----------------------------------------------------------------------------
(* What a sequence over any set is. *)
LEMMA SeqFacts ==
  ASSUME NEW S, NEW q \in Seq(S)
  PROVE  Len(q) \in Nat /\ DOMAIN q = 1 .. Len(q) /\ \A i \in 1 .. Len(q) : q[i] \in S
OBVIOUS

LEMMA AppendFacts ==
  ASSUME NEW S, NEW q \in Seq(S), NEW e \in S
  PROVE  /\ Append(q, e) \in Seq(S)
         /\ Len(Append(q, e)) = Len(q) + 1
         /\ Append(q, e)[Len(q) + 1] = e
         /\ \A i \in 1 .. Len(q) : Append(q, e)[i] = q[i]
OBVIOUS

LEMMA FunctionIsSeq ==
  ASSUME NEW S, NEW n \in Nat, NEW g \in [1 .. n -> S]
  PROVE  g \in Seq(S) /\ Len(g) = n
OBVIOUS

(* The members of the table and of the tabs' frames, field by field. *)
LEMMA RowFields ==
  ASSUME NEW r \in Row
  PROVE  /\ r.family \in 1 .. MaxTokens
         /\ r.superseded \in {"no", "grace", "past"}
         /\ r.revoked \in BOOLEAN /\ r.expired \in BOOLEAN
BY DEF Row, Family

LEMMA FrameFields ==
  ASSUME NEW r \in Frame
  PROVE  r.at \in Step /\ r.token \in 0 .. MaxTokens /\ r.answer \in 0 .. MaxTokens
BY DEF Frame

LEMMA Facts ==
  ASSUME TypeOK
  PROVE  /\ Len(row) \in Nat /\ Len(row) <= MaxTokens /\ stored \in 0 .. Len(row)
         /\ \A i \in Issued : row[i] \in Row /\ row[i].family \in 1 .. MaxTokens
         /\ \A t \in Tab : /\ tab[t] \in Frame /\ tab[t].at \in Step
                           /\ tab[t].token \in 0 .. Len(row) /\ tab[t].answer \in 0 .. Len(row)
<1>1. Len(row) \in Nat /\ \A i \in Issued : row[i] \in Row
  BY SeqFacts DEF TypeOK, Issued
<1>2. \A i \in Issued : row[i].family \in 1 .. MaxTokens
  BY <1>1, RowFields
<1>3. \A t \in Tab : tab[t] \in Frame
  BY DEF TypeOK
<1>4. \A t \in Tab : /\ tab[t].at \in Step
                     /\ tab[t].token \in 0 .. Len(row) /\ tab[t].answer \in 0 .. Len(row)
  BY <1>1, <1>3, FrameFields DEF TypeOK
<1> QED BY <1>1, <1>2, <1>3, <1>4 DEF TypeOK

-----------------------------------------------------------------------------
(* The shapes of a step.                                                    *)

(* Tab t goes to the frame given by its fields, the others stay. *)
Moved(t, at, token, answer) ==
  /\ tab' \in [Tab -> Frame]
  /\ tab'[t].at = at /\ tab'[t].token = token /\ tab'[t].answer = answer
  /\ \A u \in Tab \ {t} : tab'[u] = tab[u]

LEMMA PutMoves ==
  ASSUME TypeOK, NEW t \in Tab, NEW at \in Step,
         NEW token \in 0 .. MaxTokens, NEW answer \in 0 .. MaxTokens,
         tab' = [tab EXCEPT ![t] = [at |-> at, token |-> token, answer |-> answer]]
  PROVE  Moved(t, at, token, answer)
<1> DEFINE r == [at |-> at, token |-> token, answer |-> answer]
<1>1. r \in Frame /\ r.at = at /\ r.token = token /\ r.answer = answer
  BY DEF Frame
<1>2. tab \in [Tab -> Frame] /\ tab' = [tab EXCEPT ![t] = r]
  BY DEF TypeOK
<1> HIDE DEF r
<1> QED BY <1>1, <1>2 DEF Moved

LEMMA GotoMoves ==
  ASSUME TypeOK, NEW t \in Tab, NEW at \in Step, Goto(t, at)
  PROVE  Moved(t, at, tab[t].token, tab[t].answer)
<1> DEFINE r == [tab[t] EXCEPT !.at = at]
<1>1. tab[t] \in Frame
  BY Facts
<1>2. r \in Frame /\ r.at = at /\ r.token = tab[t].token /\ r.answer = tab[t].answer
  BY <1>1 DEF Frame
<1>3. tab \in [Tab -> Frame] /\ tab' = [tab EXCEPT ![t] = r]
  BY DEF TypeOK, Goto
<1> HIDE DEF r
<1> QED BY <1>2, <1>3 DEF Moved

(* The fields of the row that changes, the others stay. *)
Marked(i, superseded) ==
  /\ row' \in Seq(Row) /\ Len(row') = Len(row)
  /\ row'[i].family = row[i].family /\ row'[i].revoked = row[i].revoked
  /\ row'[i].superseded = superseded
  /\ \A j \in Issued \ {i} : row'[j] = row[j]

LEMMA PutMarks ==
  ASSUME TypeOK, NEW i \in Issued, NEW r \in Row, row' = [row EXCEPT ![i] = r],
         r.family = row[i].family, r.revoked = row[i].revoked
  PROVE  Marked(i, r.superseded)
<1>1. row \in [1 .. Len(row) -> Row] /\ Len(row) \in Nat
  BY SeqFacts DEF TypeOK
<1>2. row' \in [1 .. Len(row) -> Row] /\ row'[i] = r /\ \A j \in Issued \ {i} : row'[j] = row[j]
  BY <1>1 DEF Issued
<1>3. row' \in Seq(Row) /\ Len(row') = Len(row)
  BY <1>1, <1>2, FunctionIsSeq
<1> QED BY <1>2, <1>3 DEF Marked

(* One row more, at the end. *)
Minted(f) ==
  /\ row' \in Seq(Row) /\ Len(row') = Len(row) + 1
  /\ row'[Len(row) + 1].family = f /\ ~ row'[Len(row) + 1].revoked
  /\ row'[Len(row) + 1].superseded = "no"
  /\ \A i \in Issued : row'[i] = row[i]

LEMMA AppendMints ==
  ASSUME TypeOK, NEW f \in Family, row' = Append(row, Fresh(f))
  PROVE  Minted(f)
<1> DEFINE r == Fresh(f)
<1>1. r \in Row /\ r.family = f /\ ~ r.revoked /\ r.superseded = "no"
  BY DEF Fresh, Row
<1>2. row \in Seq(Row) /\ row' = Append(row, r)
  BY DEF TypeOK
<1> HIDE DEF r
<1>3. /\ row' \in Seq(Row) /\ Len(row') = Len(row) + 1 /\ row'[Len(row) + 1] = r
      /\ \A i \in 1 .. Len(row) : row'[i] = row[i]
  BY <1>1, <1>2, AppendFacts
<1> QED BY <1>1, <1>3 DEF Minted, Issued

-----------------------------------------------------------------------------
(* Time.                                                                    *)

(* What a change of one token's marks keeps. *)
LEMMA MarkKeeps ==
  ASSUME SessionInv, UNCHANGED <<stored, tab, interrupted, ended, behind>>,
         NEW i \in Issued, NEW superseded, Marked(i, superseded),
         (superseded = "no") <=> (row[i].superseded = "no")
  PROVE  SessionInv'
<1> USE DEF SessionInv
<1>1. /\ Len(row') = Len(row) /\ row' \in Seq(Row) /\ Issued' = Issued
      /\ \A j \in Issued :
           /\ row'[j].family = row[j].family /\ row'[j].revoked = row[j].revoked
           /\ (row'[j].superseded = "no") <=> (row[j].superseded = "no")
  BY DEF Marked, Issued
<1>2. TypeOK'
  BY <1>1 DEF TypeOK
<1>3. FramesMatch' /\ FamiliesNumbered'
  BY <1>1 DEF FramesMatch, FamiliesNumbered
<1>4. \A t \in Tab : tab[t].at # "idle" => tab[t].token \in Issued
  BY DEF FramesMatch
<1>5. EndedForGood'
  BY <1>1, <1>4 DEF EndedForGood
<1>6. AnswersFresh'
  BY <1>1 DEF AnswersFresh, FramesMatch
<1>7. SessionHasSuccessor'
  BY <1>1, <1>4 DEF SessionHasSuccessor
<1>8. StoredTokenCurrent'
  BY <1>1, Facts DEF StoredTokenCurrent, Rotated, Issued
<1> QED BY <1>2, <1>3, <1>5, <1>6, <1>7, <1>8

LEMMA GraceEndsKeeps ==
  ASSUME NEW i \in Issued, SessionInv, GraceEnds(i)
  PROVE  SessionInv'
<1> DEFINE r == [row[i] EXCEPT !.superseded = "past"]
<1>1. TypeOK /\ row[i] \in Row
  BY Facts DEF SessionInv
<1>2. r \in Row /\ r.family = row[i].family /\ r.revoked = row[i].revoked /\ r.superseded = "past"
  BY <1>1 DEF Row
<1>3. row' = [row EXCEPT ![i] = r]
  BY DEF GraceEnds
<1> HIDE DEF r
<1>4. Marked(i, "past")
  BY <1>1, <1>2, <1>3, PutMarks
<1> QED BY <1>4, MarkKeeps DEF GraceEnds

LEMMA ExpireKeeps ==
  ASSUME NEW i \in Issued, SessionInv, Expire(i)
  PROVE  SessionInv'
<1> DEFINE r == [row[i] EXCEPT !.expired = TRUE]
<1>1. TypeOK /\ row[i] \in Row
  BY Facts DEF SessionInv
<1>2. r \in Row /\ r.family = row[i].family /\ r.revoked = row[i].revoked
      /\ r.superseded = row[i].superseded
  BY <1>1 DEF Row
<1>3. row' = [row EXCEPT ![i] = r]
  BY DEF Expire
<1> HIDE DEF r
<1>4. Marked(i, row[i].superseded)
  BY <1>1, <1>2, <1>3, PutMarks
<1> QED BY <1>4, MarkKeeps DEF Expire

-----------------------------------------------------------------------------
(* The end of a family.                                                     *)

(* Revoking a family marks its tokens and changes nothing else in the table. *)
LEMMA EndFamilyMarks ==
  ASSUME SessionInv, NEW f \in Family, EndFamily(f)
  PROVE  /\ row' \in Seq(Row) /\ Len(row') = Len(row)
         /\ \A j \in Issued :
              /\ row'[j].family = row[j].family /\ row'[j].superseded = row[j].superseded
              /\ row'[j].revoked <=> (row[j].revoked \/ row[j].family = f)
         /\ \A g \in ended' : g \in ended \/ (g = f /\ Rotating(f) = {})
<1> USE DEF SessionInv
<1>1. \A j \in Issued : row[j] \in Row
  BY Facts
<1>2. \A j \in Issued :
        LET q == [row[j] EXCEPT !.revoked = TRUE] IN
        q \in Row /\ q.family = row[j].family /\ q.superseded = row[j].superseded /\ q.revoked
  BY <1>1 DEF Row
<1>3. \A j \in Issued : row'[j] = IF row[j].family = f THEN [row[j] EXCEPT !.revoked = TRUE] ELSE row[j]
  BY DEF EndFamily, Revoked
<1>4. row' \in [Issued -> Row]
  BY <1>1, <1>2 DEF EndFamily, Revoked
<1>5. row' \in Seq(Row) /\ Len(row') = Len(row)
  BY <1>4, Facts, FunctionIsSeq DEF Issued
<1>6. \A g \in ended' : g \in ended \/ (g = f /\ Rotating(f) = {})
  BY DEF EndFamily
<1> QED BY <1>1, <1>2, <1>3, <1>5, <1>6

(* Ending a family while the tabs stand still, or one goes to "reject". *)
LEMMA EndFamilyKeeps ==
  ASSUME SessionInv, NEW f \in Family, f <= Len(row), EndFamily(f),
         UNCHANGED <<stored, interrupted, behind>>,
         tab' \in [Tab -> Frame],
         \A t \in Tab :
           /\ tab'[t].token = tab[t].token /\ tab'[t].answer = tab[t].answer
           /\ \/ tab'[t].at = tab[t].at
              \/ tab[t].at = "replay" /\ tab'[t].at = "reject"
  PROVE  SessionInv'
<1> USE DEF SessionInv
<1>1. /\ row' \in Seq(Row) /\ Len(row') = Len(row)
      /\ \A j \in Issued :
           /\ row'[j].family = row[j].family /\ row'[j].superseded = row[j].superseded
           /\ row'[j].revoked <=> (row[j].revoked \/ row[j].family = f)
      /\ \A g \in ended' : g \in ended \/ (g = f /\ Rotating(f) = {})
  BY EndFamilyMarks
<1>2. Issued' = Issued /\ Len(row) \in Nat
  BY <1>1, Facts DEF Issued
<1>3. \A t \in Tab : tab[t].at # "idle" => tab[t].token \in Issued
  BY DEF FramesMatch
<1>4. TypeOK'
  BY <1>1 DEF TypeOK
<1>5. FramesMatch' /\ FamiliesNumbered'
  BY <1>1, <1>2 DEF FramesMatch, FamiliesNumbered
<1>6. EndedForGood'
  <2> SUFFICES ASSUME NEW g \in ended'
               PROVE  /\ \A i \in Issued : row'[i].family = g => row'[i].revoked
                      /\ \A t \in Tab : tab'[t].at \in {"supersede", "create"}
                           => row'[tab'[t].token].family # g
    BY <1>2 DEF EndedForGood
  <2>1. CASE g \in ended
    BY <1>1, <1>3, <2>1 DEF EndedForGood
  <2>2. CASE g = f /\ Rotating(f) = {}
    <3>1. \A t \in Tab : tab[t].at \in {"supersede", "create"} => row[tab[t].token].family # f
      BY <2>2 DEF Rotating
    <3> QED BY <1>1, <1>3, <2>2, <3>1
  <2> QED BY <1>1, <2>1, <2>2
<1>7. AnswersFresh'
  BY <1>1 DEF AnswersFresh, FramesMatch
<1>8. SessionHasSuccessor'
  BY <1>1, <1>2, <1>3 DEF SessionHasSuccessor
<1>9. StoredTokenCurrent'
  BY <1>1, Facts DEF StoredTokenCurrent, Rotated, Issued
<1> QED BY <1>4, <1>5, <1>6, <1>7, <1>8, <1>9

LEMMA LogoutKeeps ==
  ASSUME NEW i \in Issued, SessionInv, Logout(i)
  PROVE  SessionInv'
<1>1. row[i].family \in Family /\ row[i].family <= Len(row)
  BY Facts DEF SessionInv, FamiliesNumbered, Family
<1>2. tab' \in [Tab -> Frame]
  BY DEF Logout, SessionInv, TypeOK
<1> QED BY <1>1, <1>2, EndFamilyKeeps DEF Logout

LEMMA ReplayKeeps ==
  ASSUME NEW t \in Tab, SessionInv, Replay(t)
  PROVE  SessionInv'
<1>1. tab[t].token \in Issued /\ tab[t].at = "replay"
  BY DEF Replay, SessionInv, FramesMatch
<1>2. row[tab[t].token].family \in Family /\ row[tab[t].token].family <= Len(row)
  BY <1>1, Facts DEF SessionInv, FamiliesNumbered, Family
<1>3. Moved(t, "reject", tab[t].token, tab[t].answer)
  BY GotoMoves DEF Replay, SessionInv, Step
<1>4. /\ tab' \in [Tab -> Frame]
      /\ \A u \in Tab :
           /\ tab'[u].token = tab[u].token /\ tab'[u].answer = tab[u].answer
           /\ \/ tab'[u].at = tab[u].at
              \/ tab[u].at = "replay" /\ tab'[u].at = "reject"
  BY <1>1, <1>3 DEF Moved
<1> QED BY <1>2, <1>4, EndFamilyKeeps DEF Replay

-----------------------------------------------------------------------------
(* Sessions begin and are forgotten.                                        *)

(* A new family. *)
LEMMA LoginKeeps ==
  ASSUME SessionInv, Login
  PROVE  SessionInv'
<1> USE DEF SessionInv
<1>1. Len(row) \in Nat /\ Len(row) < MaxTokens /\ Len(row) + 1 \in Family
  BY Facts, MaxTokensAssumption DEF Login, Family
<1>2. Minted(Len(row) + 1)
  BY <1>1, AppendMints DEF Login
<1>3. /\ row' \in Seq(Row) /\ Len(row') = Len(row) + 1 /\ Issued' = 1 .. Len(row) + 1
      /\ row'[Len(row) + 1].family = Len(row) + 1 /\ row'[Len(row) + 1].superseded = "no"
      /\ \A i \in Issued : i \in Issued' /\ row'[i] = row[i]
      /\ \A i \in Issued' : i \in Issued \/ i = Len(row) + 1
      /\ stored' = Len(row) + 1
      /\ UNCHANGED <<tab, interrupted, ended>>
  BY <1>1, <1>2 DEF Minted, Login, Issued
<1>4. \A t \in Tab : tab[t].at # "idle" => tab[t].token \in Issued
  BY DEF FramesMatch
<1>5. TypeOK'
  <2>1. \A t \in Tab : tab[t].token <= Len(row') /\ tab[t].answer <= Len(row')
    BY <1>1, <1>3, Facts
  <2>2. Len(row') <= MaxTokens /\ stored' \in 0 .. Len(row')
    BY <1>1, <1>3, MaxTokensAssumption
  <2>5. behind' \in BOOLEAN
    BY DEF Login
  <2>3. tab' \in [Tab -> Frame] /\ interrupted' \subseteq Family /\ ended' \subseteq Family
    BY <1>3 DEF TypeOK
  <2>4. \A t \in Tab : tab'[t].token <= Len(row') /\ tab'[t].answer <= Len(row')
    BY <1>3, <2>1
  <2> QED BY <1>3, <2>2, <2>3, <2>4, <2>5 DEF TypeOK
<1>6. FramesMatch' /\ FamiliesNumbered'
  <2>1. \A i \in Issued' : row'[i].family <= Len(row')
    BY <1>1, <1>3, Facts DEF FamiliesNumbered
  <2>2. \A f \in ended : f <= Len(row')
    BY <1>1, <1>3 DEF FamiliesNumbered, TypeOK, Family
  <2> QED BY <1>3, <2>1, <2>2 DEF FramesMatch, FamiliesNumbered
<1>7. EndedForGood'
  <2>1. \A f \in ended : f # Len(row) + 1
    BY <1>1 DEF FamiliesNumbered, TypeOK, Family
  <2> QED BY <1>3, <1>4, <2>1 DEF EndedForGood
<1>8. AnswersFresh'
  <2>1. \A t \in Tab : tab[t].answer # Len(row) + 1
    BY <1>1, Facts
  <2> QED BY <1>3, <2>1 DEF AnswersFresh, FramesMatch
<1>9. SessionHasSuccessor'
  BY <1>1, <1>3, <1>4 DEF SessionHasSuccessor
<1>10. StoredTokenCurrent'
  BY <1>3 DEF StoredTokenCurrent
<1> QED BY <1>5, <1>6, <1>7, <1>8, <1>9, <1>10

LEMMA ForgetKeeps ==
  ASSUME SessionInv, Forget
  PROVE  SessionInv'
<1> USE DEF SessionInv
<1>1. stored' = 0 /\ UNCHANGED <<row, tab, interrupted, ended, behind>> /\ Issued' = Issued
  BY DEF Forget, Issued
<1>2. TypeOK'
  BY <1>1, Facts DEF TypeOK
<1>3. FramesMatch' /\ FamiliesNumbered' /\ EndedForGood'
  BY <1>1 DEF FramesMatch, FamiliesNumbered, EndedForGood
<1>4. AnswersFresh'
  BY <1>1 DEF AnswersFresh, FramesMatch, Issued
<1>5. SessionHasSuccessor' /\ StoredTokenCurrent'
  BY <1>1 DEF SessionHasSuccessor, StoredTokenCurrent
<1> QED BY <1>2, <1>3, <1>4, <1>5

-----------------------------------------------------------------------------
(* One refresh.                                                             *)

(* What a step keeps that moves one tab and leaves the table alone, in       *)
(* families that no rotation of this tab has any part in.                   *)
LEMMA MoveKeepsTypes ==
  ASSUME SessionInv, NEW t \in Tab, NEW at \in Step, NEW token \in 0 .. Len(row),
         NEW answer \in 0 .. Len(row), Moved(t, at, token, answer),
         UNCHANGED <<row, ended>>, stored' \in 0 .. Len(row), behind' \in BOOLEAN,
         interrupted' \subseteq Family,
         at # "idle" => token # 0, at = "idle" => token = 0, at = "reply" => answer # 0
  PROVE  TypeOK' /\ FramesMatch' /\ FamiliesNumbered'
<1> USE DEF SessionInv
<1>1. Len(row) \in Nat /\ Issued' = Issued
  BY Facts DEF Issued
<1>2. TypeOK'
  BY <1>1 DEF TypeOK, Moved
<1>3. FramesMatch'
  BY <1>1 DEF FramesMatch, Moved, Issued
<1>4. FamiliesNumbered'
  BY <1>1 DEF FamiliesNumbered
<1> QED BY <1>2, <1>3, <1>4

(* Only the tab moves, and not into a rotation or a reply. *)
LEMMA StartRefreshKeeps ==
  ASSUME NEW t \in Tab, SessionInv, StartRefresh(t)
  PROVE  SessionInv'
<1> USE DEF SessionInv
<1>1. /\ tab[t].at = "idle" /\ stored \in 1 .. Len(row) /\ Len(row) \in Nat /\ Len(row) <= MaxTokens
      /\ UNCHANGED <<row, stored, interrupted, ended, behind>> /\ Issued' = Issued
  BY Facts DEF StartRefresh, Issued
<1>2. Moved(t, "find", stored, 0)
  <2>1. "find" \in Step /\ stored \in 0 .. MaxTokens /\ 0 \in 0 .. MaxTokens
    BY <1>1, MaxTokensAssumption DEF Step
  <2>2. tab' = [tab EXCEPT ![t] = [at |-> "find", token |-> stored, answer |-> 0]]
    BY DEF StartRefresh
  <2>3. TypeOK
    OBVIOUS
  <2> QED BY <2>1, <2>2, <2>3, PutMoves
<1>3. TypeOK' /\ FramesMatch' /\ FamiliesNumbered'
  BY <1>1, <1>2, MoveKeepsTypes DEF Step, TypeOK
<1>4. EndedForGood'
  BY <1>1, <1>2 DEF EndedForGood, Moved
<1>5. AnswersFresh'
  BY <1>1, <1>2 DEF AnswersFresh, Moved
<1>6. SessionHasSuccessor'
  BY <1>1, <1>2 DEF SessionHasSuccessor, Moved
<1>7. StoredTokenCurrent'
  BY <1>1, <1>2 DEF StoredTokenCurrent, Rotated, Moved
<1> QED BY <1>3, <1>4, <1>5, <1>6, <1>7

(* A rotation begins only on a token that was found unrevoked. *)
LEMMA FindKeeps ==
  ASSUME NEW t \in Tab, SessionInv, Find(t)
  PROVE  SessionInv'
<1> USE DEF SessionInv
<1>1. PICK at \in {"reject", "graced", "replay", "supersede"} :
        Goto(t, at) /\ (at = "supersede" => ~ row[tab[t].token].revoked)
  BY DEF Find
<1>2. /\ tab[t].at = "find" /\ tab[t].token \in Issued /\ tab[t].answer \in 0 .. Len(row)
      /\ UNCHANGED <<row, stored, interrupted, ended, behind>> /\ Issued' = Issued
  BY Facts DEF Find, FramesMatch, Issued
<1>3. Moved(t, at, tab[t].token, tab[t].answer)
  BY <1>1, GotoMoves DEF Step
<1>4. TypeOK' /\ FramesMatch' /\ FamiliesNumbered'
  <2>1. tab[t].token \in 0 .. Len(row) /\ tab[t].token # 0 /\ at \in Step
    BY <1>2, Facts DEF Issued, Step
  <2> QED BY <1>2, <1>3, <2>1, Facts, MoveKeepsTypes DEF TypeOK
<1>5. EndedForGood'
  BY <1>1, <1>2, <1>3 DEF EndedForGood, Moved
<1>6. AnswersFresh'
  BY <1>2, <1>3 DEF AnswersFresh, Moved
<1>7. SessionHasSuccessor'
  BY <1>2, <1>3 DEF SessionHasSuccessor, Moved
<1>8. StoredTokenCurrent'
  BY <1>2, <1>3 DEF StoredTokenCurrent, Rotated, Moved
<1> QED BY <1>4, <1>5, <1>6, <1>7, <1>8

(* The reply holds the token that was presented. *)
LEMMA GraceKeeps ==
  ASSUME NEW t \in Tab, SessionInv, Grace(t) \/ GraceUnasked(t)
  PROVE  SessionInv'
<1> USE DEF SessionInv
<1>1. /\ tab[t].at = "graced" /\ tab[t].token \in Issued /\ tab[t].answer \in 0 .. Len(row)
      /\ tab[t].token \in 0 .. Len(row) /\ tab[t].token # 0
      /\ tab[t].token \in 0 .. MaxTokens /\ Len(row) \in Nat
      /\ UNCHANGED <<row, stored, interrupted, ended, behind>> /\ Issued' = Issued
  BY Facts, MaxTokensAssumption DEF Grace, GraceUnasked, FramesMatch, Issued
<1>2. PICK at \in {"reject", "reply"}, answer \in 0 .. Len(row) :
        Moved(t, at, tab[t].token, answer) /\ (at = "reply" => answer = tab[t].token)
  <2>1. CASE Goto(t, "reject")
    BY <1>1, <2>1, GotoMoves DEF Step
  <2>2. CASE tab' = [tab EXCEPT ![t] = [at |-> "reply", token |-> tab[t].token, answer |-> tab[t].token]]
    BY <1>1, <2>2, PutMoves DEF Step
  <2> QED BY <2>1, <2>2 DEF Grace, GraceUnasked
<1>3. TypeOK' /\ FramesMatch' /\ FamiliesNumbered'
  BY <1>1, <1>2, Facts, MoveKeepsTypes DEF TypeOK, Step
<1>4. EndedForGood'
  BY <1>1, <1>2 DEF EndedForGood, Moved
<1>5. AnswersFresh'
  BY <1>1, <1>2 DEF AnswersFresh, Moved
<1>6. SessionHasSuccessor'
  BY <1>1, <1>2 DEF SessionHasSuccessor, Moved
<1>7. StoredTokenCurrent'
  BY <1>1, <1>2 DEF StoredTokenCurrent, Rotated, Moved
<1> QED BY <1>3, <1>4, <1>5, <1>6, <1>7


(* Only the token that was presented is rotated, and the tab goes on.       *)
LEMMA SupersedeKeeps ==
  ASSUME NEW t \in Tab, SessionInv, Supersede(t)
  PROVE  SessionInv'
<1> USE DEF SessionInv
<1> DEFINE i == tab[t].token
           r == [row[i] EXCEPT !.superseded = "grace"]
<1>1. /\ tab[t].at = "supersede" /\ i \in Issued /\ row[i] \in Row
      /\ row' = [row EXCEPT ![i] = r] /\ Goto(t, "create")
      /\ UNCHANGED <<stored, interrupted, ended, behind>>
  BY Facts DEF Supersede, FramesMatch
<1>2. r \in Row /\ r.family = row[i].family /\ r.revoked = row[i].revoked /\ r.superseded = "grace"
  BY <1>1 DEF Row
<1> HIDE DEF r
<1>3. Marked(i, "grace")
  BY <1>1, <1>2, PutMarks
<1>4. Moved(t, "create", i, tab[t].answer)
  BY <1>1, GotoMoves DEF Step
<1>5. /\ row' \in Seq(Row) /\ Len(row') = Len(row) /\ Issued' = Issued /\ Len(row) \in Nat
      /\ \A j \in Issued : row'[j].family = row[j].family /\ row'[j].revoked = row[j].revoked
      /\ \A j \in Issued \ {i} : row'[j] = row[j]
  BY <1>1, <1>3, Facts DEF Marked, Issued
<1>6. /\ tab' \in [Tab -> Frame]
      /\ \A u \in Tab : tab'[u].token = tab[u].token /\ tab'[u].answer = tab[u].answer
      /\ \A u \in Tab \ {t} : tab'[u].at = tab[u].at
      /\ tab'[t].at = "create"
  BY <1>4 DEF Moved
<1>7. \A u \in Tab : tab[u].at # "idle" => tab[u].token \in Issued
  BY DEF FramesMatch
<1> HIDE DEF i
<1>8. TypeOK'
  BY <1>1, <1>5, <1>6 DEF TypeOK
<1>9. FramesMatch' /\ FamiliesNumbered'
  BY <1>1, <1>5, <1>6 DEF FramesMatch, FamiliesNumbered
<1>10. EndedForGood'
  BY <1>1, <1>5, <1>6, <1>7 DEF EndedForGood
<1>11. AnswersFresh'
  BY <1>1, <1>5, <1>6 DEF AnswersFresh, FramesMatch, i
<1>12. SessionHasSuccessor'
  <2> SUFFICES ASSUME NEW k \in Issued, ~ row[k].revoked, row[k].family \notin interrupted,
                      ~ \E j \in Issued : row'[j].family = row[k].family /\ row'[j].superseded = "no"
               PROVE  \E u \in Tab : tab'[u].at = "create" /\ row'[tab'[u].token].family = row[k].family
    BY <1>1, <1>5 DEF SessionHasSuccessor
  <2>1. CASE row[k].family = row[i].family
    BY <1>1, <1>5, <1>6, <2>1 DEF i
  <2>2. CASE row[k].family # row[i].family
    <3>1. ~ \E j \in Issued : row[j].family = row[k].family /\ row[j].superseded = "no"
      BY <1>5, <2>2
    <3>2. PICK u \in Tab : tab[u].at = "create" /\ row[tab[u].token].family = row[k].family
      BY <3>1 DEF SessionHasSuccessor
    <3>3. u # t
      BY <1>1, <3>2
    <3> QED BY <1>5, <1>6, <1>7, <3>2, <3>3
  <2> QED BY <2>1, <2>2
<1>13. StoredTokenCurrent'
  <2>1. \A u \in Tab : Rotated(u) => Rotated(u)' /\ tab'[u].token = tab[u].token
    BY <1>1, <1>6 DEF Rotated
  <2>2. Rotated(t)' /\ tab'[t].token = i
    BY <1>6 DEF Rotated, i
  <2>3. stored \in Issued /\ stored # i => row'[stored] = row[stored]
    BY <1>5
  <2>4. stored = 0 \/ stored \in Issued
    BY Facts DEF Issued
  <2> QED BY <1>1, <2>1, <2>2, <2>3, <2>4 DEF StoredTokenCurrent
<1> QED BY <1>8, <1>9, <1>10, <1>11, <1>12, <1>13

(* The successor is known to its tab alone. *)
LEMMA CreateKeeps ==
  ASSUME NEW t \in Tab, SessionInv, Create(t)
  PROVE  SessionInv'
<1> USE DEF SessionInv
<1> DEFINE f == row[tab[t].token].family
           n == Len(row) + 1
<1>1. /\ tab[t].at = "create" /\ tab[t].token \in Issued /\ Len(row) \in Nat
      /\ Len(row) < MaxTokens /\ n \in 0 .. MaxTokens /\ tab[t].token \in 0 .. MaxTokens
      /\ row' = Append(row, Fresh(f))
      /\ UNCHANGED <<stored, interrupted, ended, behind>>
  BY Facts, MaxTokensAssumption DEF Create, FramesMatch, Issued
<1>2. f \in Family /\ f <= Len(row) /\ f \notin ended
  BY <1>1, Facts DEF FamiliesNumbered, EndedForGood, Family
<1>3. Minted(f)
  BY <1>1, <1>2, AppendMints
<1>4. /\ row' \in Seq(Row) /\ Len(row') = n /\ Issued' = 1 .. n
      /\ row'[n].family = f /\ row'[n].superseded = "no"
      /\ \A i \in Issued : i \in Issued' /\ row'[i] = row[i]
      /\ \A i \in Issued' : i \in Issued \/ i = n
      /\ n \notin Issued /\ n # 0
  BY <1>1, <1>3 DEF Minted, Issued
<1>5. Moved(t, "reply", tab[t].token, n)
  <2>1. tab' = [tab EXCEPT ![t] = [at |-> "reply", token |-> tab[t].token, answer |-> n]]
    BY <1>4 DEF Create
  <2>2. "reply" \in Step
    BY DEF Step
  <2> QED BY <1>1, <2>1, <2>2, PutMoves
<1>6. /\ tab' \in [Tab -> Frame]
      /\ \A u \in Tab : tab'[u].token = tab[u].token
      /\ \A u \in Tab \ {t} : tab'[u] = tab[u]
      /\ tab'[t].at = "reply" /\ tab'[t].answer = n
  BY <1>5 DEF Moved
<1>7. \A u \in Tab :
        /\ tab[u].token # n /\ tab[u].answer # n /\ tab[u].token <= n /\ tab[u].answer <= n
        /\ tab[u].at # "idle" => tab[u].token \in Issued
  BY <1>1, Facts DEF FramesMatch
<1>8. stored \in 0 .. n /\ stored # n /\ n <= MaxTokens /\ n \in Nat
  BY <1>1, Facts, MaxTokensAssumption
<1> HIDE DEF f, n
<1>9. TypeOK'
  <2>1. \A u \in Tab : tab'[u].token <= Len(row') /\ tab'[u].answer <= Len(row')
    BY <1>4, <1>6, <1>7, <1>8
  <2>2. Len(row') <= MaxTokens /\ stored' \in 0 .. Len(row')
    BY <1>1, <1>4, <1>8
  <2>3. interrupted' \subseteq Family /\ ended' \subseteq Family /\ behind' \in BOOLEAN
    BY <1>1 DEF TypeOK
  <2> QED BY <1>4, <1>6, <2>1, <2>2, <2>3 DEF TypeOK
<1>10. FramesMatch'
  BY <1>1, <1>4, <1>6, <1>7, <1>8 DEF FramesMatch
<1>11. FamiliesNumbered'
  <2>1. \A i \in Issued : row[i].family <= n
    BY <1>1, Facts DEF FamiliesNumbered, n
  <2>2. \A g \in ended : g <= n
    BY <1>1 DEF FamiliesNumbered, TypeOK, Family, n
  <2>3. f <= n
    BY <1>1, <1>2 DEF n, Family
  <2> QED BY <1>1, <1>4, <2>1, <2>2, <2>3 DEF FamiliesNumbered
<1>12. EndedForGood'
  BY <1>1, <1>2, <1>4, <1>6, <1>7 DEF EndedForGood
<1>13. AnswersFresh'
  BY <1>1, <1>4, <1>6, <1>7, <1>8 DEF AnswersFresh, FramesMatch
<1>14. SessionHasSuccessor'
  <2> SUFFICES ASSUME NEW k \in Issued'
               PROVE  \/ row'[k].revoked
                      \/ row'[k].family \in interrupted
                      \/ \E j \in Issued' : row'[j].family = row'[k].family /\ row'[j].superseded = "no"
                      \/ \E u \in Tab : tab'[u].at = "create" /\ row'[tab'[u].token].family = row'[k].family
    BY <1>1 DEF SessionHasSuccessor
  <2>1. CASE row'[k].family = f
    BY <1>4, <1>8, <2>1
  <2>2. CASE row'[k].family # f
    <3>1. k \in Issued /\ row'[k] = row[k]
      BY <1>4, <2>2
    <3>2. \/ row[k].revoked
          \/ row[k].family \in interrupted
          \/ \E j \in Issued : row[j].family = row[k].family /\ row[j].superseded = "no"
          \/ \E u \in Tab : tab[u].at = "create" /\ row[tab[u].token].family = row[k].family
      BY <3>1 DEF SessionHasSuccessor
    <3>3. ASSUME NEW u \in Tab, tab[u].at = "create", row[tab[u].token].family = row[k].family
          PROVE  tab'[u].at = "create" /\ row'[tab'[u].token].family = row'[k].family
      BY <1>4, <1>6, <1>7, <2>2, <3>1, <3>3 DEF f
    <3> QED BY <1>4, <3>1, <3>2, <3>3
  <2> QED BY <2>1, <2>2
<1>15. StoredTokenCurrent'
  <2>1. \A u \in Tab : Rotated(u) => Rotated(u)' /\ tab'[u].token = tab[u].token
    BY <1>6, <1>7 DEF Rotated
  <2>2. stored # 0 => row'[stored] = row[stored]
    BY <1>1, <1>4, Facts DEF Issued
  <2> QED BY <1>1, <2>1, <2>2 DEF StoredTokenCurrent
<1> QED BY <1>9, <1>10, <1>11, <1>12, <1>13, <1>14, <1>15

(* A tab that answers or gives up is idle: what that keeps by itself. *)
LEMMA IdleKeeps ==
  ASSUME SessionInv, NEW t \in Tab, tab[t].at # "idle", tab' = [tab EXCEPT ![t] = Idle],
         UNCHANGED <<row, ended>>, stored' \in 0 .. Len(row), behind' \in BOOLEAN,
         interrupted' \subseteq Family,
         stored' \in {0, stored} \/ (tab[t].at = "reply" /\ stored' = tab[t].answer)
  PROVE  /\ TypeOK' /\ FramesMatch' /\ FamiliesNumbered' /\ EndedForGood' /\ AnswersFresh'
         /\ Moved(t, "idle", 0, 0)
<1> USE DEF SessionInv
<1>1. Moved(t, "idle", 0, 0)
  <2>1. "idle" \in Step /\ 0 \in 0 .. MaxTokens
    BY MaxTokensAssumption DEF Step
  <2>2. tab' = [tab EXCEPT ![t] = [at |-> "idle", token |-> 0, answer |-> 0]]
    BY DEF Idle
  <2> QED BY <2>1, <2>2, PutMoves
<1>2. 0 \in 0 .. Len(row) /\ "idle" \in Step /\ Issued' = Issued /\ 0 \notin Issued
  BY Facts DEF Step, Issued
<1>3. TypeOK' /\ FramesMatch' /\ FamiliesNumbered'
  BY <1>1, <1>2, MoveKeepsTypes
<1>4. EndedForGood'
  BY <1>1, <1>2 DEF EndedForGood, Moved
<1>5. AnswersFresh'
  BY <1>1, <1>2 DEF AnswersFresh, FramesMatch, Moved
<1> QED BY <1>1, <1>3, <1>4, <1>5

(* What is stored is fresh, or marked as put back. *)
LEMMA AdoptKeeps ==
  ASSUME NEW t \in Tab, SessionInv, Adopt(t)
  PROVE  SessionInv'
<1> USE DEF SessionInv
<1>1. /\ tab[t].at = "reply" /\ stored' = tab[t].answer /\ tab' = [tab EXCEPT ![t] = Idle]
      /\ behind' = (tab[t].answer = tab[t].token)
      /\ UNCHANGED <<row, interrupted, ended>> /\ Issued' = Issued
  BY DEF Adopt, Issued
<1>2. stored' \in 0 .. Len(row) /\ behind' \in BOOLEAN /\ interrupted' \subseteq Family
  BY <1>1, Facts DEF TypeOK
<1>3. /\ TypeOK' /\ FramesMatch' /\ FamiliesNumbered' /\ EndedForGood' /\ AnswersFresh'
      /\ Moved(t, "idle", 0, 0)
  BY <1>1, <1>2, IdleKeeps
<1>4. SessionHasSuccessor'
  BY <1>1, <1>3 DEF SessionHasSuccessor, Moved
<1>5. StoredTokenCurrent'
  <2>1. CASE tab[t].answer = tab[t].token
    BY <1>1, <2>1 DEF StoredTokenCurrent
  <2>2. CASE tab[t].answer # tab[t].token
    BY <1>1, <2>2 DEF StoredTokenCurrent, AnswersFresh
  <2> QED BY <2>1, <2>2
<1> QED BY <1>3, <1>4, <1>5

LEMMA SessionExpiredKeeps ==
  ASSUME NEW t \in Tab, SessionInv, SessionExpired(t)
  PROVE  SessionInv'
<1> USE DEF SessionInv
<1>1. /\ tab[t].at = "reject" /\ stored' = 0 /\ tab' = [tab EXCEPT ![t] = Idle]
      /\ UNCHANGED <<row, interrupted, ended, behind>> /\ Issued' = Issued
  BY DEF SessionExpired, Issued
<1>2. stored' \in 0 .. Len(row) /\ behind' \in BOOLEAN /\ interrupted' \subseteq Family
  BY <1>1, Facts DEF TypeOK
<1>3. /\ TypeOK' /\ FramesMatch' /\ FamiliesNumbered' /\ EndedForGood' /\ AnswersFresh'
      /\ Moved(t, "idle", 0, 0)
  BY <1>1, <1>2, IdleKeeps
<1>4. SessionHasSuccessor' /\ StoredTokenCurrent'
  BY <1>1, <1>3 DEF SessionHasSuccessor, StoredTokenCurrent, Moved
<1> QED BY <1>3, <1>4

(* A rotation that dies between its writes is remembered. *)
LEMMA InterruptKeeps ==
  ASSUME NEW t \in Tab, SessionInv, Interrupt(t), stored' \in {0, stored}, behind' \in BOOLEAN
  PROVE  /\ TypeOK' /\ FramesMatch' /\ FamiliesNumbered' /\ EndedForGood' /\ AnswersFresh'
         /\ SessionHasSuccessor' /\ Moved(t, "idle", 0, 0)
<1> USE DEF SessionInv
<1>1. /\ tab[t].at # "idle" /\ tab' = [tab EXCEPT ![t] = Idle]
      /\ UNCHANGED <<row, ended>> /\ Issued' = Issued
      /\ interrupted \subseteq interrupted'
      /\ tab[t].at = "create" => row[tab[t].token].family \in interrupted'
  BY DEF Interrupt, Issued
<1>2. tab[t].token \in Issued /\ row[tab[t].token].family \in Family
  BY <1>1, Facts DEF FramesMatch, Family
<1>3. interrupted' \subseteq Family
  BY <1>2 DEF Interrupt, TypeOK
<1>4. stored' \in 0 .. Len(row)
  BY Facts DEF TypeOK
<1>5. /\ TypeOK' /\ FramesMatch' /\ FamiliesNumbered' /\ EndedForGood' /\ AnswersFresh'
      /\ Moved(t, "idle", 0, 0)
  BY <1>1, <1>3, <1>4, IdleKeeps
<1>6. \A u \in Tab \ {t} : tab'[u] = tab[u]
  BY <1>5 DEF Moved
<1>7. SessionHasSuccessor'
  <2> SUFFICES ASSUME NEW k \in Issued, ~ row[k].revoked, row[k].family \notin interrupted',
                      ~ \E j \in Issued : row[j].family = row[k].family /\ row[j].superseded = "no"
               PROVE  \E u \in Tab : tab'[u].at = "create" /\ row[tab'[u].token].family = row[k].family
    BY <1>1 DEF SessionHasSuccessor
  <2>1. PICK u \in Tab : tab[u].at = "create" /\ row[tab[u].token].family = row[k].family
    BY <1>1 DEF SessionHasSuccessor
  <2>2. u # t
    BY <1>1, <2>1
  <2> QED BY <1>6, <2>1, <2>2
<1> QED BY <1>5, <1>7

LEMMA FailKeeps ==
  ASSUME NEW t \in Tab, SessionInv, Fail(t)
  PROVE  SessionInv'
<1>1. Interrupt(t) /\ stored' = 0 /\ behind' \in BOOLEAN
  BY DEF Fail, SessionInv, TypeOK
<1>2. StoredTokenCurrent'
  BY <1>1 DEF StoredTokenCurrent
<1> QED BY <1>1, <1>2, InterruptKeeps DEF SessionInv

(* A tab that is gone leaves the stored token behind, or to the tab that has *)
(* rotated it.                                                              *)
LEMMA LeaveKeeps ==
  ASSUME NEW t \in Tab, SessionInv, Leave(t)
  PROVE  SessionInv'
<1>1. /\ Interrupt(t) /\ stored' = stored /\ row' = row
      /\ behind' = (behind \/ (Rotated(t) /\ tab[t].token = stored))
  BY DEF Leave, Interrupt
<1>2. behind' \in BOOLEAN
  BY <1>1
<1>3. \A u \in Tab \ {t} : tab'[u] = tab[u]
  BY <1>1, <1>2, InterruptKeeps DEF Moved
<1>4. StoredTokenCurrent'
  <2> SUFFICES ASSUME stored # 0, row[stored].superseded # "no", ~ behind'
               PROVE  \E u \in Tab : Rotated(u)' /\ tab'[u].token = stored
    BY <1>1 DEF StoredTokenCurrent
  <2>1. PICK u \in Tab : Rotated(u) /\ tab[u].token = stored
    BY <1>1 DEF SessionInv, StoredTokenCurrent
  <2>2. u # t
    BY <1>1, <2>1
  <2> QED BY <1>3, <2>1, <2>2 DEF Rotated
<1> QED BY <1>1, <1>2, <1>4, InterruptKeeps DEF SessionInv

-----------------------------------------------------------------------------
LEMMA InitEstablishes == Init => SessionInv
<1> SUFFICES ASSUME Init PROVE SessionInv
  OBVIOUS
<1>1. row = <<>> /\ row \in Seq(Row) /\ Len(row) = 0 /\ Issued = {} /\ stored = 0
  BY DEF Init, Issued
<1>2. Idle \in Frame /\ Idle.at = "idle" /\ Idle.token = 0 /\ Idle.answer = 0
  BY MaxTokensAssumption DEF Idle, Frame, Step
<1>3. tab \in [Tab -> Frame] /\ \A t \in Tab : tab[t] = Idle
  BY <1>2 DEF Init
<1>4. TypeOK
  <2>1. Len(row) <= MaxTokens /\ stored \in 0 .. Len(row)
    BY <1>1, MaxTokensAssumption
  <2>2. \A t \in Tab : tab[t].token <= Len(row) /\ tab[t].answer <= Len(row)
    BY <1>1, <1>2, <1>3
  <2>3. interrupted \subseteq Family /\ ended \subseteq Family /\ behind \in BOOLEAN
    BY DEF Init
  <2> QED BY <1>1, <1>3, <2>1, <2>2, <2>3 DEF TypeOK
<1>5. FramesMatch /\ FamiliesNumbered /\ EndedForGood /\ AnswersFresh
  BY <1>1, <1>2, <1>3 DEF Init, FramesMatch, FamiliesNumbered, EndedForGood, AnswersFresh
<1>6. SessionHasSuccessor /\ StoredTokenCurrent
  BY <1>1 DEF SessionHasSuccessor, StoredTokenCurrent
<1> QED BY <1>4, <1>5, <1>6 DEF SessionInv

LEMMA NextKeeps == SessionInv /\ [Next]_vars => SessionInv'
<1> SUFFICES ASSUME SessionInv, [Next]_vars PROVE SessionInv'
  OBVIOUS
<1>1. CASE \E i \in Issued : GraceEnds(i) \/ Expire(i) \/ Logout(i)
  BY <1>1, GraceEndsKeeps, ExpireKeeps, LogoutKeeps
<1>2. CASE Login \/ Forget
  BY <1>2, LoginKeeps, ForgetKeeps
<1>3. ASSUME NEW t \in Tab,
             \/ StartRefresh(t) \/ Find(t) \/ Grace(t) \/ GraceUnasked(t) \/ Replay(t) \/ Supersede(t)
             \/ Create(t) \/ Adopt(t) \/ SessionExpired(t) \/ Fail(t) \/ Leave(t)
      PROVE  SessionInv'
  BY <1>3, StartRefreshKeeps, FindKeeps, GraceKeeps, ReplayKeeps, SupersedeKeeps,
     CreateKeeps, AdoptKeeps, SessionExpiredKeeps, FailKeeps, LeaveKeeps
<1>4. CASE UNCHANGED vars
  <2>1. UNCHANGED <<row, stored, tab, interrupted, ended, behind>>
    BY <1>4 DEF vars
  <2>2. TypeOK' /\ FramesMatch' /\ FamiliesNumbered' /\ EndedForGood'
    BY <2>1 DEF SessionInv, TypeOK, FramesMatch, FamiliesNumbered, EndedForGood, Issued
  <2>3. AnswersFresh' /\ SessionHasSuccessor' /\ StoredTokenCurrent'
    BY <2>1 DEF SessionInv, AnswersFresh, SessionHasSuccessor, StoredTokenCurrent, Rotated, Issued
  <2> QED BY <2>2, <2>3 DEF SessionInv
<1> QED BY <1>1, <1>2, <1>3, <1>4 DEF Next

(* The strengthened invariant holds in every reachable state. *)
THEOREM SessionInvariant == Spec => []SessionInv
BY InitEstablishes, NextKeeps, PTL DEF Spec

(* The table, the tabs and what they store stay in their types: a tab never  *)
(* holds a token the table does not.                                        *)
THEOREM TypeCorrect == Spec => []TypeOK
<1>1. SessionInv => TypeOK
  BY DEF SessionInv
<1> QED BY <1>1, SessionInvariant, PTL

(* However refreshes interleave, an unrevoked session keeps a token that was *)
(* not rotated, unless a rotation died half done.                           *)
THEOREM SessionsSurviveRotation == Spec => []SessionHasSuccessor
<1>1. SessionInv => SessionHasSuccessor
  BY DEF SessionInv
<1> QED BY <1>1, SessionInvariant, PTL

(* A family revoked while no rotation of it was in flight never has an       *)
(* active token again.                                                      *)
THEOREM RevocationIsFinal == Spec => []EndedStaysEnded
<1>1. SessionInv => EndedStaysEnded
  BY DEF SessionInv, EndedForGood, EndedStaysEnded, ActiveIn, Active
<1> QED BY <1>1, SessionInvariant, PTL

(* The token the tabs share is rotated only by a tab that waits for the       *)
(* reply, or was put back by one within the grace period, or was rotated for *)
(* a tab that is gone (fetchApi, refreshTokens).                            *)
THEOREM StoredTokenIsCurrent == Spec => []StoredTokenCurrent
<1>1. SessionInv => StoredTokenCurrent
  BY DEF SessionInv
<1> QED BY <1>1, SessionInvariant, PTL

-----------------------------------------------------------------------------
(* Lockout and API keys.                                                    *)

(* What a read of the key's row can still be relied on for. *)
Sound(known, read) ==
  /\ api_key # Nothing
  /\ known.expires_at = api_key.expires_at
  /\ known.revoked_at # Never => api_key.revoked_at # Never
  /\ known.revoked_at = Never /\ api_key.revoked_at # Never => read <= api_key.revoked_at
  /\ read <= clock

KeyRevoked == api_key # Nothing /\ api_key.revoked_at # Never

FoundRowsSound == \A r \in Request : At(r, "found") => Sound(frame[r].row, frame[r].read)
EvictorsRevoked == \A r \in Request : At(r, "evict") => KeyRevoked
EntrySound ==
  cache # Nothing => Sound(cache.row, cache.filled - cache.delay) /\ cache.filled <= clock
AcceptanceSound ==
  accepted # Nothing => api_key # Nothing /\ accepted.time <= clock
SettledForGood ==
  settled => /\ KeyRevoked
             /\ NoneReadBefore
             /\ cache # Nothing => cache.row.revoked_at # Never

KeyInv ==
  /\ FoundRowsSound
  /\ EvictorsRevoked
  /\ EntrySound
  /\ AcceptanceSound
  /\ SettledForGood
  /\ AcceptedInWindow

(* A login that verifies a password knows the lock, unless one came since. *)
LockInv ==
  \A r \in Request : At(r, "right") =>
    /\ frame[r].locks <= locks
    /\ frame[r].locks = locks =>
         credential.locked_until \in {frame[r].credential.locked_until, Never}

(* The requests that will add a failure and not lock. *)
Unlocking ==
  {r \in Request : At(r, "wrong") /\ frame[r].credential.failed_attempts + 1 < Threshold}

CountInv ==
  /\ credential.failed_attempts = failures
  /\ credential.locked_until = Never /\ failures >= Threshold - 1 =>
       failures + Cardinality(Unlocking) <= Threshold + Cardinality(Request) - 2

AccessInv == AccessTypeOK /\ KeyInv /\ LockInv /\ CountInv

-----------------------------------------------------------------------------
LEMMA RequestFields ==
  ASSUME NEW f \in RequestFrame
  PROVE  /\ f.at \in {"right", "wrong"} =>
              f.credential \in Credential /\ f.locks \in Nat
         /\ f.at = "found" => f.row \in KeyRow /\ f.read \in Time
BY DEF RequestFrame, AtRest

LEMMA FramesMade ==
  /\ AtRest \in RequestFrame /\ AtRest.at = "idle"
  /\ \A p \in {"right", "wrong"}, c \in Credential, n \in Nat :
       [at |-> p, credential |-> c, locks |-> n] \in RequestFrame
  /\ \A p \in {"miss", "evict"} : [at |-> p] \in RequestFrame
  /\ \A known \in KeyRow, t \in Time : [at |-> "found", row |-> known, read |-> t] \in RequestFrame
BY DEF RequestFrame, AtRest

LEMMA KeyRowFields ==
  /\ \A known \in KeyRow : /\ known.expires_at \in Nat \cup {Never}
                         /\ known.revoked_at \in Nat \cup {Never}
  /\ \A t \in Time : t \in Nat
  /\ Never \notin Nat
  /\ CacheTTL \in Nat /\ CacheTTL > 0
<1>1. \A t \in Time : t \in Nat
  BY TimeAssumption DEF Time
<1>2. \A known \in KeyRow : known.expires_at \in Expiry /\ known.revoked_at \in Time \cup {Never}
  BY DEF KeyRow
<1>3. \A e \in Expiry : e \in Nat \cup {Never}
  BY NeverAssumption
<1>4. \A known \in KeyRow : /\ known.expires_at \in Nat \cup {Never}
                           /\ known.revoked_at \in Nat \cup {Never}
  BY <1>1, <1>2, <1>3
<1>5. Never \notin Nat /\ CacheTTL \in Nat /\ CacheTTL > 0
  BY TimeAssumption, NeverAssumption
<1>. QED
  BY <1>1, <1>4, <1>5

LEMMA InitEstablishesInv == AccessInit => AccessInv
<1>. SUFFICES ASSUME AccessInit PROVE AccessInv
  OBVIOUS
<1>. USE DEF AccessInit
<1>1. \A r \in Request : frame[r].at = "idle"
  BY FramesMade
<1>2. AccessTypeOK
  <2>1. clock \in Time /\ logins \in 0 .. MaxLogins
    BY TimeAssumption DEF Time
  <2>2. credential \in Credential
    BY DEF Credential
  <2>3. frame \in [Request -> RequestFrame]
    BY FramesMade
  <2>. QED
    BY <2>1, <2>2, <2>3 DEF AccessTypeOK
<1>3. KeyInv
  BY <1>1 DEF KeyInv, FoundRowsSound, EvictorsRevoked, EntrySound, AcceptanceSound,
              SettledForGood, AcceptedInWindow, At
<1>4. LockInv
  BY <1>1 DEF LockInv, At
<1>5. CountInv
  <2>1. Unlocking = {}
    BY <1>1 DEF Unlocking, At
  <2>2. Cardinality(Unlocking) = 0 /\ Cardinality(Request) \in Nat /\ Cardinality(Request) > 0
    BY <2>1, FS_EmptySet, FS_CardinalityType, RequestAssumption
  <2>. QED
    BY <2>2, TimeAssumption DEF CountInv
<1>. QED
  BY <1>2, <1>3, <1>4, <1>5 DEF AccessInv

-----------------------------------------------------------------------------
(* A request that moves to f leaves the other frames alone. *)
LEMMA RequestMoved ==
  ASSUME AccessTypeOK, NEW r \in Request, NEW f \in RequestFrame, Proceed(r, f)
  PROVE  /\ frame' \in [Request -> RequestFrame]
         /\ frame'[r] = f
         /\ \A q \in Request : q # r => frame'[q] = frame[q]
BY DEF AccessTypeOK, Proceed

LEMMA Counted ==
  /\ Cardinality(Request) \in Nat /\ Cardinality(Request) >= 1
  /\ Unlocking \in SUBSET Request /\ Cardinality(Unlocking) \in Nat
  /\ \A q \in Request : q \notin Unlocking =>
       Cardinality(Unlocking) <= Cardinality(Request) - 1
<1>1. Unlocking \in SUBSET Request
  BY DEF Unlocking
<1>2. Cardinality(Request) \in Nat /\ Cardinality(Request) # 0
  BY RequestAssumption, FS_CardinalityType, FS_EmptySet
<1>3. IsFiniteSet(Unlocking) /\ Cardinality(Unlocking) \in Nat
  BY <1>1, RequestAssumption, FS_Subset, FS_CardinalityType
<1>4. ASSUME NEW q \in Request, q \notin Unlocking
      PROVE  Cardinality(Unlocking) <= Cardinality(Request) - 1
  <2>1. Unlocking \subseteq Request \ {q}
    BY <1>1, <1>4
  <2>2. IsFiniteSet(Request \ {q}) /\ Cardinality(Request \ {q}) = Cardinality(Request) - 1
    BY RequestAssumption, FS_RemoveElement
  <2>3. Cardinality(Unlocking) <= Cardinality(Request \ {q})
    BY <2>1, <2>2, FS_Subset
  <2>. QED
    BY <2>2, <2>3
<1>. QED
  BY <1>1, <1>2, <1>3, <1>4

(* What happens to the count when nobody begins to verify a wrong password   *)
(* that would not lock: the set shrinks by whoever moves.                   *)
LEMMA FewerUnlocking ==
  ASSUME Unlocking' \in SUBSET Unlocking
  PROVE  /\ Cardinality(Unlocking') \in Nat
         /\ Cardinality(Unlocking') <= Cardinality(Unlocking)
         /\ \A r \in Unlocking : r \notin Unlocking' =>
              Cardinality(Unlocking') <= Cardinality(Unlocking) - 1
<1>1. IsFiniteSet(Unlocking)
  BY RequestAssumption, Counted, FS_Subset
<1>2. IsFiniteSet(Unlocking') /\ Cardinality(Unlocking') \in Nat
      /\ Cardinality(Unlocking') <= Cardinality(Unlocking)
  BY <1>1, FS_Subset, FS_CardinalityType
<1>3. ASSUME NEW r \in Unlocking, r \notin Unlocking'
      PROVE  Cardinality(Unlocking') <= Cardinality(Unlocking) - 1
  <2>1. Unlocking' \subseteq Unlocking \ {r}
    BY <1>3
  <2>2. IsFiniteSet(Unlocking \ {r}) /\ Cardinality(Unlocking \ {r}) = Cardinality(Unlocking) - 1
    BY <1>1, FS_RemoveElement
  <2>3. Cardinality(Unlocking') <= Cardinality(Unlocking \ {r})
    BY <2>1, <2>2, FS_Subset
  <2>. QED
    BY <2>2, <2>3
<1>. QED
  BY <1>2, <1>3

-----------------------------------------------------------------------------
(* The account: what each step does to type, lock and count. *)
AccountInv == LockInv /\ CountInv

LEMMA AccountUntouched ==
  ASSUME AccessTypeOK, AccountInv, UNCHANGED account,
         \A q \in Request : frame'[q] = frame[q] \/ frame'[q].at \notin {"right", "wrong"}
  PROVE  AccountInv'
<1>. USE DEF AccountInv, account
<1>1. LockInv'
  BY DEF LockInv, At
<1>2. Unlocking' \in SUBSET Unlocking
  BY DEF Unlocking, At
<1>3. CountInv'
  BY <1>2, FewerUnlocking, Counted, TimeAssumption DEF CountInv, AccessTypeOK
<1>. QED
  BY <1>1, <1>3

LEMMA VerifyKeepsAccount ==
  ASSUME AccessTypeOK, AccountInv, NEW r \in Request, Verify(r)
  PROVE  AccessTypeOK' /\ AccountInv'
<1>. USE DEF AccountInv
<1>1. PICK password \in {"right", "wrong"} :
        Proceed(r, [at |-> password, credential |-> credential, locks |-> locks])
  BY DEF Verify
<1>. DEFINE f == [at |-> password, credential |-> credential, locks |-> locks]
<1>2. f \in RequestFrame
  BY FramesMade DEF AccessTypeOK
<1>3. /\ frame' \in [Request -> RequestFrame] /\ frame'[r] = f
      /\ \A q \in Request : q # r => frame'[q] = frame[q]
  BY <1>1, <1>2, RequestMoved
<1>4. /\ logins' \in 0 .. MaxLogins
      /\ UNCHANGED <<clock, credential, failures, locks, api_key, cache, accepted, settled>>
  BY TimeAssumption DEF Verify, AccessTypeOK, keys
<1>5. AccessTypeOK'
  BY <1>3, <1>4 DEF AccessTypeOK
<1>6. LockInv'
  <2>. SUFFICES ASSUME NEW q \in Request, At(q, "right")'
                PROVE  /\ frame'[q].locks <= locks
                       /\ frame'[q].locks = locks =>
                            credential.locked_until \in {frame'[q].credential.locked_until, Never}
    BY <1>4 DEF LockInv
  <2>1. CASE q = r
    BY <1>3, <2>1 DEF AccessTypeOK
  <2>2. CASE q # r
    BY <1>3, <2>2 DEF LockInv, At
  <2>. QED
    BY <2>1, <2>2
<1>7. CountInv'
  <2>1. ASSUME failures >= Threshold - 1 PROVE Unlocking' \in SUBSET Unlocking
    <3>. SUFFICES ASSUME NEW q \in Unlocking' PROVE q \in Unlocking
      OBVIOUS
    <3>1. q \in Request /\ frame'[q].at = "wrong"
          /\ frame'[q].credential.failed_attempts + 1 < Threshold
      BY DEF Unlocking, At
    <3>2. q # r
      BY <1>3, <2>1, <3>1, TimeAssumption DEF CountInv, AccessTypeOK
    <3>. QED
      BY <1>3, <3>1, <3>2 DEF Unlocking, At
  <2>. QED
    BY <1>4, <2>1, FewerUnlocking, Counted, TimeAssumption DEF CountInv, AccessTypeOK
<1>. QED
  BY <1>5, <1>6, <1>7

LEMMA RecordFailureKeepsAccount ==
  ASSUME AccessTypeOK, AccountInv, NEW r \in Request, RecordFailure(r)
  PROVE  AccessTypeOK' /\ AccountInv'
<1>. USE DEF AccountInv
<1>1. /\ frame' \in [Request -> RequestFrame] /\ frame'[r] = AtRest
      /\ \A q \in Request : q # r => frame'[q] = frame[q]
  BY FramesMade, RequestMoved DEF RecordFailure
<1>2. /\ failures' = failures + 1
      /\ UNCHANGED <<clock, logins, api_key, cache, accepted, settled>>
  BY DEF RecordFailure, keys
<1>3. /\ credential.failed_attempts \in Nat /\ failures \in Nat /\ locks \in Nat /\ clock \in Nat
      /\ credential.locked_until \in Nat \cup {Never}
      /\ frame[r].at = "wrong" /\ frame[r].credential.failed_attempts \in Nat
  BY RequestFields, KeyRowFields DEF AccessTypeOK, Credential, RecordFailure, At
<1>. DEFINE locking == frame[r].credential.failed_attempts + 1 >= Threshold
<1>4. /\ credential'.failed_attempts = credential.failed_attempts + 1
      /\ credential'.locked_until = IF locking THEN clock + LockTime ELSE credential.locked_until
      /\ locks' = IF locking THEN locks + 1 ELSE locks
      /\ credential' \in Credential
  BY <1>3, TimeAssumption DEF RecordFailure, AccessTypeOK, Credential
<1>5. AccessTypeOK'
  BY <1>1, <1>2, <1>3, <1>4 DEF AccessTypeOK
<1>6. LockInv'
  <2>. SUFFICES ASSUME NEW q \in Request, At(q, "right")'
                PROVE  /\ frame'[q].locks <= locks'
                       /\ frame'[q].locks = locks' =>
                            credential'.locked_until \in {frame'[q].credential.locked_until, Never}
    BY DEF LockInv
  <2>1. q # r /\ frame'[q] = frame[q] /\ frame[q].at = "right"
    BY <1>1, FramesMade DEF At
  <2>2. /\ frame[q].locks <= locks /\ frame[q].locks \in Nat
        /\ frame[q].locks = locks =>
             credential.locked_until \in {frame[q].credential.locked_until, Never}
    BY <2>1, RequestFields DEF LockInv, AccessTypeOK, At
  <2>. QED
    BY <1>3, <1>4, <2>1, <2>2
<1>7. CountInv'
  <2>1. Unlocking' \in SUBSET Unlocking /\ r \notin Unlocking'
    BY <1>1, FramesMade DEF Unlocking, At
  <2>2. CASE locking
    <3>1. credential'.locked_until # Never
      BY <1>3, <1>4, <2>2, KeyRowFields, TimeAssumption
    <3>. QED
      BY <1>2, <1>4, <3>1 DEF CountInv
  <2>3. CASE ~ locking
    <3>1. r \in Unlocking
      BY <1>3, <2>3, TimeAssumption DEF Unlocking, At
    <3>2. Cardinality(Unlocking') <= Cardinality(Unlocking) - 1 /\ Cardinality(Unlocking') \in Nat
      BY <2>1, <3>1, FewerUnlocking
    <3>3. Cardinality(Unlocking) <= Cardinality(Request)
      BY FS_Subset, RequestAssumption, Counted
    <3>. QED
      BY <1>2, <1>3, <1>4, <2>3, <3>2, <3>3, Counted, TimeAssumption DEF CountInv
  <2>. QED
    BY <2>2, <2>3
<1>. QED
  BY <1>5, <1>6, <1>7

LEMMA EnterKeepsAccount ==
  ASSUME AccessTypeOK, AccountInv, NEW r \in Request, Enter(r)
  PROVE  AccessTypeOK' /\ AccountInv'
<1>. USE DEF AccountInv
<1>1. /\ frame' \in [Request -> RequestFrame] /\ frame'[r] = AtRest
      /\ \A q \in Request : q # r => frame'[q] = frame[q]
  BY FramesMade, RequestMoved DEF Enter
<1>2. UNCHANGED <<clock, logins, locks, api_key, cache, accepted, settled>>
  BY DEF Enter, keys
<1>3. CASE frame[r].credential.failed_attempts > 0
  <2>1. credential' = [failed_attempts |-> 0, locked_until |-> Never] /\ failures' = 0
    BY <1>3 DEF Enter
  <2>2. AccessTypeOK'
    BY <1>1, <1>2, <2>1 DEF AccessTypeOK, Credential
  <2>3. LockInv'
    BY <1>1, <1>2, <2>1, FramesMade DEF LockInv, At
  <2>4. Unlocking' \in SUBSET Unlocking /\ r \notin Unlocking
    BY <1>1, FramesMade DEF Unlocking, At, Enter
  <2>5. CountInv'
    BY <2>1, <2>4, FewerUnlocking, Counted, TimeAssumption DEF CountInv
  <2>. QED
    BY <2>2, <2>3, <2>5
<1>4. CASE ~ (frame[r].credential.failed_attempts > 0)
  <2>1. UNCHANGED <<credential, failures>>
    BY <1>4 DEF Enter
  <2>2. AccessTypeOK'
    BY <1>1, <1>2, <2>1 DEF AccessTypeOK
  <2>3. \A q \in Request : frame'[q] = frame[q] \/ frame'[q].at \notin {"right", "wrong"}
    BY <1>1, FramesMade
  <2>. QED
    BY <1>2, <2>1, <2>2, <2>3, AccountUntouched DEF account
<1>. QED
  BY <1>3, <1>4

-----------------------------------------------------------------------------
(* The key: what each step does to type and to what is known of it. *)
LEMMA KeysUntouched ==
  ASSUME AccessTypeOK, KeyInv, UNCHANGED keys, clock' \in Time, clock <= clock',
         \A q \in Request : frame'[q] = frame[q] \/ frame'[q].at \notin {"found", "evict"}
  PROVE  KeyInv'
<1>. USE DEF KeyInv, keys
<1>1. \A known \in KeyRow, read \in Int : Sound(known, read) => Sound(known, read)'
  BY KeyRowFields DEF Sound, AccessTypeOK
<1>2. FoundRowsSound'
  BY <1>1, RequestFields, KeyRowFields DEF FoundRowsSound, At, AccessTypeOK
<1>3. EvictorsRevoked'
  BY DEF EvictorsRevoked, KeyRevoked, At
<1>4. EntrySound'
  BY <1>1, KeyRowFields DEF EntrySound, AccessTypeOK
<1>5. AcceptanceSound' /\ AcceptedInWindow'
  BY KeyRowFields DEF AcceptanceSound, AcceptedInWindow, AccessTypeOK
<1>6. SettledForGood'
  BY DEF SettledForGood, NoneReadBefore, KeyRevoked, At
<1>. QED
  BY <1>2, <1>3, <1>4, <1>5, <1>6

(* An acceptance is within the window of what was read. *)
LEMMA AnswerInWindow ==
  ASSUME AccessTypeOK, KeyInv, NEW entry, entry.row \in KeyRow, entry.filled \in Time,
         entry.delay \in Time, Sound(entry.row, entry.filled - entry.delay),
         entry.filled <= clock, clock < entry.filled + CacheTTL,
         Answer(entry), UNCHANGED <<clock, api_key>>
  PROVE  /\ AcceptanceSound' /\ AcceptedInWindow'
         /\ accepted' # Nothing => accepted'.time \in Time /\ accepted'.delay \in Time
<1>1. CASE Valid(entry.row)
  <2>1. accepted' = [time |-> clock, delay |-> entry.delay]
    BY <1>1 DEF Answer
  <2>2. api_key # Nothing /\ api_key \in KeyRow
    BY DEF Sound, AccessTypeOK
  <2>3. clock \in Time /\ clock \in Nat /\ entry.filled \in Nat /\ entry.delay \in Nat
    BY KeyRowFields DEF AccessTypeOK
  <2>4. api_key.expires_at # Never => clock <= api_key.expires_at
    BY <1>1, <2>2, <2>3, KeyRowFields DEF Sound, Valid
  <2>5. api_key.revoked_at # Never => clock < api_key.revoked_at + CacheTTL + entry.delay
    BY <1>1, <2>2, <2>3, KeyRowFields DEF Sound, Valid
  <2>. QED
    BY <2>1, <2>2, <2>3, <2>4, <2>5 DEF AcceptanceSound, AcceptedInWindow
<1>2. CASE ~ Valid(entry.row)
  BY <1>2 DEF Answer, AcceptanceSound, AcceptedInWindow, KeyInv, AccessTypeOK
<1>. QED
  BY <1>1, <1>2

LEMMA CreateKeyKeepsKeys == ASSUME AccessTypeOK, KeyInv, CreateKey PROVE AccessTypeOK' /\ KeyInv'
<1>. USE DEF KeyInv
<1>1. /\ api_key = Nothing /\ api_key' \in KeyRow
      /\ UNCHANGED <<clock, cache, accepted, settled, frame, credential, logins, failures, locks>>
  BY DEF CreateKey, KeyRow, account
<1>2. \A known, read : ~ Sound(known, read)
  BY <1>1 DEF Sound
<1>3. cache = Nothing /\ accepted = Nothing /\ ~ settled
  BY <1>1, <1>2 DEF EntrySound, AcceptanceSound, SettledForGood, KeyRevoked, AccessTypeOK
<1>4. \A r \in Request : ~ At(r, "found") /\ ~ At(r, "evict")
  BY <1>1, <1>2 DEF FoundRowsSound, EvictorsRevoked, KeyRevoked
<1>5. AccessTypeOK'
  BY <1>1 DEF AccessTypeOK
<1>. QED
  BY <1>1, <1>3, <1>4, <1>5 DEF FoundRowsSound, EvictorsRevoked, EntrySound, AcceptanceSound,
                               SettledForGood, AcceptedInWindow, At

LEMMA HitKeepsKeys ==
  ASSUME AccessTypeOK, KeyInv, NEW r \in Request, Hit(r) PROVE AccessTypeOK' /\ KeyInv'
<1>. USE DEF KeyInv
<1>1. /\ Cached /\ Answer(cache)
      /\ UNCHANGED <<clock, api_key, cache, settled, frame, credential, logins, failures, locks>>
  BY DEF Hit, account
<1>2. /\ AcceptanceSound' /\ AcceptedInWindow'
      /\ accepted' # Nothing => accepted'.time \in Time /\ accepted'.delay \in Time
  <2>1. /\ cache.row \in KeyRow /\ cache.filled \in Time /\ cache.delay \in Time
        /\ Sound(cache.row, cache.filled - cache.delay)
        /\ cache.filled <= clock /\ clock < cache.filled + CacheTTL
    BY <1>1 DEF Cached, EntrySound, AccessTypeOK
  <2>. QED
    BY <1>1, <2>1, AnswerInWindow
<1>3. AccessTypeOK'
  BY <1>1, <1>2 DEF AccessTypeOK
<1>. QED
  BY <1>1, <1>2, <1>3 DEF FoundRowsSound, EvictorsRevoked, EntrySound, SettledForGood,
                          NoneReadBefore, Sound, KeyRevoked, At

LEMMA LookUpKeepsKeys ==
  ASSUME AccessTypeOK, KeyInv, NEW r \in Request, LookUp(r) PROVE AccessTypeOK' /\ KeyInv'
<1>. USE DEF KeyInv
<1>1. UNCHANGED <<clock, api_key, cache, accepted, settled, credential, logins, failures, locks>>
  BY DEF LookUp, account, keys
<1>2. CASE api_key = Nothing
  <2>1. /\ frame' \in [Request -> RequestFrame] /\ frame'[r] = AtRest
        /\ \A q \in Request : q # r => frame'[q] = frame[q]
    BY <1>2, FramesMade, RequestMoved DEF LookUp
  <2>2. AccessTypeOK'
    BY <1>1, <2>1 DEF AccessTypeOK
  <2>3. clock' \in Time /\ clock <= clock'
    BY <1>1, KeyRowFields DEF AccessTypeOK
  <2>. QED
    BY <1>1, <2>1, <2>2, <2>3, FramesMade, KeysUntouched DEF keys
<1>3. CASE api_key # Nothing
  <2>. DEFINE f == [at |-> "found", row |-> api_key, read |-> clock]
  <2>1. f \in RequestFrame /\ api_key \in KeyRow
    BY <1>3, FramesMade DEF AccessTypeOK
  <2>2. /\ frame' \in [Request -> RequestFrame] /\ frame'[r] = f
        /\ \A q \in Request : q # r => frame'[q] = frame[q]
    BY <1>3, <2>1, RequestMoved DEF LookUp
  <2>3. AccessTypeOK'
    BY <1>1, <2>2 DEF AccessTypeOK
  <2>4. FoundRowsSound'
    <3>. SUFFICES ASSUME NEW q \in Request, At(q, "found")'
                  PROVE  Sound(frame[q].row, frame[q].read)'
      BY DEF FoundRowsSound
    <3>1. CASE q = r
      BY <1>1, <1>3, <2>1, <2>2, <3>1, KeyRowFields DEF Sound, AccessTypeOK
    <3>2. CASE q # r
      BY <1>1, <2>2, <3>2 DEF FoundRowsSound, Sound, At
    <3>. QED
      BY <3>1, <3>2
  <2>5. SettledForGood'
    BY <1>1, <2>2 DEF SettledForGood, NoneReadBefore, KeyRevoked, At
  <2>. QED
    BY <1>1, <2>2, <2>3, <2>4, <2>5 DEF EvictorsRevoked, EntrySound, AcceptanceSound,
                                        AcceptedInWindow, Sound, KeyRevoked, At
<1>. QED
  BY <1>2, <1>3

LEMMA FillKeepsKeys ==
  ASSUME AccessTypeOK, KeyInv, NEW r \in Request, Fill(r) PROVE AccessTypeOK' /\ KeyInv'
<1>. USE DEF KeyInv
<1>. DEFINE entry == [row |-> frame[r].row, filled |-> clock, delay |-> clock - frame[r].read]
<1>1. /\ cache' = entry /\ Answer(entry)
      /\ UNCHANGED <<clock, api_key, settled, credential, logins, failures, locks>>
  BY DEF Fill, account
<1>2. /\ frame' \in [Request -> RequestFrame] /\ frame'[r] = AtRest
      /\ \A q \in Request : q # r => frame'[q] = frame[q]
  BY FramesMade, RequestMoved DEF Fill
<1>3. /\ frame[r].row \in KeyRow /\ frame[r].read \in Time
      /\ Sound(frame[r].row, frame[r].read)
  BY RequestFields DEF Fill, FoundRowsSound, At, AccessTypeOK
<1>4. /\ entry.row \in KeyRow /\ entry.filled \in Time /\ entry.delay \in Time
      /\ entry.filled - entry.delay = frame[r].read
      /\ entry.filled <= clock /\ clock < entry.filled + CacheTTL
  <2>1. clock \in Nat /\ frame[r].read \in Nat /\ frame[r].read <= clock /\ clock \in Time
    BY <1>3, KeyRowFields DEF Sound, AccessTypeOK
  <2>2. clock - frame[r].read \in Time
    BY <2>1, TimeAssumption DEF Time
  <2>. QED
    BY <1>3, <2>1, <2>2, KeyRowFields
<1>. HIDE DEF entry
<1>5. Sound(entry.row, entry.filled - entry.delay)
  <2>1. entry.row = frame[r].row
    BY DEF entry
  <2>. QED
    BY <1>3, <1>4, <2>1
<1>6. /\ AcceptanceSound' /\ AcceptedInWindow'
      /\ accepted' # Nothing => accepted'.time \in Time /\ accepted'.delay \in Time
  BY <1>1, <1>4, <1>5, AnswerInWindow
<1>7. AccessTypeOK'
  BY <1>1, <1>2, <1>4, <1>6 DEF AccessTypeOK
<1>8. FoundRowsSound' /\ EvictorsRevoked'
  BY <1>1, <1>2, FramesMade DEF FoundRowsSound, EvictorsRevoked, Sound, KeyRevoked, At
<1>9. EntrySound'
  BY <1>1, <1>4, <1>5 DEF EntrySound, Sound
<1>10. SettledForGood'
  <2>1. settled => entry.row.revoked_at # Never
    BY DEF SettledForGood, NoneReadBefore, Fill, entry
  <2>. QED
    BY <1>1, <1>2, <2>1, FramesMade DEF SettledForGood, NoneReadBefore, KeyRevoked, At
<1>. QED
  BY <1>6, <1>7, <1>8, <1>9, <1>10

LEMMA RevokeKeepsKeys ==
  ASSUME AccessTypeOK, KeyInv, NEW r \in Request, Revoke(r) PROVE AccessTypeOK' /\ KeyInv'
<1>. USE DEF KeyInv
<1>1. /\ api_key # Nothing /\ api_key \in KeyRow /\ api_key.revoked_at = Never
      /\ api_key' = [api_key EXCEPT !.revoked_at = clock]
      /\ UNCHANGED <<clock, cache, accepted, settled, credential, logins, failures, locks>>
  BY DEF Revoke, account, AccessTypeOK
<1>2. /\ frame' \in [Request -> RequestFrame] /\ frame'[r] = [at |-> "evict"]
      /\ \A q \in Request : q # r => frame'[q] = frame[q]
  BY FramesMade, RequestMoved DEF Revoke
<1>3. /\ api_key' \in KeyRow /\ api_key' # Nothing
      /\ api_key'.expires_at = api_key.expires_at /\ api_key'.revoked_at = clock
  BY <1>1, NothingAssumption DEF KeyRow, AccessTypeOK
<1>4. AccessTypeOK'
  BY <1>1, <1>2, <1>3 DEF AccessTypeOK
<1>5. clock \in Nat /\ clock # Never
  BY KeyRowFields DEF AccessTypeOK
<1>6. \A known \in KeyRow, read \in Int : Sound(known, read) => Sound(known, read)'
  BY <1>1, <1>3, <1>5 DEF Sound
<1>7. FoundRowsSound'
  <2>. SUFFICES ASSUME NEW q \in Request, At(q, "found")'
                PROVE  Sound(frame[q].row, frame[q].read)'
    BY DEF FoundRowsSound
  <2>1. q # r /\ frame'[q] = frame[q] /\ frame[q].at = "found"
    BY <1>2 DEF At
  <2>2. frame[q].row \in KeyRow /\ frame[q].read \in Int /\ Sound(frame[q].row, frame[q].read)
    BY <2>1, RequestFields, KeyRowFields DEF FoundRowsSound, At, AccessTypeOK
  <2>3. (Sound(frame[q].row, frame[q].read))'
    BY <1>1, <1>3, <1>5, <2>1, <2>2 DEF Sound
  <2>. QED
    BY <2>3
<1>8. EvictorsRevoked'
  BY <1>3, <1>5 DEF EvictorsRevoked, KeyRevoked
<1>9. EntrySound'
  BY <1>1, <1>3, <1>5 DEF EntrySound, Sound
<1>10. AcceptanceSound' /\ AcceptedInWindow'
  <2>1. accepted # Nothing => accepted.time \in Nat /\ accepted.delay \in Nat
    BY KeyRowFields DEF AccessTypeOK
  <2>. QED
    BY <1>1, <1>3, <1>5, <2>1, KeyRowFields DEF AcceptanceSound, AcceptedInWindow
<1>11. SettledForGood'
  BY <1>1 DEF SettledForGood, KeyRevoked
<1>. QED
  BY <1>4, <1>7, <1>8, <1>9, <1>10, <1>11

LEMMA EvictKeepsKeys ==
  ASSUME AccessTypeOK, KeyInv, NEW r \in Request, Evict(r) PROVE AccessTypeOK' /\ KeyInv'
<1>. USE DEF KeyInv
<1>1. /\ cache' = Nothing /\ settled' = NoneReadBefore
      /\ UNCHANGED <<clock, api_key, accepted, credential, logins, failures, locks>>
  BY DEF Evict, account
<1>2. /\ frame' \in [Request -> RequestFrame] /\ frame'[r] = AtRest
      /\ \A q \in Request : q # r => frame'[q] = frame[q]
  BY FramesMade, RequestMoved DEF Evict
<1>3. AccessTypeOK'
  BY <1>1, <1>2 DEF AccessTypeOK, NoneReadBefore
<1>4. FoundRowsSound' /\ EvictorsRevoked'
  BY <1>1, <1>2, FramesMade DEF FoundRowsSound, EvictorsRevoked, Sound, KeyRevoked, At
<1>5. EntrySound' /\ AcceptanceSound' /\ AcceptedInWindow'
  BY <1>1 DEF EntrySound, AcceptanceSound, AcceptedInWindow
<1>6. SettledForGood'
  <2>1. KeyRevoked
    BY DEF Evict, EvictorsRevoked
  <2>. QED
    BY <1>1, <1>2, <2>1, FramesMade DEF SettledForGood, NoneReadBefore, KeyRevoked, At
<1>. QED
  BY <1>3, <1>4, <1>5, <1>6

LEMMA DisplaceKeepsKeys == ASSUME AccessTypeOK, KeyInv, Displace PROVE AccessTypeOK' /\ KeyInv'
<1>1. /\ cache' = Nothing
      /\ UNCHANGED <<clock, api_key, accepted, settled, frame, credential, logins, failures, locks>>
  BY DEF Displace, account
<1>. QED
  BY <1>1 DEF AccessTypeOK, KeyInv, FoundRowsSound, EvictorsRevoked, EntrySound, AcceptanceSound,
              SettledForGood, AcceptedInWindow, NoneReadBefore, Sound, KeyRevoked, At

-----------------------------------------------------------------------------
LEMMA StepKeepsInv == ASSUME AccessInv, [AccessNext]_access_vars PROVE AccessInv'
<1>. USE DEF AccessInv, AccountInv
<1>0. clock \in Time /\ clock <= clock
  BY KeyRowFields DEF AccessTypeOK
<1>1. ASSUME NEW r \in Request, Verify(r) PROVE AccessInv'
  <2>1. \A q \in Request : frame'[q] = frame[q] \/ frame'[q].at \notin {"found", "evict"}
    BY <1>1 DEF Verify, Proceed, AccessTypeOK
  <2>. QED
    BY <1>0, <1>1, <2>1, VerifyKeepsAccount, KeysUntouched DEF Verify
<1>2. ASSUME NEW r \in Request, RecordFailure(r) \/ Enter(r) PROVE AccessInv'
  <2>1. /\ UNCHANGED <<clock, keys>> /\ Proceed(r, AtRest)
    BY <1>2 DEF RecordFailure, Enter
  <2>2. \A q \in Request : frame'[q] = frame[q] \/ frame'[q].at \notin {"found", "evict"}
    BY <2>1, FramesMade DEF Proceed, AccessTypeOK
  <2>3. KeyInv'
    BY <1>0, <2>1, <2>2, KeysUntouched
  <2>. QED
    BY <1>2, <2>3, RecordFailureKeepsAccount, EnterKeepsAccount
<1>3. ASSUME NEW r \in Request, NEW f \in RequestFrame, Proceed(r, f), f.at \in {"idle", "miss"},
             UNCHANGED <<clock, account, keys>>
      PROVE  AccessInv'
  <2>1. /\ frame' \in [Request -> RequestFrame]
        /\ \A q \in Request : frame'[q] = frame[q] \/ frame'[q] = f
    BY <1>3, RequestMoved
  <2>2. AccessTypeOK'
    BY <1>3, <2>1 DEF AccessTypeOK, account, keys
  <2>3. AccountInv'
    BY <1>3, <2>1, AccountUntouched
  <2>4. KeyInv'
    BY <1>0, <1>3, <2>1, KeysUntouched
  <2>. QED
    BY <2>2, <2>3, <2>4
<1>4. ASSUME NEW r \in Request, Refuse(r) \/ Miss(r) \/ Abandon(r) PROVE AccessInv'
  BY <1>3, <1>4, FramesMade DEF Refuse, Miss, Abandon
<1>5. ASSUME NEW r \in Request, Hit(r) \/ Displace \/ CreateKey PROVE AccessInv'
  <2>1. UNCHANGED account /\ frame' = frame
    BY <1>5 DEF Hit, Displace, CreateKey
  <2>2. AccountInv'
    BY <2>1, AccountUntouched
  <2>. QED
    BY <1>5, <2>2, HitKeepsKeys, DisplaceKeepsKeys, CreateKeyKeepsKeys
<1>6. ASSUME NEW r \in Request, LookUp(r) \/ Fill(r) \/ Revoke(r) \/ Evict(r) PROVE AccessInv'
  <2>1. UNCHANGED account
    BY <1>6 DEF LookUp, Fill, Revoke, Evict
  <2>2. \A q \in Request : frame'[q] = frame[q] \/ frame'[q].at \notin {"right", "wrong"}
    BY <1>6, FramesMade DEF LookUp, Fill, Revoke, Evict, Proceed, AccessTypeOK
  <2>3. AccountInv'
    BY <2>1, <2>2, AccountUntouched
  <2>. QED
    BY <1>6, <2>3, LookUpKeepsKeys, FillKeepsKeys, RevokeKeepsKeys, EvictKeepsKeys
<1>7. ASSUME Passes \/ UNCHANGED access_vars PROVE AccessInv'
  <2>1. UNCHANGED <<account, keys, frame>>
    BY <1>7 DEF Passes, access_vars
  <2>2. clock' \in Time /\ clock <= clock'
    BY <1>7, TimeAssumption DEF Passes, access_vars, Time, AccessTypeOK
  <2>3. AccessTypeOK'
    BY <2>1, <2>2 DEF AccessTypeOK, account, keys
  <2>. QED
    BY <2>1, <2>2, <2>3, AccountUntouched, KeysUntouched
<1>8. PICK r \in Request : TRUE
  BY RequestAssumption
<1>. QED
  BY <1>1, <1>2, <1>4, <1>5, <1>6, <1>7, <1>8 DEF AccessNext, LogInOrFail, Validate

THEOREM AccessInvariant == AccessSpec => []AccessInv
<1>1. AccessInit => AccessInv
  BY InitEstablishesInv
<1>2. AccessInv /\ [AccessNext]_access_vars => AccessInv'
  BY StepKeepsInv
<1>. QED
  BY <1>1, <1>2, PTL DEF AccessSpec

(* The rows, the entry and the requests keep their types; in particular what *)
(* a look-up took for a row was one.                                        *)
THEOREM AccessTypeCorrect == AccessSpec => []AccessTypeOK
<1>1. AccessInv => AccessTypeOK
  BY DEF AccessInv
<1>. QED
  BY <1>1, AccessInvariant, PTL

(* However many requests verify passwords at once, failures pass the         *)
(* threshold by less than their number before the account is locked.        *)
THEOREM AccountLocksInTime == AccessSpec => []LocksInTime
<1>1. AccessInv => LocksInTime
  <2>. SUFFICES ASSUME AccessInv, credential.locked_until = Never
                PROVE  failures < Threshold + Cardinality(Request) - 1
    BY DEF LocksInTime
  <2>. USE Counted, TimeAssumption DEF AccessInv, CountInv, AccessTypeOK
  <2>1. CASE failures >= Threshold - 1
    BY <2>1
  <2>2. CASE ~ (failures >= Threshold - 1)
    BY <2>2
  <2>. QED
    BY <2>1, <2>2
<1>. QED
  BY <1>1, AccessInvariant, PTL

(* A lock in force is lifted only by a login that was past the look-up when  *)
(* it was set.                                                              *)
THEOREM LockYields == AccessSpec => LockYieldsOnlyToRace
<1>1. ASSUME AccessInv, [AccessNext]_access_vars, InForce, credential'.locked_until = Never
      PROVE  \E r \in Request : At(r, "right") /\ frame[r].locks < locks
  <2>. USE DEF AccessInv, AccessTypeOK
  <2>0. /\ credential.locked_until # Never /\ clock < credential.locked_until
        /\ clock \in Nat /\ credential.locked_until \in Nat /\ locks \in Nat
    BY <1>1, KeyRowFields DEF InForce, Credential
  <2>1. credential' # credential
    BY <1>1, <2>0
  <2>2. PICK r \in Request : RecordFailure(r) \/ Enter(r)
    BY <1>1, <2>1 DEF AccessNext, LogInOrFail, Validate, Verify, Refuse, Hit, Miss, LookUp, Fill, Revoke,
                      Evict, Abandon, CreateKey, Displace, Passes, access_vars, account
  <2>3. Enter(r)
    <3>1. CASE RecordFailure(r)
      BY <1>1, <2>0, <3>1, TimeAssumption, KeyRowFields DEF RecordFailure, Credential
    <3>. QED
      BY <2>2, <3>1
  <2>4. At(r, "right") /\ frame[r].locks \in Nat /\ frame[r].locks <= locks
    BY <1>1, <2>3, RequestFields DEF Enter, LockInv, At
  <2>5. frame[r].locks # locks
    BY <1>1, <2>0, <2>3, <2>4 DEF Enter, NotLocked, LockInv
  <2>. QED
    BY <2>0, <2>4, <2>5
<1>. QED
  BY <1>1, AccessInvariant, PTL DEF AccessSpec, LockYieldsOnlyToRace

(* The key is accepted neither after it expired nor longer after it was      *)
(* revoked than an entry lives and its look-up took.                        *)
THEOREM KeysAcceptedInWindow == AccessSpec => []AcceptedInWindow
<1>1. AccessInv => AcceptedInWindow
  BY DEF AccessInv, KeyInv
<1>. QED
  BY <1>1, AccessInvariant, PTL

(* A revocation that was evicted with no look-up under way is final.         *)
THEOREM KeyRevocationIsFinal == AccessSpec => []RevocationSticks
<1>1. AccessInv => RevocationSticks
  BY DEF AccessInv, KeyInv, SettledForGood, RevocationSticks, Valid
<1>. QED
  BY <1>1, AccessInvariant, PTL
=============================================================================
