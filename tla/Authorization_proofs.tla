------------------------ MODULE Authorization_proofs -------------------------
(***************************************************************************)
(* Proofs about signing in: the grants of the demo hub (HubGrants), for    *)
(* any number of browser and refresh requests in flight, of verifications  *)
(* and of tokens, and the sessions of its clients (OAuthSession), for any  *)
(* number of tasks and grants.                                             *)
(*                                                                         *)
(* The hub's invariant has two halves.  GrantInv is about the sign-in and  *)
(* ends with the exchange, which nothing undoes.  FamilyInv is about the   *)
(* tokens it opens: a rotation between its two locks holds the only right  *)
(* to give its token a successor.  The client's invariant says for every   *)
(* await what the lock of the process keeps others from doing meanwhile.   *)
(***************************************************************************)
EXTENDS HubGrants, OAuthSession, FiniteSetTheorems, TLAPS

GrantRow == [state : {"none", "open", "approved", "exchanged", "over"},
             attempt : 0..MaxAttempts, denied : BOOLEAN]
VisitRow == [at : {"away", "verifying", "consenting"}, attempt : 0..MaxAttempts]
TokenRow == [parent : Nat, refresh : {"live", "revoked"}, access : {"live", "revoked"}]
RotationRow == [at : {"idle", "checking", "issuing"}, token : 0..MaxTokens]

GrantTypes ==
  /\ kind \in {"browser", "device"} /\ admitted \in BOOLEAN /\ grant \in GrantRow
  /\ parked \subseteq Attempts /\ late \subseteq Attempts /\ visit \in [Browsers -> VisitRow]

FamilyTypes ==
  /\ tokens \in Seq(TokenRow) /\ Len(tokens) <= MaxTokens
  /\ \A i \in DOMAIN tokens : tokens[i].parent < i
  /\ rotation \in [Refreshers -> RotationRow]
  /\ killed \in BOOLEAN /\ crossed \in BOOLEAN

\* Before the sign-in begins nothing is under way, and a request in flight is about an attempt.
SignInOrder ==
  /\ grant.state = "none" => parked = {} /\ \A b \in Browsers : visit[b].at = "away"
  /\ \A b \in Browsers : visit[b].at # "away" => visit[b].attempt \in Attempts
  /\ SupersededDropped

GrantInv == GrantTypes /\ SignInOrder

Childless(i) == \A j \in DOMAIN tokens : tokens[j].parent # i

Chain ==
  /\ \A i, j \in DOMAIN tokens : tokens[i].parent = tokens[j].parent => i = j
  /\ \A i \in DOMAIN tokens : tokens[i].refresh = "live" => Childless(i)

Rotating(c) == rotation[c].at # "idle"

\* Between its two locks a rotation is the only one of its token, which is spent and childless.
OneRotation ==
  \A c \in Refreshers : Rotating(c) =>
    /\ rotation[c].token \in DOMAIN tokens
    /\ tokens[rotation[c].token].refresh = "revoked"
    /\ Childless(rotation[c].token)
    /\ \A d \in Refreshers : Rotating(d) /\ rotation[d].token = rotation[c].token => d = c

\* Only a family that has tokens is revoked, and then it is quiet unless a rotation was crossed.
Killing ==
  killed =>
    /\ tokens # <<>>
    /\ ~crossed => RevokedStays /\ \A c \in Refreshers : ~Rotating(c)

FamilyInv == FamilyTypes /\ Chain /\ OneRotation /\ Killing

ExchangedFirst == tokens # <<>> => grant.state = "exchanged" /\ ~grant.denied

HubIInv == GrantInv /\ FamilyInv /\ ExchangedFirst

-----------------------------------------------------------------------------
(* The sign-in.                                                            *)

\* Steps that start no attempt and park no claims.
LEMMA GrantMoves ==
  ASSUME GrantInv, grant' \in GrantRow, grant'.attempt = grant.attempt,
         grant'.state = "none" => grant.state = "none",
         parked' \subseteq parked, late' = late, kind' = kind, admitted' \in BOOLEAN,
         visit' \in [Browsers -> VisitRow],
         \A b \in Browsers : \/ visit'[b] = visit[b]
                             \/ visit'[b].at = "away"
                             \/ grant.state # "none" /\ visit'[b].attempt \in Attempts
  PROVE  GrantInv'
<1>1. GrantTypes'
  BY DEF GrantInv, GrantTypes
<1>2. SignInOrder'
  BY DEF GrantInv, SignInOrder, SupersededDropped
<1>3. QED
  BY <1>1, <1>2 DEF GrantInv

LEMMA VisitEffect ==
  ASSUME GrantTypes, NEW b \in Browsers, NEW v \in VisitRow, visit' = [visit EXCEPT ![b] = v]
  PROVE  /\ visit' \in [Browsers -> VisitRow] /\ visit'[b] = v
         /\ \A a \in Browsers : a # b => visit'[a] = visit[a]
BY DEF GrantTypes

LEMMA AwayRow == Away \in VisitRow /\ Away.at = "away"
BY HubAssumption DEF Away, VisitRow

LEMMA RefuseEffect ==
  ASSUME GrantTypes, Refuse
  PROVE  /\ grant' \in GrantRow /\ grant'.attempt = grant.attempt
         /\ grant'.state = "none" => grant.state = "none"
         /\ grant.state = "exchanged" => grant' = grant
         /\ parked' \subseteq parked
<1>1. grant \in GrantRow
  BY DEF GrantTypes
<1>2. CASE kind = "browser"
  BY <1>1, <1>2 DEF Refuse, GrantRow
<1>3. CASE kind # "browser"
  BY <1>1, <1>3 DEF Refuse, GrantRow, Stored
<1>4. QED
  BY <1>2, <1>3

LEMMA DecidedEffect ==
  ASSUME GrantTypes
  PROVE  /\ Decided \in GrantRow /\ Decided.attempt = grant.attempt
         /\ Decided.state = "none" => grant.state = "none"
         /\ grant.state = "exchanged" => Decided = grant
<1>1. grant \in GrantRow
  BY DEF GrantTypes
<1>2. QED
  BY <1>1 DEF Decided, Stored, GrantRow

\* What the callback and the consent form look at is an attempt of a stored sign-in.
LEMMA CurrentAttempt ==
  ASSUME GrantTypes, Current(grant.attempt)
  PROVE  grant.attempt \in Attempts /\ grant.state # "none" /\ grant.state # "exchanged"
BY HubAssumption DEF GrantTypes, GrantRow, Current, Stored, Attempts

\* Every step of the sign-in but the exchange; none of them touches a grant that was exchanged.
LEMMA SignInKeeps ==
  ASSUME GrantInv,
         \/ EditPolicy \/ BeginSignIn \/ BeginVerification \/ ExpireGrant
         \/ \E b \in Browsers :
              Callback(b) \/ Verified(b) \/ NotVerified(b) \/ TakeClaims(b) \/ Decline(b) \/ Consent(b)
  PROVE  GrantInv' /\ (grant.state = "exchanged" => grant' = grant)
<1>0. /\ GrantTypes /\ SignInOrder
      /\ grant \in GrantRow /\ visit \in [Browsers -> VisitRow] /\ admitted \in BOOLEAN
  BY DEF GrantInv, GrantTypes
<1>1. CASE EditPolicy
  <2>1. /\ grant' = grant /\ parked' = parked /\ late' = late /\ kind' = kind /\ visit' = visit
        /\ admitted' \in BOOLEAN
    BY <1>1 DEF EditPolicy
  <2>2. QED
    BY <1>0, <2>1, GrantMoves
<1>2. CASE BeginSignIn
  <2>1. /\ grant.state = "none" /\ grant' \in GrantRow /\ grant'.state = "open"
        /\ UNCHANGED <<kind, admitted, parked, visit, late>>
    <3> DEFINE k == IF kind = "browser" THEN 1 ELSE 0
    <3>1. k \in 0..MaxAttempts
      BY HubAssumption
    <3>2. grant.state = "none" /\ grant' = [grant EXCEPT !.state = "open", !.attempt = k]
      BY <1>2 DEF BeginSignIn
    <3> HIDE DEF k
    <3>3. QED
      BY <1>0, <1>2, <3>1, <3>2 DEF BeginSignIn, GrantRow
  <2>2. parked = {}
    BY <1>0, <2>1 DEF SignInOrder
  <2>3. GrantTypes'
    BY <1>0, <2>1 DEF GrantTypes
  <2>4. SignInOrder'
    BY <1>0, <2>1, <2>2 DEF SignInOrder, SupersededDropped
  <2>5. QED
    BY <2>1, <2>3, <2>4 DEF GrantInv
<1>3. CASE BeginVerification
  <2>1. /\ grant.state # "none" /\ grant.state # "exchanged"
        /\ grant' \in GrantRow /\ grant'.state = grant.state
        /\ parked' = parked \ {grant.attempt}
        /\ UNCHANGED <<kind, admitted, visit, late>>
    BY <1>0, <1>3, HubAssumption DEF BeginVerification, Stored, Superseded, GrantRow
  <2>2. GrantTypes'
    BY <1>0, <2>1 DEF GrantTypes
  <2>3. SignInOrder'
    BY <1>0, <2>1 DEF SignInOrder, SupersededDropped
  <2>4. QED
    BY <2>1, <2>2, <2>3 DEF GrantInv
<1>4. CASE ExpireGrant
  <2>1. /\ grant.state \in {"open", "approved"} /\ grant' \in GrantRow /\ grant'.state = "over"
        /\ grant'.attempt = grant.attempt /\ parked' \subseteq parked
        /\ UNCHANGED <<kind, admitted, visit, late>>
    BY <1>0, <1>4 DEF ExpireGrant, GrantRow
  <2>2. QED
    BY <1>0, <2>1, GrantMoves
<1>5. ASSUME NEW b \in Browsers, Callback(b)
      PROVE  GrantInv' /\ (grant.state = "exchanged" => grant' = grant)
  <2> DEFINE v == [at |-> "verifying", attempt |-> grant.attempt]
  <2>1. grant.attempt \in Attempts /\ grant.state # "none"
    BY <1>0, <1>5, CurrentAttempt DEF Callback
  <2>2. v \in VisitRow /\ v.attempt = grant.attempt
    BY <1>0 DEF VisitRow, GrantRow
  <2>3. visit' = [visit EXCEPT ![b] = v] /\ UNCHANGED <<kind, admitted, grant, parked, late>>
    BY <1>5 DEF Callback
  <2> HIDE DEF v
  <2>4. visit' \in [Browsers -> VisitRow] /\ \A a \in Browsers : visit'[a] = visit[a] \/ visit'[a] = v
    BY <1>0, <2>2, <2>3, VisitEffect
  <2>5. QED
    BY <1>0, <2>1, <2>2, <2>3, <2>4, GrantMoves
<1>6. ASSUME NEW b \in Browsers, Verified(b)
      PROVE  GrantInv' /\ (grant.state = "exchanged" => grant' = grant)
  <2>1. /\ visit[b].at # "away" /\ visit[b].attempt \in Attempts /\ grant.state # "none"
        /\ parked' = parked \cup {visit[b].attempt}
        /\ late' = IF visit[b].attempt = grant.attempt THEN late ELSE late \cup {visit[b].attempt}
        /\ visit' = [visit EXCEPT ![b] = Away] /\ UNCHANGED <<kind, admitted, grant>>
    BY <1>0, <1>6 DEF Verified, SignInOrder
  <2>2. /\ visit' \in [Browsers -> VisitRow]
        /\ \A a \in Browsers : visit'[a] = visit[a] \/ visit'[a].at = "away"
    BY <1>0, <2>1, VisitEffect, AwayRow
  <2>3. GrantTypes'
    BY <1>0, <2>1, <2>2 DEF GrantTypes
  <2>4. SignInOrder'
    BY <1>0, <2>1, <2>2 DEF SignInOrder, SupersededDropped
  <2>5. QED
    BY <2>1, <2>3, <2>4 DEF GrantInv
<1>7. ASSUME NEW b \in Browsers, NotVerified(b) \/ Decline(b)
      PROVE  GrantInv' /\ (grant.state = "exchanged" => grant' = grant)
  <2>1. /\ visit' = [visit EXCEPT ![b] = Away] /\ UNCHANGED <<kind, admitted, late>>
        /\ Refuse \/ UNCHANGED <<grant, parked>>
    BY <1>7 DEF NotVerified, Decline
  <2>2. /\ grant' \in GrantRow /\ grant'.attempt = grant.attempt
        /\ grant'.state = "none" => grant.state = "none"
        /\ grant.state = "exchanged" => grant' = grant
        /\ parked' \subseteq parked
    BY <1>0, <2>1, RefuseEffect
  <2>3. /\ visit' \in [Browsers -> VisitRow]
        /\ \A a \in Browsers : visit'[a] = visit[a] \/ visit'[a].at = "away"
    BY <1>0, <2>1, VisitEffect, AwayRow
  <2>4. QED
    BY <1>0, <2>1, <2>2, <2>3, GrantMoves
<1>8. ASSUME NEW b \in Browsers, TakeClaims(b)
      PROVE  GrantInv' /\ (grant.state = "exchanged" => grant' = grant)
  <2> DEFINE v == [at |-> "consenting", attempt |-> grant.attempt]
  <2>1. grant.attempt \in Attempts /\ grant.state # "none"
    BY <1>0, <1>8, CurrentAttempt DEF TakeClaims
  <2>2. v \in VisitRow /\ v.attempt = grant.attempt
    BY <1>0 DEF VisitRow, GrantRow
  <2>3. /\ visit' = [visit EXCEPT ![b] = v] /\ parked' \subseteq parked
        /\ UNCHANGED <<kind, admitted, grant, late>>
    BY <1>8 DEF TakeClaims
  <2> HIDE DEF v
  <2>4. visit' \in [Browsers -> VisitRow] /\ \A a \in Browsers : visit'[a] = visit[a] \/ visit'[a] = v
    BY <1>0, <2>2, <2>3, VisitEffect
  <2>5. QED
    BY <1>0, <2>1, <2>2, <2>3, <2>4, GrantMoves
<1>9. ASSUME NEW b \in Browsers, Consent(b)
      PROVE  GrantInv' /\ (grant.state = "exchanged" => grant' = grant)
  <2>1. /\ visit' = [visit EXCEPT ![b] = Away] /\ UNCHANGED <<kind, admitted, parked, late>>
        /\ grant' = Decided \/ grant' = grant
    BY <1>9 DEF Consent
  <2>2. /\ grant' \in GrantRow /\ grant'.attempt = grant.attempt
        /\ grant'.state = "none" => grant.state = "none"
        /\ grant.state = "exchanged" => grant' = grant
    BY <1>0, <2>1, DecidedEffect
  <2>3. /\ visit' \in [Browsers -> VisitRow]
        /\ \A a \in Browsers : visit'[a] = visit[a] \/ visit'[a].at = "away"
    BY <1>0, <2>1, VisitEffect, AwayRow
  <2>4. QED
    BY <1>0, <2>1, <2>2, <2>3, GrantMoves
<1>10. QED
  BY <1>1, <1>2, <1>3, <1>4, <1>5, <1>6, <1>7, <1>8, <1>9

-----------------------------------------------------------------------------
(* The token family.                                                       *)

LEMMA IssueEffect ==
  ASSUME FamilyTypes, NEW n \in Nat, n = Len(tokens), NEW parent \in 0..n, Issue(parent)
  PROVE  /\ tokens' \in Seq(TokenRow) /\ Len(tokens') = n + 1 /\ Len(tokens') <= MaxTokens
         /\ DOMAIN tokens' = DOMAIN tokens \cup {n + 1} /\ n + 1 \notin DOMAIN tokens
         /\ tokens'[n + 1].parent = parent /\ tokens' # <<>>
         /\ \A i \in DOMAIN tokens : tokens'[i] = tokens[i]
         /\ \A i \in DOMAIN tokens' : tokens'[i].parent < i
<1> DEFINE row == [parent |-> parent, refresh |-> "live", access |-> "live"]
<1>1. row \in TokenRow /\ row.parent = parent
  BY DEF TokenRow
<1>2. tokens' = Append(tokens, row) /\ n < MaxTokens /\ tokens \in Seq(TokenRow)
  BY DEF Issue, FamilyTypes
<1> HIDE DEF row
<1>3. /\ tokens' \in Seq(TokenRow) /\ Len(tokens') = n + 1 /\ tokens'[n + 1] = row /\ tokens' # <<>>
      /\ DOMAIN tokens' = DOMAIN tokens \cup {n + 1} /\ n + 1 \notin DOMAIN tokens
      /\ \A i \in DOMAIN tokens : tokens'[i] = tokens[i]
  BY <1>1, <1>2
<1>4. \A i \in DOMAIN tokens' : tokens'[i].parent < i
  BY <1>1, <1>3 DEF FamilyTypes
<1>5. QED
  BY <1>1, <1>2, <1>3, <1>4, HubAssumption

LEMMA RevokedEffect ==
  ASSUME FamilyTypes, tokens' = Revoked
  PROVE  /\ tokens' \in Seq(TokenRow) /\ Len(tokens') = Len(tokens) /\ DOMAIN tokens' = DOMAIN tokens
         /\ \A i \in DOMAIN tokens : /\ tokens'[i].parent = tokens[i].parent
                                     /\ tokens'[i].refresh = "revoked" /\ tokens'[i].access = "revoked"
<1> DEFINE revoked(i) == [tokens[i] EXCEPT !.refresh = "revoked", !.access = "revoked"]
<1>1. tokens \in Seq(TokenRow) /\ DOMAIN tokens = 1..Len(tokens)
  BY DEF FamilyTypes
<1>2. tokens' = [i \in DOMAIN tokens |-> revoked(i)]
  BY DEF Revoked
<1>3. ASSUME NEW i \in DOMAIN tokens
      PROVE  /\ revoked(i) \in TokenRow /\ revoked(i).parent = tokens[i].parent
             /\ revoked(i).refresh = "revoked" /\ revoked(i).access = "revoked"
  <2>1. tokens[i] \in TokenRow
    BY <1>1
  <2>2. QED
    BY <2>1 DEF TokenRow
<1> HIDE DEF revoked
<1>4. /\ tokens' = [i \in 1..Len(tokens) |-> revoked(i)]
      /\ \A i \in 1..Len(tokens) : tokens'[i] \in TokenRow
  BY <1>1, <1>2, <1>3
<1>5. tokens' \in Seq(TokenRow) /\ Len(tokens') = Len(tokens) /\ DOMAIN tokens' = DOMAIN tokens
  BY <1>1, <1>4
<1>6. QED
  BY <1>2, <1>3, <1>5

\* Steps that issue nothing: what was live or childless may only become spent.
LEMMA ShapeKept ==
  ASSUME FamilyInv, DOMAIN tokens' = DOMAIN tokens,
         \A i \in DOMAIN tokens : /\ tokens'[i].parent = tokens[i].parent
                                  /\ tokens'[i].refresh = "live" => tokens[i].refresh = "live"
  PROVE  Chain' /\ \A i : Childless(i)' <=> Childless(i)
BY DEF FamilyInv, Chain, Childless

\* A family that is revoked while no other rotation is under way is quiet.
LEMMA RevokeKeeps ==
  ASSUME FamilyInv, tokens # <<>>, NEW others \in SUBSET Refreshers, Revoke(others),
         rotation' \in [Refreshers -> RotationRow],
         \A c \in others : rotation'[c] = rotation[c],
         \A c \in Refreshers \ others : rotation'[c].at = "idle"
  PROVE  FamilyInv'
<1>1. /\ tokens' \in Seq(TokenRow) /\ Len(tokens') = Len(tokens) /\ DOMAIN tokens' = DOMAIN tokens
      /\ \A i \in DOMAIN tokens : /\ tokens'[i].parent = tokens[i].parent
                                  /\ tokens'[i].refresh = "revoked" /\ tokens'[i].access = "revoked"
  BY RevokedEffect DEF FamilyInv, Revoke
<1>2. FamilyTypes'
  BY <1>1 DEF FamilyInv, FamilyTypes, Revoke
<1>3. Chain' /\ \A i : Childless(i)' <=> Childless(i)
  BY <1>1, ShapeKept
<1>4. \A c \in Refreshers : rotation'[c].at # "idle" => rotation'[c] = rotation[c]
  OBVIOUS
<1>5. OneRotation'
  <2> SUFFICES ASSUME NEW c \in Refreshers, rotation'[c].at # "idle"
               PROVE  /\ rotation'[c].token \in DOMAIN tokens'
                      /\ tokens'[rotation'[c].token].refresh = "revoked"
                      /\ Childless(rotation[c].token)'
                      /\ rotation'[c].token = rotation[c].token
                      /\ \A d \in Refreshers :
                           rotation'[d].at # "idle" /\ rotation'[d].token = rotation'[c].token => d = c
    BY DEF OneRotation, Rotating, Childless
  <2>1. rotation'[c] = rotation[c] /\ Rotating(c)
    BY <1>4 DEF Rotating
  <2>2. /\ rotation[c].token \in DOMAIN tokens /\ Childless(rotation[c].token)
        /\ \A d \in Refreshers : Rotating(d) /\ rotation[d].token = rotation[c].token => d = c
    BY <2>1 DEF FamilyInv, OneRotation
  <2>3. \A d \in Refreshers :
          rotation'[d].at # "idle" /\ rotation'[d].token = rotation'[c].token => d = c
    BY <1>4, <2>1, <2>2 DEF Rotating
  <2>4. Childless(rotation[c].token)'
    BY <1>1, <2>1, <2>2 DEF Childless
  <2>5. QED
    BY <1>1, <2>1, <2>2, <2>3, <2>4
<1>6. Killing'
  <2>1. tokens' # <<>>
    BY <1>1 DEF FamilyInv, FamilyTypes
  <2>2. ~crossed' => \A c \in Refreshers : rotation'[c].at = "idle"
    BY DEF Revoke
  <2>3. RevokedStays'
    BY <1>1 DEF RevokedStays
  <2>4. QED
    BY <2>1, <2>2, <2>3 DEF Killing, Rotating
<1>7. QED
  BY <1>2, <1>3, <1>5, <1>6 DEF FamilyInv

\* A pair issued for a token without a successor extends the chain; rotations of other tokens go on.
LEMMA IssueKeepsChain ==
  ASSUME FamilyInv, NEW n \in Nat, n = Len(tokens), NEW parent \in 0..n, Issue(parent),
         Childless(parent),
         parent \in DOMAIN tokens => tokens[parent].refresh = "revoked"
  PROVE  Chain'
<1>1. /\ DOMAIN tokens' = DOMAIN tokens \cup {n + 1} /\ n + 1 \notin DOMAIN tokens
      /\ tokens'[n + 1].parent = parent
      /\ \A i \in DOMAIN tokens : tokens'[i] = tokens[i]
      /\ \A i \in DOMAIN tokens' : tokens'[i].parent < i
  BY IssueEffect DEF FamilyInv
<1>2. DOMAIN tokens = 1..n
  BY DEF FamilyInv, FamilyTypes
<1>6. ASSUME NEW j \in DOMAIN tokens' PROVE tokens'[j].parent \in Nat
  <2>1. FamilyTypes
    BY DEF FamilyInv
  <2>2. tokens' \in Seq(TokenRow)
    BY <2>1, IssueEffect
  <2>3. tokens'[j] \in TokenRow
    BY <1>6, <2>2
  <2>4. QED
    BY <2>3 DEF TokenRow
<1>3. ASSUME NEW i \in DOMAIN tokens', NEW j \in DOMAIN tokens',
             tokens'[i].parent = tokens'[j].parent
      PROVE  i = j
  BY <1>1, <1>3 DEF FamilyInv, Chain, Childless
<1>4. ASSUME NEW i \in DOMAIN tokens', tokens'[i].refresh = "live", NEW j \in DOMAIN tokens'
      PROVE  tokens'[j].parent # i
  <2>1. CASE i = n + 1
    <3>1. tokens'[j].parent < j /\ j \in Nat /\ j <= n + 1
      BY <1>1, <1>2
    <3>2. tokens'[j].parent \in Nat
      BY <1>6
    <3>3. QED
      BY <2>1, <3>1, <3>2
  <2>2. CASE i \in DOMAIN tokens /\ j = n + 1
    BY <1>1, <1>4, <2>2
  <2>3. CASE i \in DOMAIN tokens /\ j \in DOMAIN tokens
    BY <1>1, <1>4, <2>3 DEF FamilyInv, Chain, Childless
  <2>4. QED
    BY <1>1, <2>1, <2>2, <2>3
<1>5. QED
  BY <1>3, <1>4 DEF Chain, Childless

\* The first pair, of a sign-in that was approved and not exchanged before.
LEMMA FirstIssueKeeps ==
  ASSUME FamilyInv, tokens = <<>>, Issue(0), UNCHANGED <<rotation, killed, crossed>>
  PROVE  FamilyInv' /\ tokens' # <<>>
<1>1. DOMAIN tokens = {} /\ Len(tokens) = 0
  OBVIOUS
<1>2. Chain'
  BY <1>1, IssueKeepsChain DEF Childless
<1>3. /\ tokens' \in Seq(TokenRow) /\ Len(tokens') <= MaxTokens /\ tokens' # <<>>
      /\ \A i \in DOMAIN tokens' : tokens'[i].parent < i
  <2>1. FamilyTypes
    BY DEF FamilyInv
  <2>2. PICK n \in Nat : n = Len(tokens) /\ 0 \in 0..n
    BY <1>1
  <2>3. QED
    BY <2>1, <2>2, IssueEffect
<1>4. FamilyTypes'
  BY <1>3 DEF FamilyInv, FamilyTypes
<1>5. \A c \in Refreshers : ~Rotating(c)
  BY <1>1 DEF FamilyInv, OneRotation
<1>6. OneRotation' /\ Killing'
  BY <1>5 DEF OneRotation, Rotating, Killing, FamilyInv
<1>7. QED
  BY <1>2, <1>3, <1>4, <1>6 DEF FamilyInv

\* The first lock of a rotation spends a live token, which has no successor and no other rotation.
LEMMA SpendKeeps ==
  ASSUME FamilyInv, NEW c \in Refreshers, NEW t \in DOMAIN tokens, SpendToken(c, t)
  PROVE  FamilyInv' /\ tokens' # <<>>
<1> DEFINE row == [tokens[t] EXCEPT !.refresh = "revoked"]
           step == [at |-> "checking", token |-> t]
<1>1. /\ tokens \in Seq(TokenRow) /\ DOMAIN tokens = 1..Len(tokens) /\ Len(tokens) <= MaxTokens
      /\ tokens[t] \in TokenRow /\ tokens[t].refresh = "live" /\ rotation[c].at = "idle"
      /\ UNCHANGED <<killed, crossed>>
  BY DEF FamilyInv, FamilyTypes, SpendToken, Spendable
<1>2. /\ row \in TokenRow /\ row.parent = tokens[t].parent /\ row.refresh = "revoked"
      /\ row.access = tokens[t].access
  BY <1>1 DEF TokenRow
<1>3. tokens' = [tokens EXCEPT ![t] = row] /\ rotation' = [rotation EXCEPT ![c] = step]
  BY DEF SpendToken
<1>4. step \in RotationRow /\ step.at = "checking" /\ step.token = t
  BY <1>1, HubAssumption DEF RotationRow
<1> HIDE DEF row, step
<1>5. /\ tokens' \in Seq(TokenRow) /\ Len(tokens') = Len(tokens) /\ DOMAIN tokens' = DOMAIN tokens
      /\ tokens'[t] = row /\ \A i \in DOMAIN tokens : i # t => tokens'[i] = tokens[i]
  BY <1>1, <1>2, <1>3
<1>6. /\ rotation' \in [Refreshers -> RotationRow] /\ rotation'[c] = step
      /\ \A d \in Refreshers : d # c => rotation'[d] = rotation[d]
  BY <1>3, <1>4 DEF FamilyInv, FamilyTypes
<1>7. \A i \in DOMAIN tokens : tokens'[i].parent = tokens[i].parent
  BY <1>2, <1>5
<1>8. FamilyTypes'
  BY <1>1, <1>5, <1>6, <1>7 DEF FamilyInv, FamilyTypes
<1>9. Chain' /\ \A i : Childless(i)' <=> Childless(i)
  BY <1>1, <1>2, <1>5, <1>7, ShapeKept
<1>10. Childless(t)
  BY <1>1 DEF FamilyInv, Chain
<1>11. \A d \in Refreshers : d # c /\ rotation[d].at # "idle" => rotation[d].token # t
  BY <1>1 DEF FamilyInv, OneRotation, Rotating
<1>12. OneRotation'
  <2>1. ASSUME NEW d \in Refreshers, d # c, rotation'[d].at # "idle"
        PROVE  /\ rotation'[d].token \in DOMAIN tokens' /\ rotation'[d].token # t
               /\ tokens'[rotation'[d].token].refresh = "revoked"
               /\ \A j \in DOMAIN tokens' : tokens'[j].parent # rotation'[d].token
               /\ \A k \in Refreshers : k # c /\ rotation'[k].at # "idle"
                    /\ rotation'[k].token = rotation'[d].token => k = d
    <3>1. Rotating(d) /\ rotation'[d] = rotation[d]
      BY <1>6, <2>1 DEF Rotating
    <3>2. /\ rotation[d].token \in DOMAIN tokens /\ tokens[rotation[d].token].refresh = "revoked"
          /\ Childless(rotation[d].token)
          /\ \A k \in Refreshers : Rotating(k) /\ rotation[k].token = rotation[d].token => k = d
      BY <3>1 DEF FamilyInv, OneRotation
    <3>3. QED
      BY <1>5, <1>6, <1>7, <1>11, <2>1, <3>1, <3>2 DEF Rotating, Childless
  <2>2. \A j \in DOMAIN tokens' : tokens'[j].parent # t
    BY <1>5, <1>7, <1>10 DEF Childless
  <2>3. QED
    BY <1>2, <1>4, <1>5, <1>6, <2>1, <2>2 DEF OneRotation, Rotating, Childless
<1>13. Killing'
  <2>1. killed => crossed
    BY <1>1 DEF FamilyInv, Killing, RevokedStays
  <2>2. tokens' # <<>>
    BY <1>1, <1>5
  <2>3. QED
    BY <1>1, <2>1, <2>2 DEF Killing
<1>14. QED
  BY <1>1, <1>5, <1>8, <1>9, <1>12, <1>13 DEF FamilyInv

LEMMA CheckRoleKeeps ==
  ASSUME FamilyInv, NEW c \in Refreshers, CheckRole(c)
  PROVE  FamilyInv'
<1> DEFINE step == [rotation[c] EXCEPT !.at = "issuing"]
<1>1. /\ rotation[c] \in RotationRow /\ rotation[c].at = "checking"
      /\ UNCHANGED <<tokens, killed, crossed>>
      /\ rotation' = [rotation EXCEPT ![c] = step]
  BY DEF FamilyInv, FamilyTypes, CheckRole
<1>2. step \in RotationRow /\ step.at = "issuing" /\ step.token = rotation[c].token
  BY <1>1 DEF RotationRow
<1> HIDE DEF step
<1>3. /\ rotation' \in [Refreshers -> RotationRow]
      /\ \A d \in Refreshers : rotation'[d].token = rotation[d].token
      /\ \A d \in Refreshers : rotation'[d].at # "idle" <=> rotation[d].at # "idle"
  BY <1>1, <1>2 DEF FamilyInv, FamilyTypes
<1>4. FamilyTypes' /\ Chain'
  BY <1>1, <1>3 DEF FamilyInv, FamilyTypes, Chain, Childless
<1>5. OneRotation' /\ Killing'
  BY <1>1, <1>3 DEF FamilyInv, OneRotation, Rotating, Killing, Childless, RevokedStays
<1>6. QED
  BY <1>4, <1>5 DEF FamilyInv

\* The second lock gives the token its one successor.
LEMMA IssueNextKeeps ==
  ASSUME FamilyInv, NEW c \in Refreshers, IssueNext(c)
  PROVE  FamilyInv' /\ tokens' # <<>> /\ tokens # <<>>
<1>0. PICK n \in Nat : n = Len(tokens)
  BY DEF FamilyInv, FamilyTypes
<1> DEFINE t == rotation[c].token
<1>1. /\ Rotating(c) /\ Issue(t) /\ UNCHANGED <<killed, crossed>>
      /\ rotation' = [rotation EXCEPT ![c] = NotRotating]
  BY DEF IssueNext, Rotating
<1>2. /\ t \in DOMAIN tokens /\ tokens[t].refresh = "revoked" /\ Childless(t)
      /\ \A d \in Refreshers : Rotating(d) /\ rotation[d].token = t => d = c
  BY <1>1 DEF FamilyInv, OneRotation
<1>3. DOMAIN tokens = 1..n /\ t \in 0..n
  BY <1>0, <1>2 DEF FamilyInv, FamilyTypes
<1> HIDE DEF t
<1>4. Chain'
  BY <1>0, <1>1, <1>2, <1>3, IssueKeepsChain
<1>5. /\ tokens' \in Seq(TokenRow) /\ Len(tokens') <= MaxTokens /\ tokens' # <<>>
      /\ DOMAIN tokens' = DOMAIN tokens \cup {n + 1} /\ tokens'[n + 1].parent = t
      /\ \A i \in DOMAIN tokens : tokens'[i] = tokens[i]
      /\ \A i \in DOMAIN tokens' : tokens'[i].parent < i
  BY <1>0, <1>1, <1>3, IssueEffect DEF FamilyInv
<1>6. NotRotating \in RotationRow /\ NotRotating.at = "idle"
  BY HubAssumption DEF NotRotating, RotationRow
<1>7. /\ rotation' \in [Refreshers -> RotationRow] /\ rotation'[c].at = "idle"
      /\ \A d \in Refreshers : d # c => rotation'[d] = rotation[d]
  BY <1>1, <1>6 DEF FamilyInv, FamilyTypes
<1>8. FamilyTypes'
  BY <1>1, <1>5, <1>7 DEF FamilyInv, FamilyTypes
<1>9. OneRotation'
  <2> SUFFICES ASSUME NEW d \in Refreshers, rotation'[d].at # "idle"
               PROVE  /\ rotation'[d].token \in DOMAIN tokens'
                      /\ tokens'[rotation'[d].token].refresh = "revoked"
                      /\ \A j \in DOMAIN tokens' : tokens'[j].parent # rotation'[d].token
                      /\ \A k \in Refreshers : rotation'[k].at # "idle"
                           /\ rotation'[k].token = rotation'[d].token => k = d
    BY DEF OneRotation, Rotating, Childless
  <2>1. d # c /\ Rotating(d) /\ rotation'[d] = rotation[d]
    BY <1>7 DEF Rotating
  <2>2. /\ rotation[d].token \in DOMAIN tokens /\ tokens[rotation[d].token].refresh = "revoked"
        /\ Childless(rotation[d].token) /\ rotation[d].token # t
        /\ \A k \in Refreshers : Rotating(k) /\ rotation[k].token = rotation[d].token => k = d
    BY <1>2, <2>1 DEF FamilyInv, OneRotation
  <2>3. \A j \in DOMAIN tokens' : tokens'[j].parent # rotation'[d].token
    BY <1>5, <2>1, <2>2 DEF Childless
  <2>4. QED
    BY <1>5, <1>7, <2>1, <2>2, <2>3 DEF Rotating
<1>10. Killing'
  <2>1. killed => crossed
    BY <1>1 DEF FamilyInv, Killing
  <2>2. QED
    BY <1>1, <1>5, <2>1 DEF Killing
<1>11. QED
  BY <1>2, <1>4, <1>5, <1>8, <1>9, <1>10 DEF FamilyInv

-----------------------------------------------------------------------------
(* The theorem.                                                            *)

LEMMA FamilyUnchanged ==
  ASSUME FamilyInv, UNCHANGED <<tokens, rotation, killed, crossed>>
  PROVE  FamilyInv'
BY DEF FamilyInv, FamilyTypes, Chain, Childless, OneRotation, Rotating, Killing, RevokedStays

LEMMA GrantUnchanged ==
  ASSUME GrantInv, UNCHANGED <<kind, admitted, grant, parked, visit, late>>
  PROVE  GrantInv'
BY DEF GrantInv, GrantTypes, SignInOrder, SupersededDropped

LEMMA HubStep ==
  ASSUME HubIInv, [HubNext]_hubVars
  PROVE  HubIInv'
<1>0. GrantInv /\ FamilyInv /\ ExchangedFirst /\ grant \in GrantRow
  BY DEF HubIInv, GrantInv, GrantTypes
<1>1. CASE \/ EditPolicy \/ BeginSignIn \/ BeginVerification \/ ExpireGrant
           \/ \E b \in Browsers :
                Callback(b) \/ Verified(b) \/ NotVerified(b) \/ TakeClaims(b) \/ Decline(b) \/ Consent(b)
  <2>1. GrantInv' /\ (grant.state = "exchanged" => grant' = grant)
    BY <1>0, <1>1, SignInKeeps
  <2>2. UNCHANGED <<tokens, rotation, killed, crossed>>
    BY <1>1
    DEF EditPolicy, BeginSignIn, BeginVerification, ExpireGrant, Callback, Verified, NotVerified,
                TakeClaims, Decline, Consent
  <2>3. FamilyInv'
    BY <1>0, <2>2, FamilyUnchanged
  <2>4. ExchangedFirst'
    BY <1>0, <2>1, <2>2 DEF ExchangedFirst
  <2>5. QED
    BY <2>1, <2>3, <2>4 DEF HubIInv
<1>2. CASE Exchange
  <2>1. /\ grant.state = "approved" /\ ~grant.denied
        /\ UNCHANGED <<kind, admitted, parked, visit, late, rotation, killed, crossed>>
    BY <1>2 DEF Exchange
  <2>2. tokens = <<>>
    BY <1>0, <2>1 DEF ExchangedFirst
  <2>3. CASE Issue(0) /\ grant' = Exchanged
    <3>1. FamilyInv' /\ tokens' # <<>>
      BY <1>0, <2>1, <2>2, <2>3, FirstIssueKeeps
    <3>2. /\ grant' \in GrantRow /\ grant'.state = "exchanged"
          /\ grant'.attempt = grant.attempt /\ ~grant'.denied
      BY <1>0, <2>1, <2>3 DEF Exchanged, GrantRow
    <3>3. GrantInv'
      BY <1>0, <2>1, <3>2, GrantMoves DEF GrantInv, GrantTypes
    <3>4. QED
      BY <3>1, <3>2, <3>3 DEF HubIInv, ExchangedFirst
  <2>4. CASE grant' = [grant EXCEPT !.state = "over"] /\ UNCHANGED tokens
    <3>1. FamilyInv'
      BY <1>0, <2>1, <2>4, FamilyUnchanged
    <3>2. grant' \in GrantRow /\ grant'.state = "over" /\ grant'.attempt = grant.attempt
      BY <1>0, <2>4 DEF GrantRow
    <3>3. GrantInv'
      BY <1>0, <2>1, <3>2, GrantMoves DEF GrantInv, GrantTypes
    <3>4. QED
      BY <2>2, <2>4, <3>1, <3>3 DEF HubIInv, ExchangedFirst
  <2>5. QED
    BY <1>2, <2>3, <2>4 DEF Exchange
<1>3. ASSUME UNCHANGED <<kind, admitted, grant, parked, visit, late>>, FamilyInv',
             tokens # <<>> \/ tokens' = tokens
      PROVE  HubIInv'
  BY <1>0, <1>3, GrantUnchanged DEF HubIInv, ExchangedFirst
<1>4. CASE RevokeFamily \/ \E i \in DOMAIN tokens : ReuseToken(i)
  <2>1. /\ tokens # <<>> /\ Revoke(Refreshers) /\ rotation' = rotation
        /\ UNCHANGED <<kind, admitted, grant, parked, visit, late>>
    BY <1>4 DEF RevokeFamily, ReuseToken
  <2>2. FamilyInv'
    BY <1>0, <2>1, RevokeKeeps DEF FamilyInv, FamilyTypes
  <2>3. QED
    BY <1>3, <2>1, <2>2
<1>5. ASSUME NEW c \in Refreshers, RefuseRotation(c) PROVE HubIInv'
  <2>1. /\ Revoke(Refreshers \ {c}) /\ rotation' = [rotation EXCEPT ![c] = NotRotating] /\ Rotating(c)
        /\ UNCHANGED <<kind, admitted, grant, parked, visit, late>>
    BY <1>5 DEF RefuseRotation, Rotating
  <2>2. tokens # <<>>
    BY <1>0, <2>1 DEF FamilyInv, OneRotation
  <2>3. NotRotating \in RotationRow /\ NotRotating.at = "idle"
    BY HubAssumption DEF NotRotating, RotationRow
  <2>4. /\ rotation' \in [Refreshers -> RotationRow] /\ rotation'[c].at = "idle"
        /\ \A d \in Refreshers \ {c} : rotation'[d] = rotation[d]
    BY <1>0, <2>1, <2>3 DEF FamilyInv, FamilyTypes
  <2>5. FamilyInv'
    <3>1. \A d \in Refreshers \ (Refreshers \ {c}) : rotation'[d].at = "idle"
      BY <2>4
    <3>2. QED
      BY <1>0, <2>1, <2>2, <2>4, <3>1, RevokeKeeps
  <2>6. QED
    BY <1>3, <2>1, <2>2, <2>5
<1>6. ASSUME NEW c \in Refreshers, NEW i \in DOMAIN tokens, SpendToken(c, i) PROVE HubIInv'
  <2>1. FamilyInv'
    BY <1>0, <1>6, SpendKeeps
  <2>2. tokens # <<>> /\ UNCHANGED <<kind, admitted, grant, parked, visit, late>>
    BY <1>6 DEF SpendToken
  <2>3. QED
    BY <1>3, <2>1, <2>2
<1>7. ASSUME NEW c \in Refreshers, CheckRole(c) PROVE HubIInv'
  BY <1>0, <1>3, <1>7, CheckRoleKeeps DEF CheckRole
<1>8. ASSUME NEW c \in Refreshers, IssueNext(c) PROVE HubIInv'
  BY <1>0, <1>3, <1>8, IssueNextKeeps DEF IssueNext
<1>9. CASE UNCHANGED hubVars
  BY <1>0, <1>3, <1>9, FamilyUnchanged DEF hubVars
<1>10. QED
  BY <1>1, <1>2, <1>4, <1>5, <1>6, <1>7, <1>8, <1>9 DEF HubNext, SignIn, Rotate

THEOREM HubIInvHolds == HubSpec => []HubIInv
<1>1. HubInit => HubIInv
  <2> SUFFICES ASSUME HubInit PROVE HubIInv
    OBVIOUS
  <2>1. GrantInv
    BY HubAssumption, AwayRow
    DEF HubInit, GrantInv, GrantTypes, GrantRow, SignInOrder, SupersededDropped
  <2>2. NotRotating \in RotationRow /\ NotRotating.at = "idle"
    BY HubAssumption DEF NotRotating, RotationRow
  <2>3. FamilyInv
    <3>1. /\ tokens = <<>> /\ DOMAIN tokens = {} /\ Len(tokens) = 0 /\ tokens \in Seq(TokenRow)
          /\ killed = FALSE /\ crossed = FALSE /\ rotation = [c \in Refreshers |-> NotRotating]
      BY DEF HubInit
    <3>2. \A c \in Refreshers : ~Rotating(c)
      BY <2>2, <3>1 DEF Rotating
    <3>3. rotation \in [Refreshers -> RotationRow]
      BY <2>2, <3>1
    <3>4. FamilyTypes
      <4>1. Len(tokens) <= MaxTokens
        BY <3>1, HubAssumption
      <4>2. \A i \in DOMAIN tokens : tokens[i].parent < i
        BY <3>1
      <4>3. killed \in BOOLEAN /\ crossed \in BOOLEAN
        BY <3>1
      <4>4. QED
        BY <3>1, <3>3, <4>1, <4>2, <4>3 DEF FamilyTypes
    <3>5. Chain /\ OneRotation /\ Killing
      BY <3>1, <3>2 DEF Chain, OneRotation, Killing
    <3>6. QED
      BY <3>4, <3>5 DEF FamilyInv
  <2>4. QED
    BY <2>1, <2>3 DEF HubIInv, ExchangedFirst, HubInit
<1>2. HubIInv /\ [HubNext]_hubVars => HubIInv'
  BY HubStep
<1>3. QED
  BY <1>1, <1>2, PTL DEF HubSpec

\* A token has at most one successor, and none while it is live.
LEMMA ChainCounts ==
  ASSUME FamilyInv
  PROVE  FamilyIsChain
<1>1. ASSUME NEW i PROVE Cardinality(Successors(i)) <= 1
  <2>1. CASE Successors(i) = {}
    BY <2>1, FS_EmptySet
  <2>2. CASE Successors(i) # {}
    <3>1. PICK j : j \in Successors(i)
      BY <2>2
    <3>2. Successors(i) = {j}
      BY <3>1 DEF Successors, FamilyInv, Chain
    <3>3. QED
      BY <3>2, FS_Singleton
  <2>3. QED
    BY <2>1, <2>2
<1>2. \A i \in DOMAIN tokens : tokens[i].refresh = "live" => Successors(i) = {}
  BY DEF FamilyInv, Chain, Childless, Successors
<1>3. QED
  BY <1>1, <1>2 DEF FamilyIsChain

\* For any number of browsers, refreshers, verifications and tokens, however their requests overlap:
\* a grant is exchanged once and only after a consent nobody took back, a refresh token is rotated
\* once, a revoked family stays revoked unless the revocation fell between the two locks of a
\* rotation, and superseded claims do not pile up (Gateway of the demo hub).
THEOREM GrantsAreSpentOnce == HubSpec => []HubInv
<1>1. HubIInv => HubInv
  <2> SUFFICES ASSUME HubIInv PROVE HubInv
    OBVIOUS
  <2>0. GrantInv /\ FamilyInv /\ ExchangedFirst
    BY DEF HubIInv
  <2>1. HubTypeOK
    <3>1. ASSUME NEW i \in DOMAIN tokens
          PROVE  tokens[i] \in [parent : 0..(i - 1), refresh : {"live", "revoked"},
                                access : {"live", "revoked"}]
      <4>1. i \in Nat /\ tokens[i] \in TokenRow /\ tokens[i].parent < i
        BY <2>0 DEF FamilyInv, FamilyTypes
      <4>2. QED
        BY <4>1 DEF TokenRow
    <3>2. QED
      BY <2>0, <3>1
      DEF HubTypeOK, GrantInv, GrantTypes, GrantRow, VisitRow, FamilyInv, FamilyTypes,
          RotationRow
  <2>2. FamilyIsChain /\ SupersededDropped
    BY <2>0, ChainCounts DEF GrantInv, SignInOrder
  <2>3. ~crossed => RevokedStays
    BY <2>0 DEF FamilyInv, Killing, RevokedStays
  <2>4. QED
    BY <2>0, <2>1, <2>2, <2>3 DEF HubInv, ExchangedFirst
<1>2. QED
  BY <1>1, HubIInvHolds, PTL

-----------------------------------------------------------------------------
(* The client's side of a session (OAuthSession): any number of processes, *)
(* tasks and grants for what one process may do; what the store holds is   *)
(* promised to a process that has it to itself.                            *)

Places == {"idle", "early", "send", "sent", "recover", "refresh", "save", "clear", "login", "consent",
           "revoke"}
HandRow == [op : {"none", "request", "login", "logout"}, at : Places, seen : {NoGrant} \cup Grants,
            left : BOOLEAN, joined : BOOLEAN, again : BOOLEAN]

\* Between these awaits a task holds the login_lock of its process.
Holding(t) == hand[t].at \in {"refresh", "save", "clear", "consent", "revoke"}

\* One process has the store.
OneSharer == \A p, q \in Sharers : p = q

\* What the issuer has given out: families start with their first grant.
IssuerTypes ==
  /\ issuer.family \in Seq(Nat) /\ Len(issuer.family) <= MaxGrants
  /\ \A g \in DOMAIN issuer.family : issuer.family[g] \in DOMAIN issuer.family
  /\ issuer = [family |-> issuer.family, spent |-> issuer.spent, revoked |-> issuer.revoked,
               ended |-> issuer.ended]
  /\ issuer.spent \subseteq Issued /\ issuer.ended \subseteq Issued /\ issuer.revoked \subseteq Issued

SessionTypes ==
  /\ store \in {NoGrant} \cup Issued
  /\ session \in [Sharers -> {NoGrant} \cup Issued]
  /\ signed_out \in [Sharers -> BOOLEAN] /\ cleared \in [Sharers -> BOOLEAN]
  /\ login_lock \in [Sharers -> Hands \cup {NoHand}]
  /\ hand \in [Hands -> HandRow]
  /\ \A t \in Hands : hand[t].seen \in {NoGrant} \cup Issued
  /\ authFaults \in 0..MaxAuthFaults

\* The lock of a process belongs to its task that is between two awaits of a critical section.
LocksHeld == \A t \in Hands : login_lock[P(t)] = t <=> Holding(t)

\* Where a task of each kind may be, and that it refreshes a grant it has.
TaskOrder ==
  \A t \in Hands :
    /\ hand[t].op = "none" <=> hand[t].at = "idle"
    /\ hand[t].at \in {"early", "refresh", "save"} => hand[t].seen # NoGrant

\* A process that is signed out has no grant and none on the way.
SignedOutIsOut ==
  /\ \A p \in Sharers : signed_out[p] => session[p] = NoGrant
  /\ \A t \in Hands : hand[t].at \in {"refresh", "save"} => ~signed_out[P(t)]

\* A store that a sign-out emptied stays empty while its process is signed out.
OutOfStore == OneSharer => SignOutEmptiesStore

\* A grant in use has not been spent, or its family is dead; the stored one may be spent while its
\* successor is being saved.
Fresh(g) == g = NoGrant \/ g \notin issuer.spent \/ Dead(g)

GrantsFresh ==
  OneSharer /\ authFaults = 0 =>
    /\ \A p \in Sharers : Fresh(session[p])
    /\ Fresh(store) \/ \E t \in Hands : hand[t].at = "save"
    /\ \A t \in Hands : hand[t].at \in {"refresh", "save"} => Fresh(hand[t].seen)

AuthInv ==
  /\ IssuerTypes /\ SessionTypes /\ LocksHeld /\ TaskOrder /\ SignedOutIsOut /\ OutOfStore
  /\ GrantsFresh

LEMMA HandsAt ==
  ASSUME AuthInv, NEW t \in Hands
  PROVE  /\ hand[t] \in HandRow /\ hand[t].seen \in {NoGrant} \cup Issued /\ P(t) \in Sharers
         /\ hand[t].op \in {"none", "request", "login", "logout"} /\ hand[t].at \in Places
BY AuthAssumption DEF AuthInv, SessionTypes, P, HandRow

LEMMA OneHolder ==
  ASSUME AuthInv, NEW t \in Hands, NEW u \in Hands, P(t) = P(u), Holding(t) \/ login_lock[P(t)] = NoHand,
         Holding(u)
  PROVE  t = u
BY AuthAssumption DEF AuthInv, LocksHeld

LEMMA HandMoves ==
  ASSUME AuthInv, NEW t \in Hands, NEW row \in HandRow, hand' = [hand EXCEPT ![t] = row]
  PROVE  /\ hand' \in [Hands -> HandRow] /\ hand'[t] = row
         /\ \A u \in Hands : u # t => hand'[u] = hand[u]
BY DEF AuthInv, SessionTypes

\* Whoever publishes a grant tells the tasks that wait, and nothing else of theirs.
LEMMA HandPublishes ==
  ASSUME AuthInv, NEW t \in Hands, NEW row \in HandRow, hand' = Publishing(t, row)
  PROVE  /\ hand' \in [Hands -> HandRow] /\ hand'[t] = row
         /\ \A u \in Hands : u # t => /\ hand'[u].at = hand[u].at /\ hand'[u].op = hand[u].op
                                      /\ hand'[u].seen = hand[u].seen
<1>1. ASSUME NEW u \in Hands
      PROVE  /\ [hand[u] EXCEPT !.joined = TRUE] \in HandRow
             /\ [hand[u] EXCEPT !.joined = TRUE].at = hand[u].at
             /\ [hand[u] EXCEPT !.joined = TRUE].op = hand[u].op
             /\ [hand[u] EXCEPT !.joined = TRUE].seen = hand[u].seen
  BY HandsAt DEF HandRow
<1>2. ASSUME NEW u \in Hands
      PROVE  hand'[u] = IF u = t THEN row
                        ELSE IF u \in Mates(t) THEN [hand[u] EXCEPT !.joined = TRUE] ELSE hand[u]
  BY DEF Publishing
<1>3. \A u \in Hands : hand'[u] \in HandRow
  BY <1>1, <1>2 DEF AuthInv, SessionTypes
<1>4. hand' \in [Hands -> HandRow]
  BY <1>3 DEF Publishing
<1>5. QED
  BY <1>1, <1>2, <1>4

LEMMA IdleIs ==
  /\ IdleHand \in HandRow /\ IdleHand.op = "none" /\ IdleHand.at = "idle" /\ IdleHand.seen = NoGrant
BY DEF IdleHand, HandRow, Places

\* The issuer's answers.
LEMMA IssuerRotates ==
  ASSUME IssuerTypes, NEW g \in Issued, NextGrant \in Grants, issuer' = Rotated(g)
  PROVE  /\ IssuerTypes' /\ Issued' = Issued \cup {NextGrant} /\ NextGrant \notin Issued
         /\ issuer'.spent = issuer.spent \cup {g} /\ issuer'.revoked = issuer.revoked
         /\ \A x \in Issued : issuer'.family[x] = issuer.family[x]
<1>1. /\ issuer'.family = Append(issuer.family, issuer.family[g])
      /\ issuer'.spent = issuer.spent \cup {g} /\ issuer'.ended = issuer.ended
      /\ issuer'.revoked = issuer.revoked
      /\ issuer' = [family |-> issuer'.family, spent |-> issuer'.spent, revoked |-> issuer'.revoked,
                    ended |-> issuer'.ended]
  BY DEF IssuerTypes, Rotated
<1>2. /\ issuer.family \in Seq(Nat) /\ issuer.family[g] \in Nat /\ Len(issuer.family) < MaxGrants
      /\ issuer.family[g] \in Issued
  BY AuthAssumption DEF IssuerTypes, NextGrant, Grants, Issued
<1>3. /\ issuer'.family \in Seq(Nat) /\ Len(issuer'.family) = Len(issuer.family) + 1
      /\ \A x \in Issued : issuer'.family[x] = issuer.family[x]
      /\ issuer'.family[NextGrant] = issuer.family[g]
  BY <1>1, <1>2 DEF NextGrant, Issued
<1>4. Issued' = Issued \cup {NextGrant} /\ NextGrant \notin Issued
  <2>1. Issued = 1..Len(issuer.family) /\ Issued' = 1..Len(issuer'.family)
    BY <1>2, <1>3 DEF Issued
  <2>2. \A n \in Nat : 1..(n + 1) = (1..n) \cup {n + 1} /\ n + 1 \notin 1..n
    OBVIOUS
  <2>3. Len(issuer.family) \in Nat
    BY <1>2
  <2>4. QED
    BY <1>3, <2>1, <2>2, <2>3 DEF NextGrant
<1>5. IssuerTypes'
  BY <1>1, <1>2, <1>3, <1>4, AuthAssumption DEF IssuerTypes, Issued
<1>6. QED
  BY <1>1, <1>3, <1>4, <1>5

LEMMA FamilyBegins ==
  ASSUME IssuerTypes, NextGrant \in Grants, issuer' = WithNewFamily
  PROVE  /\ IssuerTypes' /\ Issued' = Issued \cup {NextGrant} /\ NextGrant \notin Issued
         /\ issuer'.spent = issuer.spent /\ issuer'.revoked = issuer.revoked
         /\ \A x \in Issued : issuer'.family[x] = issuer.family[x]
<1>1. /\ issuer'.family = Append(issuer.family, NextGrant)
      /\ issuer'.spent = issuer.spent /\ issuer'.ended = issuer.ended
      /\ issuer'.revoked = issuer.revoked
      /\ issuer' = [family |-> issuer'.family, spent |-> issuer'.spent, revoked |-> issuer'.revoked,
                    ended |-> issuer'.ended]
  BY DEF IssuerTypes, WithNewFamily
<1>2. issuer.family \in Seq(Nat) /\ NextGrant \in Nat /\ Len(issuer.family) < MaxGrants
  BY AuthAssumption DEF IssuerTypes, NextGrant, Grants
<1>3. /\ issuer'.family \in Seq(Nat) /\ Len(issuer'.family) = Len(issuer.family) + 1
      /\ \A x \in Issued : issuer'.family[x] = issuer.family[x]
      /\ issuer'.family[NextGrant] = NextGrant
  BY <1>1, <1>2 DEF NextGrant, Issued
<1>4. Issued' = Issued \cup {NextGrant} /\ NextGrant \notin Issued
  <2>1. Issued = 1..Len(issuer.family) /\ Issued' = 1..Len(issuer'.family)
    BY <1>2, <1>3 DEF Issued
  <2>2. \A n \in Nat : 1..(n + 1) = (1..n) \cup {n + 1} /\ n + 1 \notin 1..n
    OBVIOUS
  <2>3. Len(issuer.family) \in Nat
    BY <1>2
  <2>4. QED
    BY <1>3, <2>1, <2>2, <2>3 DEF NextGrant
<1>5. IssuerTypes'
  BY <1>1, <1>2, <1>3, <1>4, AuthAssumption DEF IssuerTypes, Issued
<1>6. QED
  BY <1>1, <1>3, <1>4, <1>5

LEMMA FamilyDies ==
  ASSUME IssuerTypes, NEW g \in Issued, issuer' = FamilyRevoked(g)
  PROVE  /\ IssuerTypes' /\ Issued' = Issued /\ issuer'.spent = issuer.spent
         /\ issuer'.family = issuer.family /\ issuer.revoked \subseteq issuer'.revoked
<1>1. /\ issuer'.family = issuer.family
      /\ issuer'.spent = issuer.spent /\ issuer'.ended = issuer.ended
      /\ issuer'.revoked = issuer.revoked \cup {issuer.family[g]}
      /\ issuer' = [family |-> issuer'.family, spent |-> issuer'.spent, revoked |-> issuer'.revoked,
                    ended |-> issuer'.ended]
  BY DEF IssuerTypes, FamilyRevoked
<1>2. QED
  BY <1>1 DEF IssuerTypes, Issued

LEMMA IssuedAreGrants ==
  ASSUME IssuerTypes
  PROVE  Issued \subseteq Grants /\ NoGrant \notin Issued
BY AuthAssumption DEF IssuerTypes, Issued, Grants, NoGrant

LEMMA RequestBegins ==
  ASSUME AuthInv, NEW t \in Hands, NEW expiring \in BOOLEAN, BeginRequest(t, expiring)
  PROVE  AuthInv'
<1>1. hand[t].at = "idle" /\ session[P(t)] \in {NoGrant} \cup Issued
  BY HandsAt DEF BeginRequest, AuthInv, SessionTypes
<1>2. UNCHANGED <<store, session, signed_out, issuer, authFaults, cleared>>
  BY DEF BeginRequest
<1>3. /\ hand' \in [Hands -> HandRow] /\ hand'[t].op = "request"
      /\ hand'[t].at \in {"early", "send"} /\ hand'[t].seen = session[P(t)]
      /\ (hand'[t].at = "early" => session[P(t)] # NoGrant)
      /\ \A u \in Hands : u # t => /\ hand'[u].at = hand[u].at /\ hand'[u].op = hand[u].op
                                   /\ hand'[u].seen = hand[u].seen
  <2> DEFINE row == [IdleHand EXCEPT !.op = "request",
                !.at = IF expiring THEN "early" ELSE "send", !.seen = session[P(t)]]
  <2>1. hand[t] \in HandRow /\ hand[t].seen \in {NoGrant} \cup Issued /\ P(t) \in Sharers
    BY HandsAt
  <2>2. /\ row \in HandRow /\ row.op = "request" /\ row.at \in {"early", "send"}
        /\ row.seen = session[P(t)] /\ (row.at = "early" => session[P(t)] # NoGrant)
    BY <1>1, <2>1, IssuedAreGrants DEF HandRow, Places, IdleHand, BeginRequest, AuthInv
  <2>3. hand' = [hand EXCEPT ![t] = row]
    BY DEF BeginRequest, Goes, AuthInv, SessionTypes
  <2> HIDE DEF row
  <2>4. QED
    BY <2>2, <2>3, HandMoves
<1>4. login_lock' = login_lock
  BY DEF BeginRequest
<1>5. IssuerTypes' /\ Issued' = Issued
  BY <1>2 DEF AuthInv, IssuerTypes, Issued
<1>6. session' = session /\ signed_out' = signed_out
  BY <1>2
<1>7. SessionTypes'
  BY <1>1, <1>2, <1>3, <1>4, <1>5, <1>6 DEF AuthInv, SessionTypes
<1>8. LocksHeld'
  BY <1>1, <1>3, <1>4, AuthAssumption DEF AuthInv, LocksHeld, Holding, P
<1>9. TaskOrder'
  BY <1>1, <1>3 DEF AuthInv, TaskOrder
<1>10. SignedOutIsOut'
  BY <1>1, <1>3, <1>4, <1>6, HandsAt, OneHolder DEF AuthInv, SignedOutIsOut, Holding
<1>11. OutOfStore'
  BY <1>1, <1>2, <1>3, <1>4, <1>6, HandsAt, OneHolder DEF AuthInv, OutOfStore, SignOutEmptiesStore, OneSharer, Holding
<1>12. GrantsFresh'
  BY <1>1, <1>2, <1>3, <1>4, <1>5, <1>6, HandsAt, OneHolder
  DEF AuthInv, GrantsFresh, Fresh, Dead, OneSharer, Holding
<1>13. QED
  BY <1>5, <1>7, <1>8, <1>9, <1>10, <1>11, <1>12 DEF AuthInv

LEMMA EarlyLocks ==
  ASSUME AuthInv, NEW t \in Hands, EarlyLock(t)
  PROVE  AuthInv'
<1>1. hand[t].at = "early" /\ hand[t].op # "none" /\ hand[t].seen # NoGrant
  BY HandsAt DEF EarlyLock, AuthInv, TaskOrder
<1>2. UNCHANGED <<store, session, signed_out, issuer, authFaults, cleared>>
  BY DEF EarlyLock
<1>3. /\ hand' \in [Hands -> HandRow] /\ hand'[t].at \in {"refresh", "send"}
      /\ hand'[t].op = hand[t].op /\ hand'[t].seen = hand[t].seen
      /\ (hand'[t].at = "refresh" <=> StillCurrent(t))
      /\ \A u \in Hands : u # t => /\ hand'[u].at = hand[u].at /\ hand'[u].op = hand[u].op
                                   /\ hand'[u].seen = hand[u].seen
  <2> DEFINE row == [hand[t] EXCEPT !.at = IF StillCurrent(t) THEN "refresh" ELSE "send"]
  <2>1. hand[t] \in HandRow /\ hand[t].seen \in {NoGrant} \cup Issued /\ P(t) \in Sharers
    BY HandsAt
  <2>2. /\ row \in HandRow /\ row.at \in {"refresh", "send"} /\ row.op = hand[t].op
        /\ row.seen = hand[t].seen /\ (row.at = "refresh" <=> StillCurrent(t))
    BY <2>1 DEF HandRow, Places
  <2>3. hand' = [hand EXCEPT ![t] = row]
    BY DEF EarlyLock, Goes, AuthInv, SessionTypes
  <2> HIDE DEF row
  <2>4. QED
    BY <2>2, <2>3, HandMoves
<1>4. /\ StillCurrent(t) =>
           /\ login_lock[P(t)] = NoHand /\ login_lock' \in [Sharers -> Hands \cup {NoHand}]
           /\ \A p \in Sharers : login_lock'[p] = IF p = P(t) THEN t ELSE login_lock[p]
      /\ ~StillCurrent(t) => login_lock' = login_lock
  BY HandsAt DEF EarlyLock, Take, Pass, AuthInv, SessionTypes
<1>5. IssuerTypes' /\ Issued' = Issued
  BY <1>2 DEF AuthInv, IssuerTypes, Issued
<1>6. session' = session /\ signed_out' = signed_out
  BY <1>2
<1>7. SessionTypes'
  <2>1. login_lock' \in [Sharers -> Hands \cup {NoHand}]
    BY <1>4 DEF AuthInv, SessionTypes
  <2>2. QED
    BY <1>1, <1>2, <1>3, <1>5, <1>6, <2>1 DEF AuthInv, SessionTypes
<1>8. LocksHeld'
  <2>1. CASE StillCurrent(t)
    BY <1>1, <1>3, <1>4, <2>1, AuthAssumption DEF AuthInv, LocksHeld, Holding, P
  <2>2. CASE ~StillCurrent(t)
    BY <1>1, <1>3, <1>4, <2>2, AuthAssumption DEF AuthInv, LocksHeld, Holding, P
  <2>3. QED
    BY <2>1, <2>2
<1>9. TaskOrder'
  BY <1>1, <1>3 DEF AuthInv, TaskOrder
<1>10. SignedOutIsOut'
  BY <1>1, <1>3, <1>6, HandsAt DEF AuthInv, SignedOutIsOut, StillCurrent
<1>11. OutOfStore'
  BY <1>1, <1>2, <1>3, <1>4, <1>6, HandsAt, OneHolder DEF AuthInv, OutOfStore, SignOutEmptiesStore, OneSharer, Holding
<1>12. GrantsFresh'
  BY <1>1, <1>2, <1>3, <1>5, <1>6, HandsAt DEF AuthInv, GrantsFresh, Fresh, Dead, StillCurrent
<1>13. QED
  BY <1>5, <1>7, <1>8, <1>9, <1>10, <1>11, <1>12 DEF AuthInv

LEMMA RequestIsSent ==
  ASSUME AuthInv, NEW t \in Hands, SendOnce(t)
  PROVE  AuthInv'
<1>1. hand[t].at = "send" /\ hand[t].op # "none" /\ session[P(t)] \in {NoGrant} \cup Issued
  BY HandsAt DEF SendOnce, AuthInv, SessionTypes, TaskOrder
<1>2. UNCHANGED <<store, session, signed_out, issuer, authFaults, cleared>>
  BY DEF SendOnce
<1>3. /\ hand' \in [Hands -> HandRow] /\ hand'[t].at = "sent" /\ hand'[t].op = hand[t].op
      /\ hand'[t].seen = session[P(t)]
      /\ \A u \in Hands : u # t => /\ hand'[u].at = hand[u].at /\ hand'[u].op = hand[u].op
                                   /\ hand'[u].seen = hand[u].seen
  <2> DEFINE row == [hand[t] EXCEPT !.at = "sent", !.seen = session[P(t)], !.left = FALSE]
  <2>1. hand[t] \in HandRow /\ hand[t].seen \in {NoGrant} \cup Issued /\ P(t) \in Sharers
    BY HandsAt
  <2>2. /\ row \in HandRow /\ row.at = "sent" /\ row.op = hand[t].op
        /\ row.seen = session[P(t)]
    BY <1>1, <2>1, IssuedAreGrants DEF HandRow, Places, AuthInv
  <2>3. hand' = [hand EXCEPT ![t] = row]
    BY DEF SendOnce, Goes, AuthInv, SessionTypes
  <2> HIDE DEF row
  <2>4. QED
    BY <2>2, <2>3, HandMoves
<1>4. login_lock' = login_lock
  BY DEF SendOnce
<1>5. IssuerTypes' /\ Issued' = Issued
  BY <1>2 DEF AuthInv, IssuerTypes, Issued
<1>6. session' = session /\ signed_out' = signed_out
  BY <1>2
<1>7. SessionTypes'
  BY <1>1, <1>2, <1>3, <1>4, <1>5, <1>6 DEF AuthInv, SessionTypes
<1>8. LocksHeld'
  BY <1>1, <1>3, <1>4, AuthAssumption DEF AuthInv, LocksHeld, Holding, P
<1>9. TaskOrder'
  BY <1>1, <1>3 DEF AuthInv, TaskOrder
<1>10. SignedOutIsOut'
  BY <1>1, <1>3, <1>4, <1>6, HandsAt, OneHolder DEF AuthInv, SignedOutIsOut, Holding
<1>11. OutOfStore'
  BY <1>1, <1>2, <1>3, <1>4, <1>6, HandsAt, OneHolder DEF AuthInv, OutOfStore, SignOutEmptiesStore, OneSharer, Holding
<1>12. GrantsFresh'
  BY <1>1, <1>2, <1>3, <1>4, <1>5, <1>6, HandsAt, OneHolder
  DEF AuthInv, GrantsFresh, Fresh, Dead, OneSharer, Holding
<1>13. QED
  BY <1>5, <1>7, <1>8, <1>9, <1>10, <1>11, <1>12 DEF AuthInv

LEMMA AnswerIsRead ==
  ASSUME AuthInv, NEW t \in Hands, AnswerArrives(t)
  PROVE  AuthInv'
<1>1. hand[t].at = "sent" /\ hand[t].op # "none"
  BY HandsAt DEF AnswerArrives, AuthInv, TaskOrder
<1>2. UNCHANGED <<store, session, signed_out, issuer, authFaults, cleared>>
  BY DEF AnswerArrives
<1>3. /\ hand' \in [Hands -> HandRow] /\ hand'[t].at \in {"idle", "recover"}
      /\ (hand'[t].op = "none" <=> hand'[t].at = "idle")
      /\ hand'[t].seen \in {NoGrant, hand[t].seen}
      /\ \A u \in Hands : u # t => /\ hand'[u].at = hand[u].at /\ hand'[u].op = hand[u].op
                                   /\ hand'[u].seen = hand[u].seen
  <2> DEFINE row == IF AccessWorks(hand[t].seen) \/ hand[t].again \/ signed_out[P(t)]
             THEN IdleHand ELSE [Goes(t, "recover", hand[t].seen) EXCEPT !.left = FALSE]
  <2>1. hand[t] \in HandRow /\ hand[t].seen \in {NoGrant} \cup Issued /\ P(t) \in Sharers
    BY HandsAt
  <2>2. /\ row \in HandRow /\ row.at \in {"idle", "recover"}
        /\ (row.op = "none" <=> row.at = "idle") /\ row.seen \in {NoGrant, hand[t].seen}
    BY <1>1, <2>1, IdleIs DEF HandRow, Places, Goes
  <2>3. hand' = [hand EXCEPT ![t] = row]
    BY DEF AnswerArrives, AuthInv, SessionTypes
  <2> HIDE DEF row
  <2>4. QED
    BY <2>2, <2>3, HandMoves
<1>4. login_lock' = login_lock
  BY DEF AnswerArrives
<1>5. IssuerTypes' /\ Issued' = Issued
  BY <1>2 DEF AuthInv, IssuerTypes, Issued
<1>6. session' = session /\ signed_out' = signed_out
  BY <1>2
<1>7. SessionTypes'
  BY <1>1, <1>2, <1>3, <1>4, <1>5, <1>6 DEF AuthInv, SessionTypes
<1>8. LocksHeld'
  BY <1>1, <1>3, <1>4, AuthAssumption DEF AuthInv, LocksHeld, Holding, P
<1>9. TaskOrder'
  BY <1>1, <1>3 DEF AuthInv, TaskOrder
<1>10. SignedOutIsOut'
  BY <1>1, <1>3, <1>4, <1>6, HandsAt, OneHolder DEF AuthInv, SignedOutIsOut, Holding
<1>11. OutOfStore'
  BY <1>1, <1>2, <1>3, <1>4, <1>6, HandsAt, OneHolder DEF AuthInv, OutOfStore, SignOutEmptiesStore, OneSharer, Holding
<1>12. GrantsFresh'
  BY <1>1, <1>2, <1>3, <1>4, <1>5, <1>6, HandsAt, OneHolder
  DEF AuthInv, GrantsFresh, Fresh, Dead, OneSharer, Holding
<1>13. QED
  BY <1>5, <1>7, <1>8, <1>9, <1>10, <1>11, <1>12 DEF AuthInv

LEMMA GrantIsRefreshed ==
  ASSUME AuthInv, NEW t \in Hands, RefreshGranted(t)
  PROVE  AuthInv'
<1>1. /\ hand[t].at = "refresh" /\ hand[t].op # "none" /\ hand[t].seen \in Issued
      /\ NextGrant \in Grants /\ NextGrant # NoGrant
  BY HandsAt, AuthAssumption DEF RefreshGranted, AuthInv, TaskOrder, Grants, NoGrant
<1>2. UNCHANGED <<store, authFaults, cleared>>
  BY DEF RefreshGranted
<1>3. /\ hand' \in [Hands -> HandRow] /\ hand'[t].at = "save" /\ hand'[t].op = hand[t].op
      /\ hand'[t].seen = NextGrant
      /\ \A u \in Hands : u # t => /\ hand'[u].at = hand[u].at /\ hand'[u].op = hand[u].op
                                   /\ hand'[u].seen = hand[u].seen
  <2> DEFINE row == Goes(t, "save", NextGrant)
  <2>1. hand[t] \in HandRow /\ hand[t].seen \in {NoGrant} \cup Issued /\ P(t) \in Sharers
    BY HandsAt
  <2>2. /\ row \in HandRow /\ row.at = "save" /\ row.op = hand[t].op /\ row.seen = NextGrant
    BY <1>1, <2>1 DEF HandRow, Places, Goes
  <2>3. hand' = Publishing(t, row)
    BY DEF RefreshGranted
  <2> HIDE DEF row
  <2>4. QED
    BY <2>2, <2>3, HandPublishes
<1>4. login_lock' = login_lock
  BY DEF RefreshGranted
<1>5. /\ IssuerTypes' /\ Issued' = Issued \cup {NextGrant} /\ NextGrant \notin Issued
      /\ issuer'.spent = issuer.spent \cup {hand[t].seen} /\ issuer'.revoked = issuer.revoked
      /\ \A x \in Issued : issuer'.family[x] = issuer.family[x]
  BY <1>1, IssuerRotates DEF RefreshGranted, AuthInv
<1>6. /\ session' \in [Sharers -> {NoGrant} \cup Issued'] /\ signed_out' \in [Sharers -> BOOLEAN]
      /\ \A p \in Sharers : session'[p] = IF p = P(t) THEN NextGrant ELSE session[p]
      /\ \A p \in Sharers : signed_out'[p] = IF p = P(t) THEN FALSE ELSE signed_out[p]
  BY <1>5, HandsAt DEF RefreshGranted, Publish, AuthInv, SessionTypes
<1>7. SessionTypes'
  BY <1>1, <1>2, <1>3, <1>4, <1>5, <1>6 DEF AuthInv, SessionTypes
<1>8. LocksHeld'
  BY <1>1, <1>3, <1>4, AuthAssumption DEF AuthInv, LocksHeld, Holding, P
<1>9. TaskOrder'
  BY <1>1, <1>3 DEF AuthInv, TaskOrder
<1>10. SignedOutIsOut'
  BY <1>1, <1>3, <1>4, <1>6, HandsAt, OneHolder DEF AuthInv, SignedOutIsOut, Holding
<1>11. OutOfStore'
  BY <1>1, <1>2, <1>3, <1>4, <1>6, HandsAt, OneHolder DEF AuthInv, OutOfStore, SignOutEmptiesStore, OneSharer, Holding
<1>12. GrantsFresh'
  <2>1. SUFFICES ASSUME OneSharer
               PROVE  /\ \A p \in Sharers : Fresh(session[p])'
                      /\ \E u \in Hands : hand'[u].at = "save"
                      /\ \A u \in Hands : hand'[u].at \in {"refresh", "save"} => Fresh(hand[u].seen)'
    BY DEF GrantsFresh, OneSharer
  <2>2. NextGrant \notin issuer'.spent
    BY <1>1, <1>5 DEF AuthInv, IssuerTypes
  <2>3. \A u \in Hands : P(u) = P(t) /\ P(u) \in Sharers
    BY <2>1, HandsAt DEF OneSharer
  <2>4. \A p \in Sharers : session'[p] = NextGrant
    BY <1>6, <2>1, <2>3 DEF OneSharer
  <2>5. \A u \in Hands : hand'[u].at \in {"refresh", "save"} => hand'[u].seen = NextGrant
    BY <1>1, <1>3, <2>3, OneHolder DEF Holding
  <2>6. QED
    BY <1>3, <2>2, <2>4, <2>5 DEF Fresh
<1>13. QED
  BY <1>5, <1>7, <1>8, <1>9, <1>10, <1>11, <1>12 DEF AuthInv

LEMMA RefreshIsRejected ==
  ASSUME AuthInv, NEW t \in Hands, RefreshRejected(t)
  PROVE  AuthInv'
<1>1. /\ hand[t].at = "refresh" /\ hand[t].op # "none" /\ hand[t].seen \in Issued
      /\ ~signed_out[P(t)]
  BY HandsAt DEF RefreshRejected, AuthInv, TaskOrder, SignedOutIsOut
<1>2. UNCHANGED <<store, signed_out, authFaults, cleared>>
  BY DEF RefreshRejected
<1>3. /\ hand' \in [Hands -> HandRow] /\ hand'[t].at = "clear" /\ hand'[t].op = hand[t].op
      /\ hand'[t].seen = hand[t].seen
      /\ \A u \in Hands : u # t => /\ hand'[u].at = hand[u].at /\ hand'[u].op = hand[u].op
                                   /\ hand'[u].seen = hand[u].seen
  <2> DEFINE row == [hand[t] EXCEPT !.at = "clear"]
  <2>1. hand[t] \in HandRow /\ hand[t].seen \in {NoGrant} \cup Issued /\ P(t) \in Sharers
    BY HandsAt
  <2>2. /\ row \in HandRow /\ row.at = "clear" /\ row.op = hand[t].op
        /\ row.seen = hand[t].seen
    BY <2>1 DEF HandRow, Places
  <2>3. hand' = [hand EXCEPT ![t] = row]
    BY DEF RefreshRejected, Goes, AuthInv, SessionTypes
  <2> HIDE DEF row
  <2>4. QED
    BY <2>2, <2>3, HandMoves
<1>4. login_lock' = login_lock
  BY DEF RefreshRejected
<1>5. /\ IssuerTypes' /\ Issued' = Issued /\ issuer'.spent = issuer.spent
      /\ issuer'.family = issuer.family /\ issuer.revoked \subseteq issuer'.revoked
  BY <1>1, FamilyDies DEF RefreshRejected, AuthInv
<1>6. /\ session' \in [Sharers -> {NoGrant} \cup Issued']
      /\ \A p \in Sharers : session'[p] = IF p = P(t) THEN NoGrant ELSE session[p]
      /\ signed_out' = signed_out
  BY <1>5, HandsAt DEF RefreshRejected, AuthInv, SessionTypes
<1>7. SessionTypes'
  BY <1>1, <1>2, <1>3, <1>4, <1>5, <1>6 DEF AuthInv, SessionTypes
<1>8. LocksHeld'
  BY <1>1, <1>3, <1>4, AuthAssumption DEF AuthInv, LocksHeld, Holding, P
<1>9. TaskOrder'
  BY <1>1, <1>3 DEF AuthInv, TaskOrder
<1>10. SignedOutIsOut'
  BY <1>1, <1>3, <1>4, <1>6, HandsAt, OneHolder DEF AuthInv, SignedOutIsOut, Holding
<1>11. OutOfStore'
  BY <1>1, <1>2, <1>3, <1>4, <1>6, HandsAt, OneHolder DEF AuthInv, OutOfStore, SignOutEmptiesStore, OneSharer, Holding
<1>12. GrantsFresh'
  BY <1>1, <1>2, <1>3, <1>4, <1>5, <1>6, HandsAt, OneHolder
  DEF AuthInv, GrantsFresh, Fresh, Dead, OneSharer, Holding
<1>13. QED
  BY <1>5, <1>7, <1>8, <1>9, <1>10, <1>11, <1>12 DEF AuthInv

LEMMA RefreshIsLost ==
  ASSUME AuthInv, NEW t \in Hands, NEW processed \in BOOLEAN, RefreshUnanswered(t, processed)
  PROVE  AuthInv'
<1>1. /\ hand[t].at = "refresh" /\ hand[t].op # "none" /\ hand[t].seen \in Issued
      /\ ~signed_out[P(t)] /\ authFaults' \in 1..MaxAuthFaults
  BY HandsAt, AuthAssumption
  DEF RefreshUnanswered, AuthInv, TaskOrder, SignedOutIsOut, SessionTypes
<1>2. UNCHANGED <<store, session, signed_out, cleared>>
  BY DEF RefreshUnanswered
<1>3. /\ hand' \in [Hands -> HandRow] /\ hand'[t].at \in {"idle", "send"}
      /\ (hand'[t].op = "none" <=> hand'[t].at = "idle")
      /\ hand'[t].seen \in {NoGrant, hand[t].seen}
      /\ \A u \in Hands : u # t => /\ hand'[u].at = hand[u].at /\ hand'[u].op = hand[u].op
                                   /\ hand'[u].seen = hand[u].seen
  <2> DEFINE row == AfterTransient(t)
  <2>1. hand[t] \in HandRow /\ hand[t].seen \in {NoGrant} \cup Issued /\ P(t) \in Sharers
    BY HandsAt
  <2>2. /\ row \in HandRow /\ row.at \in {"idle", "send"}
        /\ (row.op = "none" <=> row.at = "idle") /\ row.seen \in {NoGrant, hand[t].seen}
    BY <1>1, <2>1, IdleIs DEF HandRow, Places, Goes, AfterTransient
  <2>3. hand' = [hand EXCEPT ![t] = row]
    BY DEF RefreshUnanswered
  <2> HIDE DEF row
  <2>4. QED
    BY <2>2, <2>3, HandMoves
<1>4. /\ login_lock' \in [Sharers -> Hands \cup {NoHand}]
      /\ \A p \in Sharers : login_lock'[p] = IF p = P(t) THEN NoHand ELSE login_lock[p]
  BY HandsAt DEF RefreshUnanswered, Leave, AuthInv, SessionTypes
<1>5. IssuerTypes' /\ Issued \subseteq Issued'
  <2>1. CASE processed
    BY <1>1, <2>1, IssuerRotates DEF RefreshUnanswered, AuthInv
  <2>2. CASE ~processed
    BY <2>2 DEF RefreshUnanswered, AuthInv, IssuerTypes, Issued
  <2>3. QED
    BY <2>1, <2>2
<1>6. session' = session /\ signed_out' = signed_out
  BY <1>2
<1>7. SessionTypes'
  BY <1>1, <1>2, <1>3, <1>4, <1>5, <1>6 DEF AuthInv, SessionTypes
<1>8. LocksHeld'
  BY <1>1, <1>3, <1>4, AuthAssumption DEF AuthInv, LocksHeld, Holding, P
<1>9. TaskOrder'
  BY <1>1, <1>3 DEF AuthInv, TaskOrder
<1>10. SignedOutIsOut'
  BY <1>1, <1>3, <1>4, <1>6, HandsAt, OneHolder DEF AuthInv, SignedOutIsOut, Holding
<1>11. OutOfStore'
  BY <1>1, <1>2, <1>3, <1>4, <1>6, HandsAt, OneHolder DEF AuthInv, OutOfStore, SignOutEmptiesStore, OneSharer, Holding
<1>12. GrantsFresh'
  BY <1>1 DEF GrantsFresh
<1>13. QED
  BY <1>5, <1>7, <1>8, <1>9, <1>10, <1>11, <1>12 DEF AuthInv

LEMMA GrantIsSaved ==
  ASSUME AuthInv, NEW t \in Hands, SaveGrant(t)
  PROVE  AuthInv'
<1>1. /\ hand[t].at = "save" /\ hand[t].op # "none" /\ hand[t].seen \in Issued /\ store' = hand[t].seen
      /\ ~signed_out[P(t)]
  BY HandsAt DEF SaveGrant, AuthInv, TaskOrder, SignedOutIsOut
<1>2. UNCHANGED <<session, signed_out, issuer, authFaults, cleared>>
  BY DEF SaveGrant
<1>3. /\ hand' \in [Hands -> HandRow] /\ hand'[t].at \in {"idle", "send"}
      /\ (hand'[t].op = "none" <=> hand'[t].at = "idle")
      /\ hand'[t].seen \in {NoGrant, hand[t].seen}
      /\ \A u \in Hands : u # t => /\ hand'[u].at = hand[u].at /\ hand'[u].op = hand[u].op
                                   /\ hand'[u].seen = hand[u].seen
  <2> DEFINE row == AfterCommit(t)
  <2>1. hand[t] \in HandRow /\ hand[t].seen \in {NoGrant} \cup Issued /\ P(t) \in Sharers
    BY HandsAt
  <2>2. /\ row \in HandRow /\ row.at \in {"idle", "send"}
        /\ (row.op = "none" <=> row.at = "idle") /\ row.seen \in {NoGrant, hand[t].seen}
    BY <1>1, <2>1, IdleIs DEF HandRow, Places, Goes, AfterCommit
  <2>3. hand' = [hand EXCEPT ![t] = row]
    BY DEF SaveGrant, Goes, AuthInv, SessionTypes
  <2> HIDE DEF row
  <2>4. QED
    BY <2>2, <2>3, HandMoves
<1>4. /\ login_lock' \in [Sharers -> Hands \cup {NoHand}]
      /\ \A p \in Sharers : login_lock'[p] = IF p = P(t) THEN NoHand ELSE login_lock[p]
  BY HandsAt DEF SaveGrant, Leave, AuthInv, SessionTypes
<1>5. IssuerTypes' /\ Issued' = Issued
  BY <1>2 DEF AuthInv, IssuerTypes, Issued
<1>6. session' = session /\ signed_out' = signed_out
  BY <1>2
<1>7. SessionTypes'
  BY <1>1, <1>2, <1>3, <1>4, <1>5, <1>6 DEF AuthInv, SessionTypes
<1>8. LocksHeld'
  BY <1>1, <1>3, <1>4, AuthAssumption DEF AuthInv, LocksHeld, Holding, P
<1>9. TaskOrder'
  BY <1>1, <1>3 DEF AuthInv, TaskOrder
<1>10. SignedOutIsOut'
  BY <1>1, <1>3, <1>4, <1>6, HandsAt, OneHolder DEF AuthInv, SignedOutIsOut, Holding
<1>11. OutOfStore'
  BY <1>1, <1>2, <1>3, <1>4, <1>6, HandsAt, OneHolder DEF AuthInv, OutOfStore, SignOutEmptiesStore, OneSharer, Holding
<1>12. GrantsFresh'
  BY <1>1, <1>2, <1>3, <1>4, <1>5, <1>6, HandsAt, OneHolder
  DEF AuthInv, GrantsFresh, Fresh, Dead, OneSharer, Holding
<1>13. QED
  BY <1>5, <1>7, <1>8, <1>9, <1>10, <1>11, <1>12 DEF AuthInv

LEMMA SaveIsLost ==
  ASSUME AuthInv, NEW t \in Hands, SaveFails(t)
  PROVE  AuthInv'
<1>1. hand[t].at = "save" /\ hand[t].op # "none" /\ ~signed_out[P(t)] /\ authFaults' \in 1..MaxAuthFaults
  BY HandsAt, AuthAssumption DEF SaveFails, AuthInv, TaskOrder, SignedOutIsOut, SessionTypes
<1>2. UNCHANGED <<store, session, signed_out, issuer, cleared>>
  BY DEF SaveFails
<1>3. /\ hand' \in [Hands -> HandRow] /\ hand'[t].at \in {"idle", "send"}
      /\ (hand'[t].op = "none" <=> hand'[t].at = "idle")
      /\ hand'[t].seen \in {NoGrant, hand[t].seen}
      /\ \A u \in Hands : u # t => /\ hand'[u].at = hand[u].at /\ hand'[u].op = hand[u].op
                                   /\ hand'[u].seen = hand[u].seen
  <2> DEFINE row == IF hand[t].again THEN IdleHand ELSE AfterCommit(t)
  <2>1. hand[t] \in HandRow /\ hand[t].seen \in {NoGrant} \cup Issued /\ P(t) \in Sharers
    BY HandsAt
  <2>2. /\ row \in HandRow /\ row.at \in {"idle", "send"}
        /\ (row.op = "none" <=> row.at = "idle") /\ row.seen \in {NoGrant, hand[t].seen}
    BY <1>1, <2>1, IdleIs DEF HandRow, Places, Goes, AfterCommit
  <2>3. hand' = [hand EXCEPT ![t] = row]
    BY DEF SaveFails
  <2> HIDE DEF row
  <2>4. QED
    BY <2>2, <2>3, HandMoves
<1>4. /\ login_lock' \in [Sharers -> Hands \cup {NoHand}]
      /\ \A p \in Sharers : login_lock'[p] = IF p = P(t) THEN NoHand ELSE login_lock[p]
  BY HandsAt DEF SaveFails, Leave, AuthInv, SessionTypes
<1>5. IssuerTypes' /\ Issued' = Issued
  BY <1>2 DEF AuthInv, IssuerTypes, Issued
<1>6. session' = session /\ signed_out' = signed_out
  BY <1>2
<1>7. SessionTypes'
  BY <1>1, <1>2, <1>3, <1>4, <1>5, <1>6 DEF AuthInv, SessionTypes
<1>8. LocksHeld'
  BY <1>1, <1>3, <1>4, AuthAssumption DEF AuthInv, LocksHeld, Holding, P
<1>9. TaskOrder'
  BY <1>1, <1>3 DEF AuthInv, TaskOrder
<1>10. SignedOutIsOut'
  BY <1>1, <1>3, <1>4, <1>6, HandsAt, OneHolder DEF AuthInv, SignedOutIsOut, Holding
<1>11. OutOfStore'
  BY <1>1, <1>2, <1>3, <1>4, <1>6, HandsAt, OneHolder DEF AuthInv, OutOfStore, SignOutEmptiesStore, OneSharer, Holding
<1>12. GrantsFresh'
  BY <1>1 DEF GrantsFresh
<1>13. QED
  BY <1>5, <1>7, <1>8, <1>9, <1>10, <1>11, <1>12 DEF AuthInv

LEMMA StoreIsCleared ==
  ASSUME AuthInv, NEW t \in Hands, ClearStore(t)
  PROVE  AuthInv'
<1>1. hand[t].at = "clear" /\ hand[t].op # "none" /\ store' = NoGrant
  BY HandsAt DEF ClearStore, AuthInv, TaskOrder
<1>2. UNCHANGED <<session, signed_out, issuer, authFaults>>
  BY DEF ClearStore
<1>3. /\ hand' \in [Hands -> HandRow] /\ hand'[t].at \in {"idle", "send"}
      /\ (hand'[t].op = "none" <=> hand'[t].at = "idle") /\ hand'[t].seen = NoGrant
      /\ \A u \in Hands : u # t => /\ hand'[u].at = hand[u].at /\ hand'[u].op = hand[u].op
                                   /\ hand'[u].seen = hand[u].seen
  <2> DEFINE row == AfterClear(t)
  <2>1. hand[t] \in HandRow /\ hand[t].seen \in {NoGrant} \cup Issued /\ P(t) \in Sharers
    BY HandsAt
  <2>2. /\ row \in HandRow /\ row.at \in {"idle", "send"}
        /\ (row.op = "none" <=> row.at = "idle") /\ row.seen = NoGrant
    BY <1>1, <2>1, IdleIs DEF HandRow, Places, Goes, AfterClear
  <2>3. hand' = [hand EXCEPT ![t] = row]
    BY DEF ClearStore
  <2> HIDE DEF row
  <2>4. QED
    BY <2>2, <2>3, HandMoves
<1>4. /\ login_lock' \in [Sharers -> Hands \cup {NoHand}]
      /\ \A p \in Sharers : login_lock'[p] = IF p = P(t) THEN NoHand ELSE login_lock[p]
  BY HandsAt DEF ClearStore, Leave, AuthInv, SessionTypes
<1>5. IssuerTypes' /\ Issued' = Issued
  BY <1>2 DEF AuthInv, IssuerTypes, Issued
<1>6. session' = session /\ signed_out' = signed_out
  BY <1>2
<1>7. SessionTypes'
  <2>1. cleared' \in [Sharers -> BOOLEAN]
    BY <1>1, HandsAt DEF ClearStore, AuthInv, SessionTypes
  <2>2. QED
    BY <1>1, <1>2, <1>3, <1>4, <1>5, <1>6, <2>1 DEF AuthInv, SessionTypes
<1>8. LocksHeld'
  BY <1>1, <1>3, <1>4, AuthAssumption DEF AuthInv, LocksHeld, Holding, P
<1>9. TaskOrder'
  BY <1>1, <1>3 DEF AuthInv, TaskOrder
<1>10. SignedOutIsOut'
  BY <1>1, <1>3, <1>4, <1>6, HandsAt, OneHolder DEF AuthInv, SignedOutIsOut, Holding
<1>11. OutOfStore'
  BY <1>1 DEF OutOfStore, SignOutEmptiesStore
<1>12. GrantsFresh'
  BY <1>1, <1>2, <1>3, <1>4, <1>5, <1>6, HandsAt, OneHolder
  DEF AuthInv, GrantsFresh, Fresh, Dead, OneSharer, Holding
<1>13. QED
  BY <1>5, <1>7, <1>8, <1>9, <1>10, <1>11, <1>12 DEF AuthInv

LEMMA StoreKeepsGrant ==
  ASSUME AuthInv, NEW t \in Hands, ClearFails(t)
  PROVE  AuthInv'
<1>1. hand[t].at = "clear" /\ hand[t].op # "none" /\ authFaults' \in 1..MaxAuthFaults
  BY HandsAt, AuthAssumption DEF ClearFails, AuthInv, TaskOrder, SessionTypes
<1>2. UNCHANGED <<store, session, signed_out, issuer, cleared>>
  BY DEF ClearFails
<1>3. /\ hand' \in [Hands -> HandRow] /\ hand'[t].at \in {"idle", "send"}
      /\ (hand'[t].op = "none" <=> hand'[t].at = "idle") /\ hand'[t].seen = NoGrant
      /\ \A u \in Hands : u # t => /\ hand'[u].at = hand[u].at /\ hand'[u].op = hand[u].op
                                   /\ hand'[u].seen = hand[u].seen
  <2> DEFINE row == AfterClear(t)
  <2>1. hand[t] \in HandRow /\ hand[t].seen \in {NoGrant} \cup Issued /\ P(t) \in Sharers
    BY HandsAt
  <2>2. /\ row \in HandRow /\ row.at \in {"idle", "send"}
        /\ (row.op = "none" <=> row.at = "idle") /\ row.seen = NoGrant
    BY <1>1, <2>1, IdleIs DEF HandRow, Places, Goes, AfterClear
  <2>3. hand' = [hand EXCEPT ![t] = row]
    BY DEF ClearFails
  <2> HIDE DEF row
  <2>4. QED
    BY <2>2, <2>3, HandMoves
<1>4. /\ login_lock' \in [Sharers -> Hands \cup {NoHand}]
      /\ \A p \in Sharers : login_lock'[p] = IF p = P(t) THEN NoHand ELSE login_lock[p]
  BY HandsAt DEF ClearFails, Leave, AuthInv, SessionTypes
<1>5. IssuerTypes' /\ Issued' = Issued
  BY <1>2 DEF AuthInv, IssuerTypes, Issued
<1>6. session' = session /\ signed_out' = signed_out
  BY <1>2
<1>7. SessionTypes'
  BY <1>1, <1>2, <1>3, <1>4, <1>5, <1>6 DEF AuthInv, SessionTypes
<1>8. LocksHeld'
  BY <1>1, <1>3, <1>4, AuthAssumption DEF AuthInv, LocksHeld, Holding, P
<1>9. TaskOrder'
  BY <1>1, <1>3 DEF AuthInv, TaskOrder
<1>10. SignedOutIsOut'
  BY <1>1, <1>3, <1>4, <1>6, HandsAt, OneHolder DEF AuthInv, SignedOutIsOut, Holding
<1>11. OutOfStore'
  BY <1>1, <1>2, <1>3, <1>4, <1>6, HandsAt, OneHolder DEF AuthInv, OutOfStore, SignOutEmptiesStore, OneSharer, Holding
<1>12. GrantsFresh'
  BY <1>1 DEF GrantsFresh
<1>13. QED
  BY <1>5, <1>7, <1>8, <1>9, <1>10, <1>11, <1>12 DEF AuthInv

LEMMA LoginBegins ==
  ASSUME AuthInv, NEW t \in Hands, BeginLogin(t)
  PROVE  AuthInv'
<1>1. hand[t].at = "idle"
  BY HandsAt DEF BeginLogin
<1>2. UNCHANGED <<store, session, signed_out, issuer, authFaults, cleared>>
  BY DEF BeginLogin
<1>3. /\ hand' \in [Hands -> HandRow] /\ hand'[t].at = "login" /\ hand'[t].op = "login"
      /\ hand'[t].seen = NoGrant
      /\ \A u \in Hands : u # t => /\ hand'[u].at = hand[u].at /\ hand'[u].op = hand[u].op
                                   /\ hand'[u].seen = hand[u].seen
  <2> DEFINE row == [IdleHand EXCEPT !.op = "login", !.at = "login"]
  <2>1. hand[t] \in HandRow /\ hand[t].seen \in {NoGrant} \cup Issued /\ P(t) \in Sharers
    BY HandsAt
  <2>2. /\ row \in HandRow /\ row.at = "login" /\ row.op = "login" /\ row.seen = NoGrant
    BY <2>1 DEF IdleHand, HandRow, Places
  <2>3. hand' = [hand EXCEPT ![t] = row]
    BY DEF BeginLogin, Goes, AuthInv, SessionTypes
  <2> HIDE DEF row
  <2>4. QED
    BY <2>2, <2>3, HandMoves
<1>4. login_lock' = login_lock
  BY DEF BeginLogin
<1>5. IssuerTypes' /\ Issued' = Issued
  BY <1>2 DEF AuthInv, IssuerTypes, Issued
<1>6. session' = session /\ signed_out' = signed_out
  BY <1>2
<1>7. SessionTypes'
  BY <1>1, <1>2, <1>3, <1>4, <1>5, <1>6 DEF AuthInv, SessionTypes
<1>8. LocksHeld'
  BY <1>1, <1>3, <1>4, AuthAssumption DEF AuthInv, LocksHeld, Holding, P
<1>9. TaskOrder'
  BY <1>1, <1>3 DEF AuthInv, TaskOrder
<1>10. SignedOutIsOut'
  BY <1>1, <1>3, <1>4, <1>6, HandsAt, OneHolder DEF AuthInv, SignedOutIsOut, Holding
<1>11. OutOfStore'
  BY <1>1, <1>2, <1>3, <1>4, <1>6, HandsAt, OneHolder DEF AuthInv, OutOfStore, SignOutEmptiesStore, OneSharer, Holding
<1>12. GrantsFresh'
  BY <1>1, <1>2, <1>3, <1>4, <1>5, <1>6, HandsAt, OneHolder
  DEF AuthInv, GrantsFresh, Fresh, Dead, OneSharer, Holding
<1>13. QED
  BY <1>5, <1>7, <1>8, <1>9, <1>10, <1>11, <1>12 DEF AuthInv

LEMMA UserIsDeclining ==
  ASSUME AuthInv, NEW t \in Hands, UserDeclines(t)
  PROVE  AuthInv'
<1>1. hand[t].at = "consent" /\ hand[t].op # "none"
  BY HandsAt DEF UserDeclines, AuthInv, TaskOrder
<1>2. UNCHANGED <<store, session, signed_out, issuer, authFaults, cleared>>
  BY DEF UserDeclines
<1>3. /\ hand' \in [Hands -> HandRow] /\ hand'[t].at = "idle" /\ hand'[t].op = "none"
      /\ hand'[t].seen = NoGrant
      /\ \A u \in Hands : u # t => /\ hand'[u].at = hand[u].at /\ hand'[u].op = hand[u].op
                                   /\ hand'[u].seen = hand[u].seen
  <2> DEFINE row == IdleHand
  <2>1. hand[t] \in HandRow /\ hand[t].seen \in {NoGrant} \cup Issued /\ P(t) \in Sharers
    BY HandsAt
  <2>2. /\ row \in HandRow /\ row.at = "idle" /\ row.op = "none" /\ row.seen = NoGrant
    BY IdleIs
  <2>3. hand' = [hand EXCEPT ![t] = row]
    BY DEF UserDeclines, Goes, AuthInv, SessionTypes
  <2> HIDE DEF row
  <2>4. QED
    BY <2>2, <2>3, HandMoves
<1>4. /\ login_lock' \in [Sharers -> Hands \cup {NoHand}]
      /\ \A p \in Sharers : login_lock'[p] = IF p = P(t) THEN NoHand ELSE login_lock[p]
  BY HandsAt DEF UserDeclines, Leave, AuthInv, SessionTypes
<1>5. IssuerTypes' /\ Issued' = Issued
  BY <1>2 DEF AuthInv, IssuerTypes, Issued
<1>6. session' = session /\ signed_out' = signed_out
  BY <1>2
<1>7. SessionTypes'
  BY <1>1, <1>2, <1>3, <1>4, <1>5, <1>6 DEF AuthInv, SessionTypes
<1>8. LocksHeld'
  BY <1>1, <1>3, <1>4, AuthAssumption DEF AuthInv, LocksHeld, Holding, P
<1>9. TaskOrder'
  BY <1>1, <1>3 DEF AuthInv, TaskOrder
<1>10. SignedOutIsOut'
  BY <1>1, <1>3, <1>4, <1>6, HandsAt, OneHolder DEF AuthInv, SignedOutIsOut, Holding
<1>11. OutOfStore'
  BY <1>1, <1>2, <1>3, <1>4, <1>6, HandsAt, OneHolder DEF AuthInv, OutOfStore, SignOutEmptiesStore, OneSharer, Holding
<1>12. GrantsFresh'
  BY <1>1, <1>2, <1>3, <1>4, <1>5, <1>6, HandsAt, OneHolder
  DEF AuthInv, GrantsFresh, Fresh, Dead, OneSharer, Holding
<1>13. QED
  BY <1>5, <1>7, <1>8, <1>9, <1>10, <1>11, <1>12 DEF AuthInv

LEMMA UserIsConsenting ==
  ASSUME AuthInv, NEW t \in Hands, UserConsents(t)
  PROVE  AuthInv'
<1>1. /\ hand[t].at = "consent" /\ hand[t].op # "none" /\ NextGrant \in Grants /\ NextGrant # NoGrant
  BY HandsAt, AuthAssumption DEF UserConsents, AuthInv, TaskOrder, Grants, NoGrant
<1>2. UNCHANGED <<store, authFaults, cleared>>
  BY DEF UserConsents
<1>3. /\ hand' \in [Hands -> HandRow] /\ hand'[t].at = "save" /\ hand'[t].op = hand[t].op
      /\ hand'[t].seen = NextGrant
      /\ \A u \in Hands : u # t => /\ hand'[u].at = hand[u].at /\ hand'[u].op = hand[u].op
                                   /\ hand'[u].seen = hand[u].seen
  <2> DEFINE row == Goes(t, "save", NextGrant)
  <2>1. hand[t] \in HandRow /\ hand[t].seen \in {NoGrant} \cup Issued /\ P(t) \in Sharers
    BY HandsAt
  <2>2. /\ row \in HandRow /\ row.at = "save" /\ row.op = hand[t].op /\ row.seen = NextGrant
    BY <1>1, <2>1 DEF HandRow, Places, Goes
  <2>3. hand' = Publishing(t, row)
    BY DEF UserConsents
  <2> HIDE DEF row
  <2>4. QED
    BY <2>2, <2>3, HandPublishes
<1>4. login_lock' = login_lock
  BY DEF UserConsents
<1>5. /\ IssuerTypes' /\ Issued' = Issued \cup {NextGrant} /\ NextGrant \notin Issued
      /\ issuer'.spent = issuer.spent /\ issuer'.revoked = issuer.revoked
      /\ \A x \in Issued : issuer'.family[x] = issuer.family[x]
  BY <1>1, FamilyBegins DEF UserConsents, AuthInv
<1>6. /\ session' \in [Sharers -> {NoGrant} \cup Issued'] /\ signed_out' \in [Sharers -> BOOLEAN]
      /\ \A p \in Sharers : session'[p] = IF p = P(t) THEN NextGrant ELSE session[p]
      /\ \A p \in Sharers : signed_out'[p] = IF p = P(t) THEN FALSE ELSE signed_out[p]
  BY <1>5, HandsAt DEF UserConsents, Publish, AuthInv, SessionTypes
<1>7. SessionTypes'
  BY <1>1, <1>2, <1>3, <1>4, <1>5, <1>6 DEF AuthInv, SessionTypes
<1>8. LocksHeld'
  BY <1>1, <1>3, <1>4, AuthAssumption DEF AuthInv, LocksHeld, Holding, P
<1>9. TaskOrder'
  BY <1>1, <1>3 DEF AuthInv, TaskOrder
<1>10. SignedOutIsOut'
  BY <1>1, <1>3, <1>4, <1>6, HandsAt, OneHolder DEF AuthInv, SignedOutIsOut, Holding
<1>11. OutOfStore'
  BY <1>1, <1>2, <1>3, <1>4, <1>6, HandsAt, OneHolder DEF AuthInv, OutOfStore, SignOutEmptiesStore, OneSharer, Holding
<1>12. GrantsFresh'
  <2>1. SUFFICES ASSUME OneSharer
               PROVE  /\ \A p \in Sharers : Fresh(session[p])'
                      /\ \E u \in Hands : hand'[u].at = "save"
                      /\ \A u \in Hands : hand'[u].at \in {"refresh", "save"} => Fresh(hand[u].seen)'
    BY DEF GrantsFresh, OneSharer
  <2>2. NextGrant \notin issuer'.spent
    BY <1>1, <1>5 DEF AuthInv, IssuerTypes
  <2>3. \A u \in Hands : P(u) = P(t) /\ P(u) \in Sharers
    BY <2>1, HandsAt DEF OneSharer
  <2>4. \A p \in Sharers : session'[p] = NextGrant
    BY <1>6, <2>1, <2>3 DEF OneSharer
  <2>5. \A u \in Hands : hand'[u].at \in {"refresh", "save"} => hand'[u].seen = NextGrant
    BY <1>1, <1>3, <2>3, OneHolder DEF Holding
  <2>6. QED
    BY <1>3, <2>2, <2>4, <2>5 DEF Fresh
<1>13. QED
  BY <1>5, <1>7, <1>8, <1>9, <1>10, <1>11, <1>12 DEF AuthInv

LEMMA LoginLocks ==
  ASSUME AuthInv, NEW t \in Hands, LoginLock(t)
  PROVE  AuthInv'
<1>1. hand[t].at = "login" /\ hand[t].op # "none"
  BY HandsAt DEF LoginLock, AuthInv, TaskOrder
<1>2. UNCHANGED <<store, session, signed_out, issuer, authFaults, cleared>>
  BY DEF LoginLock
<1>3. /\ hand' \in [Hands -> HandRow] /\ hand'[t].at \in {"idle", "consent"}
      /\ (hand'[t].op = "none" <=> hand'[t].at = "idle")
      /\ hand'[t].seen \in {NoGrant, hand[t].seen}
      /\ \A u \in Hands : u # t => /\ hand'[u].at = hand[u].at /\ hand'[u].op = hand[u].op
                                   /\ hand'[u].seen = hand[u].seen
  <2> DEFINE row == IF hand[t].joined /\ session[P(t)] # NoGrant THEN IdleHand ELSE [hand[t] EXCEPT !.at = "consent"]
  <2>1. hand[t] \in HandRow /\ hand[t].seen \in {NoGrant} \cup Issued /\ P(t) \in Sharers
    BY HandsAt
  <2>2. /\ row \in HandRow /\ row.at \in {"idle", "consent"}
        /\ (row.op = "none" <=> row.at = "idle") /\ row.seen \in {NoGrant, hand[t].seen}
    BY <1>1, <2>1, IdleIs DEF HandRow, Places
  <2>3. hand' = [hand EXCEPT ![t] = row]
    BY DEF LoginLock
  <2> HIDE DEF row
  <2>4. QED
    BY <2>2, <2>3, HandMoves
<1>4. \/ /\ hand'[t].at = "consent" /\ login_lock[P(t)] = NoHand
         /\ login_lock' \in [Sharers -> Hands \cup {NoHand}]
         /\ \A p \in Sharers : login_lock'[p] = IF p = P(t) THEN t ELSE login_lock[p]
      \/ hand'[t].at = "idle" /\ login_lock' = login_lock
  <2>1. CASE hand[t].joined /\ session[P(t)] # NoGrant
    <3>1. hand'[t] = IdleHand
      BY <2>1 DEF LoginLock, AuthInv, SessionTypes
    <3>2. QED
      BY <2>1, <3>1, IdleIs DEF LoginLock, Pass
  <2>2. CASE ~(hand[t].joined /\ session[P(t)] # NoGrant)
    <3>1. hand'[t] = [hand[t] EXCEPT !.at = "consent"]
      BY <2>2 DEF LoginLock, AuthInv, SessionTypes
    <3>2. hand'[t].at = "consent"
      BY <3>1, HandsAt DEF HandRow
    <3>3. login_lock[P(t)] = NoHand /\ login_lock' = [login_lock EXCEPT ![P(t)] = t]
      BY <2>2 DEF LoginLock, Take
    <3>4. QED
      BY <3>2, <3>3, HandsAt DEF AuthInv, SessionTypes
  <2>3. QED
    BY <2>1, <2>2
<1>5. IssuerTypes' /\ Issued' = Issued
  BY <1>2 DEF AuthInv, IssuerTypes, Issued
<1>6. session' = session /\ signed_out' = signed_out
  BY <1>2
<1>7. SessionTypes'
  <2>1. login_lock' \in [Sharers -> Hands \cup {NoHand}]
    BY <1>4 DEF AuthInv, SessionTypes
  <2>2. QED
    BY <1>1, <1>2, <1>3, <1>5, <1>6, <2>1 DEF AuthInv, SessionTypes
<1>8. LocksHeld'
  <2>1. CASE login_lock' = login_lock /\ hand'[t].at = "idle"
    BY <1>1, <1>3, <2>1, AuthAssumption DEF AuthInv, LocksHeld, Holding, P
  <2>2. CASE hand'[t].at = "consent"
    BY <1>1, <1>3, <1>4, <2>2, AuthAssumption DEF AuthInv, LocksHeld, Holding, P
  <2>3. QED
    BY <1>4, <2>1, <2>2
<1>9. TaskOrder'
  BY <1>1, <1>3 DEF AuthInv, TaskOrder
<1>10. SignedOutIsOut'
  BY <1>1, <1>3, <1>6 DEF AuthInv, SignedOutIsOut
<1>11. OutOfStore'
  BY <1>1, <1>2, <1>3, <1>6 DEF AuthInv, OutOfStore, SignOutEmptiesStore
<1>12. GrantsFresh'
  BY <1>1, <1>2, <1>3, <1>5, <1>6 DEF AuthInv, GrantsFresh, Fresh, Dead
<1>13. QED
  BY <1>5, <1>7, <1>8, <1>9, <1>10, <1>11, <1>12 DEF AuthInv

LEMMA SessionIsLoaded ==
  ASSUME AuthInv, NEW t \in Hands, LoadStoredSession(t)
  PROVE  AuthInv'
<1>1. hand[t].at = "idle" /\ hand[t].op = "none" /\ store # NoGrant /\ store \in Issued
  BY HandsAt DEF LoadStoredSession, AuthInv, TaskOrder, SessionTypes
<1>2. UNCHANGED <<store, issuer, authFaults, cleared>>
  BY DEF LoadStoredSession
<1>3. /\ hand' \in [Hands -> HandRow] /\ hand'[t].at = "idle" /\ hand'[t].op = "none"
      /\ hand'[t].seen = hand[t].seen
      /\ \A u \in Hands : u # t => /\ hand'[u].at = hand[u].at /\ hand'[u].op = hand[u].op
                                   /\ hand'[u].seen = hand[u].seen
  <2> DEFINE row == hand[t]
  <2>1. hand[t] \in HandRow /\ hand[t].seen \in {NoGrant} \cup Issued /\ P(t) \in Sharers
    BY HandsAt
  <2>2. /\ row \in HandRow /\ row.at = "idle" /\ row.op = "none" /\ row.seen = hand[t].seen
    BY <1>1, <2>1
  <2>3. hand' = Publishing(t, row)
    BY DEF LoadStoredSession
  <2> HIDE DEF row
  <2>4. QED
    BY <2>2, <2>3, HandPublishes
<1>4. login_lock' = login_lock /\ login_lock[P(t)] = NoHand
  BY DEF LoadStoredSession, Pass
<1>5. IssuerTypes' /\ Issued' = Issued
  BY <1>2 DEF AuthInv, IssuerTypes, Issued
<1>6. /\ session' \in [Sharers -> {NoGrant} \cup Issued'] /\ signed_out' \in [Sharers -> BOOLEAN]
      /\ \A p \in Sharers : session'[p] = IF p = P(t) THEN store ELSE session[p]
      /\ \A p \in Sharers : signed_out'[p] = IF p = P(t) THEN FALSE ELSE signed_out[p]
  BY <1>1, <1>5, HandsAt DEF LoadStoredSession, Publish, AuthInv, SessionTypes
<1>7. SessionTypes'
  BY <1>1, <1>2, <1>3, <1>4, <1>5, <1>6 DEF AuthInv, SessionTypes
<1>8. LocksHeld'
  BY <1>1, <1>3, <1>4, AuthAssumption DEF AuthInv, LocksHeld, Holding, P
<1>9. TaskOrder'
  BY <1>1, <1>3 DEF AuthInv, TaskOrder
<1>10. SignedOutIsOut'
  BY <1>1, <1>3, <1>4, <1>6, HandsAt, OneHolder DEF AuthInv, SignedOutIsOut, Holding
<1>11. OutOfStore'
  BY <1>1, <1>2, <1>3, <1>4, <1>6, HandsAt, OneHolder DEF AuthInv, OutOfStore, SignOutEmptiesStore, OneSharer, Holding
<1>12. GrantsFresh'
  BY <1>1, <1>2, <1>3, <1>4, <1>5, <1>6, HandsAt, OneHolder
  DEF AuthInv, GrantsFresh, Fresh, Dead, OneSharer, Holding
<1>13. QED
  BY <1>5, <1>7, <1>8, <1>9, <1>10, <1>11, <1>12 DEF AuthInv

LEMMA LogoutRevokes ==
  ASSUME AuthInv, NEW t \in Hands, RevokeGrant(t)
  PROVE  AuthInv'
<1>1. hand[t].at = "revoke" /\ hand[t].op # "none" /\ hand[t].seen \in {NoGrant} \cup Issued
  BY HandsAt DEF RevokeGrant, AuthInv, TaskOrder
<1>2. UNCHANGED <<store, session, signed_out, authFaults, cleared>>
  BY DEF RevokeGrant
<1>3. /\ hand' \in [Hands -> HandRow] /\ hand'[t].at = "clear" /\ hand'[t].op = hand[t].op
      /\ hand'[t].seen = hand[t].seen
      /\ \A u \in Hands : u # t => /\ hand'[u].at = hand[u].at /\ hand'[u].op = hand[u].op
                                   /\ hand'[u].seen = hand[u].seen
  <2> DEFINE row == [hand[t] EXCEPT !.at = "clear"]
  <2>1. hand[t] \in HandRow /\ hand[t].seen \in {NoGrant} \cup Issued /\ P(t) \in Sharers
    BY HandsAt
  <2>2. /\ row \in HandRow /\ row.at = "clear" /\ row.op = hand[t].op
        /\ row.seen = hand[t].seen
    BY <2>1 DEF HandRow, Places
  <2>3. hand' = [hand EXCEPT ![t] = row]
    BY DEF RevokeGrant, Goes, AuthInv, SessionTypes
  <2> HIDE DEF row
  <2>4. QED
    BY <2>2, <2>3, HandMoves
<1>4. login_lock' = login_lock
  BY DEF RevokeGrant
<1>5. /\ IssuerTypes' /\ Issued' = Issued /\ issuer'.spent = issuer.spent
      /\ issuer'.family = issuer.family /\ issuer.revoked \subseteq issuer'.revoked
  <2>1. CASE hand[t].seen = NoGrant
    BY <2>1 DEF RevokeGrant, AuthInv, IssuerTypes, Issued
  <2>2. CASE hand[t].seen # NoGrant
    BY <1>1, <2>2, FamilyDies DEF RevokeGrant, AuthInv
  <2>3. QED
    BY <2>1, <2>2
<1>6. session' = session /\ signed_out' = signed_out
  BY <1>2
<1>7. SessionTypes'
  BY <1>1, <1>2, <1>3, <1>4, <1>5, <1>6 DEF AuthInv, SessionTypes
<1>8. LocksHeld'
  BY <1>1, <1>3, <1>4, AuthAssumption DEF AuthInv, LocksHeld, Holding, P
<1>9. TaskOrder'
  BY <1>1, <1>3 DEF AuthInv, TaskOrder
<1>10. SignedOutIsOut'
  BY <1>1, <1>3, <1>4, <1>6, HandsAt, OneHolder DEF AuthInv, SignedOutIsOut, Holding
<1>11. OutOfStore'
  BY <1>1, <1>2, <1>3, <1>4, <1>6, HandsAt, OneHolder DEF AuthInv, OutOfStore, SignOutEmptiesStore, OneSharer, Holding
<1>12. GrantsFresh'
  BY <1>1, <1>2, <1>3, <1>4, <1>5, <1>6, HandsAt, OneHolder
  DEF AuthInv, GrantsFresh, Fresh, Dead, OneSharer, Holding
<1>13. QED
  BY <1>5, <1>7, <1>8, <1>9, <1>10, <1>11, <1>12 DEF AuthInv

LEMMA RevocationIsLost ==
  ASSUME AuthInv, NEW t \in Hands, RevocationFails(t)
  PROVE  AuthInv'
<1>1. hand[t].at = "revoke" /\ hand[t].op # "none"
  BY HandsAt DEF RevocationFails, AuthInv, TaskOrder
<1>2. UNCHANGED <<store, session, signed_out, issuer, authFaults, cleared>>
  BY DEF RevocationFails
<1>3. /\ hand' \in [Hands -> HandRow] /\ hand'[t].at = "clear" /\ hand'[t].op = hand[t].op
      /\ hand'[t].seen = hand[t].seen
      /\ \A u \in Hands : u # t => /\ hand'[u].at = hand[u].at /\ hand'[u].op = hand[u].op
                                   /\ hand'[u].seen = hand[u].seen
  <2> DEFINE row == [hand[t] EXCEPT !.at = "clear"]
  <2>1. hand[t] \in HandRow /\ hand[t].seen \in {NoGrant} \cup Issued /\ P(t) \in Sharers
    BY HandsAt
  <2>2. /\ row \in HandRow /\ row.at = "clear" /\ row.op = hand[t].op
        /\ row.seen = hand[t].seen
    BY <2>1 DEF HandRow, Places
  <2>3. hand' = [hand EXCEPT ![t] = row]
    BY DEF RevocationFails, Goes, AuthInv, SessionTypes
  <2> HIDE DEF row
  <2>4. QED
    BY <2>2, <2>3, HandMoves
<1>4. login_lock' = login_lock
  BY DEF RevocationFails
<1>5. IssuerTypes' /\ Issued' = Issued
  BY <1>2 DEF AuthInv, IssuerTypes, Issued
<1>6. session' = session /\ signed_out' = signed_out
  BY <1>2
<1>7. SessionTypes'
  BY <1>1, <1>2, <1>3, <1>4, <1>5, <1>6 DEF AuthInv, SessionTypes
<1>8. LocksHeld'
  BY <1>1, <1>3, <1>4, AuthAssumption DEF AuthInv, LocksHeld, Holding, P
<1>9. TaskOrder'
  BY <1>1, <1>3 DEF AuthInv, TaskOrder
<1>10. SignedOutIsOut'
  BY <1>1, <1>3, <1>4, <1>6, HandsAt, OneHolder DEF AuthInv, SignedOutIsOut, Holding
<1>11. OutOfStore'
  BY <1>1, <1>2, <1>3, <1>4, <1>6, HandsAt, OneHolder DEF AuthInv, OutOfStore, SignOutEmptiesStore, OneSharer, Holding
<1>12. GrantsFresh'
  BY <1>1, <1>2, <1>3, <1>4, <1>5, <1>6, HandsAt, OneHolder
  DEF AuthInv, GrantsFresh, Fresh, Dead, OneSharer, Holding
<1>13. QED
  BY <1>5, <1>7, <1>8, <1>9, <1>10, <1>11, <1>12 DEF AuthInv

LEMMA ProcessSignsOut ==
  ASSUME AuthInv, NEW t \in Hands, NEW readable \in BOOLEAN, Logout(t, readable)
  PROVE  AuthInv'
<1>1. hand[t].at = "idle" /\ session[P(t)] \in {NoGrant} \cup Issued /\ store \in {NoGrant} \cup Issued
  BY HandsAt DEF Logout, AuthInv, SessionTypes
<1>2. UNCHANGED <<store, issuer, authFaults>>
  BY DEF Logout
<1>3. /\ hand' \in [Hands -> HandRow] /\ hand'[t].at = "revoke" /\ hand'[t].op = "logout"
      /\ hand'[t].seen \in {session[P(t)], store, NoGrant}
      /\ \A u \in Hands : u # t => /\ hand'[u].at = hand[u].at /\ hand'[u].op = hand[u].op
                                   /\ hand'[u].seen = hand[u].seen
  <2> DEFINE row == [IdleHand EXCEPT !.op = "logout", !.at = "revoke",
                       !.seen = IF session[P(t)] # NoGrant THEN session[P(t)]
                                ELSE IF readable THEN store ELSE NoGrant]
             gone(u) == [hand[u] EXCEPT !.left = TRUE]
  <2>1. /\ row \in HandRow /\ row.at = "revoke" /\ row.op = "logout"
        /\ row.seen \in {session[P(t)], store, NoGrant}
    BY <1>1, IssuedAreGrants DEF IdleHand, HandRow, Places, AuthInv
  <2>2. \A u \in Hands : /\ gone(u) \in HandRow /\ gone(u).at = hand[u].at
                         /\ gone(u).op = hand[u].op /\ gone(u).seen = hand[u].seen
    BY HandsAt DEF HandRow
  <2>3. hand' = [u \in Hands |-> IF u = t THEN row
                                ELSE IF u \in Mates(t) THEN gone(u) ELSE hand[u]]
    BY DEF Logout, SigningOut
  <2> HIDE DEF row, gone
  <2>4. \A u \in Hands : hand[u] \in HandRow
    BY HandsAt
  <2>5. QED
    BY <2>1, <2>2, <2>3, <2>4
<1>4. /\ login_lock[P(t)] = NoHand /\ login_lock' \in [Sharers -> Hands \cup {NoHand}]
      /\ \A p \in Sharers : login_lock'[p] = IF p = P(t) THEN t ELSE login_lock[p]
  BY HandsAt DEF Logout, WaitsForOthers, Take, AuthInv, SessionTypes
<1>5. IssuerTypes' /\ Issued' = Issued
  BY <1>2 DEF AuthInv, IssuerTypes, Issued
<1>6. /\ session' \in [Sharers -> {NoGrant} \cup Issued'] /\ signed_out' \in [Sharers -> BOOLEAN]
      /\ \A p \in Sharers : session'[p] = IF p = P(t) THEN NoGrant ELSE session[p]
      /\ \A p \in Sharers : signed_out'[p] = IF p = P(t) THEN TRUE ELSE signed_out[p]
  BY <1>1, <1>5, HandsAt DEF Logout, AuthInv, SessionTypes
<1>7. /\ cleared' \in [Sharers -> BOOLEAN]
       /\ \A p \in Sharers : cleared'[p] = IF p = P(t) THEN FALSE ELSE cleared[p]
  BY HandsAt DEF Logout, AuthInv, SessionTypes
<1>8. SessionTypes'
  BY <1>1, <1>2, <1>3, <1>4, <1>5, <1>6, <1>7 DEF AuthInv, SessionTypes
<1>9. LocksHeld'
  BY <1>1, <1>3, <1>4, AuthAssumption DEF AuthInv, LocksHeld, Holding, P
<1>10. TaskOrder'
  BY <1>1, <1>3 DEF AuthInv, TaskOrder
<1>11. SignedOutIsOut'
  <2>1. \A p \in Sharers : signed_out'[p] => session'[p] = NoGrant
    BY <1>6 DEF AuthInv, SignedOutIsOut
  <2>2. ASSUME NEW u \in Hands, hand'[u].at \in {"refresh", "save"}
        PROVE  ~signed_out'[P(u)]
    <3>1. u # t /\ hand[u].at = hand'[u].at
      BY <1>3, <2>2
    <3>2. P(u) # P(t) /\ P(u) \in Sharers
      BY <1>4, <2>2, <3>1, HandsAt, OneHolder DEF Holding
    <3>3. QED
      BY <1>6, <2>2, <3>1, <3>2 DEF AuthInv, SignedOutIsOut
  <2>3. QED
    BY <2>1, <2>2 DEF SignedOutIsOut
<1>12. OutOfStore'
  BY <1>7, HandsAt DEF OutOfStore, SignOutEmptiesStore, OneSharer
<1>13. GrantsFresh'
  BY <1>1, <1>2, <1>3, <1>4, <1>5, <1>6, HandsAt, OneHolder
  DEF AuthInv, GrantsFresh, Fresh, Dead, OneSharer, Holding
<1>14. QED
  BY <1>5, <1>8, <1>9, <1>10, <1>11, <1>12, <1>13 DEF AuthInv

LEMMA ProcessForgets ==
  ASSUME AuthInv, NEW t \in Hands, LogoutUnnamed(t)
  PROVE  AuthInv'
<1>1. hand[t].at = "idle" /\ session[P(t)] = NoGrant
  BY DEF LogoutUnnamed
<1>2. UNCHANGED <<store, session, issuer, authFaults>>
  BY DEF LogoutUnnamed
<1>3. /\ hand' \in [Hands -> HandRow]
      /\ \A u \in Hands : /\ hand'[u].at = hand[u].at /\ hand'[u].op = hand[u].op
                           /\ hand'[u].seen = hand[u].seen
  <2> DEFINE gone(u) == [hand[u] EXCEPT !.left = TRUE]
  <2>1. \A u \in Hands : /\ gone(u) \in HandRow /\ gone(u).at = hand[u].at
                         /\ gone(u).op = hand[u].op /\ gone(u).seen = hand[u].seen
    BY HandsAt DEF HandRow
  <2>2. hand' = [u \in Hands |-> IF u = t THEN hand[u]
                                ELSE IF u \in Mates(t) THEN gone(u) ELSE hand[u]]
    BY DEF LogoutUnnamed, SigningOut
  <2> HIDE DEF gone
  <2>3. \A u \in Hands : hand[u] \in HandRow
    BY HandsAt
  <2>4. QED
    BY <2>1, <2>2, <2>3
<1>4. login_lock' = login_lock /\ login_lock[P(t)] = NoHand
  BY DEF LogoutUnnamed, Pass
<1>5. IssuerTypes' /\ Issued' = Issued
  BY <1>2 DEF AuthInv, IssuerTypes, Issued
<1>6. /\ session' = session /\ signed_out' \in [Sharers -> BOOLEAN]
      /\ \A p \in Sharers : signed_out'[p] = IF p = P(t) THEN TRUE ELSE signed_out[p]
  BY HandsAt DEF LogoutUnnamed, AuthInv, SessionTypes
<1>7. /\ cleared' \in [Sharers -> BOOLEAN]
       /\ \A p \in Sharers : cleared'[p] = IF p = P(t) THEN FALSE ELSE cleared[p]
  BY HandsAt DEF LogoutUnnamed, AuthInv, SessionTypes
<1>8. SessionTypes'
  BY <1>1, <1>2, <1>3, <1>4, <1>5, <1>6, <1>7 DEF AuthInv, SessionTypes
<1>9. LocksHeld'
  BY <1>1, <1>3, <1>4, AuthAssumption DEF AuthInv, LocksHeld, Holding, P
<1>10. TaskOrder'
  BY <1>1, <1>3 DEF AuthInv, TaskOrder
<1>11. SignedOutIsOut'
  <2>1. \A p \in Sharers : signed_out'[p] => session'[p] = NoGrant
    BY <1>1, <1>6 DEF AuthInv, SignedOutIsOut
  <2>2. ASSUME NEW u \in Hands, hand'[u].at \in {"refresh", "save"}
        PROVE  ~signed_out'[P(u)]
    <3>1. P(u) # P(t) /\ P(u) \in Sharers
      BY <1>1, <1>3, <1>4, <2>2, HandsAt, OneHolder DEF Holding
    <3>2. QED
      BY <1>3, <1>6, <2>2, <3>1 DEF AuthInv, SignedOutIsOut
  <2>3. QED
    BY <2>1, <2>2 DEF SignedOutIsOut
<1>12. OutOfStore'
  BY <1>7, HandsAt DEF OutOfStore, SignOutEmptiesStore, OneSharer
<1>13. GrantsFresh'
  BY <1>1, <1>2, <1>3, <1>4, <1>5, <1>6, HandsAt, OneHolder
  DEF AuthInv, GrantsFresh, Fresh, Dead, OneSharer, Holding
<1>14. QED
  BY <1>5, <1>8, <1>9, <1>10, <1>11, <1>12, <1>13 DEF AuthInv

LEMMA RecoveryIsGivenUp ==
  ASSUME AuthInv, NEW t \in Hands, GiveUpRecovery(t)
  PROVE  AuthInv'
<1>1. hand[t].at = "recover" /\ hand[t].op # "none"
  BY HandsAt DEF GiveUpRecovery, AuthInv, TaskOrder
<1>2. UNCHANGED <<store, issuer, authFaults, cleared>>
  BY DEF GiveUpRecovery
<1>3. /\ hand' \in [Hands -> HandRow] /\ hand'[t].at = "idle" /\ hand'[t].op = "none"
      /\ hand'[t].seen = NoGrant
      /\ \A u \in Hands : u # t => /\ hand'[u].at = hand[u].at /\ hand'[u].op = hand[u].op
                                   /\ hand'[u].seen = hand[u].seen
  <2> DEFINE row == IdleHand
  <2>1. hand[t] \in HandRow /\ hand[t].seen \in {NoGrant} \cup Issued /\ P(t) \in Sharers
    BY HandsAt
  <2>2. /\ row \in HandRow /\ row.at = "idle" /\ row.op = "none" /\ row.seen = NoGrant
    BY IdleIs
  <2>3. hand' = [hand EXCEPT ![t] = row]
    BY DEF GiveUpRecovery
  <2> HIDE DEF row
  <2>4. QED
    BY <2>2, <2>3, HandMoves
<1>4. login_lock' = login_lock
  BY DEF GiveUpRecovery
<1>5. IssuerTypes' /\ Issued' = Issued
  BY <1>2 DEF AuthInv, IssuerTypes, Issued
<1>6. session' = session /\ signed_out' = signed_out
  BY DEF GiveUpRecovery
<1>7. SessionTypes'
  BY <1>1, <1>2, <1>3, <1>4, <1>5, <1>6 DEF AuthInv, SessionTypes
<1>8. LocksHeld'
  BY <1>1, <1>3, <1>4, AuthAssumption DEF AuthInv, LocksHeld, Holding, P
<1>9. TaskOrder'
  BY <1>1, <1>3 DEF AuthInv, TaskOrder
<1>10. SignedOutIsOut'
  BY <1>1, <1>3, <1>4, <1>6, HandsAt, OneHolder DEF AuthInv, SignedOutIsOut, Holding
<1>11. OutOfStore'
  BY <1>1, <1>2, <1>3, <1>4, <1>6, HandsAt, OneHolder DEF AuthInv, OutOfStore, SignOutEmptiesStore, OneSharer, Holding
<1>12. GrantsFresh'
  BY <1>1, <1>2, <1>3, <1>4, <1>5, <1>6, HandsAt, OneHolder
  DEF AuthInv, GrantsFresh, Fresh, Dead, OneSharer, Holding
<1>13. QED
  BY <1>5, <1>7, <1>8, <1>9, <1>10, <1>11, <1>12 DEF AuthInv

LEMMA RecoveryGivesUp ==
  ASSUME AuthInv, NEW t \in Hands, RecoverLock(t), ~MayRecover(t) \/ store = NoGrant
  PROVE  AuthInv'
<1>1. hand[t].at = "recover" /\ hand[t].op # "none"
  BY HandsAt DEF RecoverLock, AuthInv, TaskOrder
<1>2. UNCHANGED <<store, issuer, authFaults, cleared>>
  BY DEF RecoverLock
<1>3. /\ hand' \in [Hands -> HandRow] /\ hand'[t].at = "idle" /\ hand'[t].op = "none"
      /\ hand'[t].seen = NoGrant
      /\ \A u \in Hands : u # t => /\ hand'[u].at = hand[u].at /\ hand'[u].op = hand[u].op
                                   /\ hand'[u].seen = hand[u].seen
  <2> DEFINE row == IdleHand
  <2>1. hand[t] \in HandRow /\ hand[t].seen \in {NoGrant} \cup Issued /\ P(t) \in Sharers
    BY HandsAt
  <2>2. /\ row \in HandRow /\ row.at = "idle" /\ row.op = "none" /\ row.seen = NoGrant
    BY IdleIs
  <2>3. hand' = [hand EXCEPT ![t] = row]
    BY DEF RecoverLock
  <2> HIDE DEF row
  <2>4. QED
    BY <2>2, <2>3, HandMoves
<1>4. login_lock' = login_lock
  BY DEF RecoverLock, Pass
<1>5. IssuerTypes' /\ Issued' = Issued
  BY <1>2 DEF AuthInv, IssuerTypes, Issued
<1>6. /\ session' \in [Sharers -> {NoGrant} \cup Issued'] /\ signed_out' = signed_out
      /\ \A p \in Sharers : session'[p] \in {session[p], NoGrant}
  BY <1>5, HandsAt DEF RecoverLock, AuthInv, SessionTypes
<1>7. SessionTypes'
  BY <1>1, <1>2, <1>3, <1>4, <1>5, <1>6 DEF AuthInv, SessionTypes
<1>8. LocksHeld'
  BY <1>1, <1>3, <1>4, AuthAssumption DEF AuthInv, LocksHeld, Holding, P
<1>9. TaskOrder'
  BY <1>1, <1>3 DEF AuthInv, TaskOrder
<1>10. SignedOutIsOut'
  BY <1>1, <1>3, <1>4, <1>6, HandsAt, OneHolder DEF AuthInv, SignedOutIsOut, Holding
<1>11. OutOfStore'
  BY <1>1, <1>2, <1>3, <1>4, <1>6, HandsAt, OneHolder DEF AuthInv, OutOfStore, SignOutEmptiesStore, OneSharer, Holding
<1>12. GrantsFresh'
  BY <1>1, <1>2, <1>3, <1>4, <1>5, <1>6, HandsAt, OneHolder
  DEF AuthInv, GrantsFresh, Fresh, Dead, OneSharer, Holding
<1>13. QED
  BY <1>5, <1>7, <1>8, <1>9, <1>10, <1>11, <1>12 DEF AuthInv

LEMMA RecoveryAdopts ==
  ASSUME AuthInv, NEW t \in Hands, RecoverLock(t), MayRecover(t), store \notin {NoGrant, hand[t].seen}
  PROVE  AuthInv'
<1>1. hand[t].at = "recover" /\ hand[t].op # "none" /\ store \in Issued
  BY HandsAt DEF RecoverLock, AuthInv, TaskOrder, SessionTypes
<1>2. UNCHANGED <<store, issuer, authFaults, cleared>>
  BY DEF RecoverLock
<1>3. /\ hand' \in [Hands -> HandRow] /\ hand'[t].at = "send" /\ hand'[t].op = hand[t].op
      /\ hand'[t].seen = store
      /\ \A u \in Hands : u # t => /\ hand'[u].at = hand[u].at /\ hand'[u].op = hand[u].op
                                   /\ hand'[u].seen = hand[u].seen
  <2> DEFINE row == [Goes(t, "send", store) EXCEPT !.again = TRUE]
  <2>1. hand[t] \in HandRow /\ hand[t].seen \in {NoGrant} \cup Issued /\ P(t) \in Sharers
    BY HandsAt
  <2>2. /\ row \in HandRow /\ row.at = "send" /\ row.op = hand[t].op /\ row.seen = store
    BY <1>1, <2>1, IssuedAreGrants DEF HandRow, Places, Goes, AuthInv
  <2>3. hand' = Publishing(t, row)
    BY DEF RecoverLock
  <2> HIDE DEF row
  <2>4. QED
    BY <2>2, <2>3, HandPublishes
<1>4. login_lock' = login_lock /\ login_lock[P(t)] = NoHand
  BY DEF RecoverLock, Pass
<1>5. IssuerTypes' /\ Issued' = Issued
  BY <1>2 DEF AuthInv, IssuerTypes, Issued
<1>6. /\ session' \in [Sharers -> {NoGrant} \cup Issued'] /\ signed_out' \in [Sharers -> BOOLEAN]
      /\ \A p \in Sharers : session'[p] = IF p = P(t) THEN store ELSE session[p]
      /\ \A p \in Sharers : signed_out'[p] = IF p = P(t) THEN FALSE ELSE signed_out[p]
  <2>1. Publish(t, store)
    BY DEF RecoverLock
  <2>2. QED
    BY <1>1, <1>5, <2>1, HandsAt DEF Publish, AuthInv, SessionTypes
<1>7. SessionTypes'
  BY <1>1, <1>2, <1>3, <1>4, <1>5, <1>6 DEF AuthInv, SessionTypes
<1>8. LocksHeld'
  BY <1>1, <1>3, <1>4, AuthAssumption DEF AuthInv, LocksHeld, Holding, P
<1>9. TaskOrder'
  BY <1>1, <1>3 DEF AuthInv, TaskOrder
<1>10. SignedOutIsOut'
  BY <1>1, <1>3, <1>4, <1>6, HandsAt, OneHolder DEF AuthInv, SignedOutIsOut, Holding
<1>11. OutOfStore'
  BY <1>1, <1>2, <1>3, <1>4, <1>6, HandsAt, OneHolder DEF AuthInv, OutOfStore, SignOutEmptiesStore, OneSharer, Holding
<1>12. GrantsFresh'
  BY <1>1, <1>2, <1>3, <1>4, <1>5, <1>6, HandsAt, OneHolder
  DEF AuthInv, GrantsFresh, Fresh, Dead, OneSharer, Holding
<1>13. QED
  BY <1>5, <1>7, <1>8, <1>9, <1>10, <1>11, <1>12 DEF AuthInv

LEMMA RecoveryRefreshes ==
  ASSUME AuthInv, NEW t \in Hands, RecoverLock(t), MayRecover(t), store = hand[t].seen, store # NoGrant
  PROVE  AuthInv'
<1>1. /\ hand[t].at = "recover" /\ hand[t].op # "none" /\ store \in Issued /\ hand[t].seen = store
      /\ ~signed_out[P(t)]
  BY HandsAt DEF RecoverLock, MayRecover, AuthInv, TaskOrder, SessionTypes
<1>2. UNCHANGED <<store, issuer, authFaults, cleared>>
  BY DEF RecoverLock
<1>3. /\ hand' \in [Hands -> HandRow] /\ hand'[t].at = "refresh"
      /\ hand'[t].op = hand[t].op /\ hand'[t].seen = store
      /\ \A u \in Hands : u # t => /\ hand'[u].at = hand[u].at /\ hand'[u].op = hand[u].op
                                   /\ hand'[u].seen = hand[u].seen
  <2> DEFINE row == [Goes(t, "refresh", store) EXCEPT !.again = TRUE]
  <2>1. hand[t] \in HandRow /\ hand[t].seen \in {NoGrant} \cup Issued /\ P(t) \in Sharers
    BY HandsAt
  <2>2. /\ row \in HandRow /\ row.at = "refresh" /\ row.op = hand[t].op /\ row.seen = store
    BY <1>1, <2>1, IssuedAreGrants DEF HandRow, Places, Goes, AuthInv
  <2>3. hand' = [hand EXCEPT ![t] = row]
    BY DEF RecoverLock, AuthInv, SessionTypes
  <2> HIDE DEF row
  <2>4. QED
    BY <2>2, <2>3, HandMoves
<1>4. /\ login_lock[P(t)] = NoHand /\ login_lock' \in [Sharers -> Hands \cup {NoHand}]
      /\ \A p \in Sharers : login_lock'[p] = IF p = P(t) THEN t ELSE login_lock[p]
  BY HandsAt DEF RecoverLock, Take, AuthInv, SessionTypes
<1>5. IssuerTypes' /\ Issued' = Issued
  BY <1>2 DEF AuthInv, IssuerTypes, Issued
<1>6. session' = session /\ signed_out' = signed_out
  BY DEF RecoverLock
<1>7. SessionTypes'
  BY <1>1, <1>2, <1>3, <1>4, <1>5, <1>6 DEF AuthInv, SessionTypes
<1>8. LocksHeld'
  BY <1>1, <1>3, <1>4, AuthAssumption DEF AuthInv, LocksHeld, Holding, P
<1>9. TaskOrder'
  BY <1>1, <1>3 DEF AuthInv, TaskOrder
<1>10. SignedOutIsOut'
  BY <1>1, <1>3, <1>4, <1>6, HandsAt, OneHolder DEF AuthInv, SignedOutIsOut, Holding
<1>11. OutOfStore'
  BY <1>1, <1>2, <1>3, <1>4, <1>6, HandsAt, OneHolder DEF AuthInv, OutOfStore, SignOutEmptiesStore, OneSharer, Holding
<1>12. GrantsFresh'
  BY <1>1, <1>2, <1>3, <1>4, <1>5, <1>6, HandsAt, OneHolder
  DEF AuthInv, GrantsFresh, Fresh, Dead, OneSharer, Holding
<1>13. QED
  BY <1>5, <1>7, <1>8, <1>9, <1>10, <1>11, <1>12 DEF AuthInv

\* An access token ends: no promise here is about access tokens.
LEMMA AccessIsOver ==
  ASSUME AuthInv, NEW g \in Grants, AccessEnds(g)
  PROVE  AuthInv'
<1>1. UNCHANGED <<store, session, signed_out, login_lock, hand, authFaults, cleared>> /\ g \in Issued
  BY DEF AccessEnds
<1>2. /\ issuer'.family = issuer.family /\ issuer'.spent = issuer.spent
      /\ issuer'.revoked = issuer.revoked /\ issuer'.ended = issuer.ended \cup {g}
      /\ issuer' = [family |-> issuer'.family, spent |-> issuer'.spent, revoked |-> issuer'.revoked,
                    ended |-> issuer'.ended]
  BY DEF AccessEnds, AuthInv, IssuerTypes
<1>3. IssuerTypes' /\ Issued' = Issued
  BY <1>1, <1>2 DEF AuthInv, IssuerTypes, Issued
<1>4. SessionTypes' /\ LocksHeld' /\ TaskOrder' /\ SignedOutIsOut' /\ OutOfStore'
  BY <1>1, <1>3
  DEF AuthInv, SessionTypes, LocksHeld, Holding, TaskOrder, SignedOutIsOut, OutOfStore,
      SignOutEmptiesStore
<1>5. GrantsFresh'
  BY <1>1, <1>2 DEF AuthInv, GrantsFresh, Fresh, Dead
<1>6. QED
  BY <1>3, <1>4, <1>5 DEF AuthInv

LEMMA AuthStutters ==
  ASSUME AuthInv, UNCHANGED authVars
  PROVE  AuthInv'
<1>1. UNCHANGED <<store, session, signed_out, login_lock, hand, issuer, authFaults, cleared>>
  BY DEF authVars
<1>2. IssuerTypes' /\ SessionTypes' /\ LocksHeld' /\ TaskOrder' /\ SignedOutIsOut' /\ OutOfStore'
  BY <1>1 DEF AuthInv, IssuerTypes, Issued, SessionTypes, LocksHeld, Holding, TaskOrder,
              SignedOutIsOut, OutOfStore, SignOutEmptiesStore
<1>3. GrantsFresh'
  BY <1>1 DEF AuthInv, GrantsFresh, Fresh, Dead
<1>4. QED
  BY <1>2, <1>3 DEF AuthInv

LEMMA AuthStarts ==
  ASSUME AuthInit
  PROVE  AuthInv
<1>1. IssuerTypes /\ Issued = {} /\ issuer.spent = {}
  BY AuthAssumption DEF AuthInit, IssuerTypes, Issued
<1>2. \A t \in Hands : hand[t] = IdleHand
  BY DEF AuthInit
<1>3. SessionTypes
  BY <1>1, <1>2, IdleIs, AuthAssumption DEF AuthInit, SessionTypes
<1>4. LocksHeld /\ TaskOrder
  BY <1>2, IdleIs, AuthAssumption DEF AuthInit, LocksHeld, TaskOrder, Holding, P
<1>5. SignedOutIsOut /\ OutOfStore
  BY <1>2, IdleIs DEF AuthInit, SignedOutIsOut, OutOfStore, SignOutEmptiesStore
<1>6. GrantsFresh
  BY <1>2, IdleIs DEF AuthInit, GrantsFresh, Fresh
<1>7. QED
  BY <1>1, <1>3, <1>4, <1>5, <1>6 DEF AuthInv

LEMMA RecoveryLocks ==
  ASSUME AuthInv, NEW t \in Hands, RecoverLock(t)
  PROVE  AuthInv'
BY RecoveryGivesUp, RecoveryAdopts, RecoveryRefreshes

LEMMA AuthStep ==
  ASSUME AuthInv, [AuthNext]_authVars
  PROVE  AuthInv'
<1>1. ASSUME NEW t \in Hands, HandStep(t)
      PROVE  AuthInv'
  BY <1>1, RequestBegins, EarlyLocks, RequestIsSent, AnswerIsRead, RecoveryLocks,
     GrantIsRefreshed,
     RefreshIsRejected, RefreshIsLost, GrantIsSaved, SaveIsLost, StoreIsCleared, LoginBegins,
     LoginLocks, UserIsConsenting, UserIsDeclining, SessionIsLoaded, ProcessSignsOut, LogoutRevokes,
     RevocationIsLost, StoreKeepsGrant, ProcessForgets, RecoveryIsGivenUp
     DEF HandStep
<1>2. QED
  BY <1>1, AccessIsOver, AuthStutters DEF AuthNext

\* Where every task is, what it holds and what memory, store and issuer say of its grant, for any
\* number of processes; what the store holds, if one process has it (client.rs login_lock).
THEOREM AuthInvHolds == AuthSpec => []AuthInv
<1>1. AuthInit => AuthInv
  BY AuthStarts
<1>2. AuthInv /\ [AuthNext]_authVars => AuthInv'
  BY AuthStep
<1>3. QED
  BY <1>1, <1>2, PTL DEF AuthSpec

\* The grants in store and memory were issued, and a sign-out that reported its record deleted left
\* nothing in the store, whatever was under way or failed, until its process signs in or loads a
\* grant again (client.rs logout, under login_lock): for any number of tasks of one process.
THEOREM SessionHolds ==
  ASSUME OneSharer
  PROVE  AuthSpec => []SessionInv
<1>1. ASSUME AuthInv
      PROVE  SessionInv
  <2>1. AuthTypeOK
    BY <1>1 DEF AuthInv, IssuerTypes, SessionTypes, AuthTypeOK
  <2>2. QED
    BY <1>1, <2>1 DEF AuthInv, OutOfStore, SessionInv
<1>2. QED
  BY <1>1, AuthInvHolds, PTL

\* Which steps bring a grant to a process: none while it is signed out, but for a sign-in that the
\* user consents to and the loading of a stored session.
LEMMA OutStaysOut ==
  ASSUME AuthInv, NEW t \in Hands, HandStep(t), NEW p \in Sharers, signed_out[p],
         session'[p] # NoGrant
  PROVE  P(t) = p /\ (hand[t].at = "consent" \/ hand[t].op = "none")
<1>1. session[p] = NoGrant /\ session \in [Sharers -> {NoGrant} \cup Issued]
  BY DEF AuthInv, SignedOutIsOut, SessionTypes
<1>2. session' # session
  BY <1>1
<1>3. ASSUME NEW g, Publish(t, g)
      PROVE  P(t) = p
  BY <1>1, <1>3 DEF Publish
<1>4. CASE RecoverLock(t)
  <2>1. Publish(t, store) /\ ~signed_out[P(t)]
    BY <1>1, <1>4 DEF RecoverLock, MayRecover
  <2>2. QED
    BY <1>3, <2>1
<1>5. CASE RefreshGranted(t)
  <2>1. Publish(t, NextGrant) /\ ~signed_out[P(t)]
    BY <1>5 DEF RefreshGranted, AuthInv, SignedOutIsOut
  <2>2. QED
    BY <1>3, <2>1
<1>6. CASE RefreshRejected(t)
  BY <1>1, <1>6 DEF RefreshRejected
<1>7. CASE UserConsents(t)
  BY <1>3, <1>7 DEF UserConsents
<1>8. CASE LoadStoredSession(t)
  <2>1. Publish(t, store) /\ hand[t].op = "none"
    BY <1>8 DEF LoadStoredSession, AuthInv, TaskOrder
  <2>2. QED
    BY <1>3, <2>1
<1>9. CASE LogoutUnnamed(t) \/ \E readable \in BOOLEAN : Logout(t, readable)
  BY <1>1, <1>9 DEF Logout, LogoutUnnamed
<1>10. CASE \E processed \in BOOLEAN : RefreshUnanswered(t, processed)
  BY <1>2, <1>10 DEF RefreshUnanswered
<1>11. CASE \E expiring \in BOOLEAN : BeginRequest(t, expiring)
  BY <1>2, <1>11 DEF BeginRequest
<1>12. CASE EarlyLock(t) \/ SendOnce(t) \/ AnswerArrives(t) \/ SaveGrant(t) \/ SaveFails(t)
            \/ ClearStore(t) \/ ClearFails(t) \/ GiveUpRecovery(t)
  BY <1>2, <1>12 DEF EarlyLock, SendOnce, AnswerArrives, SaveGrant, SaveFails, ClearStore,
                     ClearFails, GiveUpRecovery
<1>13. CASE BeginLogin(t) \/ LoginLock(t) \/ UserDeclines(t) \/ RevokeGrant(t) \/ RevocationFails(t)
  BY <1>2, <1>13 DEF BeginLogin, LoginLock, UserDeclines, RevokeGrant, RevocationFails
<1>14. QED
  BY <1>4, <1>5, <1>6, <1>7, <1>8, <1>9, <1>10, <1>11, <1>12, <1>13 DEF HandStep

\* A sign-out sticks: whatever was under way in a process, no request, refresh or recovery brings its
\* session back (client.rs auth_epoch and signed_out); for any number of processes.
THEOREM SignedOutStaysOut == AuthSpec => SignOutSticks
<1>1. ASSUME AuthInv, [AuthNext]_authVars
      PROVE  [\A p \in Sharers : signed_out[p] /\ session'[p] # NoGrant =>
                \E t \in Hands : P(t) = p /\ (hand[t].at = "consent" \/ hand[t].op = "none")]_authVars
  <2>1. ASSUME NEW p \in Sharers, signed_out[p], session'[p] # NoGrant, AuthNext
        PROVE  \E t \in Hands : P(t) = p /\ (hand[t].at = "consent" \/ hand[t].op = "none")
    <3>1. ASSUME NEW g \in Grants, AccessEnds(g)
          PROVE  FALSE
      BY <1>1, <2>1, <3>1 DEF AccessEnds, AuthInv, SignedOutIsOut
    <3>2. PICK t \in Hands : HandStep(t)
      BY <2>1, <3>1 DEF AuthNext
    <3>3. QED
      BY <1>1, <2>1, <3>2, OutStaysOut
  <2>2. QED
    BY <1>1, <2>1
<1>2. QED
  BY <1>1, AuthInvHolds, PTL DEF AuthSpec, SignOutSticks

\* Only a rejected refresh goes from a refresh straight to clearing the store.
LEMMA RejectionClears ==
  ASSUME AuthInv, NEW u \in Hands, HandStep(u), NEW t \in Hands, hand[t].at = "refresh",
         hand'[t].at = "clear"
  PROVE  t = u /\ RefreshRejected(t)
<1>1. hand \in [Hands -> HandRow] /\ hand'[t].at # hand[t].at
  BY DEF AuthInv, SessionTypes
<1>2. ASSUME t # u, NEW row, hand' = Publishing(u, row)
      PROVE  FALSE
  <2>1. hand'[t] = hand[t] \/ hand'[t] = [hand[t] EXCEPT !.joined = TRUE]
    BY <1>2 DEF Publishing
  <2>2. [hand[t] EXCEPT !.joined = TRUE].at = hand[t].at
    BY HandsAt DEF HandRow
  <2>3. QED
    BY <1>1, <2>1, <2>2
<1>3. ASSUME t # u, NEW row, hand' = [hand EXCEPT ![u] = row]
      PROVE  FALSE
  BY <1>1, <1>3
<1>4. t = u
  <2>1. CASE RecoverLock(u)
    BY <1>2, <1>3, <2>1 DEF RecoverLock
  <2>2. CASE RefreshGranted(u) \/ UserConsents(u) \/ LoadStoredSession(u)
    BY <1>2, <2>2 DEF RefreshGranted, UserConsents, LoadStoredSession
  <2>3. CASE LogoutUnnamed(u) \/ \E readable \in BOOLEAN : Logout(u, readable)
    <3>1. t # u => hand'[t] = hand[t] \/ hand'[t] = [hand[t] EXCEPT !.left = TRUE]
      BY <2>3 DEF Logout, LogoutUnnamed, SigningOut
    <3>2. [hand[t] EXCEPT !.left = TRUE].at = hand[t].at
      BY HandsAt DEF HandRow
    <3>3. QED
      BY <1>1, <3>1, <3>2
  <2>4. CASE (\E processed \in BOOLEAN : RefreshUnanswered(u, processed)) \/ RefreshRejected(u)
    BY <1>1, <2>4 DEF RefreshUnanswered, RefreshRejected
  <2>5. CASE \E expiring \in BOOLEAN : BeginRequest(u, expiring)
    BY <1>1, <2>5 DEF BeginRequest
  <2>6. CASE EarlyLock(u)
    BY <1>1, <2>6 DEF EarlyLock
  <2>7. CASE SendOnce(u) \/ AnswerArrives(u) \/ SaveGrant(u) \/ SaveFails(u) \/ ClearStore(u)
            \/ ClearFails(u) \/ GiveUpRecovery(u)
    BY <1>1, <2>7 DEF SendOnce, AnswerArrives, SaveGrant, SaveFails, ClearStore, ClearFails,
                      GiveUpRecovery
  <2>8. CASE LoginLock(u)
    BY <1>1, <2>8 DEF LoginLock
  <2>9. CASE BeginLogin(u) \/ UserDeclines(u) \/ RevokeGrant(u) \/ RevocationFails(u)
    BY <1>1, <2>9 DEF BeginLogin, UserDeclines, RevokeGrant, RevocationFails
  <2>10. QED
    BY <2>1, <2>2, <2>3, <2>4, <2>5, <2>6, <2>7, <2>8, <2>9 DEF HandStep
<1>5. CASE RefreshGranted(t)
  <2>1. hand'[t] = Goes(t, "save", NextGrant)
    BY <1>5 DEF RefreshGranted, Publishing
  <2>2. hand'[t].at = "save"
    BY <2>1, HandsAt DEF Goes, HandRow
  <2>3. QED
    BY <2>2
<1>6. CASE \E processed \in BOOLEAN : RefreshUnanswered(t, processed)
  <2>1. hand'[t] = AfterTransient(t)
    BY <1>1, <1>6 DEF RefreshUnanswered
  <2>2. hand'[t].at \in {"idle", "send"}
    BY <2>1, HandsAt, IdleIs DEF AfterTransient, Goes, HandRow
  <2>3. QED
    BY <2>2
<1>7. QED
  BY <1>4, <1>5, <1>6 DEF HandStep, EarlyLock, SendOnce, AnswerArrives, RecoverLock, SaveGrant,
     SaveFails, ClearStore, BeginRequest, BeginLogin, LoginLock, UserConsents, UserDeclines,
     LoadStoredSession, Logout, LogoutUnnamed, SigningOut, RevokeGrant, RevocationFails,
     ClearFails, GiveUpRecovery

\* No step of a session brings a signed-out process its grant back, and, for any number of tasks of
\* one process and as long as nothing is lost, no task shows the issuer a refresh token that is
\* spent, unless its family is dead already (client.rs login_lock, the grant read again under it).
THEOREM SessionStepsHold ==
  ASSUME OneSharer
  PROVE  AuthSpec => SessionSteps
<1>1. ASSUME AuthInv, [AuthNext]_authVars
      PROVE  [authFaults = 0 => \A t \in Hands : hand[t].at = "refresh" /\ hand'[t].at = "clear" =>
                Dead(hand[t].seen)]_authVars
  <2>1. ASSUME authFaults = 0, NEW t \in Hands, hand[t].at = "refresh", hand'[t].at = "clear", AuthNext
        PROVE  Dead(hand[t].seen)
    <3>1. ASSUME NEW g \in Grants, AccessEnds(g)
          PROVE  FALSE
      BY <2>1, <3>1 DEF AccessEnds
    <3>2. PICK u \in Hands : HandStep(u)
      BY <2>1, <3>1 DEF AuthNext
    <3>3. RefreshRejected(t)
      BY <1>1, <2>1, <3>2, RejectionClears
    <3>4. Fresh(hand[t].seen) /\ hand[t].seen # NoGrant
      BY <1>1, <2>1 DEF AuthInv, GrantsFresh, TaskOrder
    <3>5. QED
      BY <3>3, <3>4 DEF RefreshRejected, Refreshable, Fresh
  <2>2. QED
    BY <1>1, <2>1
<1>2. AuthSpec => NoSpentTokenShown
  BY <1>1, AuthInvHolds, PTL DEF AuthSpec, NoSpentTokenShown
<1>3. QED
  BY <1>2, SignedOutStaysOut DEF SessionSteps
=============================================================================
