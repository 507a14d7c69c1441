----------------------------- MODULE HubGrants ------------------------------
(***************************************************************************)
(* One sign-in to the demo hub and the token family it opens               *)
(* (crates/agentpalace-demo-hub/src/lib.rs, Gateway), with the access      *)
(* policy that admits its owner (access_policy.rs).  All state is in       *)
(* memory behind one mutex; a handler that lets go of it between two       *)
(* looks, or awaits the identity provider, takes several steps.            *)
(*                                                                         *)
(* The sign-in is a browser authorization or a device grant.  Browser,     *)
(* client and resource bindings of a request are checked against values    *)
(* nobody else has; the model has the requests with the right ones.        *)
(* Lifetimes and policy edits are steps that may happen at any time.  Role *)
(* ceilings decide nothing here and are left out.                          *)
(***************************************************************************)
EXTENDS Naturals, Sequences, FiniteSets

CONSTANTS
  Browsers,      \* browser requests that may be in flight
  Refreshers,    \* refresh requests that may be in flight
  MaxAttempts,   \* bound: verifications of a device grant that are begun
  MaxTokens      \* bound: token pairs issued

ASSUME HubAssumption == MaxAttempts \in Nat \ {0} /\ MaxTokens \in Nat

VARIABLES
  kind,      \* "browser" or "device"
  admitted,  \* whether the current access policy admits the owner
  grant,     \* browser transaction or device grant, and the code a consent issues
  parked,    \* attempts whose verified claims wait for consent
  visit,     \* browser requests in flight
  tokens,    \* token pairs of the family in the order they were issued
  rotation,  \* refresh requests in flight
  killed,    \* history: the family was revoked
  crossed,   \* history: it was revoked between the two locks of a rotation
  late       \* history: attempts that were superseded when their claims were parked

hubVars == <<kind, admitted, grant, parked, visit, tokens, rotation, killed, crossed, late>>

Attempts == 1..MaxAttempts
Away == [at |-> "away", attempt |-> 0]
NotRotating == [at |-> "idle", token |-> 0]

\* state: "none" - "open" (consent may decide it) - "approved" - "exchanged", or "over" on the way.
\* A device grant keeps its attempts and may be denied in any state it is stored in.
HubTypeOK ==
  /\ kind \in {"browser", "device"} /\ admitted \in BOOLEAN
  /\ grant \in [state : {"none", "open", "approved", "exchanged", "over"},
                attempt : 0..MaxAttempts, denied : BOOLEAN]
  /\ parked \subseteq Attempts /\ late \subseteq Attempts
  /\ visit \in [Browsers -> [at : {"away", "verifying", "consenting"}, attempt : 0..MaxAttempts]]
  /\ \A i \in DOMAIN tokens :
       tokens[i] \in [parent : 0..(i - 1), refresh : {"live", "revoked"}, access : {"live", "revoked"}]
  /\ rotation \in [Refreshers -> [at : {"idle", "checking", "issuing"}, token : 0..MaxTokens]]
  /\ killed \in BOOLEAN /\ crossed \in BOOLEAN

HubInit ==
  /\ kind \in {"browser", "device"} /\ admitted = TRUE
  /\ grant = [state |-> "none", attempt |-> 0, denied |-> FALSE]
  /\ parked = {} /\ late = {}
  /\ visit = [b \in Browsers |-> Away]
  /\ tokens = <<>>
  /\ rotation = [c \in Refreshers |-> NotRotating]
  /\ killed = FALSE /\ crossed = FALSE

\* replace, by an administrator (put_access, delete_access).
EditPolicy ==
  /\ admitted' = ~admitted
  /\ UNCHANGED <<kind, grant, parked, visit, tokens, rotation, killed, crossed, late>>

-----------------------------------------------------------------------------
(* Sign-in.                                                                *)

\* The browser transaction, or the device grant, is stored.
Stored == grant.state = "open" \/ (kind = "device" /\ grant.state = "approved")

\* What a state parameter refers to: the one attempt of a transaction, the latest of a device grant.
Current(k) == Stored /\ grant.attempt = k /\ k # 0

\* begin_browser_authorization, or device_authorize.
BeginSignIn ==
  /\ grant.state = "none"
  /\ grant' = [grant EXCEPT !.state = "open", !.attempt = IF kind = "browser" THEN 1 ELSE 0]
  /\ UNCHANGED <<kind, admitted, parked, visit, tokens, rotation, killed, crossed, late>>

\* begin_device_verification: a new state replaces the one before, with the claims parked under it.
SupersededKept(k) == {}

Superseded(k) == {k}

BeginVerification ==
  /\ kind = "device" /\ Stored /\ grant.attempt < MaxAttempts
  /\ grant' = [grant EXCEPT !.attempt = @ + 1]
  /\ parked' = parked \ Superseded(grant.attempt)
  /\ UNCHANGED <<kind, admitted, visit, tokens, rotation, killed, crossed, late>>

\* The provider's callback, until it awaits the verifier.
Callback(b) ==
  /\ visit[b] = Away /\ Current(grant.attempt)
  /\ visit' = [visit EXCEPT ![b] = [at |-> "verifying", attempt |-> grant.attempt]]
  /\ UNCHANGED <<kind, admitted, grant, parked, tokens, rotation, killed, crossed, late>>

\* end_browser_transaction drops the transaction and its claims; deny_device marks the grant.
Refuse ==
  IF kind = "browser"
  THEN /\ grant' = IF grant.state = "open" THEN [grant EXCEPT !.state = "over"] ELSE grant
       /\ parked' = {}
  ELSE /\ grant' = IF Stored THEN [grant EXCEPT !.denied = TRUE] ELSE grant
       /\ UNCHANGED parked

\* The verifier answers, and the claims are parked for the consent form, whatever happened since ...
Verified(b) ==
  /\ visit[b].at = "verifying"
  /\ parked' = parked \cup {visit[b].attempt}
  /\ late' = IF visit[b].attempt = grant.attempt THEN late ELSE late \cup {visit[b].attempt}
  /\ visit' = [visit EXCEPT ![b] = Away]
  /\ UNCHANGED <<kind, admitted, grant, tokens, rotation, killed, crossed>>

\* ... or the verification fails; an outage leaves a device grant as it is.
NotVerified(b) ==
  /\ visit[b].at = "verifying"
  /\ \/ Refuse
     \/ kind = "device" /\ UNCHANGED <<grant, parked>>
  /\ visit' = [visit EXCEPT ![b] = Away]
  /\ UNCHANGED <<kind, admitted, tokens, rotation, killed, crossed, late>>

\* The consent form takes the claims, once; the decision follows under another lock.
TakeClaims(b) ==
  /\ visit[b] = Away /\ Current(grant.attempt) /\ grant.attempt \in parked
  /\ parked' = parked \ {grant.attempt}
  /\ visit' = [visit EXCEPT ![b] = [at |-> "consenting", attempt |-> grant.attempt]]
  /\ UNCHANGED <<kind, admitted, grant, tokens, rotation, killed, crossed, late>>

Decline(b) ==
  /\ visit[b].at = "consenting"
  /\ Refuse
  /\ visit' = [visit EXCEPT ![b] = Away]
  /\ UNCHANGED <<kind, admitted, tokens, rotation, killed, crossed, late>>

\* complete_browser_authorization consumes the transaction and issues a code to an admitted owner;
\* complete_device_verification approves the grant, or denies it; it looks at the state parameter
\* under one lock and decides under the next.
Decided ==
  IF ~Stored THEN grant
  ELSE IF admitted THEN [grant EXCEPT !.state = "approved"]
  ELSE IF kind = "browser" THEN [grant EXCEPT !.state = "over"]
  ELSE [grant EXCEPT !.denied = TRUE]

Consent(b) ==
  /\ visit[b].at = "consenting"
  /\ \/ grant' = Decided
     \/ ~Current(visit[b].attempt) /\ UNCHANGED grant
  /\ visit' = [visit EXCEPT ![b] = Away]
  /\ UNCHANGED <<kind, admitted, parked, tokens, rotation, killed, crossed, late>>

\* prune_expired: a transaction or a device grant goes with its claims; or the code expires.
ExpireGrant ==
  /\ grant.state \in {"open", "approved"}
  /\ grant' = [grant EXCEPT !.state = "over"]
  /\ parked' = IF Stored THEN parked \ {grant.attempt} ELSE parked
  /\ UNCHANGED <<kind, admitted, visit, tokens, rotation, killed, crossed, late>>

-----------------------------------------------------------------------------
(* Tokens.                                                                 *)

Issue(parent) ==
  /\ Len(tokens) < MaxTokens
  /\ tokens' = Append(tokens, [parent |-> parent, refresh |-> "live", access |-> "live"])

\* exchange_code spends the code even when the owner is not admitted any more; poll_device removes
\* the grant only when it issues.
ExchangedKept == grant

Exchanged == [grant EXCEPT !.state = "exchanged"]

Exchange ==
  /\ grant.state = "approved" /\ ~grant.denied
  /\ \/ admitted /\ Issue(0) /\ grant' = Exchanged
     \/ ~admitted /\ kind = "browser" /\ grant' = [grant EXCEPT !.state = "over"] /\ UNCHANGED tokens
  /\ UNCHANGED <<kind, admitted, parked, visit, rotation, killed, crossed, late>>

\* revoke_family.
RevokedRefreshOnly == [i \in DOMAIN tokens |-> [tokens[i] EXCEPT !.refresh = "revoked"]]

Revoked == [i \in DOMAIN tokens |-> [tokens[i] EXCEPT !.refresh = "revoked", !.access = "revoked"]]

Revoke(others) ==
  /\ tokens' = Revoked
  /\ killed' = TRUE
  /\ crossed' = (crossed \/ \E c \in others : rotation[c].at # "idle")

\* refresh, first lock: a live token is spent, one that was spent or revoked kills the family.
SpendableAny(i) == TRUE

Spendable(i) == tokens[i].refresh = "live"

SpendToken(c, i) ==
  /\ rotation[c].at = "idle" /\ Spendable(i)
  /\ Len(tokens) + Cardinality({d \in Refreshers : rotation[d].at # "idle"}) < MaxTokens
  /\ tokens' = [tokens EXCEPT ![i].refresh = "revoked"]
  /\ rotation' = [rotation EXCEPT ![c] = [at |-> "checking", token |-> i]]
  /\ UNCHANGED <<kind, admitted, grant, parked, visit, killed, crossed, late>>

ReuseToken(i) ==
  /\ tokens[i].refresh = "revoked"
  /\ Revoke(Refreshers)
  /\ UNCHANGED <<kind, admitted, grant, parked, visit, rotation, late>>

\* effective_role, by the policy of that moment; a refusal revokes the family.
CheckRole(c) ==
  /\ rotation[c].at = "checking" /\ admitted
  /\ rotation' = [rotation EXCEPT ![c].at = "issuing"]
  /\ UNCHANGED <<kind, admitted, grant, parked, visit, tokens, killed, crossed, late>>

RefuseRotation(c) ==
  /\ rotation[c].at = "checking" /\ ~admitted
  /\ Revoke(Refreshers \ {c})
  /\ rotation' = [rotation EXCEPT ![c] = NotRotating]
  /\ UNCHANGED <<kind, admitted, grant, parked, visit, late>>

\* issue_with_family under the second lock.
IssueNext(c) ==
  /\ rotation[c].at = "issuing"
  /\ Issue(rotation[c].token)
  /\ rotation' = [rotation EXCEPT ![c] = NotRotating]
  /\ UNCHANGED <<kind, admitted, grant, parked, visit, killed, crossed, late>>

\* revoke by a client, revoke_own_grant by the owner's browser.
RevokeFamily ==
  /\ tokens # <<>>
  /\ Revoke(Refreshers)
  /\ UNCHANGED <<kind, admitted, grant, parked, visit, rotation, late>>

-----------------------------------------------------------------------------
SignIn ==
  \/ BeginSignIn \/ BeginVerification \/ ExpireGrant \/ Exchange
  \/ \E b \in Browsers :
       Callback(b) \/ Verified(b) \/ NotVerified(b) \/ TakeClaims(b) \/ Decline(b) \/ Consent(b)

Rotate(c) ==
  \/ CheckRole(c) \/ RefuseRotation(c) \/ IssueNext(c)
  \/ \E i \in DOMAIN tokens : SpendToken(c, i)

HubNext ==
  \/ EditPolicy \/ SignIn \/ RevokeFamily
  \/ \E i \in DOMAIN tokens : ReuseToken(i)
  \/ \E c \in Refreshers : Rotate(c)

HubSpec == HubInit /\ [][HubNext]_hubVars

-----------------------------------------------------------------------------
(* Safety.                                                                 *)

\* A grant is exchanged once and a refresh token is rotated once, however requests overlap: the
\* family is a chain, and at most its last token is live (docs/Demo-Hub-Authorization-Architecture.md:
\* "consumed once", "rotating refresh tokens").
Successors(i) == {j \in DOMAIN tokens : tokens[j].parent = i}

FamilyIsChain ==
  /\ \A i \in 0..Len(tokens) : Cardinality(Successors(i)) <= 1
  /\ \A i \in DOMAIN tokens : tokens[i].refresh = "live" => Successors(i) = {}

\* A revoked family stays revoked, issued access tokens included, for whatever reason it was revoked
\* (docs/Demo-Hub-Authorization-Architecture.md: "reuse detection that revokes the family including
\* issued access tokens").
RevokedStays ==
  killed => \A i \in DOMAIN tokens : tokens[i].refresh = "revoked" /\ tokens[i].access = "revoked"

\* A superseded verification leaves no claims behind (begin_device_verification: "they are dropped
\* now rather than accumulating for the life of the grant"), unless it outlasted its attempt.
SupersededDropped == \A k \in parked : k = grant.attempt \/ k \in late

\* Tokens come from a consent that nobody took back, and revocations hold when none of them fell
\* between the two locks of a rotation; with the types.
HubInv ==
  /\ HubTypeOK /\ FamilyIsChain /\ SupersededDropped
  /\ ~crossed => RevokedStays
  /\ tokens # <<>> => grant.state = "exchanged" /\ ~grant.denied
=============================================================================
