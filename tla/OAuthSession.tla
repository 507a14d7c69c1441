---------------------------- MODULE OAuthSession ----------------------------
(***************************************************************************)
(* One OAuth identity of a remote, as the processes of a machine use it    *)
(* (crates/agentpalace-remote/src/client.rs): each process keeps a grant   *)
(* in memory, all share one credential store, and the issuer rotates       *)
(* refresh tokens (crates/agentpalace-demo-hub/src/lib.rs, refresh and     *)
(* revoke_family).                                                         *)
(*                                                                         *)
(* Requests, sign-in, sign-out and loading run as tasks of a process and   *)
(* serialise on its login_lock; the lock does not reach other processes.   *)
(* Every await that leaves the process (issuer, store, resource) ends a    *)
(* step.  A grant is a number: its access and refresh token come and go    *)
(* together but for the access token's shorter life.  auth_epoch and       *)
(* session_generation count; a task only asks whether they moved since it  *)
(* looked, which its own record notes.                                     *)
(***************************************************************************)
EXTENDS Naturals, Sequences, FiniteSets

CONSTANTS
  Sharers,         \* processes that share the credential store
  Hands,           \* tasks of those processes
  ProcessOf,       \* the process of each task
  NoHand,          \* no task
  MaxGrants,       \* bound: grants issued
  MaxAuthFaults    \* bound: lost answers of the issuer, failed saves and clears of the store

ASSUME AuthAssumption ==
  /\ ProcessOf \in [Hands -> Sharers] /\ NoHand \notin Hands
  /\ MaxGrants \in Nat /\ MaxAuthFaults \in Nat

VARIABLES
  store,       \* the stored grant, zero for none
  session,     \* process -> its grant in memory, zero for none
  signed_out,  \* process -> signed_out
  login_lock,  \* process -> the task that holds it
  hand,        \* task -> what it is doing
  issuer,      \* the issuer's records
  authFaults,
  cleared      \* history: process -> its last sign-out reported that it had emptied the store

authVars == <<store, session, signed_out, login_lock, hand, issuer, authFaults, cleared>>

NoGrant == 0
Grants == 1..MaxGrants

(***************************************************************************)
(* The issuer.  A refresh token is good once; using it again revokes its   *)
(* family, access tokens included.                                         *)
(***************************************************************************)
Issued == DOMAIN issuer.family
Dead(g) == issuer.family[g] \in issuer.revoked
AccessWorks(g) == g # NoGrant /\ ~Dead(g) /\ g \notin issuer.ended
Refreshable(g) == ~Dead(g) /\ g \notin issuer.spent
NextGrant == Len(issuer.family) + 1

WithNewFamily ==
  [issuer EXCEPT !.family = Append(@, NextGrant)]

Rotated(g) ==
  [issuer EXCEPT !.family = Append(@, issuer.family[g]), !.spent = @ \cup {g}]

FamilyRevoked(g) == [issuer EXCEPT !.revoked = @ \cup {issuer.family[g]}]

(* An access token reaches its end, or the resource stops accepting it. *)
AccessEnds(g) ==
  /\ g \in Issued \ issuer.ended
  /\ issuer' = [issuer EXCEPT !.ended = @ \cup {g}]
  /\ UNCHANGED <<store, session, signed_out, login_lock, hand, authFaults, cleared>>

(***************************************************************************)
(* Tasks.  seen is the grant a task acts on; left tells it that somebody   *)
(* signed out since it looked at auth_epoch, joined that a grant was       *)
(* published since it looked at session_generation.                        *)
(***************************************************************************)
IdleHand == [op |-> "none", at |-> "idle", seen |-> NoGrant, left |-> FALSE, joined |-> FALSE, again |-> FALSE]

P(t) == ProcessOf[t]
Mates(t) == {u \in Hands : P(u) = P(t)}
Goes(t, at, seen) == [hand[t] EXCEPT !.at = at, !.seen = seen]

(* hand after t moved on and published a grant: waiting sign-ins notice. *)
Publishing(t, row) ==
  [u \in Hands |-> IF u = t THEN row
                   ELSE IF u \in Mates(t) THEN [hand[u] EXCEPT !.joined = TRUE] ELSE hand[u]]

Publish(t, g) ==
  /\ session' = [session EXCEPT ![P(t)] = g]
  /\ signed_out' = [signed_out EXCEPT ![P(t)] = FALSE]

Take(t) == login_lock[P(t)] = NoHand /\ login_lock' = [login_lock EXCEPT ![P(t)] = t]
Pass(t) == login_lock[P(t)] = NoHand /\ UNCHANGED login_lock     \* lock and unlock in one step
Leave(t) == login_lock' = [login_lock EXCEPT ![P(t)] = NoHand]

(***************************************************************************)
(* send_authorized: refresh_if_expiring, send, and after a 401 one         *)
(* recovery and one more send.                                             *)
(***************************************************************************)
BeginRequest(t, expiring) ==
  /\ hand[t].at = "idle"
  /\ expiring => session[P(t)] # NoGrant
  /\ hand' = [hand EXCEPT ![t] = [IdleHand EXCEPT !.op = "request",
                !.at = IF expiring THEN "early" ELSE "send", !.seen = session[P(t)]]]
  /\ UNCHANGED <<store, session, signed_out, login_lock, issuer, authFaults, cleared>>

(* Mutant: the grant read before the lock is used although another task    *)
(* has replaced it.                                                        *)
StillCurrentUnread(t) == ~signed_out[P(t)]

StillCurrent(t) == session[P(t)] = hand[t].seen /\ ~signed_out[P(t)]

EarlyLock(t) ==
  /\ hand[t].at = "early"
  /\ IF StillCurrent(t)
     THEN Take(t) /\ hand' = [hand EXCEPT ![t].at = "refresh"]
     ELSE Pass(t) /\ hand' = [hand EXCEPT ![t].at = "send"]
  /\ UNCHANGED <<store, session, signed_out, issuer, authFaults, cleared>>

SendOnce(t) ==
  /\ hand[t].at = "send"
  /\ hand' = [hand EXCEPT ![t].at = "sent", ![t].seen = session[P(t)], ![t].left = FALSE]
  /\ UNCHANGED <<store, session, signed_out, login_lock, issuer, authFaults, cleared>>

AnswerArrives(t) ==
  /\ hand[t].at = "sent"
  /\ hand' = [hand EXCEPT ![t] =
                IF AccessWorks(hand[t].seen) \/ hand[t].again \/ signed_out[P(t)]
                THEN IdleHand
                ELSE [Goes(t, "recover", hand[t].seen) EXCEPT !.left = FALSE]]
  /\ UNCHANGED <<store, session, signed_out, login_lock, issuer, authFaults, cleared>>

MayRecover(t) == ~hand[t].left /\ ~signed_out[P(t)]

(* recover_authorization under the lock: the stored grant decides. *)
RecoverLock(t) ==
  /\ hand[t].at = "recover"
  /\ \/ /\ ~MayRecover(t)
        /\ Pass(t)
        /\ hand' = [hand EXCEPT ![t] = IdleHand]
        /\ UNCHANGED <<session, signed_out>>
     \/ /\ MayRecover(t) /\ store = NoGrant
        /\ Pass(t)
        /\ hand' = [hand EXCEPT ![t] = IdleHand]
        /\ session' = [session EXCEPT ![P(t)] = NoGrant]
        /\ UNCHANGED signed_out
     \/ /\ MayRecover(t) /\ store \notin {NoGrant, hand[t].seen}
        /\ Pass(t)
        /\ Publish(t, store)
        /\ hand' = Publishing(t, [Goes(t, "send", store) EXCEPT !.again = TRUE])
     \/ /\ MayRecover(t) /\ store = hand[t].seen /\ store # NoGrant
        /\ Take(t)
        /\ hand' = [hand EXCEPT ![t] = [Goes(t, "refresh", store) EXCEPT !.again = TRUE]]
        /\ UNCHANGED <<session, signed_out>>
  /\ UNCHANGED <<store, issuer, authFaults, cleared>>

(* The issuer's metadata or the store cannot be read; nothing changes.      *)
GiveUpRecovery(t) ==
  /\ hand[t].at = "recover"
  /\ hand' = [hand EXCEPT ![t] = IdleHand]
  /\ UNCHANGED <<store, session, signed_out, login_lock, issuer, authFaults, cleared>>

(***************************************************************************)
(* One call of the token endpoint with the lock held.  commit_locked       *)
(* publishes before it saves; a rejection forgets before it clears; a      *)
(* transient failure keeps the grant, and may have spent it all the same.  *)
(***************************************************************************)
(* Mutant: the refresh is tried again at once, after the lock was left.    *)
AfterTransientAgain(t) == Goes(t, "refresh", hand[t].seen)

AfterTransient(t) ==
  IF hand[t].again THEN IdleHand ELSE Goes(t, "send", hand[t].seen)

RefreshGranted(t) ==
  /\ hand[t].at = "refresh"
  /\ Refreshable(hand[t].seen) /\ NextGrant \in Grants
  /\ issuer' = Rotated(hand[t].seen)
  /\ Publish(t, NextGrant)
  /\ hand' = Publishing(t, Goes(t, "save", NextGrant))
  /\ UNCHANGED <<store, login_lock, authFaults, cleared>>

RefreshRejected(t) ==
  /\ hand[t].at = "refresh"
  /\ ~Refreshable(hand[t].seen)
  /\ issuer' = FamilyRevoked(hand[t].seen)
  /\ session' = [session EXCEPT ![P(t)] = NoGrant]
  /\ hand' = [hand EXCEPT ![t].at = "clear"]
  /\ UNCHANGED <<store, signed_out, login_lock, authFaults, cleared>>

RefreshUnanswered(t, processed) ==
  /\ hand[t].at = "refresh"
  /\ authFaults < MaxAuthFaults /\ authFaults' = authFaults + 1
  /\ processed => Refreshable(hand[t].seen) /\ NextGrant \in Grants
  /\ issuer' = IF processed THEN Rotated(hand[t].seen) ELSE issuer
  /\ Leave(t)
  /\ hand' = [hand EXCEPT ![t] = AfterTransient(t)]
  /\ UNCHANGED <<store, session, signed_out, cleared>>

AfterCommit(t) == IF hand[t].op = "request" THEN Goes(t, "send", hand[t].seen) ELSE IdleHand

SaveGrant(t) ==
  /\ hand[t].at = "save"
  /\ store' = hand[t].seen
  /\ Leave(t)
  /\ hand' = [hand EXCEPT ![t] = AfterCommit(t)]
  /\ UNCHANGED <<session, signed_out, issuer, authFaults, cleared>>

(* The error ends a sign-in and a recovery; an early refresh only logs it. *)
SaveFails(t) ==
  /\ hand[t].at = "save"
  /\ authFaults < MaxAuthFaults /\ authFaults' = authFaults + 1
  /\ Leave(t)
  /\ hand' = [hand EXCEPT ![t] = IF hand[t].again THEN IdleHand ELSE AfterCommit(t)]
  /\ UNCHANGED <<store, session, signed_out, issuer, cleared>>

(* Removing the record ends a sign-out, a recovery and an early refresh,   *)
(* which then sends its request all the same.                              *)
AfterClear(t) ==
  IF hand[t].op = "request" /\ ~hand[t].again THEN Goes(t, "send", NoGrant) ELSE IdleHand

ClearStore(t) ==
  /\ hand[t].at = "clear"
  /\ store' = NoGrant
  /\ cleared' = [cleared EXCEPT ![P(t)] = @ \/ hand[t].op = "logout"]
  /\ Leave(t)
  /\ hand' = [hand EXCEPT ![t] = AfterClear(t)]
  /\ UNCHANGED <<session, signed_out, issuer, authFaults>>

(* The record stays: the error ends a sign-out and a recovery, and an      *)
(* early refresh only logs it.                                             *)
ClearFails(t) ==
  /\ hand[t].at = "clear"
  /\ authFaults < MaxAuthFaults /\ authFaults' = authFaults + 1
  /\ Leave(t)
  /\ hand' = [hand EXCEPT ![t] = AfterClear(t)]
  /\ UNCHANGED <<store, session, signed_out, issuer, cleared>>

(***************************************************************************)
(* Sign-in, loading a stored grant, sign-out                               *)
(***************************************************************************)
BeginLogin(t) ==
  /\ hand[t].at = "idle"
  /\ hand' = [hand EXCEPT ![t] = [IdleHand EXCEPT !.op = "login", !.at = "login"]]
  /\ UNCHANGED <<store, session, signed_out, login_lock, issuer, authFaults, cleared>>

(* A task that waited while another one signed in shares its grant. *)
LoginLock(t) ==
  /\ hand[t].at = "login"
  /\ IF hand[t].joined /\ session[P(t)] # NoGrant
     THEN Pass(t) /\ hand' = [hand EXCEPT ![t] = IdleHand]
     ELSE Take(t) /\ hand' = [hand EXCEPT ![t].at = "consent"]
  /\ UNCHANGED <<store, session, signed_out, issuer, authFaults, cleared>>

UserConsents(t) ==
  /\ hand[t].at = "consent" /\ NextGrant \in Grants
  /\ issuer' = WithNewFamily
  /\ Publish(t, NextGrant)
  /\ hand' = Publishing(t, Goes(t, "save", NextGrant))
  /\ UNCHANGED <<store, login_lock, authFaults, cleared>>

UserDeclines(t) ==
  /\ hand[t].at = "consent"
  /\ Leave(t)
  /\ hand' = [hand EXCEPT ![t] = IdleHand]
  /\ UNCHANGED <<store, session, signed_out, issuer, authFaults, cleared>>

LoadStoredSession(t) ==
  /\ hand[t].at = "idle" /\ store # NoGrant
  /\ Pass(t)
  /\ Publish(t, store)
  /\ hand' = Publishing(t, hand[t])
  /\ UNCHANGED <<store, login_lock, issuer, authFaults, cleared>>

(* Mutant: a sign-out does not wait for the refresh under way.             *)
WaitsForOthersNot(t) == UNCHANGED login_lock

WaitsForOthers(t) == Take(t)

SigningOut(t, row) ==
  [u \in Hands |-> IF u = t THEN row
                   ELSE IF u \in Mates(t) THEN [hand[u] EXCEPT !.left = TRUE] ELSE hand[u]]

(* The issuer is named or known from the grant in memory; a record that    *)
(* cannot be read can still be deleted, but not revoked.                   *)
Logout(t, readable) ==
  /\ hand[t].at = "idle"
  /\ WaitsForOthers(t)
  /\ signed_out' = [signed_out EXCEPT ![P(t)] = TRUE]
  /\ cleared' = [cleared EXCEPT ![P(t)] = FALSE]
  /\ session' = [session EXCEPT ![P(t)] = NoGrant]
  /\ hand' = SigningOut(t, [IdleHand EXCEPT !.op = "logout", !.at = "revoke",
                              !.seen = IF session[P(t)] # NoGrant THEN session[P(t)]
                                       ELSE IF readable THEN store ELSE NoGrant])
  /\ UNCHANGED <<store, issuer, authFaults>>

(* No issuer is named and memory holds no grant: which record to delete is *)
(* not known, and it stays.                                                *)
LogoutUnnamed(t) ==
  /\ hand[t].at = "idle" /\ session[P(t)] = NoGrant
  /\ Pass(t)
  /\ signed_out' = [signed_out EXCEPT ![P(t)] = TRUE]
  /\ cleared' = [cleared EXCEPT ![P(t)] = FALSE]
  /\ hand' = SigningOut(t, hand[t])
  /\ UNCHANGED <<store, session, issuer, authFaults>>

RevokeGrant(t) ==
  /\ hand[t].at = "revoke"
  /\ issuer' = IF hand[t].seen = NoGrant THEN issuer ELSE FamilyRevoked(hand[t].seen)
  /\ hand' = [hand EXCEPT ![t].at = "clear"]
  /\ UNCHANGED <<store, session, signed_out, login_lock, authFaults, cleared>>

(* No metadata, no revocation endpoint, or the issuer fails: reported, and *)
(* the record is deleted all the same.                                     *)
RevocationFails(t) ==
  /\ hand[t].at = "revoke"
  /\ hand' = [hand EXCEPT ![t].at = "clear"]
  /\ UNCHANGED <<store, session, signed_out, login_lock, issuer, authFaults, cleared>>

(***************************************************************************)
AuthInit ==
  /\ store = NoGrant
  /\ session = [p \in Sharers |-> NoGrant]
  /\ signed_out = [p \in Sharers |-> FALSE]
  /\ login_lock = [p \in Sharers |-> NoHand]
  /\ hand = [t \in Hands |-> IdleHand]
  /\ issuer = [family |-> <<>>, spent |-> {}, revoked |-> {}, ended |-> {}]
  /\ authFaults = 0
  /\ cleared = [p \in Sharers |-> FALSE]

HandStep(t) ==
  \/ \E expiring \in BOOLEAN : BeginRequest(t, expiring)
  \/ EarlyLock(t) \/ SendOnce(t) \/ AnswerArrives(t) \/ RecoverLock(t) \/ GiveUpRecovery(t)
  \/ RefreshGranted(t) \/ RefreshRejected(t)
  \/ \E processed \in BOOLEAN : RefreshUnanswered(t, processed)
  \/ SaveGrant(t) \/ SaveFails(t) \/ ClearStore(t) \/ ClearFails(t)
  \/ BeginLogin(t) \/ LoginLock(t) \/ UserConsents(t) \/ UserDeclines(t)
  \/ LoadStoredSession(t)
  \/ \E readable \in BOOLEAN : Logout(t, readable)
  \/ LogoutUnnamed(t) \/ RevokeGrant(t) \/ RevocationFails(t)

AuthNext == (\E g \in Grants : AccessEnds(g)) \/ (\E t \in Hands : HandStep(t))

AuthSpec == AuthInit /\ [][AuthNext]_authVars

(***************************************************************************)
(* Properties                                                              *)
(***************************************************************************)

(* Store, memory, lock and issuer have their types.                        *)
AuthTypeOK ==
  /\ store \in {NoGrant} \cup Issued
  /\ session \in [Sharers -> {NoGrant} \cup Issued]
  /\ signed_out \in [Sharers -> BOOLEAN] /\ cleared \in [Sharers -> BOOLEAN]
  /\ login_lock \in [Sharers -> Hands \cup {NoHand}]
  /\ issuer.spent \subseteq Issued /\ issuer.ended \subseteq Issued /\ issuer.revoked \subseteq Issued

(* After a sign-out a process uses no grant until somebody explicitly      *)
(* signs in or loads one: a request that was under way, its refresh or its *)
(* recovery never brings the session back (auth_epoch and signed_out).     *)
SignOutSticks ==
  [][\A p \in Sharers : signed_out[p] /\ session'[p] # NoGrant =>
       \E t \in Hands : P(t) = p /\ (hand[t].at = "consent" \/ hand[t].op = "none")]_authVars

(* A sign-out that reported its record deleted left nothing behind: until  *)
(* the process signs in or loads a grant again the store stays empty,      *)
(* whatever refresh, recovery or sign-in of it was under way, and whatever *)
(* failed.  (A sign-out whose clear fails says so, and one that knows no   *)
(* issuer deletes nothing: after those the store may hold the grant.)      *)
SignOutEmptiesStore ==
  \A p \in Sharers : signed_out[p] /\ cleared[p] => store = NoGrant

(* What a process says of its session agrees with what the store holds.    *)
SessionInv == AuthTypeOK /\ SignOutEmptiesStore

(* As long as no answer of the issuer and no save is lost, tasks never     *)
(* show the issuer a refresh token that is already spent - it would revoke *)
(* the whole family - unless a sign-out killed the grant anyway            *)
(* (login_lock, the grant read again under it, the stored grant adopted).  *)
NoSpentTokenShown ==
  [][authFaults = 0 => \A t \in Hands : hand[t].at = "refresh" /\ hand'[t].at = "clear" =>
       Dead(hand[t].seen)]_authVars

\* What no step of a session may do, whatever its tasks are in the middle of (RemoteClient).
SessionSteps == SignOutSticks /\ NoSpentTokenShown
=============================================================================
