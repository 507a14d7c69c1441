---------------------------- MODULE SkillRegistry ----------------------------
(***************************************************************************)
(* The versions of one skill in the skill registry                         *)
(* (crates/agentpalace-storage/src/skills.rs).  Every operation is one     *)
(* immediate SQLite transaction, so operations interleave but never        *)
(* overlap; what can go wrong is a sequence of them: versions promoted out *)
(* of order, a successor of another scope, a retirement in between.        *)
(*                                                                         *)
(* A proposal or outcome repeated under its idempotency key returns the    *)
(* committed row and changes nothing: it is a stuttering step here.  Names *)
(* of the texts, references and confidences a version carries are left     *)
(* out: nothing in the store decides by them.                              *)
(***************************************************************************)
EXTENDS Naturals, Sequences, FiniteSets

CONSTANTS
  Actors,       \* actor ids, asserted by the hosts
  Wings,        \* the projects a palace holds
  NoWing,       \* the wing of a version that is not bound to a project
  MaxVersions   \* bound: versions of the skill

ASSUME SkillAssumption == MaxVersions \in Nat

VARIABLES
  skills,    \* table skills: version -> row; versions count from one
  reviews    \* table skill_reviews in the order its rows were written

skillVars == <<skills, reviews>>

Scopes == {"agent", "project", "organization"}
SkillStatuses == {"candidate", "promoted", "superseded", "retired"}

(* Mutant: a superseded version may still be retired. *)
TerminalSkillOnlyRetired(status) == status = "retired"

TerminalSkill(status) == status \in {"superseded", "retired"}
RequiresDistinctReview(scope) == scope \in {"project", "organization"}

(* A version row; validated says that some outcome is recorded against it. *)
SkillRow ==
  [scope : Scopes, wing : Wings \cup {NoWing}, author : Actors, status : SkillStatuses,
   revision : 0..2, validated : BOOLEAN]

ReviewRow ==
  [version : 1..MaxVersions, from : SkillStatuses, to : SkillStatuses, reviewer : Actors]

Versions == DOMAIN skills
PromotedVersions == {v \in Versions : skills[v].status = "promoted"}

(***************************************************************************)
(* A project-scoped version names its wing and no other version has one.   *)
(***************************************************************************)
WingFits(scope, wing) == (scope = "project") <=> (wing # NoWing)

(* Only the latest version is compared: the one with the highest number. *)
StaysInWing(wing) ==
  skills # <<>> => skills[Len(skills)].wing = wing

ProposeSkill(author, scope, wing) ==
  /\ Len(skills) < MaxVersions
  /\ WingFits(scope, wing)
  /\ StaysInWing(wing)
  /\ skills' = Append(skills, [scope |-> scope, wing |-> wing, author |-> author,
                               status |-> "candidate", revision |-> 0, validated |-> FALSE])
  /\ UNCHANGED reviews

(* Outcomes attach to a version of any status. *)
RecordOutcome(v) ==
  /\ skills' = [skills EXCEPT ![v].validated = TRUE]
  /\ UNCHANGED reviews

(***************************************************************************)
(* Promotion.  find_promoted_version fails the transaction when it finds   *)
(* two promoted versions; OneAuthority says that it never does.            *)
(***************************************************************************)

(* Mutant: the numerically preceding version is superseded, not whichever  *)
(* is authoritative now.                                                   *)
SupersededByPreceding(v) == {u \in PromotedVersions : u + 1 = v}

SupersededBy(v) == PromotedVersions

(* Mutant: only the scope of the promoted version governs. *)
GoverningOwnScope(v) == skills[v].scope

GoverningScope(v) ==
  LET shared == {u \in PromotedVersions : RequiresDistinctReview(skills[u].scope)}
  IN  IF shared # {} THEN skills[CHOOSE u \in shared : TRUE].scope ELSE skills[v].scope

Governed(v, reviewer) ==
  IF RequiresDistinctReview(GoverningScope(v))
  THEN reviewer # skills[v].author /\ skills[v].validated
  ELSE reviewer = skills[v].author

Entry(v, to, reviewer) ==
  [version |-> v, from |-> skills[v].status, to |-> to, reviewer |-> reviewer]

(* Mutant: superseding a version does not count as a write of its row. *)
MovedSilently(v, to) ==
  [skills[v] EXCEPT !.status = to, !.revision = IF to = "superseded" THEN @ ELSE @ + 1]

Moved(v, to) == [skills[v] EXCEPT !.status = to, !.revision = @ + 1]

PromoteSkill(v, expected, reviewer) ==
  /\ skills[v].revision = expected
  /\ skills[v].status = "candidate"
  /\ Cardinality(PromotedVersions) <= 1
  /\ Governed(v, reviewer)
  /\ skills' = [u \in Versions |->
                  IF u = v THEN Moved(v, "promoted")
                  ELSE IF u \in SupersededBy(v) THEN Moved(u, "superseded")
                  ELSE skills[u]]
  /\ LET promotion == Append(reviews, Entry(v, "promoted", reviewer))
     IN  \/ SupersededBy(v) = {} /\ reviews' = promotion
         \/ \E u \in SupersededBy(v) : reviews' = Append(promotion, Entry(u, "superseded", reviewer))

(* Anyone may retire any version that is not terminal. *)
RetireSkill(v, expected, reviewer) ==
  /\ skills[v].revision = expected
  /\ ~TerminalSkill(skills[v].status)
  /\ skills' = [skills EXCEPT ![v] = Moved(v, "retired")]
  /\ reviews' = Append(reviews, Entry(v, "retired", reviewer))

(***************************************************************************)
SkillInit == skills = <<>> /\ reviews = <<>>

SkillNext ==
  \/ \E a \in Actors, s \in Scopes, w \in Wings \cup {NoWing} : ProposeSkill(a, s, w)
  \/ \E v \in Versions :
       \/ RecordOutcome(v)
       \/ \E expected \in 0..2, r \in Actors : PromoteSkill(v, expected, r)
       \/ \E expected \in 0..2, r \in Actors : RetireSkill(v, expected, r)

SkillSpec == SkillInit /\ [][SkillNext]_skillVars

(***************************************************************************)
(* Properties                                                              *)
(***************************************************************************)

(* Rows and review rows have their types; a version moves at most twice,   *)
(* so its revision never passes two.                                       *)
SkillsTypeOK ==
  /\ skills \in Seq(SkillRow) /\ Len(skills) <= MaxVersions
  /\ reviews \in Seq(ReviewRow)

(* At most one version is authoritative, in whatever order versions are    *)
(* proposed, promoted and retired (promote_skill, supersede_promoted).     *)
OneAuthority == \A u, v \in PromotedVersions : u = v

(* The review log explains the registry: the rows of a version chain from  *)
(* candidate to the status the version has, one row for each revision      *)
(* (insert_review in the transaction of every transition).                 *)
RowsOf(log, v) == {i \in DOMAIN log : log[i].version = v}

Explains(log, v, status, revision) ==
  LET rows == RowsOf(log, v)
  IN  /\ Cardinality(rows) = revision
      /\ rows = {} => status = "candidate"
      /\ \A i \in rows :
           /\ (\A j \in rows : i <= j) => log[i].from = "candidate"
           /\ (\A j \in rows : j <= i) => log[i].to = status
           /\ \A j \in rows : i < j /\ (\A k \in rows : k <= i \/ j <= k) => log[j].from = log[i].to

LogExplains == \A v \in Versions : Explains(reviews, v, skills[v].status, skills[v].revision)

(* Every promotion of the log was governed by the stricter of the promoted *)
(* version's scope and the scope of the version it displaced, which the    *)
(* next row names (promote_skill's governing_scope): a shared procedure    *)
(* never came from, or gave way to, a version its author promoted alone or *)
(* nobody tried.                                                           *)
Displaced(i) ==
  IF i < Len(reviews) /\ reviews[i+1].to = "superseded" THEN {reviews[i+1].version} ELSE {}

ReviewGoverned ==
  \A i \in DOMAIN reviews :
    LET v == reviews[i].version
    IN  /\ reviews[i].to = "promoted"
        /\ \E u \in {v} \cup Displaced(i) : RequiresDistinctReview(skills[u].scope)
        => reviews[i].reviewer # skills[v].author /\ skills[v].validated

(* The registry as an auditor reads it: rows of their types, a log that    *)
(* explains every status, and promotions that were governed (skills.rs).   *)
ReviewsExplain == SkillsTypeOK /\ LogExplains /\ ReviewGoverned
=============================================================================
