------------------------------ MODULE Patterns ------------------------------
(***************************************************************************)
(* How clusters of experiences become patterns                             *)
(* (internal/experience/auto_generalize.go, pattern_service.go and         *)
(* storage/postgres/pattern_repository.go).                                *)
(*                                                                         *)
(* A generalizer is a thread that is inside AutoGeneralize or Generalize:  *)
(* the background worker of a server process or a request of an operator.  *)
(* Each of its reads and writes of the store is a step of its own, because *)
(* feedback, supersession and other generalizers write between them.  A    *)
(* pattern is named by its cluster fingerprint, the set of the identifiers *)
(* it was asked for; its members are those that were still retrievable.    *)
(***************************************************************************)
EXTENDS Integers, FiniteSets

CONSTANTS
    Generalizer,    \* the threads that generalize
    Exp,            \* the experiences of the tenant
    Family,         \* the families: type, scope and scope key
    FamilyOf,       \* the family of an experience
    EpisodesOf,     \* the episodes that support an experience
    Similar,        \* the pairs whose embeddings are close enough, as sets
    StatusAtFirst, UtilityAtFirst,   \* the experiences of the initial states
    MinExperiences, \* MinGeneralizeExperiences
    MinEpisodes,    \* MinGeneralizeEpisodes
    MinUtility      \* MinGeneralizeAvgUtility, in tenths

ASSUME PatternsAssumption ==
    /\ IsFiniteSet(Exp)
    /\ FamilyOf \in [Exp -> Family]
    /\ MinExperiences \in Nat \ {0}
    /\ MinEpisodes \in Nat
    /\ MinUtility \in Nat
    /\ UtilityAtFirst \in [Exp -> Nat]
    /\ StatusAtFirst \in [Exp -> {"CANDIDATE", "ACTIVE", "DEPRECATED"}]

Cluster == SUBSET Exp
Pair == {pair \in SUBSET Exp : Cardinality(pair) = 2}

VARIABLES
    status,     \* the status of an experience
    utility,    \* its utility, in tenths
    conflict,   \* the pairs with a CONFLICTS relation
    pattern,    \* the fingerprints of the patterns in the store
    members,    \* the members of a pattern: its SupportCount many experiences
    evidence,   \* the rows of pattern_evidence
    derived,    \* the DERIVED_FROM relations
    at,         \* where a generalizer is
    todo,       \* the clusters it has still to generalize
    cluster,    \* the cluster at hand
    unread,     \* its experiences that are still to be read
    exps,       \* those that were retrievable when they were read
    utilSum,    \* the sum of the utilities that were read
    unwritten,  \* the members without evidence yet
    raced,      \* the generalizers that are not alone with their cluster
    suspect     \* the patterns they made, and those that a failure or a crash
                \* left unfinished

expVars == <<status, utility, conflict>>
patternVars == <<pattern, members, evidence, derived, suspect>>
localVars == <<todo, cluster, unread, exps, utilSum, unwritten, raced>>
vars == <<expVars, patternVars, at, localVars>>

ExpStatus == {"CANDIDATE", "ACTIVE", "DEPRECATED"}
Retrievable(e) == status[e] \in {"CANDIDATE", "ACTIVE"}

Place == {"out", "list", "get", "conflicts", "covering", "fingerprint",
          "create", "evidence", "derive", "done", "error"}

(* A generalizer that has listed its experiences and is not done with them. *)
Generalizing(g) == at[g] \notin {"out", "list", "done", "error"}

PatternsTypeOK ==
    /\ status \in [Exp -> ExpStatus]
    /\ utility \in [Exp -> Nat]
    /\ conflict \subseteq Pair
    /\ pattern \subseteq Cluster
    /\ members \in [Cluster -> Cluster]
    /\ evidence \subseteq Cluster \X Exp
    /\ derived \subseteq Cluster \X Exp
    /\ suspect \subseteq Cluster
    /\ at \in [Generalizer -> Place]
    /\ todo \in [Generalizer -> SUBSET Cluster]
    /\ cluster \in [Generalizer -> Cluster]
    /\ unread \in [Generalizer -> Cluster]
    /\ exps \in [Generalizer -> Cluster]
    /\ utilSum \in [Generalizer -> Nat]
    /\ unwritten \in [Generalizer -> Cluster]
    /\ raced \subseteq Generalizer

PatternsInit ==
    /\ status = StatusAtFirst
    /\ utility = UtilityAtFirst
    /\ conflict = {}
    /\ pattern = {}
    /\ members = [c \in Cluster |-> {}]
    /\ evidence = {}
    /\ derived = {}
    /\ suspect = {}
    /\ at = [g \in Generalizer |-> "out"]
    /\ todo = [g \in Generalizer |-> {}]
    /\ cluster = [g \in Generalizer |-> {}]
    /\ unread = [g \in Generalizer |-> {}]
    /\ exps = [g \in Generalizer |-> {}]
    /\ utilSum = [g \in Generalizer |-> 0]
    /\ unwritten = [g \in Generalizer |-> {}]
    /\ raced = {}

-----------------------------------------------------------------------------
(* What a scan finds.                                                      *)

(* The experiences of a family that are ACTIVE and useful enough. *)
Candidates(f) ==
    {e \in Exp : FamilyOf[e] = f /\ status[e] = "ACTIVE" /\ utility[e] >= MinUtility}

Closed(S, C) == \A x \in C, y \in S : {x, y} \in Similar => y \in C

(* The experiences of S that are connected with e by similar pairs. *)
Component(e, S) ==
    {x \in S : \A C \in SUBSET S : e \in C /\ Closed(S, C) => x \in C}

(* The connected components that are large enough, none across families. *)
Clusters(S) ==
    {C \in {Component(e, {x \in S : FamilyOf[x] = FamilyOf[e]}) : e \in S} :
        Cardinality(C) >= MinExperiences}

Episodes(S) == UNION {EpisodesOf[e] : e \in S}

(* generalizationGate: one family, enough episodes, enough average utility. *)
GatePasses(S, sum) ==
    /\ Cardinality(S) >= MinExperiences
    /\ \A d, e \in S : FamilyOf[d] = FamilyOf[e]
    /\ Cardinality(Episodes(S)) >= MinEpisodes
    /\ sum >= MinUtility * Cardinality(S)

(* More than one pair in ten of the cluster conflicts.  The repository     *)
(* answers one peer for each experience, whichever row it reads last.      *)
Peers(S) == {e \in S : \E pair \in conflict : e \in pair}
PeerChoices(S) ==
    {peer \in [Peers(S) -> Exp] : \A e \in Peers(S) : {e, peer[e]} \in conflict}
ConflictingPairs(S, peer) ==
    {{e, peer[e]} : e \in {x \in DOMAIN peer :
                              peer[x] \in S /\ Retrievable(x) /\ Retrievable(peer[x])}}
TooConflicting(S, peer) ==
    20 * Cardinality(ConflictingPairs(S, peer))
        > Cardinality(S) * (Cardinality(S) - 1)

\* Faulty: a pattern counts as covering only with evidence of every experience.
FoundByAllExperiences(S) == {p \in pattern : \A e \in S : <<p, e>> \in evidence}

(* FindByExperience: the patterns with evidence of one of the experiences. *)
FoundByExperience(S) == {p \in pattern : \E e \in S : <<p, e>> \in evidence}
PatternFamily(p) == {FamilyOf[e] : e \in members[p]}

-----------------------------------------------------------------------------
(* The steps of a generalizer.                                             *)

Go(g, place) == at' = [at EXCEPT ![g] = place]

(* The locals of a cluster are forgotten when it is done with. *)
Forget(g) ==
    /\ cluster' = [cluster EXCEPT ![g] = {}]
    /\ unread' = [unread EXCEPT ![g] = {}]
    /\ exps' = [exps EXCEPT ![g] = {}]
    /\ utilSum' = [utilSum EXCEPT ![g] = 0]
    /\ unwritten' = [unwritten EXCEPT ![g] = {}]
    /\ raced' = raced \ {g}

(* Take up the first of the clusters, or be done. *)
TakeUp(g, clusters) ==
    IF clusters = {}
    THEN /\ Go(g, "done")
         /\ todo' = [todo EXCEPT ![g] = {}]
         /\ Forget(g)
    ELSE LET next == CHOOSE c \in clusters : TRUE
             others == {h \in Generalizer \ {g} : Generalizing(h)}
         IN
         /\ Go(g, "get")
         /\ todo' = [todo EXCEPT ![g] = clusters \ {next}]
         /\ cluster' = [cluster EXCEPT ![g] = next]
         /\ unread' = [unread EXCEPT ![g] = next]
         /\ exps' = [exps EXCEPT ![g] = {}]
         /\ utilSum' = [utilSum EXCEPT ![g] = 0]
         /\ unwritten' = [unwritten EXCEPT ![g] = {}]
         /\ raced' = IF others = {} THEN raced \ {g} ELSE raced \cup others \cup {g}

(* This cluster makes no pattern: on to the next one. *)
SkipCluster(g) == TakeUp(g, todo[g])

(* AutoGeneralize lists the candidates and forms the clusters. *)
List(g, f) ==
    /\ at[g] = "list"
    /\ TakeUp(g, Clusters(Candidates(f)))
    /\ UNCHANGED <<expVars, patternVars>>

(* Generalize reads one experience of the cluster. *)
Get(g) ==
    /\ at[g] = "get"
    /\ LET e == CHOOSE x \in unread[g] : TRUE
           now == unread[g] \ {e}
           read == IF Retrievable(e) THEN exps[g] \cup {e} ELSE exps[g]
           sum == IF Retrievable(e) THEN utilSum[g] + utility[e] ELSE utilSum[g]
       IN  IF now = {} /\ ~GatePasses(read, sum)
           THEN SkipCluster(g)
           ELSE /\ unread' = [unread EXCEPT ![g] = now]
                /\ exps' = [exps EXCEPT ![g] = read]
                /\ utilSum' = [utilSum EXCEPT ![g] = sum]
                /\ Go(g, IF now = {} THEN "conflicts" ELSE "get")
                /\ UNCHANGED <<todo, cluster, unwritten, raced>>
    /\ UNCHANGED <<expVars, patternVars>>

(* clusterConflictRate: a cluster at odds with itself is left alone. *)
CheckConflicts(g) ==
    /\ at[g] = "conflicts"
    /\ \E peer \in PeerChoices(exps[g]) :
        IF TooConflicting(exps[g], peer)
        THEN SkipCluster(g)
        ELSE /\ Go(g, "covering")
             /\ UNCHANGED localVars
    /\ UNCHANGED <<expVars, patternVars>>

(* A pattern of the family already covers a part of the cluster. *)
FindCovering(g) ==
    /\ at[g] = "covering"
    /\ IF \E p \in FoundByExperience(cluster[g]) :
            PatternFamily(p) = {FamilyOf[e] : e \in exps[g]}
       THEN SkipCluster(g)
       ELSE /\ Go(g, "fingerprint")
            /\ UNCHANGED localVars
    /\ UNCHANGED <<expVars, patternVars>>

(* A pattern with this very cluster exists. *)
LookUpFingerprint(g) ==
    /\ at[g] = "fingerprint"
    /\ IF cluster[g] \in pattern
       THEN SkipCluster(g)
       ELSE /\ Go(g, "create")
            /\ UNCHANGED localVars
    /\ UNCHANGED <<expVars, patternVars>>

(* The pattern is inserted; the unique index refuses a second one. *)
CreatePattern(g) ==
    /\ at[g] = "create"
    /\ IF cluster[g] \in pattern
       THEN /\ SkipCluster(g)
            /\ UNCHANGED patternVars
       ELSE /\ pattern' = pattern \cup {cluster[g]}
            /\ members' = [members EXCEPT ![cluster[g]] = exps[g]]
            /\ suspect' = IF g \in raced THEN suspect \cup {cluster[g]} ELSE suspect
            /\ unwritten' = [unwritten EXCEPT ![g] = exps[g]]
            /\ Go(g, "evidence")
            /\ UNCHANGED <<evidence, derived, todo, cluster, unread, exps, utilSum, raced>>
    /\ UNCHANGED expVars

Member(g) == CHOOSE e \in unwritten[g] : TRUE

(* The evidence of one member. *)
AddEvidence(g) ==
    /\ at[g] = "evidence"
    /\ evidence' = evidence \cup {<<cluster[g], Member(g)>>}
    /\ Go(g, "derive")
    /\ UNCHANGED <<expVars, pattern, members, derived, suspect, localVars>>

\* Faulty: the loop ends one member early.
RecordDerivationShort(g) ==
    /\ at[g] = "derive"
    /\ derived' = derived \cup {<<cluster[g], Member(g)>>}
    /\ IF Cardinality(unwritten[g]) <= 2
       THEN SkipCluster(g)
       ELSE /\ unwritten' = [unwritten EXCEPT ![g] = @ \ {Member(g)}]
            /\ Go(g, "evidence")
            /\ UNCHANGED <<todo, cluster, unread, exps, utilSum, raced>>
    /\ UNCHANGED <<expVars, pattern, members, evidence, suspect>>

(* The DERIVED_FROM relation of the same member. *)
RecordDerivation(g) ==
    /\ at[g] = "derive"
    /\ derived' = derived \cup {<<cluster[g], Member(g)>>}
    /\ IF unwritten[g] = {Member(g)}
       THEN SkipCluster(g)
       ELSE /\ unwritten' = [unwritten EXCEPT ![g] = @ \ {Member(g)}]
            /\ Go(g, "evidence")
            /\ UNCHANGED <<todo, cluster, unread, exps, utilSum, raced>>
    /\ UNCHANGED <<expVars, pattern, members, evidence, suspect>>

(* What a failure or a crash of a generalizer leaves behind. *)
Abandoned(g) == IF at[g] \in {"evidence", "derive"} THEN {cluster[g]} ELSE {}

Leave(g, place) ==
    /\ Go(g, place)
    /\ suspect' = suspect \cup Abandoned(g)
    /\ todo' = [todo EXCEPT ![g] = {}]
    /\ Forget(g)
    /\ UNCHANGED <<expVars, pattern, members, evidence, derived>>

(* A call of the store, the draft or the embedder fails: no step is undone. *)
GeneralizeFails(g) ==
    /\ at[g] = "list" \/ Generalizing(g)
    /\ Leave(g, "error")

GeneralizeStep(g) ==
    \/ Get(g) \/ CheckConflicts(g) \/ FindCovering(g) \/ LookUpFingerprint(g)
    \/ CreatePattern(g) \/ AddEvidence(g) \/ RecordDerivation(g)

-----------------------------------------------------------------------------
(* What the rest of the engine does to experiences.                        *)

SetUtility(e, u) ==
    /\ utility' = [utility EXCEPT ![e] = u]
    /\ UNCHANGED <<status, conflict>>

Deprecate(e) ==
    /\ Retrievable(e)
    /\ status' = [status EXCEPT ![e] = "DEPRECATED"]
    /\ UNCHANGED <<utility, conflict>>

RecordConflict(pair) ==
    /\ conflict' = conflict \cup {pair}
    /\ UNCHANGED <<status, utility>>

-----------------------------------------------------------------------------
(* What the patterns promise.                                              *)

Writing(p) == \E g \in Generalizer : at[g] \in {"evidence", "derive"} /\ cluster[g] = p

(* Unless its making was interrupted, a pattern rests on evidence of every *)
(* member and on nothing else once its maker has gone on                   *)
(* (pattern_service.go, the loop after Create).                            *)
EvidenceComplete ==
    \A p \in pattern :
        \/ Writing(p)
        \/ p \in suspect
        \/ /\ {e \in Exp : <<p, e>> \in evidence} = members[p]
           /\ {e \in Exp : <<p, e>> \in derived} = members[p]

(* Two patterns of one family never rest on a common experience ("Reuse an *)
(* existing pattern that already covers this cluster"), unless one of them *)
(* was made while another generalizer was at work, or was interrupted.     *)
PatternsDisjoint ==
    \A p, q \in pattern :
        \/ p = q
        \/ p \in suspect \/ q \in suspect
        \/ PatternFamily(p) # PatternFamily(q)
        \/ members[p] \cap members[q] = {}
=============================================================================
