------------------------- MODULE EvolutionJobsProofs -------------------------
(***************************************************************************)
(* What EvolutionJobs keeps for any experiences, families, operators and   *)
(* processes and any number of failed calls and crashes: types, that no    *)
(* mark of a family is forgotten unless two workers had the family at once,*)
(* and that a pattern rests on evidence of its members.                    *)
(***************************************************************************)
EXTENDS EvolutionJobs, FiniteSetTheorems, TLAPS

ExpTypes ==
    /\ status \in [Exp -> ExpStatus]
    /\ utility \in [Exp -> Nat]
    /\ conflict \subseteq Pair

PatternTypes ==
    /\ pattern \subseteq Cluster
    /\ members \in [Cluster -> Cluster]
    /\ evidence \subseteq Cluster \X Exp
    /\ derived \subseteq Cluster \X Exp
    /\ suspect \subseteq Cluster

LocalTypes ==
    /\ at \in [Generalizer -> Place]
    /\ todo \in [Generalizer -> SUBSET Cluster]
    /\ cluster \in [Generalizer -> Cluster]
    /\ unread \in [Generalizer -> Cluster]
    /\ exps \in [Generalizer -> Cluster]
    /\ utilSum \in [Generalizer -> Nat]
    /\ unwritten \in [Generalizer -> Cluster]
    /\ raced \subseteq Generalizer

JobTypes ==
    /\ dirtyAt \in [Family -> Time \cup {None}]
    /\ job \in [Family -> JobStatus]
    /\ jobAt \in [Family -> Time]
    /\ unmarked \subseteq Family

WorkerTypes ==
    /\ loop \in [Process -> LoopPlace]
    /\ boot \in [Process -> Time]
    /\ stale \in [Process -> SUBSET Family]
    /\ batch \in [Process -> SUBSET (Family \X Time)]
    /\ group \in [Process -> Family \cup {None}]

HistoryTypes ==
    /\ owed \subseteq Family
    /\ listed \subseteq Process
    /\ stranded \subseteq Family
    /\ shared \subseteq Family

LEMMA TypesInParts ==
    /\ PatternsTypeOK <=> ExpTypes /\ PatternTypes /\ LocalTypes
    /\ EvolutionTypeOK <=> PatternsTypeOK /\ JobTypes /\ WorkerTypes /\ HistoryTypes
BY DEF PatternsTypeOK, EvolutionTypeOK, ExpTypes, PatternTypes, LocalTypes, JobTypes,
       WorkerTypes, HistoryTypes

\* There is something to do wherever a generalizer is in its loops.
AtWork ==
    \A g \in Generalizer :
        /\ {} \notin todo[g]
        /\ at[g] = "get" => unread[g] # {}
        /\ at[g] \in {"conflicts", "covering", "fingerprint", "create"} => exps[g] # {}
        /\ at[g] \in {"evidence", "derive"} => unwritten[g] # {}

\* A worker that is at work on a family knows which.
AtGroup ==
    \A p \in Process :
        loop[p] \in {"redirty", "upsert", "insert", "reset", "claim", "clear", "work"} =>
            group[p] \in Family

TypeInv ==
    /\ ExpTypes /\ PatternTypes /\ LocalTypes /\ AtWork
    /\ JobTypes /\ WorkerTypes /\ HistoryTypes /\ AtGroup

-----------------------------------------------------------------------------
(* The steps of a generalizer.                                             *)

LEMMA Workers == Process \subseteq Generalizer /\ Operator \subseteq Generalizer
BY EvolutionAssumption DEF EvolutionAssumption

\* A cluster that is large enough is not empty.
LEMMA LargeIsNotEmpty ==
  ASSUME NEW C, Cardinality(C) >= MinExperiences
  PROVE  C # {}
BY PatternsAssumption, FS_EmptySet DEF PatternsAssumption

LEMMA ClustersAreClusters ==
  ASSUME NEW S \in SUBSET Exp
  PROVE  Clusters(S) \in SUBSET Cluster /\ {} \notin Clusters(S)
<1>1. \A C \in Clusters(S) : C \in SUBSET Exp /\ Cardinality(C) >= MinExperiences
  BY DEF Clusters, Component
<1> QED BY <1>1, LargeIsNotEmpty DEF Cluster

\* A step of g leaves the place and the clusters of the others alone.
Apart(g) ==
    \A h \in Generalizer \ {g} :
        at'[h] = at[h] /\ cluster'[h] = cluster[h] /\ unwritten'[h] = unwritten[h]

LEMMA Forgetting ==
  ASSUME LocalTypes, NEW g \in Generalizer, Forget(g)
  PROVE  /\ cluster' \in [Generalizer -> Cluster] /\ unread' \in [Generalizer -> Cluster]
         /\ exps' \in [Generalizer -> Cluster] /\ utilSum' \in [Generalizer -> Nat]
         /\ unwritten' \in [Generalizer -> Cluster] /\ raced' \subseteq Generalizer
         /\ \A h \in Generalizer \ {g} :
              /\ cluster'[h] = cluster[h] /\ unread'[h] = unread[h]
              /\ exps'[h] = exps[h] /\ unwritten'[h] = unwritten[h]
<1>1. {} \in Cluster
  BY DEF Cluster
<1>2. cluster' \in [Generalizer -> Cluster] /\ unread' \in [Generalizer -> Cluster]
  BY <1>1 DEF LocalTypes, Forget
<1>3. exps' \in [Generalizer -> Cluster] /\ unwritten' \in [Generalizer -> Cluster]
  BY <1>1 DEF LocalTypes, Forget
<1>4. utilSum' \in [Generalizer -> Nat] /\ raced' \subseteq Generalizer
  BY DEF LocalTypes, Forget
<1>5. \A h \in Generalizer \ {g} :
          /\ cluster'[h] = cluster[h] /\ unread'[h] = unread[h]
          /\ exps'[h] = exps[h] /\ unwritten'[h] = unwritten[h]
  BY DEF LocalTypes, Forget
<1> QED BY <1>2, <1>3, <1>4, <1>5

LEMMA TakingUp ==
  ASSUME LocalTypes, AtWork, NEW g \in Generalizer, NEW clusters \in SUBSET Cluster,
         {} \notin clusters, TakeUp(g, clusters)
  PROVE  /\ LocalTypes' /\ AtWork' /\ Apart(g)
         /\ at'[g] \in {"done", "get"}
<1>1. CASE clusters = {}
  <2>1. /\ at' = [at EXCEPT ![g] = "done"] /\ todo' = [todo EXCEPT ![g] = {}]
        /\ Forget(g)
    BY <1>1 DEF TakeUp, Go
  <2>2. at' \in [Generalizer -> Place] /\ todo' \in [Generalizer -> SUBSET Cluster]
        /\ at'[g] = "done" /\ todo'[g] = {}
        /\ \A h \in Generalizer \ {g} : at'[h] = at[h] /\ todo'[h] = todo[h]
    BY <2>1 DEF LocalTypes, Place
  <2>3. LocalTypes'
    BY <2>1, <2>2, Forgetting DEF LocalTypes
  <2>4. AtWork'
    BY <2>1, <2>2, Forgetting DEF AtWork
  <2> QED BY <2>1, <2>2, <2>3, <2>4, Forgetting DEF Apart
<1>2. CASE clusters # {}
  <2> DEFINE next == CHOOSE c \in clusters : TRUE
             others == {h \in Generalizer \ {g} : Generalizing(h)}
  <2>1. next \in Cluster /\ next # {}
    BY <1>2
  <2>2. /\ at' = [at EXCEPT ![g] = "get"]
        /\ todo' = [todo EXCEPT ![g] = clusters \ {next}]
        /\ cluster' = [cluster EXCEPT ![g] = next]
        /\ unread' = [unread EXCEPT ![g] = next]
        /\ exps' = [exps EXCEPT ![g] = {}]
        /\ utilSum' = [utilSum EXCEPT ![g] = 0]
        /\ unwritten' = [unwritten EXCEPT ![g] = {}]
        /\ raced' = IF others = {} THEN raced \ {g} ELSE raced \cup others \cup {g}
    BY <1>2 DEF TakeUp, Go
  <2>3. others \subseteq Generalizer
    OBVIOUS
  <2> HIDE DEF next, others
  <2>4. at' \in [Generalizer -> Place] /\ at'[g] = "get"
        /\ \A h \in Generalizer \ {g} : at'[h] = at[h]
    BY <2>2 DEF LocalTypes, Place
  <2>5. todo' \in [Generalizer -> SUBSET Cluster] /\ {} \notin todo'[g]
        /\ \A h \in Generalizer \ {g} : todo'[h] = todo[h]
    BY <2>2 DEF LocalTypes
  <2>6. /\ cluster' \in [Generalizer -> Cluster] /\ unread' \in [Generalizer -> Cluster]
        /\ unread'[g] # {}
        /\ \A h \in Generalizer \ {g} : cluster'[h] = cluster[h] /\ unread'[h] = unread[h]
    BY <2>1, <2>2 DEF LocalTypes
  <2>7. /\ exps' \in [Generalizer -> Cluster] /\ unwritten' \in [Generalizer -> Cluster]
        /\ \A h \in Generalizer \ {g} : exps'[h] = exps[h] /\ unwritten'[h] = unwritten[h]
    BY <2>2 DEF LocalTypes, Cluster
  <2>8. utilSum' \in [Generalizer -> Nat] /\ raced' \subseteq Generalizer
    BY <2>2, <2>3 DEF LocalTypes
  <2>9. LocalTypes'
    BY <2>4, <2>5, <2>6, <2>7, <2>8 DEF LocalTypes
  <2>10. AtWork'
    BY <2>4, <2>5, <2>6, <2>7 DEF AtWork
  <2> QED BY <2>4, <2>6, <2>7, <2>9, <2>10 DEF Apart
<1> QED BY <1>1, <1>2

LEMMA Skipping ==
  ASSUME LocalTypes, AtWork, NEW g \in Generalizer, SkipCluster(g)
  PROVE  /\ LocalTypes' /\ AtWork' /\ Apart(g)
         /\ at'[g] \in {"done", "get"}
<1>1. todo[g] \in SUBSET Cluster /\ {} \notin todo[g]
  BY DEF LocalTypes, AtWork
<1> QED BY <1>1, TakingUp DEF SkipCluster

LEMMA Leaving ==
  ASSUME ExpTypes, PatternTypes, LocalTypes, AtWork, NEW g \in Generalizer,
         NEW place \in {"out", "error"}, Leave(g, place)
  PROVE  /\ ExpTypes' /\ PatternTypes' /\ LocalTypes' /\ AtWork' /\ Apart(g)
         /\ at'[g] = place
<1>1. /\ at' = [at EXCEPT ![g] = place] /\ todo' = [todo EXCEPT ![g] = {}]
      /\ Forget(g)
  BY DEF Leave, Go
<1>2. at' \in [Generalizer -> Place] /\ todo' \in [Generalizer -> SUBSET Cluster]
      /\ at'[g] = place /\ todo'[g] = {}
      /\ \A h \in Generalizer \ {g} : at'[h] = at[h] /\ todo'[h] = todo[h]
  BY <1>1 DEF LocalTypes, Place
<1>3. LocalTypes'
  BY <1>1, <1>2, Forgetting DEF LocalTypes
<1>4. AtWork'
  BY <1>1, <1>2, Forgetting DEF AtWork
<1>5. ExpTypes' /\ PatternTypes'
  BY DEF Leave, Abandoned, ExpTypes, PatternTypes, LocalTypes, expVars
<1> QED BY <1>1, <1>2, <1>3, <1>4, <1>5, Forgetting DEF Apart

\* A generalizer keeps the types, and goes from no place of its loops back to the listing.
LEMMA Working ==
  ASSUME ExpTypes, PatternTypes, LocalTypes, AtWork, NEW g \in Generalizer, GeneralizeStep(g)
  PROVE  /\ ExpTypes' /\ PatternTypes' /\ LocalTypes' /\ AtWork' /\ Apart(g)
         /\ at[g] \notin {"list", "error", "out", "done"}
         /\ at'[g] \notin {"list", "error", "out"}
<1>1. ASSUME SkipCluster(g)
      PROVE  /\ LocalTypes' /\ AtWork' /\ Apart(g) /\ at'[g] \in {"done", "get"}
  BY <1>1, Skipping
<1>2. ASSUME NEW place \in {"covering", "fingerprint", "create", "derive"}, Go(g, place),
             UNCHANGED localVars, place = "derive" => unwritten[g] # {},
             place # "derive" => exps[g] # {}
      PROVE  LocalTypes' /\ AtWork' /\ Apart(g) /\ at'[g] = place
  <2>1. UNCHANGED <<todo, cluster, unread, exps, utilSum, unwritten, raced>>
    BY <1>2 DEF localVars
  <2>2. at' \in [Generalizer -> Place] /\ at'[g] = place
        /\ \A h \in Generalizer \ {g} : at'[h] = at[h]
    BY <1>2 DEF LocalTypes, Place, Go
  <2>3. LocalTypes'
    BY <2>1, <2>2 DEF LocalTypes
  <2>4. AtWork'
    BY <1>2, <2>1, <2>2 DEF AtWork
  <2> QED BY <2>1, <2>2, <2>3, <2>4 DEF Apart
<1>3. CASE Get(g)
  <2> DEFINE e == CHOOSE x \in unread[g] : TRUE
             now == unread[g] \ {e}
             read == IF Retrievable(e) THEN exps[g] \cup {e} ELSE exps[g]
             sum == IF Retrievable(e) THEN utilSum[g] + utility[e] ELSE utilSum[g]
  <2>1. at[g] = "get" /\ UNCHANGED <<expVars, patternVars>>
    BY <1>3 DEF Get
  <2>2. e \in unread[g] /\ e \in Exp
    BY <2>1 DEF AtWork, LocalTypes, Cluster
  <2>3. now \in Cluster /\ read \in Cluster /\ sum \in Nat
    BY <2>2 DEF LocalTypes, ExpTypes, Cluster
  <2>4. CASE SkipCluster(g)
    BY <1>1, <2>1, <2>4 DEF ExpTypes, PatternTypes, expVars, patternVars
  <2>5. CASE ~ SkipCluster(g)
    <3>1. /\ ~ (now = {} /\ ~ GatePasses(read, sum))
          /\ unread' = [unread EXCEPT ![g] = now]
          /\ exps' = [exps EXCEPT ![g] = read]
          /\ utilSum' = [utilSum EXCEPT ![g] = sum]
          /\ at' = [at EXCEPT ![g] = IF now = {} THEN "conflicts" ELSE "get"]
          /\ UNCHANGED <<todo, cluster, unwritten, raced>>
      BY <1>3, <2>5 DEF Get, Go
    <3>2. now = {} => read # {}
      BY <3>1, LargeIsNotEmpty DEF GatePasses
    <3> HIDE DEF e, now, read, sum
    <3>3. unread' \in [Generalizer -> Cluster] /\ unread'[g] = now
          /\ \A h \in Generalizer \ {g} : unread'[h] = unread[h]
      BY <2>3, <3>1 DEF LocalTypes
    <3>4. exps' \in [Generalizer -> Cluster] /\ exps'[g] = read
          /\ \A h \in Generalizer \ {g} : exps'[h] = exps[h]
      BY <2>3, <3>1 DEF LocalTypes
    <3>5. utilSum' \in [Generalizer -> Nat]
      BY <2>3, <3>1 DEF LocalTypes
    <3>6. /\ at' \in [Generalizer -> Place]
          /\ at'[g] = IF now = {} THEN "conflicts" ELSE "get"
          /\ \A h \in Generalizer \ {g} : at'[h] = at[h]
      BY <3>1 DEF LocalTypes, Place
    <3>7. LocalTypes'
      BY <3>1, <3>3, <3>4, <3>5, <3>6 DEF LocalTypes
    <3>8. AtWork'
      BY <3>1, <3>2, <3>3, <3>4, <3>6 DEF AtWork
    <3>9. Apart(g)
      BY <3>1, <3>6 DEF Apart
    <3>10. at'[g] \notin {"list", "error", "out"}
      BY <3>6
    <3> QED BY <2>1, <3>7, <3>8, <3>9, <3>10 DEF ExpTypes, PatternTypes, expVars, patternVars
  <2> QED BY <2>4, <2>5
<1>4. CASE CheckConflicts(g) \/ FindCovering(g) \/ LookUpFingerprint(g)
  <2>1. /\ at[g] \in {"conflicts", "covering", "fingerprint"} /\ UNCHANGED <<expVars, patternVars>>
        /\ \/ SkipCluster(g)
           \/ \E place \in {"covering", "fingerprint", "create"} :
                Go(g, place) /\ UNCHANGED localVars
    BY <1>4 DEF CheckConflicts, FindCovering, LookUpFingerprint
  <2>2. exps[g] # {}
    BY <2>1 DEF AtWork
  <2>3. /\ LocalTypes' /\ AtWork' /\ Apart(g)
        /\ at'[g] \in {"done", "get", "covering", "fingerprint", "create"}
    BY <1>1, <1>2, <2>1, <2>2
  <2> QED BY <2>1, <2>3 DEF ExpTypes, PatternTypes, expVars, patternVars
<1>5. CASE CreatePattern(g)
  <2>1. at[g] = "create" /\ UNCHANGED expVars /\ exps[g] # {}
    BY <1>5 DEF CreatePattern, AtWork
  <2>2. CASE SkipCluster(g) /\ UNCHANGED patternVars
    BY <1>1, <2>1, <2>2 DEF ExpTypes, PatternTypes, expVars, patternVars
  <2>3. CASE ~ (SkipCluster(g) /\ UNCHANGED patternVars)
    <3>1. /\ pattern' = pattern \cup {cluster[g]}
          /\ members' = [members EXCEPT ![cluster[g]] = exps[g]]
          /\ suspect' = IF g \in raced THEN suspect \cup {cluster[g]} ELSE suspect
          /\ unwritten' = [unwritten EXCEPT ![g] = exps[g]]
          /\ at' = [at EXCEPT ![g] = "evidence"]
          /\ UNCHANGED <<evidence, derived, todo, cluster, unread, exps, utilSum, raced>>
      BY <1>5, <2>3 DEF CreatePattern, Go
    <3>2. PatternTypes'
      BY <3>1 DEF PatternTypes, LocalTypes
    <3>3. /\ at' \in [Generalizer -> Place] /\ at'[g] = "evidence"
          /\ \A h \in Generalizer \ {g} : at'[h] = at[h]
      BY <3>1 DEF LocalTypes, Place
    <3>4. /\ unwritten' \in [Generalizer -> Cluster] /\ unwritten'[g] = exps[g]
          /\ \A h \in Generalizer \ {g} : unwritten'[h] = unwritten[h]
      BY <3>1 DEF LocalTypes
    <3>5. LocalTypes'
      BY <3>1, <3>3, <3>4 DEF LocalTypes
    <3>6. AtWork'
      BY <2>1, <3>1, <3>3, <3>4 DEF AtWork
    <3> QED BY <2>1, <3>1, <3>2, <3>3, <3>4, <3>5, <3>6 DEF ExpTypes, expVars, Apart
  <2> QED BY <2>2, <2>3
<1>6. ASSUME at[g] \in {"evidence", "derive"}
      PROVE  Member(g) \in unwritten[g] /\ Member(g) \in Exp /\ cluster[g] \in Cluster
  BY <1>6 DEF Member, AtWork, LocalTypes, Cluster
<1>7. CASE AddEvidence(g)
  <2>1. /\ at[g] = "evidence" /\ Go(g, "derive") /\ UNCHANGED localVars /\ UNCHANGED expVars
        /\ UNCHANGED <<pattern, members, derived, suspect>>
        /\ evidence' = evidence \cup {<<cluster[g], Member(g)>>}
    BY <1>7 DEF AddEvidence
  <2>2. PatternTypes'
    BY <1>6, <2>1 DEF PatternTypes
  <2>3. unwritten[g] # {}
    BY <2>1 DEF AtWork
  <2> QED BY <1>2, <2>1, <2>2, <2>3 DEF ExpTypes, expVars
<1>8. CASE RecordDerivation(g)
  <2>1. /\ at[g] = "derive" /\ UNCHANGED expVars
        /\ UNCHANGED <<pattern, members, evidence, suspect>>
        /\ derived' = derived \cup {<<cluster[g], Member(g)>>}
    BY <1>8 DEF RecordDerivation
  <2>2. PatternTypes' /\ ExpTypes'
    BY <1>6, <2>1 DEF PatternTypes, ExpTypes, expVars
  <2>3. CASE SkipCluster(g)
    BY <1>1, <2>1, <2>2, <2>3
  <2>4. CASE ~ SkipCluster(g)
    <3>1. /\ unwritten[g] # {Member(g)}
          /\ unwritten' = [unwritten EXCEPT ![g] = unwritten[g] \ {Member(g)}]
          /\ at' = [at EXCEPT ![g] = "evidence"]
          /\ UNCHANGED <<todo, cluster, unread, exps, utilSum, raced>>
      BY <1>8, <2>4 DEF RecordDerivation, Go
    <3>2. unwritten[g] \ {Member(g)} \in Cluster /\ unwritten[g] \ {Member(g)} # {}
      BY <1>6, <2>1, <3>1 DEF LocalTypes, Cluster
    <3>3. /\ at' \in [Generalizer -> Place] /\ at'[g] = "evidence"
          /\ \A h \in Generalizer \ {g} : at'[h] = at[h]
      BY <3>1 DEF LocalTypes, Place
    <3>4. /\ unwritten' \in [Generalizer -> Cluster] /\ unwritten'[g] # {}
          /\ \A h \in Generalizer \ {g} : unwritten'[h] = unwritten[h]
      BY <3>1, <3>2 DEF LocalTypes
    <3>5. LocalTypes'
      BY <3>1, <3>3, <3>4 DEF LocalTypes
    <3>6. AtWork'
      BY <3>1, <3>3, <3>4 DEF AtWork
    <3> QED BY <2>1, <2>2, <3>1, <3>3, <3>4, <3>5, <3>6 DEF Apart
  <2> QED BY <2>3, <2>4
<1> QED BY <1>3, <1>4, <1>5, <1>7, <1>8 DEF GeneralizeStep

-----------------------------------------------------------------------------
(* Types.                                                                  *)

LEMMA Kept ==
  ASSUME TypeInv
  PROVE  /\ UNCHANGED vars => ExpTypes' /\ PatternTypes' /\ LocalTypes' /\ AtWork'
         /\ UNCHANGED <<at, localVars>> => LocalTypes' /\ AtWork'
         /\ UNCHANGED patternVars => PatternTypes'
         /\ UNCHANGED expVars => ExpTypes'
         /\ UNCHANGED <<jobVars, unmarked>> => JobTypes'
         /\ UNCHANGED workerVars => WorkerTypes' /\ AtGroup'
         /\ UNCHANGED historyVars => HistoryTypes'
BY DEF TypeInv, ExpTypes, PatternTypes, LocalTypes, AtWork, JobTypes, WorkerTypes, HistoryTypes,
       AtGroup, vars, expVars, patternVars, localVars, jobVars, workerVars, historyVars

LEMMA BootIsTime == ASSUME WorkerTypes, NEW p \in Process PROVE boot[p] \in Time
BY DEF WorkerTypes

LEMMA WritingJob ==
  ASSUME TypeInv, NEW p \in Process, NEW f \in Family, NEW s \in JobStatus, WriteJob(p, f, s),
         UNCHANGED <<dirtyAt, unmarked>>
  PROVE  JobTypes'
BY BootIsTime DEF TypeInv, JobTypes, WriteJob, Now

LEMMA MarkingDirty ==
  ASSUME TypeInv, NEW p \in Process, NEW f \in Family, MarkDirty(p, f),
         UNCHANGED <<job, jobAt, stranded>>, unmarked' \subseteq Family
  PROVE  JobTypes' /\ HistoryTypes'
<1>1. dirtyAt' \in [Family -> Time \cup {None}]
  BY BootIsTime DEF TypeInv, JobTypes, MarkDirty, Now
<1>2. owed' \subseteq Family /\ listed' \subseteq Process /\ shared' \subseteq Family
  BY DEF TypeInv, HistoryTypes, MarkDirty, MarkOwed
<1> QED BY <1>1, <1>2 DEF TypeInv, JobTypes, HistoryTypes

\* A worker that goes on to the next family, or is idle, leaves the others where they are.
LEMMA NextFamily ==
  ASSUME TypeInv, NEW p \in Process, NEW rest \in SUBSET (Family \X Time), NextGroup(p, rest),
         UNCHANGED <<boot, stale>>
  PROVE  /\ WorkerTypes' /\ AtGroup'
         /\ \/ loop'[p] = "idle" /\ batch'[p] = {} /\ group'[p] = None
            \/ \E oldest \in rest :
                 /\ loop'[p] = "upsert" /\ batch'[p] = rest \ {oldest} /\ group'[p] = oldest[1]
<1>1. CASE rest = {}
  <2>1. /\ loop' = [loop EXCEPT ![p] = "idle"] /\ batch' = [batch EXCEPT ![p] = {}]
        /\ group' = [group EXCEPT ![p] = None]
    BY <1>1 DEF NextGroup, GoLoop
  <2>2. WorkerTypes'
    BY <2>1 DEF TypeInv, WorkerTypes, LoopPlace
  <2>3. AtGroup'
    BY <2>1 DEF TypeInv, WorkerTypes, AtGroup
  <2> QED BY <2>1, <2>2, <2>3 DEF TypeInv, WorkerTypes
<1>2. CASE rest # {}
  <2>1. PICK oldest \in rest :
            /\ loop' = [loop EXCEPT ![p] = "upsert"]
            /\ batch' = [batch EXCEPT ![p] = rest \ {oldest}]
            /\ group' = [group EXCEPT ![p] = oldest[1]]
    BY <1>2 DEF NextGroup, GoLoop
  <2>2. oldest[1] \in Family
    OBVIOUS
  <2>3. WorkerTypes'
    BY <2>1, <2>2 DEF TypeInv, WorkerTypes, LoopPlace
  <2>4. AtGroup'
    BY <2>1, <2>2 DEF TypeInv, WorkerTypes, AtGroup
  <2> QED BY <2>1, <2>3, <2>4 DEF TypeInv, WorkerTypes
<1> QED BY <1>1, <1>2

\* A worker that only changes its place, to one where it needs no other family.
LEMMA Going ==
  ASSUME TypeInv, NEW p \in Process, NEW place \in LoopPlace, GoLoop(p, place),
         UNCHANGED <<boot, batch, group>>, stale' \in [Process -> SUBSET Family],
         \/ place \in {"down", "idle", "recover", "sweep"}
         \/ group[p] \in Family
  PROVE  WorkerTypes' /\ AtGroup'
<1>1. WorkerTypes'
  BY DEF TypeInv, WorkerTypes, GoLoop
<1>2. AtGroup'
  BY DEF TypeInv, WorkerTypes, AtGroup, GoLoop
<1> QED BY <1>1, <1>2

LEMMA LoopTypes ==
  ASSUME TypeInv, NEW p \in Process, WorkerStep(p)
  PROVE  TypeInv'
<1> USE Kept
<1>0. /\ stale[p] \in SUBSET Family /\ batch[p] \in SUBSET (Family \X Time)
      /\ p \in Generalizer
      /\ loop[p] \in {"redirty", "upsert", "insert", "reset", "claim", "clear", "work"}
            => group[p] \in Family
  BY Workers DEF TypeInv, WorkerTypes, AtGroup
<1>1. CASE ListStale(p)
  <2>1. StaleJobs(p) \in SUBSET Family /\ UNCHANGED <<boot, batch, group>>
    BY <1>1 DEF ListStale, StaleJobs
  <2>2. stale' \in [Process -> SUBSET Family]
    BY <1>1, <2>1 DEF ListStale, TypeInv, WorkerTypes
  <2>3. \E place \in {"sweep", "recover"} : GoLoop(p, place)
    BY <1>1 DEF ListStale
  <2>4. WorkerTypes' /\ AtGroup'
    BY <2>1, <2>2, <2>3, Going DEF LoopPlace
  <2> QED BY <1>1, <2>4 DEF ListStale, TypeInv
<1>2. CASE FailStale(p)
  <2>1. PICK f \in stale[p] : WriteJob(p, f, "FAILED") /\ group' = [group EXCEPT ![p] = f]
    BY <1>2 DEF FailStale
  <2>2. f \in Family
    BY <1>0, <2>1
  <2>3. JobTypes'
    BY <1>2, <2>1, <2>2, WritingJob DEF FailStale, JobStatus
  <2>4. WorkerTypes'
    BY <1>2, <2>1, <2>2 DEF FailStale, GoLoop, TypeInv, WorkerTypes, LoopPlace
  <2>5. AtGroup'
    BY <1>2, <2>1, <2>2 DEF FailStale, GoLoop, TypeInv, WorkerTypes, AtGroup
  <2> QED BY <1>2, <2>3, <2>4, <2>5 DEF FailStale, TypeInv
<1>3. CASE RedirtyStale(p)
  <2>1. loop[p] = "redirty" /\ MarkDirty(p, group[p]) /\ UNCHANGED vars
    BY <1>3 DEF RedirtyStale
  <2>2. JobTypes' /\ HistoryTypes'
    BY <1>0, <1>3, <2>1, MarkingDirty DEF RedirtyStale, TypeInv, JobTypes
  <2>3. PICK place \in {"sweep", "recover"} : GoLoop(p, place)
    BY <1>3 DEF RedirtyStale
  <2>4. WorkerTypes'
    BY <1>3, <2>3 DEF RedirtyStale, GoLoop, TypeInv, WorkerTypes, LoopPlace
  <2>5. AtGroup'
    BY <1>3, <2>3 DEF RedirtyStale, GoLoop, TypeInv, WorkerTypes, AtGroup
  <2> QED BY <2>1, <2>2, <2>4, <2>5 DEF TypeInv
<1>4. CASE ListDirty(p)
  <2>1. PICK S \in Batches : NextGroup(p, {<<f, dirtyAt[f]>> : f \in S})
    BY <1>4 DEF ListDirty
  <2>2. \A f \in S : f \in Family /\ dirtyAt[f] \in Time
    BY DEF Batches, Dirty, TypeInv, JobTypes
  <2>3. {<<f, dirtyAt[f]>> : f \in S} \in SUBSET (Family \X Time)
    BY <2>2
  <2>4. WorkerTypes' /\ AtGroup'
    BY <1>4, <2>1, <2>3, NextFamily DEF ListDirty
  <2>5. HistoryTypes'
    BY <1>4, <2>2 DEF ListDirty, TypeInv, HistoryTypes, Batches, Dirty
  <2> QED BY <1>4, <2>4, <2>5 DEF ListDirty, TypeInv
<1>5. CASE ReadJob(p)
  <2>1. loop[p] = "upsert"
        /\ \/ NextGroup(p, batch[p])
           \/ /\ \E place \in {"insert", "claim", "reset"} : GoLoop(p, place)
              /\ UNCHANGED <<batch, group>>
    BY <1>5 DEF ReadJob
  <2>2. WorkerTypes' /\ AtGroup'
    BY <1>0, <1>5, <2>1, NextFamily, Going DEF ReadJob, LoopPlace, TypeInv, WorkerTypes
  <2> QED BY <1>5, <2>2 DEF ReadJob, TypeInv
<1>6. CASE InsertJob(p)
  <2>1. loop[p] = "insert" /\ UNCHANGED <<vars, dirtyAt, unmarked, boot, stale, historyVars>>
    BY <1>6 DEF InsertJob
  <2>2. CASE WriteJob(p, group[p], "PENDING") /\ GoLoop(p, "claim") /\ UNCHANGED <<batch, group>>
    <3>1. JobTypes'
      BY <1>0, <2>1, <2>2, WritingJob DEF JobStatus
    <3>2. WorkerTypes' /\ AtGroup'
      BY <1>0, <2>1, <2>2, Going DEF LoopPlace, TypeInv, WorkerTypes
    <3> QED BY <2>1, <3>1, <3>2 DEF TypeInv
  <2>3. CASE NextGroup(p, {}) /\ UNCHANGED <<job, jobAt>>
    <3>1. WorkerTypes' /\ AtGroup'
      BY <2>1, <2>3, NextFamily
    <3>2. JobTypes'
      BY <2>1, <2>3 DEF TypeInv, JobTypes
    <3> QED BY <2>1, <3>1, <3>2 DEF TypeInv
  <2> QED BY <1>6, <2>2, <2>3 DEF InsertJob
<1>7. CASE ResetJob(p) \/ MarkProcessing(p)
  <2>1. /\ loop[p] \in {"reset", "claim"} /\ UNCHANGED <<dirtyAt, unmarked>>
        /\ UNCHANGED <<vars, boot, stale, batch, group, owed, listed, shared>>
        /\ WriteJob(p, group[p], "PENDING") \/ WriteJob(p, group[p], "PROCESSING")
        /\ GoLoop(p, "claim") \/ GoLoop(p, "clear")
        /\ stranded' \subseteq Family
    BY <1>7 DEF ResetJob, MarkProcessing, historyVars, TypeInv, HistoryTypes
  <2>2. JobTypes'
    BY <1>0, <2>1, WritingJob DEF JobStatus
  <2>3. WorkerTypes' /\ AtGroup'
    BY <1>0, <2>1, Going DEF LoopPlace, TypeInv, WorkerTypes
  <2>4. HistoryTypes'
    BY <2>1 DEF TypeInv, HistoryTypes
  <2> QED BY <2>1, <2>2, <2>3, <2>4 DEF TypeInv
<1>8. CASE ClearDirty(p)
  <2>1. /\ loop[p] = "clear" /\ GoLoop(p, "work") /\ at' = [at EXCEPT ![p] = "list"]
        /\ UNCHANGED <<expVars, patternVars, localVars, job, jobAt, unmarked, boot, stale, batch,
                       group, historyVars>>
        /\ dirtyAt' = [dirtyAt EXCEPT ![group[p]] = None] \/ UNCHANGED dirtyAt
    BY <1>8 DEF ClearDirty, WriteOrFault, Go
  <2>2. JobTypes'
    BY <2>1 DEF TypeInv, JobTypes
  <2>3. WorkerTypes' /\ AtGroup'
    BY <1>0, <2>1, Going DEF LoopPlace, TypeInv, WorkerTypes
  <2>4. LocalTypes'
    BY <2>1 DEF TypeInv, LocalTypes, Place, localVars
  <2>5. AtWork'
    BY <1>0, <2>1 DEF TypeInv, LocalTypes, AtWork, localVars
  <2> QED BY <2>1, <2>2, <2>3, <2>4, <2>5 DEF TypeInv
<1>9. CASE Scan(p)
  <2>1. /\ UNCHANGED <<jobVars, unmarked>> /\ UNCHANGED workerVars
        /\ UNCHANGED <<owed, stranded, shared>> /\ listed' \subseteq Process
    BY <1>9 DEF Scan, TypeInv, HistoryTypes
  <2>2. HistoryTypes'
    BY <2>1 DEF TypeInv, HistoryTypes
  <2>3. CASE GeneralizeStep(p)
    <3>1. ExpTypes' /\ PatternTypes' /\ LocalTypes' /\ AtWork'
      BY <1>0, <2>3, Working DEF TypeInv
    <3> QED BY <2>1, <2>2, <3>1 DEF TypeInv
  <2>4. CASE List(p, group[p])
    <3>1. Candidates(group[p]) \in SUBSET Exp
      BY DEF Candidates
    <3>2. LocalTypes' /\ AtWork'
      BY <1>0, <2>4, <3>1, ClustersAreClusters, TakingUp DEF List, TypeInv
    <3>3. UNCHANGED expVars /\ UNCHANGED patternVars
      BY <2>4 DEF List
    <3> QED BY <2>1, <2>2, <3>2, <3>3 DEF TypeInv
  <2> QED BY <1>9, <2>3, <2>4 DEF Scan
<1>10. ASSUME NEW result, NEW newStatus \in JobStatus, NEW onFault \in SUBSET (Family \X Time),
              Settle(p, result, newStatus, onFault)
       PROVE  TypeInv'
  <2>1. ExpTypes' /\ PatternTypes' /\ LocalTypes' /\ AtWork'
    BY <1>0, <1>10, Leaving DEF Settle, TypeInv
  <2>2. loop[p] = "work" /\ UNCHANGED <<dirtyAt, unmarked, boot, stale>>
        /\ listed' \subseteq Process /\ shared' \subseteq Family
    BY <1>10 DEF Settle, TypeInv, HistoryTypes
  <2>3. CASE UNCHANGED <<job, jobAt, owed>>
    <3>1. NextGroup(p, onFault) \/ NextGroup(p, batch[p])
      BY <1>10 DEF Settle
    <3>2. stranded' \subseteq Family
      BY <1>0, <1>10, <2>2 DEF Settle, TypeInv, HistoryTypes
    <3>3. WorkerTypes' /\ AtGroup'
      BY <1>0, <1>10, <2>2, <3>1, NextFamily
    <3> QED BY <2>1, <2>2, <2>3, <3>2, <3>3 DEF TypeInv, JobTypes, HistoryTypes
  <2>4. CASE ~ UNCHANGED <<job, jobAt, owed>>
    <3>1. /\ WriteJob(p, group[p], newStatus) /\ NextGroup(p, batch[p]) /\ UNCHANGED stranded
          /\ owed' = owed \/ owed' = owed \ {group[p]}
      BY <1>10, <2>4 DEF Settle
    <3>2. WorkerTypes' /\ AtGroup'
      BY <1>0, <2>2, <3>1, NextFamily
    <3>3. JobTypes'
      BY <1>0, <2>2, <3>1, WritingJob
    <3>4. HistoryTypes'
      BY <2>2, <3>1 DEF TypeInv, HistoryTypes
    <3> QED BY <2>1, <3>2, <3>3, <3>4 DEF TypeInv
  <2> QED BY <2>3, <2>4
<1>11. CASE MarkApplied(p) \/ MarkFailed(p)
  BY <1>0, <1>10, <1>11 DEF MarkApplied, MarkFailed, JobStatus
<1> QED BY <1>1, <1>2, <1>3, <1>4, <1>5, <1>6, <1>7, <1>8, <1>9, <1>11 DEF WorkerStep

LEMMA TypeInvInit == EvolutionInit => TypeInv
<1> SUFFICES ASSUME EvolutionInit PROVE TypeInv
  OBVIOUS
<1> USE DEF EvolutionInit, PatternsInit
<1>1. ExpTypes
  BY PatternsAssumption DEF PatternsAssumption, ExpTypes, ExpStatus
<1>2. PatternTypes
  BY DEF PatternTypes, Cluster
<1>3. LocalTypes
  BY DEF LocalTypes, Place, Cluster
<1>4. JobTypes
  BY EvolutionAssumption DEF EvolutionAssumption, JobTypes, Time, JobStatus
<1>5. WorkerTypes
  BY EvolutionAssumption DEF EvolutionAssumption, WorkerTypes, Time, LoopPlace
<1>6. HistoryTypes
  BY DEF HistoryTypes
<1>7. AtWork /\ AtGroup
  BY DEF AtWork, AtGroup
<1> QED BY <1>1, <1>2, <1>3, <1>4, <1>5, <1>6, <1>7 DEF TypeInv

\* The steps of processes and of requests.
LEMMA StoreFailsTypes ==
  ASSUME TypeInv, NEW p \in Process, StoreFails(p)
  PROVE  TypeInv'
<1> USE Kept
<1>0. p \in Generalizer /\ {} \in SUBSET (Family \X Time)
  BY Workers
<1>1. UNCHANGED <<jobVars, unmarked>> /\ UNCHANGED historyVars /\ UNCHANGED boot
  BY DEF StoreFails
<1>2. CASE loop[p] \in {"recover", "redirty"}
  <2>1. /\ loop' = [loop EXCEPT ![p] = "sweep"] /\ stale' = [stale EXCEPT ![p] = {}]
        /\ group' = [group EXCEPT ![p] = None] /\ UNCHANGED <<vars, batch>>
    BY <1>2 DEF StoreFails, GoLoop
  <2>2. WorkerTypes'
    BY <1>1, <2>1 DEF TypeInv, WorkerTypes, LoopPlace
  <2>3. AtGroup'
    BY <2>1 DEF TypeInv, WorkerTypes, AtGroup
  <2> QED BY <1>1, <2>1, <2>2, <2>3 DEF TypeInv
<1>3. CASE loop[p] \in {"upsert", "insert", "reset", "claim"}
  <2>1. NextGroup(p, {}) /\ UNCHANGED <<vars, stale>>
    BY <1>3 DEF StoreFails
  <2>2. WorkerTypes' /\ AtGroup'
    BY <1>0, <1>1, <2>1, NextFamily
  <2> QED BY <1>1, <2>1, <2>2 DEF TypeInv
<1>4. CASE loop[p] = "work"
  <2>1. Leave(p, "error") /\ UNCHANGED workerVars
    BY <1>4 DEF StoreFails, GeneralizeFails, workerVars
  <2>2. ExpTypes' /\ PatternTypes' /\ LocalTypes' /\ AtWork'
    BY <1>0, <2>1, Leaving DEF TypeInv
  <2> QED BY <1>1, <2>1, <2>2 DEF TypeInv
<1> QED BY <1>2, <1>3, <1>4 DEF StoreFails

LEMMA ProcessTypes ==
  ASSUME TypeInv, NEW p \in Process, Crash(p) \/ Restart(p)
  PROVE  TypeInv'
<1> USE Kept
<1>1. CASE Crash(p)
  <2>1. /\ loop' = [loop EXCEPT ![p] = "down"] /\ stale' = [stale EXCEPT ![p] = {}]
        /\ batch' = [batch EXCEPT ![p] = {}] /\ group' = [group EXCEPT ![p] = None]
        /\ UNCHANGED <<jobVars, unmarked>> /\ UNCHANGED <<boot, owed, shared>>
        /\ stranded' = {} /\ listed' = listed \ {p} /\ Leave(p, "out")
    BY <1>1 DEF Crash, GoLoop
  <2>2. ExpTypes' /\ PatternTypes' /\ LocalTypes' /\ AtWork'
    BY <2>1, Workers, Leaving DEF TypeInv
  <2>3. WorkerTypes'
    BY <2>1 DEF TypeInv, WorkerTypes, LoopPlace
  <2>4. AtGroup'
    BY <2>1 DEF TypeInv, WorkerTypes, AtGroup
  <2>5. HistoryTypes'
    BY <2>1 DEF TypeInv, HistoryTypes
  <2> QED BY <2>1, <2>2, <2>3, <2>4, <2>5 DEF TypeInv
<1>2. CASE Restart(p)
  <2>1. PICK t \in boot[p] + BootGap..MaxTime : boot' = [boot EXCEPT ![p] = t]
    BY <1>2 DEF Restart
  <2>2. t \in Time
    BY EvolutionAssumption, BootIsTime DEF EvolutionAssumption, Time, TypeInv
  <2>3. loop' = [loop EXCEPT ![p] = "idle"] /\ UNCHANGED <<stale, batch, group>>
        /\ UNCHANGED vars /\ UNCHANGED <<jobVars, unmarked>> /\ UNCHANGED historyVars
    BY <1>2 DEF Restart, GoLoop
  <2>4. WorkerTypes'
    BY <2>1, <2>2, <2>3 DEF TypeInv, WorkerTypes, LoopPlace
  <2>5. AtGroup'
    BY <2>3 DEF TypeInv, WorkerTypes, AtGroup
  <2> QED BY <2>3, <2>4, <2>5 DEF TypeInv
<1> QED BY <1>1, <1>2

LEMMA OperatorTypes ==
  ASSUME TypeInv, NEW o \in Operator, Request(o) \/ RequestStep(o)
  PROVE  /\ TypeInv' /\ Apart(o)
         /\ UNCHANGED <<jobVars, unmarked>> /\ UNCHANGED workerVars /\ UNCHANGED historyVars
         /\ Request(o) => at'[o] \in {"done", "get"}
<1> USE Kept
<1>1. UNCHANGED <<jobVars, unmarked>> /\ UNCHANGED workerVars /\ UNCHANGED historyVars
  BY DEF Request, RequestStep
<1>2. CASE Request(o)
  <2>1. PICK clusters \in SUBSET Cluster : {} \notin clusters /\ TakeUp(o, clusters)
    <3>1. CASE \E C \in ManualCluster : TakeUp(o, {C})
      <4>1. PICK C \in ManualCluster : TakeUp(o, {C})
        BY <3>1
      <4>2. C \in Cluster /\ C # {}
        BY EvolutionAssumption, LargeIsNotEmpty DEF EvolutionAssumption
      <4> QED BY <4>1, <4>2
    <3>2. CASE TakeUp(o, Clusters(UNION {Candidates(f) : f \in Family}))
      <4>1. UNION {Candidates(f) : f \in Family} \in SUBSET Exp
        BY DEF Candidates
      <4> QED BY <3>2, <4>1, ClustersAreClusters
    <3> QED BY <1>2, <3>1, <3>2 DEF Request
  <2>2. LocalTypes' /\ AtWork' /\ Apart(o) /\ at'[o] \in {"done", "get"}
    BY <2>1, Workers, TakingUp DEF TypeInv
  <2>3. UNCHANGED expVars /\ UNCHANGED patternVars
    BY <1>2 DEF Request
  <2> QED BY <1>1, <2>2, <2>3 DEF TypeInv
<1>3. CASE RequestStep(o)
  <2>1. GeneralizeStep(o) \/ Leave(o, "error") \/ Leave(o, "out")
    BY <1>3 DEF RequestStep, GeneralizeFails
  <2>2. ExpTypes' /\ PatternTypes' /\ LocalTypes' /\ AtWork' /\ Apart(o)
    BY <2>1, Workers, Working, Leaving DEF TypeInv
  <2>3. at[o] # "out" \/ ~ Request(o)
    BY <1>3 DEF RequestStep, GeneralizeStep, Get, CheckConflicts, FindCovering,
                LookUpFingerprint, CreatePattern, AddEvidence, RecordDerivation,
                GeneralizeFails, Generalizing
  <2> QED BY <1>1, <1>2, <2>2, <2>3 DEF TypeInv, Request
<1> QED BY <1>2, <1>3

LEMMA ChangeTypes ==
  ASSUME TypeInv,
         \/ \E e \in Rated, u \in RaisedTo : Feedback(e, u)
         \/ ExperienceChanges
  PROVE  /\ TypeInv'
         /\ UNCHANGED patternVars /\ UNCHANGED <<at, localVars>>
         /\ UNCHANGED jobVars /\ UNCHANGED workerVars /\ UNCHANGED historyVars
<1> USE Kept
<1>1. /\ UNCHANGED patternVars /\ UNCHANGED <<at, localVars>>
      /\ UNCHANGED jobVars /\ UNCHANGED workerVars /\ UNCHANGED historyVars
  BY DEF Feedback, ExperienceChanges
<1>2. CASE \E e \in Rated, u \in RaisedTo : Feedback(e, u)
  <2>1. PICK e \in Rated, u \in RaisedTo : Feedback(e, u)
    BY <1>2
  <2>2. e \in Exp /\ u \in Nat /\ FamilyOf[e] \in Family
    BY EvolutionAssumption, PatternsAssumption DEF EvolutionAssumption, PatternsAssumption
  <2>3. ExpTypes'
    BY <2>1, <2>2 DEF Feedback, SetUtility, TypeInv, ExpTypes
  <2>4. unmarked' \subseteq Family
    BY <2>1, <2>2 DEF Feedback, TypeInv, JobTypes
  <2>5. JobTypes'
    BY <1>1, <2>4 DEF jobVars, TypeInv, JobTypes
  <2> QED BY <1>1, <2>3, <2>5 DEF TypeInv
<1>3. CASE ExperienceChanges
  <2>1. UNCHANGED <<jobVars, unmarked>>
    BY <1>3 DEF ExperienceChanges
  <2>2. \/ \E e \in Deprecable : Deprecate(e)
        \/ \E pair \in Conflicting : RecordConflict(pair)
    BY <1>3 DEF ExperienceChanges
  <2>3. Deprecable \subseteq Exp /\ Conflicting \subseteq Pair
    BY EvolutionAssumption DEF EvolutionAssumption
  <2>4. ExpTypes'
    <3>1. CASE \E e \in Deprecable : Deprecate(e)
      BY <2>3, <3>1 DEF Deprecate, TypeInv, ExpTypes, ExpStatus
    <3>2. CASE \E pair \in Conflicting : RecordConflict(pair)
      BY <2>3, <3>2 DEF RecordConflict, TypeInv, ExpTypes
    <3> QED BY <2>2, <3>1, <3>2
  <2> QED BY <1>1, <2>1, <2>4 DEF TypeInv
<1> QED BY <1>2, <1>3

LEMMA FeedbackMarksTypes ==
  ASSUME TypeInv, NEW f \in Family, FeedbackMarks(f)
  PROVE  TypeInv'
<1> USE Kept
<1>1. PICK p \in Process :
          \/ MarkDirty(p, f)
          \/ UNCHANGED <<dirtyAt, owed, listed, shared>>
  BY DEF FeedbackMarks, WriteOrFault
<1>2. UNCHANGED vars /\ UNCHANGED workerVars /\ UNCHANGED <<job, jobAt, stranded>>
      /\ unmarked' \subseteq Family
  BY DEF FeedbackMarks, TypeInv, JobTypes
<1>3. JobTypes' /\ HistoryTypes'
  <2>1. CASE MarkDirty(p, f)
    BY <1>2, <2>1, MarkingDirty
  <2>2. CASE UNCHANGED <<dirtyAt, owed, listed, shared>>
    BY <1>2, <2>2 DEF TypeInv, JobTypes, HistoryTypes
  <2> QED BY <1>1, <2>1, <2>2
<1> QED BY <1>2, <1>3 DEF TypeInv

LEMMA TypeInvStep ==
  ASSUME TypeInv, [EvolutionNext]_allVars
  PROVE  TypeInv'
<1>1. CASE UNCHANGED allVars
  BY <1>1, Kept DEF allVars, TypeInv
<1> QED BY <1>1, LoopTypes, StoreFailsTypes, ProcessTypes, OperatorTypes, ChangeTypes,
           FeedbackMarksTypes DEF EvolutionNext

LEMMA TypeInvAlways == EvolutionSpec => []TypeInv
<1>1. TypeInv /\ [EvolutionNext]_allVars => TypeInv'
  BY TypeInvStep
<1> QED BY <1>1, TypeInvInit, PTL DEF EvolutionSpec

\* Every job, mark, pattern and worker is one the code can have, whatever fails, races or crashes.
THEOREM EvolutionTypes == EvolutionSpec => []EvolutionTypeOK
<1>1. TypeInv => EvolutionTypeOK
  BY TypesInParts DEF TypeInv
<1> QED BY <1>1, TypeInvAlways, PTL

-----------------------------------------------------------------------------
(* The marks of the families.                                              *)

\* The families whose mark is there to be seen, and those that are excused.
Known == Dirty \cup shared

\* A worker clears the mark of a family only when its job says so, and knows of the families of its
\* batch, all of them dirty and none of them the one at hand; a scan that was not begun since the
\* last mark leaves it.  Whatever it knows holds unless another worker has the family too.
Grouped(p) ==
    /\ loop[p] \in {"upsert", "insert", "reset", "claim", "clear"} => group[p] \in Known
    /\ loop[p] = "clear" => group[p] \in shared \/ job[group[p]] \in {"PROCESSING", "FAILED"}

Batched(p) ==
    /\ \A x \in batch[p] : x[1] \in Known /\ x[1] # group[p]
    /\ \A x, y \in batch[p] : x[1] = y[1] => x = y
    /\ loop[p] \in {"down", "idle", "recover", "redirty", "sweep"} => batch[p] = {}

Scanned(p) ==
    loop[p] = "work" /\ at[p] \notin {"list", "error"} => p \in listed \/ group[p] \in Known

WorkerMarks(p) == Grouped(p) /\ Batched(p) /\ Scanned(p)

\* A family that is not shared is with one worker at most.
OneHolder ==
    \A f \in Family \ shared, p, q \in Process : Holds(p, f) /\ Holds(q, f) => p = q

MarkInv == NoMarkForgotten /\ OneHolder /\ \A p \in Process : WorkerMarks(p)

\* A step of a worker leaves the others where they are.
Aside(p) ==
    \A q \in Process \ {p} :
        loop'[q] = loop[q] /\ group'[q] = group[q] /\ batch'[q] = batch[q] /\ at'[q] = at[q]

LEMMA StepsAside ==
  ASSUME TypeInv, NEW p \in Process, WorkerStep(p) \/ StoreFails(p) \/ Crash(p) \/ Restart(p)
  PROVE  Aside(p)
<1> DEFINE LoopApart == \A q \in Process \ {p} :
               loop'[q] = loop[q] /\ group'[q] = group[q] /\ batch'[q] = batch[q]
<1>0. p \in Generalizer /\ \A q \in Process : q \in Generalizer
  BY Workers
<1>1. LoopApart
  <2>1. /\ loop \in [Process -> LoopPlace] /\ batch \in [Process -> SUBSET (Family \X Time)]
        /\ group \in [Process -> Family \cup {None}]
    BY DEF TypeInv, WorkerTypes
  <2>2. \A place : GoLoop(p, place) => \A q \in Process \ {p} : loop'[q] = loop[q]
    BY <2>1 DEF GoLoop
  <2>3. \A rest : NextGroup(p, rest) => LoopApart
    BY <2>1 DEF NextGroup, GoLoop
  <2> HIDE DEF LoopApart
  <2>4. CASE ListStale(p) \/ RedirtyStale(p) \/ ResetJob(p) \/ MarkProcessing(p) \/ ClearDirty(p)
    BY <2>1, <2>2, <2>4 DEF ListStale, RedirtyStale, ResetJob, MarkProcessing, ClearDirty, LoopApart
  <2>5. CASE FailStale(p) \/ Crash(p) \/ Restart(p)
    BY <2>1, <2>2, <2>5 DEF FailStale, Crash, Restart, LoopApart
  <2>6. CASE ListDirty(p) \/ MarkApplied(p) \/ MarkFailed(p)
    BY <2>3, <2>6 DEF ListDirty, MarkApplied, MarkFailed, Settle
  <2>7. CASE ReadJob(p) \/ InsertJob(p)
    BY <2>2, <2>3, <2>7 DEF ReadJob, InsertJob, LoopApart
  <2>8. CASE Scan(p)
    BY <2>8 DEF Scan, workerVars, LoopApart
  <2>9. CASE StoreFails(p)
    BY <2>1, <2>2, <2>3, <2>9 DEF StoreFails, LoopApart
  <2> QED BY <2>4, <2>5, <2>6, <2>7, <2>8, <2>9 DEF WorkerStep
<1>2. \A q \in Process \ {p} : at'[q] = at[q]
  <2>1. ASSUME Apart(p) \/ at' = at
        PROVE  \A q \in Process \ {p} : at'[q] = at[q]
    BY <1>0, <2>1 DEF Apart
  <2>2. \A place \in {"out", "error"} : Leave(p, place) => Apart(p)
    BY <1>0, Leaving DEF TypeInv
  <2>3. CASE \/ ListStale(p) \/ FailStale(p) \/ RedirtyStale(p) \/ ListDirty(p) \/ ReadJob(p)
             \/ InsertJob(p) \/ ResetJob(p) \/ MarkProcessing(p) \/ Restart(p)
    <3>1. at' = at
      BY <2>3 DEF ListStale, FailStale, RedirtyStale, ListDirty, ReadJob, InsertJob, ResetJob,
                  MarkProcessing, Restart, vars
    <3> QED BY <2>1, <3>1
  <2>4. CASE ClearDirty(p)
    BY <1>0, <2>4 DEF ClearDirty, Go, TypeInv, LocalTypes
  <2>5. CASE Scan(p)
    <3>1. CASE GeneralizeStep(p)
      BY <1>0, <2>1, <3>1, Working DEF TypeInv
    <3>2. CASE List(p, group[p])
      <4>1. Candidates(group[p]) \in SUBSET Exp
        BY DEF Candidates
      <4> QED BY <1>0, <2>1, <3>2, <4>1, ClustersAreClusters, TakingUp DEF List, TypeInv
    <3> QED BY <2>5, <3>1, <3>2 DEF Scan
  <2>6. CASE MarkApplied(p) \/ MarkFailed(p) \/ Crash(p)
    BY <2>1, <2>2, <2>6 DEF MarkApplied, MarkFailed, Settle, Crash
  <2>7. CASE StoreFails(p)
    <3>1. Leave(p, "error") \/ at' = at
      BY <2>7 DEF StoreFails, GeneralizeFails, vars
    <3> QED BY <2>1, <2>2, <3>1
  <2> QED BY <2>3, <2>4, <2>5, <2>6, <2>7 DEF WorkerStep
<1> QED BY <1>1, <1>2 DEF Aside

LEMMA Marked ==
  ASSUME TypeInv, NEW p \in Process, NEW f \in Family, MarkDirty(p, f)
  PROVE  Dirty' = Dirty \cup {f}
<1>1. boot[p] # None
  BY EvolutionAssumption, BootIsTime DEF EvolutionAssumption, Time, TypeInv
<1>2. dirtyAt' = [dirtyAt EXCEPT ![f] = boot[p]]
  BY DEF MarkDirty, Now
<1> QED BY <1>1, <1>2 DEF TypeInv, JobTypes, Dirty

\* A worker that stays where it is, and whose families are as they were or are seen, knows what it
\* knew.
LEMMA StillKnows ==
  ASSUME TypeInv, NEW q \in Process, WorkerMarks(q),
         loop'[q] = loop[q], group'[q] = group[q], batch'[q] = batch[q], at'[q] = at[q],
         \A f \in Family : Holds(q, f) =>
            /\ f \in Known => f \in Known'
            /\ f \in shared => f \in shared'
            /\ f \in shared' \/ job'[f] = job[f] \/ job'[f] = "FAILED",
         q \in listed => q \in listed' \/ group[q] \in Known'
  PROVE  WorkerMarks(q)'
<1>1. InSweep(q) => group[q] \in Family /\ Holds(q, group[q])
  BY DEF InSweep, Holds, TypeInv, AtGroup
<1>2. \A x \in batch[q] : x[1] \in Family /\ Holds(q, x[1])
  BY DEF Holds, TypeInv, WorkerTypes
<1>3. Grouped(q)'
  BY <1>1 DEF WorkerMarks, Grouped, InSweep
<1>4. Batched(q)'
  BY <1>2 DEF WorkerMarks, Batched
<1>5. Scanned(q)'
  BY <1>1 DEF WorkerMarks, Scanned, InSweep
<1> QED BY <1>3, <1>4, <1>5 DEF WorkerMarks

\* A step of a worker that clears the marks, and writes the jobs, of its own families only.
LEMMA OwnStep ==
  ASSUME TypeInv, MarkInv, NEW p \in Process, Aside(p), UNCHANGED shared,
         \A f \in Family : Holds(p, f)' => Holds(p, f),
         \A q \in listed : q = p \/ q \in listed',
         \A f \in Family : ~ Holds(p, f) =>
            /\ f \in Dirty => f \in Dirty'
            /\ job'[f] = job[f] \/ job'[f] = "FAILED",
         WorkerMarks(p)', NoMarkForgotten'
  PROVE  MarkInv'
<1>1. \A q \in Process \ {p}, f \in Family : Holds(q, f)' <=> Holds(q, f)
  BY DEF Aside, Holds, InSweep
<1>2. OneHolder'
  BY <1>1 DEF MarkInv, OneHolder
<1>3. ASSUME NEW q \in Process \ {p}
      PROVE  WorkerMarks(q)'
  <2>1. \A f \in Family : Holds(q, f) =>
            /\ f \in Known => f \in Known'
            /\ f \in shared' \/ job'[f] = job[f] \/ job'[f] = "FAILED"
    BY DEF MarkInv, OneHolder, Known
  <2>2. WorkerMarks(q)
    BY DEF MarkInv
  <2> QED BY <2>1, <2>2, StillKnows DEF Aside
<1> QED BY <1>2, <1>3 DEF MarkInv

\* A mark is seen by every worker that stays where it is.
LEMMA MarkingKeeps ==
  ASSUME TypeInv, MarkInv, NEW p \in Process, NEW f \in Family, MarkDirty(p, f), UNCHANGED job,
         \A q \in Process, g \in Family : Holds(q, g)' => Holds(q, g)
  PROVE  /\ NoMarkForgotten' /\ OneHolder'
         /\ \A q \in Process :
              loop'[q] = loop[q] /\ group'[q] = group[q] /\ batch'[q] = batch[q] /\ at'[q] = at[q]
                => WorkerMarks(q)'
<1>1. Dirty' = Dirty \cup {f}
  BY Marked
<1>2. /\ owed' = owed \cup {f} /\ listed' = {q \in listed : group[q] # f}
      /\ shared' \subseteq shared /\ shared \ {f} \subseteq shared'
      /\ \A q \in Process : Holds(q, f) => shared' = shared
  BY DEF MarkDirty, MarkOwed
<1>3. NoMarkForgotten'
  BY <1>1, <1>2 DEF MarkInv, NoMarkForgotten
<1>4. OneHolder'
  BY <1>2 DEF MarkInv, OneHolder
<1>5. ASSUME NEW q \in Process, loop'[q] = loop[q], group'[q] = group[q], batch'[q] = batch[q],
             at'[q] = at[q]
      PROVE  WorkerMarks(q)'
  <2>1. \A g \in Family : Holds(q, g) =>
            /\ g \in Known => g \in Known'
            /\ g \in shared => g \in shared'
    BY <1>1, <1>2 DEF Known
  <2>2. q \in listed => q \in listed' \/ group[q] \in Known'
    BY <1>1, <1>2 DEF Known
  <2>3. WorkerMarks(q)
    BY DEF MarkInv
  <2> QED BY <1>5, <2>1, <2>2, <2>3, StillKnows
<1> QED BY <1>3, <1>4, <1>5

\* Going on to the next family of a batch of dirty ones, each listed once.
LEMMA NextMarks ==
  ASSUME TypeInv, NEW p \in Process, NEW rest \in SUBSET (Family \X Time), NextGroup(p, rest),
         UNCHANGED <<boot, stale>>, \A x \in rest : x[1] \in Known',
         \A x, y \in rest : x[1] = y[1] => x = y
  PROVE  /\ WorkerMarks(p)'
         /\ \A f \in Family : Holds(p, f)' => \E x \in rest : x[1] = f
<1>1. CASE loop'[p] = "idle" /\ batch'[p] = {} /\ group'[p] = None
  BY <1>1 DEF WorkerMarks, Grouped, Batched, Scanned, Holds, InSweep
<1>2. CASE \E oldest \in rest :
              loop'[p] = "upsert" /\ batch'[p] = rest \ {oldest} /\ group'[p] = oldest[1]
  <2>1. PICK oldest \in rest :
              loop'[p] = "upsert" /\ batch'[p] = rest \ {oldest} /\ group'[p] = oldest[1]
    BY <1>2
  <2>2. Grouped(p)' /\ Scanned(p)'
    BY <2>1 DEF Grouped, Scanned
  <2>3. Batched(p)'
    BY <2>1 DEF Batched
  <2>4. \A f \in Family : Holds(p, f)' => \E x \in rest : x[1] = f
    BY <2>1 DEF Holds
  <2> QED BY <2>2, <2>3, <2>4 DEF WorkerMarks
<1> QED BY <1>1, <1>2, NextFamily

\* A step that leaves jobs, marks and the workers as they are.
LEMMA MarksKept ==
  ASSUME MarkInv, UNCHANGED jobVars, UNCHANGED workerVars, UNCHANGED historyVars,
         \A p \in Process : at'[p] = at[p]
  PROVE  MarkInv'
<1>1. Dirty' = Dirty /\ Known' = Known
  BY DEF Dirty, Known, jobVars, historyVars
<1>2. UNCHANGED <<loop, batch, group, job, owed, listed, shared>>
  BY DEF jobVars, workerVars, historyVars
<1>3. NoMarkForgotten' /\ OneHolder'
  BY <1>1, <1>2 DEF MarkInv, NoMarkForgotten, OneHolder, Holds, InSweep
<1>4. \A p \in Process : WorkerMarks(p)'
  BY <1>1, <1>2 DEF MarkInv, WorkerMarks, Grouped, Batched, Scanned
<1> QED BY <1>3, <1>4 DEF MarkInv

LEMMA MarksByLoop ==
  ASSUME TypeInv, MarkInv, NEW p \in Process, WorkerStep(p)
  PROVE  MarkInv'
<1>0. /\ batch[p] \in SUBSET (Family \X Time) /\ p \in Generalizer
      /\ loop[p] \in {"redirty", "upsert", "insert", "reset", "claim", "clear", "work"}
            => group[p] \in Family
      /\ Aside(p) /\ WorkerMarks(p)
  BY Workers, StepsAside DEF TypeInv, WorkerTypes, AtGroup, MarkInv
<1>1. UNCHANGED dirtyAt => Dirty' = Dirty
  BY DEF Dirty
<1> DEFINE SameFamilies == \A f \in Family : Holds(p, f)' => Holds(p, f)
           OwnOnly == \A f \in Family : ~ Holds(p, f) =>
                         /\ f \in Dirty => f \in Dirty'
                         /\ job'[f] = job[f] \/ job'[f] = "FAILED"
<1>2. ASSUME UNCHANGED <<shared, listed>>, SameFamilies, OwnOnly, WorkerMarks(p)', NoMarkForgotten'
      PROVE  MarkInv'
  BY <1>0, <1>2, OwnStep
<1>3. CASE ListStale(p)
  <2>1. /\ loop[p] = "idle" /\ loop'[p] \in {"sweep", "recover"}
        /\ UNCHANGED <<dirtyAt, job, batch, group, owed, shared, listed>>
    BY <1>3 DEF ListStale, GoLoop, TypeInv, WorkerTypes, jobVars, historyVars
  <2>2. SameFamilies /\ OwnOnly
    BY <1>1, <2>1 DEF Holds, InSweep
  <2>3. WorkerMarks(p)'
    BY <1>0, <1>1, <2>1 DEF WorkerMarks, Grouped, Batched, Scanned, Known
  <2>4. NoMarkForgotten'
    BY <1>1, <2>1 DEF MarkInv, NoMarkForgotten
  <2> QED BY <1>2, <2>1, <2>2, <2>3, <2>4
<1>4. CASE FailStale(p)
  <2>1. PICK f \in stale[p] : WriteJob(p, f, "FAILED")
    BY <1>4 DEF FailStale
  <2>2. /\ loop[p] = "recover" /\ loop'[p] = "redirty"
        /\ UNCHANGED <<dirtyAt, batch, owed, shared, listed>>
    BY <1>4 DEF FailStale, GoLoop, TypeInv, WorkerTypes, historyVars
  <2>3. \A g \in Family : job'[g] = job[g] \/ job'[g] = "FAILED"
    BY <2>1 DEF WriteJob, TypeInv, JobTypes
  <2>4. SameFamilies /\ OwnOnly
    BY <1>1, <2>2, <2>3 DEF Holds, InSweep
  <2>5. NoMarkForgotten'
    BY <1>1, <2>2, <2>3 DEF MarkInv, NoMarkForgotten, TypeInv, HistoryTypes
  <2>6. WorkerMarks(p)'
    BY <1>0, <1>1, <2>2 DEF WorkerMarks, Grouped, Batched, Scanned, Known
  <2> QED BY <1>2, <2>2, <2>4, <2>5, <2>6
<1>5. CASE RedirtyStale(p)
  <2>1. /\ loop[p] = "redirty" /\ loop'[p] \in {"sweep", "recover"} /\ MarkDirty(p, group[p])
        /\ UNCHANGED <<job, batch>>
    BY <1>5 DEF RedirtyStale, GoLoop, TypeInv, WorkerTypes
  <2>2. \A q \in Process, f \in Family : Holds(q, f)' => Holds(q, f)
    BY <1>0, <2>1 DEF Holds, InSweep, Aside
  <2>3. NoMarkForgotten' /\ OneHolder' /\ \A q \in Process \ {p} : WorkerMarks(q)'
    BY <1>0, <2>1, <2>2, MarkingKeeps DEF Aside
  <2>4. WorkerMarks(p)'
    BY <1>0, <2>1 DEF WorkerMarks, Grouped, Batched, Scanned
  <2> QED BY <2>3, <2>4 DEF MarkInv
<1>6. CASE ListDirty(p)
  <2>1. PICK S \in Batches :
          /\ NextGroup(p, {<<f, dirtyAt[f]>> : f \in S})
          /\ shared' = (shared \ S) \cup {f \in S : \E q \in Process \ {p} : Holds(q, f)}
    BY <1>6 DEF ListDirty
  <2>2. UNCHANGED <<dirtyAt, job, owed, listed, boot, stale>>
    BY <1>6 DEF ListDirty, jobVars
  <2>3. \A f \in S : f \in Dirty /\ f \in Family /\ dirtyAt[f] \in Time
    BY DEF Batches, Dirty, TypeInv, JobTypes
  <2> DEFINE rest == {<<f, dirtyAt[f]>> : f \in S}
  <2>4. /\ rest \in SUBSET (Family \X Time)
        /\ \A x \in rest : x[1] \in S /\ x[1] \in Dirty
        /\ \A x, y \in rest : x[1] = y[1] => x = y
    BY <2>3
  <2> HIDE DEF rest
  <2>5. NextGroup(p, rest)
    BY <2>1 DEF rest
  <2>6. /\ WorkerMarks(p)' /\ \A f \in Family : Holds(p, f)' => f \in S
    BY <1>1, <2>2, <2>4, <2>5, NextMarks DEF Known
  <2>7. \A q \in Process \ {p}, f \in Family : Holds(q, f)' <=> Holds(q, f)
    BY <1>0 DEF Aside, Holds, InSweep
  <2>8. OneHolder'
    BY <2>1, <2>6, <2>7 DEF MarkInv, OneHolder
  <2>9. \A q \in Process \ {p} : WorkerMarks(q)'
    <3>1. SUFFICES ASSUME NEW q \in Process \ {p} PROVE WorkerMarks(q)'
      OBVIOUS
    <3>2. \A f \in Family : Holds(q, f) => (f \in shared => f \in shared')
      BY <2>1
    <3>3. \A f \in Family : Holds(q, f) => (f \in Known => f \in Known')
      BY <1>1, <2>2, <3>2 DEF Known
    <3>4. WorkerMarks(q)
      BY DEF MarkInv
    <3> QED BY <1>0, <2>2, <3>2, <3>3, <3>4, StillKnows DEF Aside
  <2>10. NoMarkForgotten'
    BY <1>1, <2>1, <2>2, <2>3 DEF MarkInv, NoMarkForgotten
  <2> QED BY <2>6, <2>8, <2>9, <2>10 DEF MarkInv
<1>7. ASSUME NextGroup(p, batch[p]) \/ NextGroup(p, {}),
             UNCHANGED <<dirtyAt, boot, stale, shared>>
      PROVE  WorkerMarks(p)' /\ SameFamilies
  <2>1. /\ \A x \in batch[p] : x[1] \in Known'
        /\ \A x, y \in batch[p] : x[1] = y[1] => x = y
    BY <1>0, <1>1, <1>7 DEF WorkerMarks, Batched, Known
  <2>2. /\ WorkerMarks(p)'
        /\ \A f \in Family : Holds(p, f)' => \E x \in batch[p] : x[1] = f
    BY <1>0, <1>7, <2>1, NextMarks
  <2> QED BY <2>2 DEF Holds
<1>8. ASSUME WriteJob(p, group[p], "PENDING") \/ WriteJob(p, group[p], "PROCESSING"), InSweep(p),
             UNCHANGED dirtyAt
      PROVE  OwnOnly /\ \A f \in Family : f # group[p] => job'[f] = job[f]
  <2>1. \A f \in Family : f # group[p] => job'[f] = job[f]
    BY <1>8 DEF WriteJob, TypeInv, JobTypes
  <2> QED BY <1>1, <1>8, <2>1 DEF Holds
<1>9. CASE ReadJob(p)
  <2>1. loop[p] = "upsert" /\ UNCHANGED <<dirtyAt, job, owed, shared, listed, boot, stale>>
    BY <1>9 DEF ReadJob, jobVars, historyVars
  <2>2. NoMarkForgotten' /\ OwnOnly
    BY <1>1, <2>1 DEF MarkInv, NoMarkForgotten
  <2>3. CASE NextGroup(p, batch[p])
    BY <1>2, <1>7, <2>1, <2>2, <2>3
  <2>4. CASE ~ NextGroup(p, batch[p])
    <3>1. loop'[p] \in {"insert", "claim", "reset"} /\ UNCHANGED <<batch, group>>
      BY <1>9, <2>4 DEF ReadJob, GoLoop, TypeInv, WorkerTypes
    <3>2. SameFamilies
      BY <2>1, <3>1 DEF Holds, InSweep
    <3>3. WorkerMarks(p)'
      BY <1>0, <1>1, <2>1, <3>1 DEF WorkerMarks, Grouped, Batched, Scanned, Known
    <3> QED BY <1>2, <2>1, <2>2, <3>2, <3>3
  <2> QED BY <2>3, <2>4
<1>10. ASSUME WriteJob(p, group[p], "PENDING"), loop[p] \in {"insert", "reset"},
              loop'[p] = "claim", UNCHANGED <<dirtyAt, owed, shared, listed, batch, group>>
       PROVE  MarkInv'
  <2>1. OwnOnly /\ \A f \in Family : f # group[p] => job'[f] = job[f]
    BY <1>8, <1>10 DEF InSweep
  <2>2. group[p] \in Known
    BY <1>0, <1>10 DEF WorkerMarks, Grouped
  <2>3. NoMarkForgotten'
    BY <1>1, <1>10, <2>1, <2>2 DEF MarkInv, NoMarkForgotten, TypeInv, HistoryTypes, Known
  <2>4. SameFamilies
    BY <1>10 DEF Holds, InSweep
  <2>5. WorkerMarks(p)'
    BY <1>0, <1>1, <1>10 DEF WorkerMarks, Grouped, Batched, Scanned, Known
  <2> QED BY <1>2, <1>10, <2>1, <2>3, <2>4, <2>5
<1>11. CASE InsertJob(p)
  <2>1. loop[p] = "insert" /\ UNCHANGED <<dirtyAt, owed, shared, listed, boot, stale>>
    BY <1>11 DEF InsertJob, historyVars
  <2>2. CASE WriteJob(p, group[p], "PENDING") /\ GoLoop(p, "claim") /\ UNCHANGED <<batch, group>>
    <3>1. loop'[p] = "claim"
      BY <2>2 DEF GoLoop, TypeInv, WorkerTypes
    <3> QED BY <1>10, <2>1, <2>2, <3>1
  <2>3. CASE NextGroup(p, {}) /\ UNCHANGED <<job, jobAt>>
    <3>1. NoMarkForgotten' /\ OwnOnly
      BY <1>1, <2>1, <2>3 DEF MarkInv, NoMarkForgotten
    <3> QED BY <1>2, <1>7, <2>1, <2>3, <3>1
  <2> QED BY <1>11, <2>2, <2>3 DEF InsertJob
<1>12. CASE ResetJob(p)
  <2>1. /\ loop[p] = "reset" /\ loop'[p] = "claim" /\ WriteJob(p, group[p], "PENDING")
        /\ UNCHANGED <<dirtyAt, owed, shared, listed, batch, group>>
    BY <1>12 DEF ResetJob, GoLoop, historyVars, TypeInv, WorkerTypes
  <2> QED BY <1>10, <2>1
<1>13. CASE MarkProcessing(p)
  <2>1. /\ loop[p] = "claim" /\ loop'[p] = "clear" /\ WriteJob(p, group[p], "PROCESSING")
        /\ UNCHANGED <<dirtyAt, owed, shared, listed, batch, group>>
    BY <1>13 DEF MarkProcessing, GoLoop, TypeInv, WorkerTypes
  <2>2. OwnOnly /\ \A f \in Family : f # group[p] => job'[f] = job[f]
    BY <1>8, <2>1 DEF InSweep
  <2>3. job'[group[p]] = "PROCESSING"
    BY <1>0, <2>1 DEF WriteJob, TypeInv, JobTypes
  <2>4. NoMarkForgotten'
    BY <1>1, <2>1, <2>2, <2>3 DEF MarkInv, NoMarkForgotten, TypeInv, HistoryTypes
  <2>5. SameFamilies
    BY <2>1 DEF Holds, InSweep
  <2>6. WorkerMarks(p)'
    BY <1>0, <1>1, <2>1, <2>3 DEF WorkerMarks, Grouped, Batched, Scanned, Known
  <2> QED BY <1>2, <2>1, <2>2, <2>4, <2>5, <2>6
<1>14. CASE ClearDirty(p)
  <2>1. /\ loop[p] = "clear" /\ loop'[p] = "work" /\ at'[p] = "list"
        /\ UNCHANGED <<job, owed, shared, listed, batch, group>>
        /\ dirtyAt' = [dirtyAt EXCEPT ![group[p]] = None] \/ UNCHANGED dirtyAt
    BY <1>0, <1>14 DEF ClearDirty, WriteOrFault, Go, GoLoop, TypeInv, WorkerTypes, LocalTypes,
                       historyVars
  <2>2. Dirty \ {group[p]} \subseteq Dirty'
    BY <2>1 DEF Dirty, TypeInv, JobTypes
  <2>3. group[p] \in shared \/ job[group[p]] \in {"PROCESSING", "FAILED"}
    BY <1>0, <2>1 DEF WorkerMarks, Grouped
  <2>4. NoMarkForgotten'
    BY <2>1, <2>2, <2>3 DEF MarkInv, NoMarkForgotten
  <2>5. OwnOnly /\ SameFamilies
    BY <2>1, <2>2 DEF Holds, InSweep
  <2>6. WorkerMarks(p)'
    BY <1>0, <2>1, <2>2 DEF WorkerMarks, Grouped, Batched, Scanned, Known
  <2> QED BY <1>2, <2>1, <2>4, <2>5, <2>6
<1>15. CASE Scan(p)
  <2>1. /\ loop[p] = "work" /\ UNCHANGED <<dirtyAt, job, loop, batch, group, owed, shared>>
        /\ listed \subseteq listed'
    BY <1>15 DEF Scan, jobVars, workerVars
  <2>2. p \in listed' \/ at[p] \notin {"list", "error"}
    BY <1>0, <1>15, Working DEF Scan, TypeInv
  <2>3. WorkerMarks(p)'
    BY <1>0, <1>1, <2>1, <2>2 DEF WorkerMarks, Grouped, Batched, Scanned, Known
  <2>4. NoMarkForgotten' /\ OwnOnly /\ SameFamilies
    BY <1>1, <2>1 DEF MarkInv, NoMarkForgotten, Holds, InSweep
  <2> QED BY <1>0, <2>1, <2>3, <2>4, OwnStep
<1>16. ASSUME NEW result \in {"done", "error"}, NEW newStatus, NEW onFault,
              onFault = {} \/ onFault = batch[p], result = "error" => newStatus = "FAILED",
              Settle(p, result, newStatus, onFault)
       PROVE  MarkInv'
  <2>1. /\ loop[p] = "work" /\ at[p] = result /\ UNCHANGED <<dirtyAt, boot, stale, shared>>
        /\ listed' = listed \ {p}
    BY <1>16 DEF Settle
  <2>2. NextGroup(p, batch[p]) \/ NextGroup(p, {})
    BY <1>16 DEF Settle
  <2>3. WorkerMarks(p)' /\ SameFamilies
    BY <1>7, <2>1, <2>2
  <2>4. NoMarkForgotten' /\ OwnOnly
    <3>1. CASE UNCHANGED <<job, owed>>
      BY <1>1, <2>1, <3>1 DEF MarkInv, NoMarkForgotten
    <3>2. CASE ~ UNCHANGED <<job, owed>>
      <4>1. WriteJob(p, group[p], newStatus)
            /\ owed' = IF result = "done" /\ p \in listed THEN owed \ {group[p]} ELSE owed
        BY <1>16, <3>2 DEF Settle
      <4>2. job'[group[p]] = newStatus /\ \A f \in Family : f # group[p] => job'[f] = job[f]
        BY <1>0, <2>1, <4>1 DEF WriteJob, TypeInv, JobTypes
      <4>3. group[p] \in owed' => group[p] \in Known \/ job'[group[p]] = "FAILED"
        BY <1>0, <1>16, <2>1, <4>1, <4>2 DEF WorkerMarks, Scanned
      <4>4. NoMarkForgotten'
        BY <1>1, <2>1, <4>1, <4>2, <4>3
           DEF MarkInv, NoMarkForgotten, TypeInv, HistoryTypes, Known
      <4> QED BY <1>1, <2>1, <4>2, <4>4 DEF Holds, InSweep
    <3> QED BY <3>1, <3>2
  <2> QED BY <1>0, <2>1, <2>3, <2>4, OwnStep
<1>17. CASE MarkApplied(p) \/ MarkFailed(p)
  BY <1>16, <1>17 DEF MarkApplied, MarkFailed
<1> QED BY <1>3, <1>4, <1>5, <1>6, <1>9, <1>11, <1>12, <1>13, <1>14, <1>15, <1>17 DEF WorkerStep

LEMMA MarksStep ==
  ASSUME TypeInv, MarkInv, [EvolutionNext]_allVars
  PROVE  MarkInv'
<1>0. UNCHANGED dirtyAt => Dirty' = Dirty
  BY DEF Dirty
<1>1. CASE \E p \in Process : WorkerStep(p)
  BY <1>1, MarksByLoop
<1>2. ASSUME NEW p \in Process, StoreFails(p)
      PROVE  MarkInv'
  <2>1. /\ UNCHANGED <<dirtyAt, job, owed, listed, shared, boot>>
        /\ batch[p] \in SUBSET (Family \X Time) /\ p \in Generalizer
        /\ Aside(p) /\ WorkerMarks(p)
    BY <1>2, Workers, StepsAside DEF StoreFails, jobVars, historyVars, TypeInv, WorkerTypes, MarkInv
  <2>2. NoMarkForgotten'
    BY <1>0, <2>1 DEF MarkInv, NoMarkForgotten
  <2>3. ASSUME WorkerMarks(p)', \A f \in Family : Holds(p, f)' => Holds(p, f)
        PROVE  MarkInv'
    BY <1>0, <2>1, <2>2, <2>3, OwnStep
  <2>4. CASE loop[p] \in {"recover", "redirty"}
    <3>1. loop'[p] = "sweep" /\ UNCHANGED batch
      BY <1>2, <2>4 DEF StoreFails, GoLoop, TypeInv, WorkerTypes
    <3>2. WorkerMarks(p)' /\ \A f \in Family : Holds(p, f)' => Holds(p, f)
      BY <2>1, <2>4, <3>1 DEF WorkerMarks, Grouped, Batched, Scanned, Holds, InSweep
    <3> QED BY <2>3, <3>2
  <2>5. CASE loop[p] \in {"upsert", "insert", "reset", "claim"}
    <3>1. NextGroup(p, {}) /\ UNCHANGED stale
      BY <1>2, <2>5 DEF StoreFails
    <3>2. WorkerMarks(p)' /\ \A f \in Family : Holds(p, f)' => Holds(p, f)
      BY <2>1, <3>1, NextMarks
    <3> QED BY <2>3, <3>2
  <2>6. CASE loop[p] = "work"
    <3>1. Leave(p, "error") /\ UNCHANGED <<loop, batch, group>>
      BY <1>2, <2>6 DEF StoreFails, GeneralizeFails
    <3>2. at'[p] = "error"
      BY <2>1, <3>1, Leaving DEF TypeInv
    <3>3. WorkerMarks(p)'
      BY <1>0, <2>1, <2>6, <3>1, <3>2 DEF WorkerMarks, Grouped, Batched, Scanned, Known
    <3>4. \A f \in Family : Holds(p, f)' => Holds(p, f)
      BY <3>1 DEF Holds, InSweep
    <3> QED BY <2>3, <3>3, <3>4
  <2> QED BY <1>2, <2>4, <2>5, <2>6 DEF StoreFails
<1>3. ASSUME NEW p \in Process, Crash(p) \/ Restart(p)
      PROVE  MarkInv'
  <2>1. /\ UNCHANGED <<dirtyAt, job, owed, shared>> /\ \A q \in listed : q = p \/ q \in listed'
        /\ loop'[p] \in {"down", "idle"} /\ batch'[p] = {}
        /\ Aside(p)
    BY <1>3, StepsAside DEF Crash, Restart, GoLoop, jobVars, historyVars, TypeInv, WorkerTypes,
                MarkInv, WorkerMarks, Batched
  <2>2. WorkerMarks(p)' /\ \A f \in Family : Holds(p, f)' => Holds(p, f)
    BY <2>1 DEF WorkerMarks, Grouped, Batched, Scanned, Holds, InSweep
  <2>3. NoMarkForgotten'
    BY <1>0, <2>1 DEF MarkInv, NoMarkForgotten
  <2> QED BY <1>0, <2>1, <2>2, <2>3, OwnStep
<1>4. ASSUME NEW o \in Operator, Request(o) \/ RequestStep(o)
      PROVE  MarkInv'
  <2>1. Apart(o) /\ UNCHANGED jobVars /\ UNCHANGED workerVars /\ UNCHANGED historyVars
    BY <1>4, OperatorTypes DEF jobVars
  <2>2. \A p \in Process : p \in Generalizer \ {o}
    BY Workers, EvolutionAssumption DEF EvolutionAssumption
  <2>3. \A p \in Process : at'[p] = at[p]
    BY <2>1, <2>2 DEF Apart
  <2> QED BY <2>1, <2>3, MarksKept
<1>5. CASE \/ \E e \in Rated, u \in RaisedTo : Feedback(e, u)
           \/ ExperienceChanges
  BY <1>5, ChangeTypes, MarksKept
<1>6. ASSUME NEW f \in Family, FeedbackMarks(f)
      PROVE  MarkInv'
  <2>1. PICK p \in Process : MarkDirty(p, f) \/ UNCHANGED <<dirtyAt, owed, listed, shared>>
    BY <1>6 DEF FeedbackMarks, WriteOrFault
  <2>2. UNCHANGED <<job, jobAt, stranded>> /\ UNCHANGED workerVars /\ at' = at
    BY <1>6 DEF FeedbackMarks, vars
  <2>3. CASE UNCHANGED <<dirtyAt, owed, listed, shared>>
    BY <2>2, <2>3, MarksKept DEF jobVars, historyVars
  <2>4. CASE MarkDirty(p, f)
    <3>1. UNCHANGED <<loop, batch, group, at>>
      BY <2>2 DEF workerVars
    <3>2. \A q \in Process, g \in Family : Holds(q, g)' => Holds(q, g)
      BY <3>1 DEF Holds, InSweep
    <3>3. NoMarkForgotten' /\ OneHolder' /\ \A q \in Process : WorkerMarks(q)'
      BY <2>2, <2>4, <3>1, <3>2, MarkingKeeps
    <3> QED BY <3>3 DEF MarkInv
  <2> QED BY <2>1, <2>3, <2>4
<1>7. CASE UNCHANGED allVars
  BY <1>7, MarksKept DEF allVars, vars, jobVars
<1> QED BY <1>1, <1>2, <1>3, <1>4, <1>5, <1>6, <1>7 DEF EvolutionNext

\* Whatever fails or crashes and whenever feedback marks it: a family that was marked is dirty, or
\* its job PROCESSING or FAILED, until a scan that began later is complete, unless two workers had
\* it at once (internal/evolutionjob/processor.go:101, the mark is cleared before the work).
THEOREM Marks == EvolutionSpec => []NoMarkForgotten
<1>1. EvolutionInit => MarkInv
  <2> SUFFICES ASSUME EvolutionInit PROVE MarkInv
    OBVIOUS
  <2>1. \A p \in Process : loop[p] = "idle" /\ batch[p] = {}
    BY DEF EvolutionInit
  <2>2. owed = {}
    BY DEF EvolutionInit
  <2>3. OneHolder
    BY <2>1 DEF OneHolder, Holds, InSweep
  <2>4. \A p \in Process : WorkerMarks(p)
    BY <2>1 DEF WorkerMarks, Grouped, Batched, Scanned
  <2> QED BY <2>2, <2>3, <2>4 DEF MarkInv, NoMarkForgotten
<1>2. TypeInv /\ MarkInv /\ [EvolutionNext]_allVars => MarkInv'
  BY MarksStep
<1>3. MarkInv => NoMarkForgotten
  BY DEF MarkInv
<1> QED BY <1>1, <1>2, <1>3, TypeInvAlways, PTL DEF EvolutionSpec

-----------------------------------------------------------------------------
(* The evidence of the patterns.                                           *)

\* A worker that is not at work on a family generalizes nothing.
IdleOutside == \A p \in Process : loop[p] # "work" => at[p] = "out"

\* The other workers stay where they are.
Alone(p) ==
    \A q \in Process \ {p} : loop'[q] = loop[q]

LEMMA LoopAlone ==
  ASSUME TypeInv, NEW p \in Process
  PROVE  /\ \A place : GoLoop(p, place) => Alone(p)
         /\ \A rest : NextGroup(p, rest) => Alone(p)
BY DEF GoLoop, NextGroup, Alone, TypeInv, WorkerTypes

LEMMA IdleStep ==
  ASSUME TypeInv, IdleOutside, [EvolutionNext]_allVars
  PROVE  IdleOutside'
<1>0. \A p \in Process : p \in Generalizer
  BY Workers
<1>1. CASE UNCHANGED <<at, loop>>
  BY <1>1 DEF IdleOutside
<1>2. ASSUME NEW p \in Process, Alone(p), at' = at, loop[p] # "work"
      PROVE  IdleOutside'
  BY <1>2 DEF IdleOutside, Alone
<1>3. ASSUME NEW p \in Process, Alone(p), Apart(p), at'[p] = "out" \/ loop'[p] = "work"
      PROVE  IdleOutside'
  BY <1>0, <1>3 DEF IdleOutside, Alone, Apart
<1>4. ASSUME NEW p \in Process, Alone(p), NEW place \in {"out", "error"}, Leave(p, place),
             place = "out" \/ loop'[p] = "work"
      PROVE  IdleOutside'
  BY <1>0, <1>3, <1>4, Leaving DEF TypeInv
<1>5. ASSUME NEW p \in Process, WorkerStep(p)
      PROVE  IdleOutside'
  <2>1. CASE ListStale(p) \/ FailStale(p) \/ RedirtyStale(p) \/ ListDirty(p) \/ ReadJob(p)
    <3>1. at' = at /\ loop[p] # "work"
      BY <2>1 DEF ListStale, FailStale, RedirtyStale, ListDirty, ReadJob, vars
    <3>2. Alone(p)
      BY <2>1, LoopAlone DEF ListStale, FailStale, RedirtyStale, ListDirty, ReadJob
    <3> QED BY <1>2, <3>1, <3>2
  <2>2. CASE InsertJob(p) \/ ResetJob(p) \/ MarkProcessing(p)
    <3>1. at' = at /\ loop[p] # "work"
      BY <2>2 DEF InsertJob, ResetJob, MarkProcessing, vars
    <3>2. Alone(p)
      BY <2>2, LoopAlone DEF InsertJob, ResetJob, MarkProcessing
    <3> QED BY <1>2, <3>1, <3>2
  <2>3. CASE ClearDirty(p)
    <3>1. loop' = [loop EXCEPT ![p] = "work"] /\ at' = [at EXCEPT ![p] = "list"]
      BY <2>3 DEF ClearDirty, GoLoop, Go
    <3> QED BY <3>1 DEF IdleOutside, TypeInv, WorkerTypes, LocalTypes
  <2>4. CASE Scan(p)
    <3>1. UNCHANGED loop /\ loop[p] = "work"
      BY <2>4 DEF Scan, workerVars
    <3>2. Apart(p)
      <4>1. CASE GeneralizeStep(p)
        BY <1>0, <4>1, Working DEF TypeInv
      <4>2. CASE List(p, group[p])
        <5>1. Candidates(group[p]) \in SUBSET Exp
          BY DEF Candidates
        <5> QED BY <1>0, <4>2, <5>1, ClustersAreClusters, TakingUp DEF List, TypeInv
      <4> QED BY <2>4, <4>1, <4>2 DEF Scan
    <3> QED BY <1>3, <3>1, <3>2 DEF Alone
  <2>5. CASE MarkApplied(p) \/ MarkFailed(p)
    <3>1. Alone(p) /\ Leave(p, "out")
      BY <2>5, LoopAlone DEF MarkApplied, MarkFailed, Settle
    <3> QED BY <1>4, <3>1
  <2> QED BY <1>5, <2>1, <2>2, <2>3, <2>4, <2>5 DEF WorkerStep
<1>6. ASSUME NEW p \in Process, StoreFails(p)
      PROVE  IdleOutside'
  <2>1. CASE loop[p] = "work"
    <3>1. Leave(p, "error") /\ UNCHANGED loop
      BY <1>6, <2>1 DEF StoreFails, GeneralizeFails
    <3> QED BY <1>4, <2>1, <3>1 DEF Alone
  <2>2. CASE loop[p] # "work"
    <3>1. at' = at /\ Alone(p)
      BY <1>6, <2>2, LoopAlone DEF StoreFails, vars
    <3> QED BY <1>2, <2>2, <3>1
  <2> QED BY <2>1, <2>2
<1>7. ASSUME NEW p \in Process, Crash(p) \/ Restart(p)
      PROVE  IdleOutside'
  <2>1. CASE Crash(p)
    BY <1>4, <2>1, LoopAlone DEF Crash
  <2>2. CASE Restart(p)
    <3>1. at' = at /\ loop[p] # "work" /\ Alone(p)
      BY <2>2, LoopAlone DEF Restart, vars
    <3> QED BY <1>2, <3>1
  <2> QED BY <1>7, <2>1, <2>2
<1>8. ASSUME NEW o \in Operator, Request(o) \/ RequestStep(o)
      PROVE  IdleOutside'
  <2>1. Apart(o) /\ UNCHANGED loop
    BY <1>8, OperatorTypes DEF workerVars
  <2>2. \A p \in Process : p \in Generalizer \ {o}
    BY Workers, EvolutionAssumption DEF EvolutionAssumption
  <2> QED BY <2>1, <2>2 DEF Apart, IdleOutside
<1>9. CASE \/ \E e \in Rated, u \in RaisedTo : Feedback(e, u)
           \/ ExperienceChanges
  BY <1>1, <1>9, ChangeTypes DEF workerVars
<1>10. CASE \E f \in Family : FeedbackMarks(f)
  BY <1>1, <1>10 DEF FeedbackMarks, vars, workerVars
<1>11. CASE UNCHANGED allVars
  BY <1>1, <1>11 DEF allVars, vars, workerVars
<1> QED BY <1>5, <1>6, <1>7, <1>8, <1>9, <1>10, <1>11 DEF EvolutionNext

LEMMA IdleAlways == EvolutionSpec => []IdleOutside
<1>1. EvolutionInit => IdleOutside
  BY Workers DEF EvolutionInit, PatternsInit, IdleOutside
<1>2. TypeInv /\ IdleOutside /\ [EvolutionNext]_allVars => IdleOutside'
  BY IdleStep
<1> QED BY <1>1, <1>2, TypeInvAlways, PTL DEF EvolutionSpec

EvidenceOf(p) == {e \in Exp : <<p, e>> \in evidence}
DerivedOf(p) == {e \in Exp : <<p, e>> \in derived}
AtWriting(g) == at[g] \in {"evidence", "derive"}

\* Rows follow the members that are not to be written any more.
RowsSoFar(g) ==
    LET c == cluster[g] IN
    /\ c \in pattern /\ unwritten[g] \subseteq members[c]
    /\ DerivedOf(c) = members[c] \ unwritten[g]
    /\ EvidenceOf(c) = IF at[g] = "evidence" THEN members[c] \ unwritten[g]
                       ELSE (members[c] \ unwritten[g]) \cup {Member(g)}

EvidenceInv ==
    /\ \A p \in Cluster : p \notin pattern => EvidenceOf(p) = {} /\ DerivedOf(p) = {}
    /\ \A g \in Generalizer : AtWriting(g) => RowsSoFar(g)
    /\ \A g, h \in Generalizer :
            AtWriting(g) /\ AtWriting(h) /\ cluster[g] = cluster[h] => g = h
    /\ EvidenceComplete

\* A step of g that writes no rows, and does not leave a pattern half written unless as suspect.
LEMMA EvidenceFrame ==
  ASSUME EvidenceInv, NEW g \in Generalizer, Apart(g),
         UNCHANGED <<pattern, members, evidence, derived>>, suspect \subseteq suspect',
         at'[g] \notin {"evidence", "derive"}, AtWriting(g) => cluster[g] \in suspect'
  PROVE  EvidenceInv'
<1>1. \A h \in Generalizer : at'[h] \in {"evidence", "derive"} =>
          /\ h # g /\ at'[h] = at[h] /\ cluster'[h] = cluster[h] /\ unwritten'[h] = unwritten[h]
  BY DEF Apart
<1>2. \A h \in Generalizer : at'[h] \in {"evidence", "derive"} => RowsSoFar(h)'
  BY <1>1 DEF EvidenceInv, RowsSoFar, AtWriting, Member, EvidenceOf, DerivedOf
<1>3. ASSUME NEW h \in Generalizer, NEW k \in Generalizer,
             at'[h] \in {"evidence", "derive"}, at'[k] \in {"evidence", "derive"},
             cluster'[h] = cluster'[k]
      PROVE  h = k
  <2>1. AtWriting(h) /\ AtWriting(k) /\ cluster[h] = cluster[k]
    BY <1>1, <1>3 DEF AtWriting
  <2> QED BY <2>1 DEF EvidenceInv
<1>4. \A p \in Cluster : p \notin pattern' => EvidenceOf(p)' = {} /\ DerivedOf(p)' = {}
  BY DEF EvidenceInv, EvidenceOf, DerivedOf
<1>5. ASSUME NEW p \in pattern
      PROVE  Writing(p) => Writing(p)' \/ p \in suspect'
  <2>1. ASSUME NEW h \in Generalizer, at[h] \in {"evidence", "derive"}, cluster[h] = p
        PROVE  Writing(p)' \/ p \in suspect'
    <3>1. CASE h = g
      BY <2>1, <3>1 DEF AtWriting
    <3>2. CASE h # g
      BY <2>1, <3>2 DEF Apart, Writing
    <3> QED BY <3>1, <3>2
  <2> QED BY <2>1 DEF Writing
<1>6. EvidenceComplete'
  BY <1>5 DEF EvidenceInv, EvidenceComplete
<1> QED BY <1>2, <1>3, <1>4, <1>6 DEF EvidenceInv, AtWriting

\* No generalizer moves.
LEMMA EvidenceKept ==
  ASSUME EvidenceInv, UNCHANGED patternVars,
         UNCHANGED <<at, cluster, unwritten>>
  PROVE  EvidenceInv'
BY DEF EvidenceInv, EvidenceComplete, Writing, RowsSoFar, AtWriting, Member, EvidenceOf,
       DerivedOf, patternVars

LEMMA EvidenceByCreate ==
  ASSUME TypeInv, EvidenceInv, NEW g \in Generalizer, CreatePattern(g)
  PROVE  EvidenceInv'
<1>0. at[g] = "create" /\ Apart(g) /\ cluster[g] \in Cluster
  BY Working DEF CreatePattern, GeneralizeStep, TypeInv, LocalTypes
<1>1. CASE SkipCluster(g) /\ UNCHANGED patternVars
  <2>1. at'[g] \in {"done", "get"}
    BY <1>1, Skipping DEF TypeInv
  <2> QED BY <1>0, <1>1, <2>1, EvidenceFrame DEF AtWriting, patternVars
<1>2. CASE ~ (SkipCluster(g) /\ UNCHANGED patternVars)
  <2> DEFINE c == cluster[g]
  <2>1. /\ c \notin pattern /\ pattern' = pattern \cup {c}
        /\ members' = [members EXCEPT ![c] = exps[g]]
        /\ suspect \subseteq suspect'
        /\ unwritten' = [unwritten EXCEPT ![g] = exps[g]]
        /\ at' = [at EXCEPT ![g] = "evidence"]
        /\ UNCHANGED <<evidence, derived, cluster>>
    BY <1>2 DEF CreatePattern, Go
  <2>2. at'[g] = "evidence" /\ unwritten'[g] = exps[g]
        /\ members'[c] = exps[g] /\ \A p \in Cluster \ {c} : members'[p] = members[p]
    BY <1>0, <2>1 DEF TypeInv, LocalTypes, PatternTypes
  <2>3. EvidenceOf(c) = {} /\ DerivedOf(c) = {}
    BY <1>0, <2>1 DEF EvidenceInv
  <2>4. \A p \in Cluster : EvidenceOf(p)' = EvidenceOf(p) /\ DerivedOf(p)' = DerivedOf(p)
    BY <2>1 DEF EvidenceOf, DerivedOf
  <2>5. RowsSoFar(g)'
    BY <1>0, <2>1, <2>2, <2>3, <2>4 DEF RowsSoFar
  <2>6. ASSUME NEW h \in Generalizer \ {g}, AtWriting(h)
        PROVE  RowsSoFar(h) /\ cluster[h] # c /\ cluster[h] \in Cluster
    BY <2>1, <2>6 DEF EvidenceInv, RowsSoFar, TypeInv, LocalTypes
  <2>7. ASSUME NEW h \in Generalizer \ {g}, AtWriting(h)
        PROVE  RowsSoFar(h)'
    <3>1. at'[h] = at[h] /\ cluster'[h] = cluster[h] /\ unwritten'[h] = unwritten[h]
      BY <1>0 DEF Apart
    <3>2. members'[cluster[h]] = members[cluster[h]]
      BY <2>2, <2>6, <2>7
    <3>3. Member(h)' = Member(h)
      BY <3>1 DEF Member
    <3>4. EvidenceOf(cluster[h])' = EvidenceOf(cluster[h])
          /\ DerivedOf(cluster[h])' = DerivedOf(cluster[h])
      BY <2>1 DEF EvidenceOf, DerivedOf
    <3>5. RowsSoFar(h) /\ members'[cluster'[h]] = members[cluster[h]] /\ cluster[h] \in pattern'
      BY <2>1, <2>6, <2>7, <3>1, <3>2 DEF RowsSoFar
    <3> QED BY <3>1, <3>3, <3>4, <3>5 DEF RowsSoFar
  <2>8. \A h \in Generalizer \ {g} : at'[h] \in {"evidence", "derive"} <=> AtWriting(h)
    BY <1>0 DEF Apart, AtWriting
  <2>9. \A h \in Generalizer : AtWriting(h)' => RowsSoFar(h)'
    BY <2>5, <2>7, <2>8 DEF AtWriting
  <2>10. \A h, k \in Generalizer :
             AtWriting(h)' /\ AtWriting(k)' /\ cluster'[h] = cluster'[k] => h = k
    BY <2>1, <2>6, <2>8 DEF EvidenceInv, AtWriting
  <2>11. \A p \in Cluster : p \notin pattern' => EvidenceOf(p)' = {} /\ DerivedOf(p)' = {}
    BY <2>1, <2>4 DEF EvidenceInv
  <2>12. EvidenceComplete'
    <3>1. Writing(c)'
      BY <2>1, <2>2 DEF Writing
    <3>2. ASSUME NEW p \in pattern
          PROVE  \/ Writing(p)'
                 \/ p \in suspect'
                 \/ EvidenceOf(p)' = members'[p] /\ DerivedOf(p)' = members'[p]
      <4>1. p \in Cluster /\ p # c
        BY <2>1 DEF TypeInv, PatternTypes
      <4>2. Writing(p) => Writing(p)'
        BY <1>0, <2>1, <2>8 DEF Writing, AtWriting
      <4>3. \/ Writing(p) \/ p \in suspect
            \/ EvidenceOf(p) = members[p] /\ DerivedOf(p) = members[p]
        BY DEF EvidenceInv, EvidenceComplete, EvidenceOf, DerivedOf
      <4> QED BY <2>1, <2>2, <2>4, <4>1, <4>2, <4>3
    <3> QED BY <2>1, <3>1, <3>2 DEF EvidenceComplete, EvidenceOf, DerivedOf
  <2> QED BY <2>9, <2>10, <2>11, <2>12 DEF EvidenceInv
<1> QED BY <1>1, <1>2

\* The rows of one member: they are of the pattern of g only, and g stays its only writer.
LEMMA EvidenceByRow ==
  ASSUME TypeInv, EvidenceInv, NEW g \in Generalizer, AddEvidence(g) \/ RecordDerivation(g),
         NEW c, c = cluster[g], NEW m, m = Member(g)
  PROVE  EvidenceInv'
<1>0. /\ AtWriting(g) /\ Apart(g) /\ c \in Cluster /\ RowsSoFar(g)
      /\ m \in unwritten[g] /\ m \in Exp /\ unwritten[g] \subseteq Exp
      /\ UNCHANGED <<pattern, members, suspect>>
  <2>1. AtWriting(g) /\ UNCHANGED <<pattern, members, suspect>>
    BY DEF AddEvidence, RecordDerivation, AtWriting
  <2>2. unwritten[g] # {} /\ unwritten[g] \subseteq Exp /\ c \in Cluster
    BY <2>1 DEF TypeInv, AtWork, AtWriting, LocalTypes, Cluster
  <2>3. m \in unwritten[g]
    BY <2>2 DEF Member
  <2>4. Apart(g)
    BY Working DEF GeneralizeStep, TypeInv
  <2> QED BY <2>1, <2>2, <2>3, <2>4 DEF EvidenceInv
<1>1. /\ evidence \subseteq evidence' /\ evidence' \subseteq evidence \cup {<<c, m>>}
      /\ derived \subseteq derived' /\ derived' \subseteq derived \cup {<<c, m>>}
  BY DEF AddEvidence, RecordDerivation
<1>2. \A p : p # c => EvidenceOf(p)' = EvidenceOf(p) /\ DerivedOf(p)' = DerivedOf(p)
  BY <1>1 DEF EvidenceOf, DerivedOf
<1>3. \A p \in Cluster : p \notin pattern' => EvidenceOf(p)' = {} /\ DerivedOf(p)' = {}
  BY <1>0, <1>2 DEF EvidenceInv, RowsSoFar
<1>4. ASSUME NEW h \in Generalizer \ {g}, AtWriting(h)'
      PROVE  AtWriting(h) /\ cluster'[h] = cluster[h] /\ cluster[h] # c /\ RowsSoFar(h)'
  <2>1. /\ at'[h] = at[h] /\ cluster'[h] = cluster[h] /\ unwritten'[h] = unwritten[h]
        /\ AtWriting(h)
    BY <1>0, <1>4 DEF Apart, AtWriting
  <2>2. cluster[h] # c /\ RowsSoFar(h)
    BY <1>0, <2>1 DEF EvidenceInv
  <2>3. Member(h)' = Member(h)
    BY <2>1 DEF Member
  <2>4. PICK d : d = cluster[h]
    OBVIOUS
  <2>5. EvidenceOf(d)' = EvidenceOf(d) /\ DerivedOf(d)' = DerivedOf(d)
    BY <1>2, <2>2, <2>4
  <2> QED BY <1>0, <2>1, <2>2, <2>3, <2>4, <2>5 DEF RowsSoFar
<1>5. ASSUME AtWriting(g)' => cluster'[g] = c /\ RowsSoFar(g)',
             \/ Writing(c)'
             \/ EvidenceOf(c)' = members[c] /\ DerivedOf(c)' = members[c]
      PROVE  EvidenceInv'
  <2>1. \A h \in Generalizer : AtWriting(h)' => RowsSoFar(h)'
    BY <1>4, <1>5
  <2>2. \A h, k \in Generalizer :
            AtWriting(h)' /\ AtWriting(k)' /\ cluster'[h] = cluster'[k] => h = k
    BY <1>4, <1>5 DEF EvidenceInv
  <2>3. ASSUME NEW p \in pattern, p # c
        PROVE  \/ Writing(p)' \/ p \in suspect
               \/ EvidenceOf(p)' = members[p] /\ DerivedOf(p)' = members[p]
    <3>1. Writing(p) => Writing(p)'
      BY <1>0, <2>3 DEF Writing, Apart
    <3> QED BY <1>2, <2>3, <3>1 DEF EvidenceInv, EvidenceComplete, EvidenceOf, DerivedOf
  <2>4. EvidenceComplete'
    BY <1>0, <1>5, <2>3 DEF EvidenceComplete, EvidenceOf, DerivedOf
  <2> QED BY <1>3, <2>1, <2>2, <2>4 DEF EvidenceInv
<1>6. CASE AddEvidence(g)
  <2>1. /\ at[g] = "evidence" /\ at' = [at EXCEPT ![g] = "derive"]
        /\ UNCHANGED <<cluster, unwritten, derived>>
        /\ evidence' = evidence \cup {<<c, m>>}
    BY <1>6 DEF AddEvidence, Go, localVars
  <2>2. at'[g] = "derive"
    BY <2>1 DEF TypeInv, LocalTypes
  <2>3. EvidenceOf(c)' = EvidenceOf(c) \cup {m} /\ DerivedOf(c)' = DerivedOf(c)
    BY <1>0, <2>1 DEF EvidenceOf, DerivedOf
  <2>4. Member(g)' = m
    BY <2>1 DEF Member
  <2>5. RowsSoFar(g)'
    BY <1>0, <2>1, <2>2, <2>3, <2>4 DEF RowsSoFar
  <2>6. Writing(c)'
    BY <2>1, <2>2 DEF Writing
  <2> QED BY <1>5, <2>1, <2>5, <2>6
<1>7. CASE RecordDerivation(g)
  <2>1. at[g] = "derive" /\ derived' = derived \cup {<<c, m>>} /\ UNCHANGED evidence
    BY <1>7 DEF RecordDerivation
  <2>2. EvidenceOf(c)' = EvidenceOf(c) /\ DerivedOf(c)' = DerivedOf(c) \cup {m}
    BY <1>0, <2>1 DEF EvidenceOf, DerivedOf
  <2>3. /\ unwritten[g] \subseteq members[c]
        /\ EvidenceOf(c)' = (members[c] \ unwritten[g]) \cup {m}
        /\ DerivedOf(c)' = (members[c] \ unwritten[g]) \cup {m}
    BY <1>0, <2>1, <2>2 DEF RowsSoFar
  <2>4. CASE SkipCluster(g) /\ unwritten[g] = {m}
    <3>1. at'[g] \in {"done", "get"}
      BY <2>4, Skipping DEF TypeInv
    <3>2. EvidenceOf(c)' = members[c] /\ DerivedOf(c)' = members[c]
      BY <2>3, <2>4
    <3>3. ~ AtWriting(g)'
      BY <3>1 DEF AtWriting
    <3> QED BY <1>5, <3>2, <3>3
  <2>5. CASE ~ (SkipCluster(g) /\ unwritten[g] = {m})
    <3>1. /\ unwritten' = [unwritten EXCEPT ![g] = unwritten[g] \ {m}]
          /\ at' = [at EXCEPT ![g] = "evidence"] /\ UNCHANGED cluster
      BY <1>7, <2>5 DEF RecordDerivation, Go
    <3>2. at'[g] = "evidence" /\ unwritten'[g] = unwritten[g] \ {m}
      BY <3>1 DEF TypeInv, LocalTypes
    <3>3. members[c] \ unwritten'[g] = (members[c] \ unwritten[g]) \cup {m}
      BY <1>0, <2>3, <3>2
    <3>4. RowsSoFar(g)'
      BY <1>0, <2>3, <3>1, <3>2, <3>3 DEF RowsSoFar
    <3>5. Writing(c)'
      BY <3>1, <3>2 DEF Writing
    <3> QED BY <1>5, <3>1, <3>4, <3>5
  <2> QED BY <2>4, <2>5
<1> QED BY <1>6, <1>7

LEMMA EvidenceByGeneralizer ==
  ASSUME TypeInv, EvidenceInv, NEW g \in Generalizer, GeneralizeStep(g)
  PROVE  EvidenceInv'
<1>1. CASE Get(g) \/ CheckConflicts(g) \/ FindCovering(g) \/ LookUpFingerprint(g)
  <2>1. UNCHANGED patternVars /\ Apart(g) /\ ~ AtWriting(g)
    BY <1>1, Working DEF GeneralizeStep, Get, CheckConflicts, FindCovering, LookUpFingerprint,
                         TypeInv, AtWriting
  <2>2. at'[g] \notin {"evidence", "derive"}
    <3>1. CASE SkipCluster(g)
      BY <3>1, Skipping DEF TypeInv
    <3>2. CASE ~ SkipCluster(g)
      BY <1>1, <3>2 DEF Get, CheckConflicts, FindCovering, LookUpFingerprint, Go, TypeInv,
                        LocalTypes
    <3> QED BY <3>1, <3>2
  <2> QED BY <2>1, <2>2, EvidenceFrame DEF patternVars
<1>2. CASE AddEvidence(g) \/ RecordDerivation(g)
  <2>1. PICK c, m : c = cluster[g] /\ m = Member(g)
    OBVIOUS
  <2> QED BY <1>2, <2>1, EvidenceByRow
<1> QED BY <1>1, <1>2, EvidenceByCreate DEF GeneralizeStep

LEMMA EvidenceByLeaving ==
  ASSUME TypeInv, EvidenceInv, NEW g \in Generalizer, NEW place \in {"out", "error"},
         Leave(g, place)
  PROVE  EvidenceInv'
<1>1. /\ Apart(g) /\ at'[g] = place /\ UNCHANGED <<pattern, members, evidence, derived>>
      /\ suspect' = suspect \cup Abandoned(g)
  BY Leaving DEF Leave, TypeInv
<1>2. AtWriting(g) => cluster[g] \in suspect'
  BY <1>1 DEF AtWriting, Abandoned
<1> QED BY <1>1, <1>2, EvidenceFrame

LEMMA EvidenceStep ==
  ASSUME TypeInv, IdleOutside, EvidenceInv, [EvolutionNext]_allVars
  PROVE  EvidenceInv'
<1>1. CASE UNCHANGED vars
  BY <1>1, EvidenceKept DEF vars, localVars
<1>2. ASSUME NEW g \in Generalizer, NEW clusters \in SUBSET Cluster, {} \notin clusters,
             TakeUp(g, clusters), UNCHANGED patternVars, ~ AtWriting(g)
      PROVE  EvidenceInv'
  <2>1. Apart(g) /\ at'[g] \in {"done", "get"}
    BY <1>2, TakingUp DEF TypeInv
  <2> QED BY <1>2, <2>1, EvidenceFrame DEF patternVars
<1>3. ASSUME NEW p \in Process, WorkerStep(p)
      PROVE  EvidenceInv'
  <2>0. p \in Generalizer
    BY Workers
  <2>1. CASE ClearDirty(p)
    <3>1. at' = [at EXCEPT ![p] = "list"] /\ UNCHANGED patternVars /\ UNCHANGED localVars
          /\ loop[p] = "clear"
      BY <2>1 DEF ClearDirty, Go
    <3>2. Apart(p) /\ at'[p] = "list"
      BY <2>0, <3>1 DEF Apart, TypeInv, LocalTypes, localVars
    <3>3. ~ AtWriting(p)
      BY <3>1 DEF IdleOutside, AtWriting
    <3> QED BY <2>0, <3>1, <3>2, <3>3, EvidenceFrame DEF patternVars
  <2>2. CASE Scan(p)
    <3>1. CASE GeneralizeStep(p)
      BY <2>0, <3>1, EvidenceByGeneralizer
    <3>2. CASE List(p, group[p])
      <4>1. Candidates(group[p]) \in SUBSET Exp
        BY DEF Candidates
      <4> QED BY <1>2, <2>0, <3>2, <4>1, ClustersAreClusters DEF List, AtWriting
    <3> QED BY <2>2, <3>1, <3>2 DEF Scan
  <2>3. CASE MarkApplied(p) \/ MarkFailed(p)
    BY <2>0, <2>3, EvidenceByLeaving DEF MarkApplied, MarkFailed, Settle
  <2>4. CASE ListStale(p) \/ FailStale(p) \/ RedirtyStale(p) \/ ListDirty(p) \/ ReadJob(p)
             \/ InsertJob(p) \/ ResetJob(p) \/ MarkProcessing(p)
    BY <1>1, <2>4 DEF ListStale, FailStale, RedirtyStale, ListDirty, ReadJob, InsertJob,
                      ResetJob, MarkProcessing
  <2> QED BY <1>3, <2>1, <2>2, <2>3, <2>4 DEF WorkerStep
<1>4. ASSUME NEW p \in Process, StoreFails(p) \/ Crash(p) \/ Restart(p)
      PROVE  EvidenceInv'
  <2>1. UNCHANGED vars \/ Leave(p, "error") \/ Leave(p, "out")
    BY <1>4 DEF StoreFails, GeneralizeFails, Crash, Restart
  <2> QED BY <1>1, <2>1, Workers, EvidenceByLeaving
<1>5. ASSUME NEW o \in Operator, Request(o)
      PROVE  EvidenceInv'
  <2>1. at[o] = "out" /\ UNCHANGED patternVars
    BY <1>5 DEF Request
  <2>2. Apart(o) /\ at'[o] \in {"done", "get"}
    BY <1>5, OperatorTypes
  <2> QED BY <2>1, <2>2, Workers, EvidenceFrame DEF AtWriting, patternVars
<1>6. ASSUME NEW o \in Operator, RequestStep(o)
      PROVE  EvidenceInv'
  <2>1. GeneralizeStep(o) \/ Leave(o, "error") \/ Leave(o, "out")
    BY <1>6 DEF RequestStep, GeneralizeFails
  <2> QED BY <2>1, Workers, EvidenceByGeneralizer, EvidenceByLeaving
<1>7. CASE \/ \E e \in Rated, u \in RaisedTo : Feedback(e, u)
           \/ ExperienceChanges
  BY <1>7, ChangeTypes, EvidenceKept DEF localVars
<1>8. CASE \E f \in Family : FeedbackMarks(f)
  BY <1>1, <1>8 DEF FeedbackMarks
<1>9. CASE UNCHANGED allVars
  BY <1>1, <1>9 DEF allVars
<1> QED BY <1>3, <1>4, <1>5, <1>6, <1>7, <1>8, <1>9 DEF EvolutionNext

\* Whatever workers and operators generalize at once and wherever they break off: a pattern rests
\* on evidence and relations of its members and of no others once its maker has gone on
\* (internal/experience/pattern_service.go:148).
THEOREM Evidence == EvolutionSpec => []EvidenceComplete
<1>1. EvolutionInit => EvidenceInv
  BY DEF EvolutionInit, PatternsInit, EvidenceInv, EvidenceComplete, EvidenceOf, DerivedOf,
         AtWriting
<1>2. TypeInv /\ IdleOutside /\ EvidenceInv /\ [EvolutionNext]_allVars => EvidenceInv'
  BY EvidenceStep
<1>3. EvidenceInv => EvidenceComplete
  BY DEF EvidenceInv
<1> QED BY <1>1, <1>2, <1>3, TypeInvAlways, IdleAlways, PTL DEF EvolutionSpec


-----------------------------------------------------------------------------
(* Patterns that share no experience.                                      *)

\* A generalizer reads and keeps experiences of its cluster only.
Reading == \A g \in Generalizer : unread[g] \subseteq cluster[g] /\ exps[g] \subseteq cluster[g]

\* Whoever is not in a race is the only one that generalizes.
AloneUnlessRaced ==
    \A g \in Generalizer : Generalizing(g) /\ g \notin raced =>
        \A h \in Generalizer \ {g} : ~ Generalizing(h)

FamiliesOf(S) == {FamilyOf[e] : e \in S}

\* The patterns there are leave the experiences S free for a pattern of their own.
LeftFree(S) ==
    \A p \in pattern :
        \/ p \in suspect
        \/ PatternFamily(p) # FamiliesOf(S)
        \/ members[p] \cap S = {}

\* Found free by the covering lookup, they stay so until the pattern is created.
FoundFree ==
    \A g \in Generalizer :
        at[g] \in {"fingerprint", "create"} /\ g \notin raced => LeftFree(exps[g])

DisjointInv == Reading /\ AloneUnlessRaced /\ FoundFree /\ PatternsDisjoint

\* What a step of g leaves alone of the others: they stay in whatever race they are in.
Elsewhere(g) ==
    /\ \A h \in Generalizer \ {g} :
         at'[h] = at[h] /\ cluster'[h] = cluster[h] /\ unread'[h] = unread[h] /\ exps'[h] = exps[h]
    /\ raced \ {g} \subseteq raced'

\* The experiences of g are its cluster's after its step.
ReadsOwn(g) == unread'[g] \subseteq cluster'[g] /\ exps'[g] \subseteq cluster'[g]

LEMMA DisjointFrame ==
  ASSUME DisjointInv, NEW g \in Generalizer, Elsewhere(g), ReadsOwn(g), AloneUnlessRaced',
         UNCHANGED <<pattern, members>>, suspect \subseteq suspect',
         at'[g] \in {"fingerprint", "create"} /\ g \notin raced' =>
             LeftFree(exps[g]) /\ exps'[g] = exps[g]
  PROVE  DisjointInv'
<1>1. Reading'
  BY DEF DisjointInv, Reading, Elsewhere, ReadsOwn
<1>2. \A S : LeftFree(S) => LeftFree(S)'
  BY DEF LeftFree, PatternFamily
<1>3. ASSUME NEW h \in Generalizer, at'[h] \in {"fingerprint", "create"}, h \notin raced'
      PROVE  LeftFree(exps[h]) /\ exps'[h] = exps[h]
  <2>1. CASE h = g
    BY <1>3, <2>1
  <2>2. CASE h # g
    BY <1>3, <2>2 DEF Elsewhere, DisjointInv, FoundFree
  <2> QED BY <2>1, <2>2
<1>4. FoundFree'
  BY <1>2, <1>3 DEF FoundFree, LeftFree, PatternFamily
<1>5. PatternsDisjoint'
  BY DEF DisjointInv, PatternsDisjoint, PatternFamily
<1> QED BY <1>1, <1>4, <1>5 DEF DisjointInv

\* Whoever does not take up a cluster enters no race, and makes none.
LEMMA StaysAlone ==
  ASSUME AloneUnlessRaced, NEW g \in Generalizer, Elsewhere(g),
         Generalizing(g)' => Generalizing(g) /\ (g \in raced => g \in raced')
  PROVE  AloneUnlessRaced'
<1>1. \A h \in Generalizer \ {g} : Generalizing(h)' <=> Generalizing(h)
  BY DEF Elsewhere, Generalizing
<1>2. ASSUME NEW k \in Generalizer, Generalizing(k)', k \notin raced', NEW h \in Generalizer \ {k}
      PROVE  ~ Generalizing(h)'
  <2>1. Generalizing(k) /\ k \notin raced
    BY <1>1, <1>2 DEF Elsewhere
  <2>2. ~ Generalizing(h)
    BY <1>2, <2>1 DEF AloneUnlessRaced
  <2> QED BY <1>1, <2>2
<1> QED BY <1>2 DEF AloneUnlessRaced

LEMMA ForgettingApart ==
  ASSUME LocalTypes, NEW g \in Generalizer, Forget(g), NEW place, Go(g, place)
  PROVE  Elsewhere(g) /\ ReadsOwn(g) /\ at'[g] = place
<1>1. /\ \A h \in Generalizer \ {g} : /\ at'[h] = at[h] /\ cluster'[h] = cluster[h]
                                      /\ unread'[h] = unread[h] /\ exps'[h] = exps[h]
      /\ at'[g] = place
  BY DEF LocalTypes, Forget, Go
<1>2. unread'[g] = {} /\ exps'[g] = {} /\ raced' = raced \ {g}
  BY DEF LocalTypes, Forget
<1> QED BY <1>1, <1>2 DEF Elsewhere, ReadsOwn

LEMMA TakingUpAlone ==
  ASSUME LocalTypes, AloneUnlessRaced, NEW g \in Generalizer, NEW clusters, TakeUp(g, clusters)
  PROVE  Elsewhere(g) /\ ReadsOwn(g) /\ AloneUnlessRaced' /\ at'[g] \in {"done", "get"}
<1>1. CASE clusters = {}
  <2>1. Forget(g) /\ Go(g, "done")
    BY <1>1 DEF TakeUp
  <2>2. Elsewhere(g) /\ ReadsOwn(g) /\ at'[g] = "done"
    BY <2>1, ForgettingApart
  <2>3. ~ Generalizing(g)'
    BY <2>2 DEF Generalizing
  <2> QED BY <2>2, <2>3, StaysAlone
<1>2. CASE clusters # {}
  <2> DEFINE next == CHOOSE c \in clusters : TRUE
             others == {h \in Generalizer \ {g} : Generalizing(h)}
  <2>1. /\ at' = [at EXCEPT ![g] = "get"]
        /\ cluster' = [cluster EXCEPT ![g] = next]
        /\ unread' = [unread EXCEPT ![g] = next]
        /\ exps' = [exps EXCEPT ![g] = {}]
        /\ raced' = IF others = {} THEN raced \ {g} ELSE raced \cup others \cup {g}
    BY <1>2 DEF TakeUp, Go
  <2> HIDE DEF next
  <2>2. \A h \in Generalizer \ {g} : /\ at'[h] = at[h] /\ cluster'[h] = cluster[h]
                                      /\ unread'[h] = unread[h] /\ exps'[h] = exps[h]
    BY <2>1 DEF LocalTypes
  <2>3. at'[g] = "get" /\ cluster'[g] = next /\ unread'[g] = next /\ exps'[g] = {}
    BY <2>1 DEF LocalTypes
  <2>4. Elsewhere(g)
    BY <2>1, <2>2 DEF Elsewhere
  <2>5. ReadsOwn(g)
    BY <2>3 DEF ReadsOwn
  <2>6. \A h \in Generalizer \ {g} : Generalizing(h)' <=> Generalizing(h)
    BY <2>2 DEF Generalizing
  <2>7. AloneUnlessRaced'
    <3>1. CASE others = {}
      BY <2>6, <3>1 DEF AloneUnlessRaced
    <3>2. CASE others # {}
      <4>1. \A h \in Generalizer : Generalizing(h)' => h \in raced'
        BY <2>1, <2>6, <3>2
      <4> QED BY <4>1 DEF AloneUnlessRaced
    <3> QED BY <3>1, <3>2
  <2> QED BY <2>3, <2>4, <2>5, <2>7
<1> QED BY <1>1, <1>2

LEMMA DisjointByTakingUp ==
  ASSUME TypeInv, DisjointInv, NEW g \in Generalizer, NEW clusters, TakeUp(g, clusters),
         UNCHANGED <<pattern, members>>, suspect \subseteq suspect'
  PROVE  DisjointInv'
<1>1. Elsewhere(g) /\ ReadsOwn(g) /\ AloneUnlessRaced' /\ at'[g] \in {"done", "get"}
  BY TakingUpAlone DEF TypeInv, DisjointInv
<1> QED BY <1>1, DisjointFrame

LEMMA DisjointByLeaving ==
  ASSUME TypeInv, DisjointInv, NEW g \in Generalizer, NEW place \in {"out", "error"},
         Leave(g, place)
  PROVE  DisjointInv'
<1>1. Elsewhere(g) /\ ReadsOwn(g) /\ at'[g] = place
  BY ForgettingApart DEF Leave, TypeInv
<1>2. AloneUnlessRaced'
  <2>1. ~ Generalizing(g)'
    BY <1>1 DEF Generalizing
  <2> QED BY <1>1, <2>1, StaysAlone DEF DisjointInv
<1>3. UNCHANGED <<pattern, members>> /\ suspect \subseteq suspect'
  BY DEF Leave
<1> QED BY <1>1, <1>2, <1>3, DisjointFrame

\* A generalizer alone with a cluster that no pattern covers: those there are rest on others.
LEMMA UncoveredIsFree ==
  ASSUME TypeInv, EvidenceInv, DisjointInv, NEW g \in Generalizer, at[g] = "covering",
         g \notin raced,
         ~ \E p \in FoundByExperience(cluster[g]) : PatternFamily(p) = FamiliesOf(exps[g])
  PROVE  LeftFree(exps[g])
<1>1. \A h \in Generalizer : at[h] \notin {"evidence", "derive"}
  <2>1. Generalizing(g)
    BY DEF Generalizing
  <2> QED BY <2>1 DEF DisjointInv, AloneUnlessRaced, Generalizing
<1>2. ASSUME NEW p \in pattern, p \notin suspect, PatternFamily(p) = FamiliesOf(exps[g])
      PROVE  members[p] \cap exps[g] = {}
  <2>1. ~ Writing(p)
    BY <1>1 DEF Writing
  <2>2. {e \in Exp : <<p, e>> \in evidence} = members[p]
    BY <1>2, <2>1 DEF EvidenceInv, EvidenceComplete
  <2>3. p \notin FoundByExperience(cluster[g])
    BY <1>2
  <2>4. \A e \in cluster[g] : <<p, e>> \notin evidence
    BY <1>2, <2>3 DEF FoundByExperience
  <2>5. exps[g] \subseteq cluster[g]
    BY DEF DisjointInv, Reading
  <2> QED BY <2>2, <2>4, <2>5
<1> QED BY <1>2 DEF LeftFree

LEMMA DisjointByCreate ==
  ASSUME TypeInv, DisjointInv, NEW g \in Generalizer, at[g] = "create",
         NEW c, c = cluster[g], c \notin pattern, pattern' = pattern \cup {c},
         members' = [members EXCEPT ![c] = exps[g]],
         suspect' = IF g \in raced THEN suspect \cup {c} ELSE suspect,
         at' = [at EXCEPT ![g] = "evidence"], UNCHANGED <<cluster, unread, exps, raced>>
  PROVE  DisjointInv'
<1>1. c \in Cluster /\ at'[g] = "evidence" /\ \A h \in Generalizer \ {g} : at'[h] = at[h]
  BY DEF TypeInv, LocalTypes
<1>2. Elsewhere(g)
  BY <1>1 DEF Elsewhere
<1>3. Generalizing(g)
  BY DEF Generalizing
<1>4. AloneUnlessRaced'
  BY <1>2, <1>3, StaysAlone DEF DisjointInv
<1>5. Reading'
  BY DEF DisjointInv, Reading
<1>6. FoundFree'
  <2>1. \A h \in Generalizer \ {g} : Generalizing(h) => h \in raced
    BY <1>3 DEF DisjointInv, AloneUnlessRaced
  <2>2. \A h \in Generalizer : at'[h] \in {"fingerprint", "create"} => h \in raced'
    BY <1>1, <2>1 DEF Generalizing
  <2> QED BY <2>2 DEF FoundFree
<1>7. PatternsDisjoint'
  <2>1. members'[c] = exps[g] /\ \A p \in pattern : members'[p] = members[p]
    BY <1>1 DEF TypeInv, PatternTypes
  <2>2. /\ PatternFamily(c)' = FamiliesOf(exps[g])
        /\ \A p \in pattern : PatternFamily(p)' = PatternFamily(p)
    BY <2>1 DEF PatternFamily, FamiliesOf
  <2>3. c \in suspect' \/ LeftFree(exps[g])
    BY DEF DisjointInv, FoundFree
  <2>4. suspect \subseteq suspect'
    OBVIOUS
  <2>5. ASSUME NEW p \in pattern
        PROVE  \/ p \in suspect' \/ c \in suspect'
               \/ PatternFamily(p)' # PatternFamily(c)'
               \/ members'[p] \cap members'[c] = {}
    BY <2>1, <2>2, <2>3, <2>4 DEF LeftFree
  <2>6. ASSUME NEW p \in pattern, NEW q \in pattern, p # q
        PROVE  \/ p \in suspect' \/ q \in suspect'
               \/ PatternFamily(p)' # PatternFamily(q)'
               \/ members'[p] \cap members'[q] = {}
    BY <2>1, <2>2, <2>4, <2>6 DEF DisjointInv, PatternsDisjoint
  <2> QED BY <2>5, <2>6 DEF PatternsDisjoint
<1> QED BY <1>4, <1>5, <1>6, <1>7 DEF DisjointInv


LEMMA DisjointByGeneralizer ==
  ASSUME TypeInv, EvidenceInv, DisjointInv, NEW g \in Generalizer, GeneralizeStep(g)
  PROVE  DisjointInv'
<1>0. ASSUME SkipCluster(g), UNCHANGED <<pattern, members, suspect>>
      PROVE  DisjointInv'
  BY <1>0, DisjointByTakingUp DEF SkipCluster
\* A step to another place of the loop with the same cluster.
<1>1. ASSUME NEW place, Go(g, place), UNCHANGED <<pattern, members, suspect>>,
             UNCHANGED <<cluster, unread, exps, raced>>, Generalizing(g),
             place \in {"fingerprint", "create"} /\ g \notin raced => LeftFree(exps[g])
      PROVE  DisjointInv'
  <2>1. at'[g] = place /\ \A h \in Generalizer \ {g} : at'[h] = at[h]
    BY <1>1 DEF Go, TypeInv, LocalTypes
  <2>2. Elsewhere(g) /\ ReadsOwn(g)
    BY <1>1, <2>1 DEF Elsewhere, ReadsOwn, DisjointInv, Reading
  <2>3. AloneUnlessRaced'
    BY <1>1, <2>2, StaysAlone DEF DisjointInv
  <2> QED BY <1>1, <2>1, <2>2, <2>3, DisjointFrame
<1>2. CASE Get(g)
  <2>1. at[g] = "get" /\ UNCHANGED <<pattern, members, suspect>>
    BY <1>2 DEF Get, patternVars
  <2>2. CASE SkipCluster(g)
    BY <1>0, <2>1, <2>2
  <2>3. CASE ~ SkipCluster(g)
    <3>1. PICK e, read, place :
            /\ e \in unread[g] /\ place \in {"conflicts", "get"}
            /\ read \in {exps[g], exps[g] \cup {e}}
            /\ unread' = [unread EXCEPT ![g] = unread[g] \ {e}]
            /\ exps' = [exps EXCEPT ![g] = read]
            /\ at' = [at EXCEPT ![g] = place]
            /\ UNCHANGED <<cluster, raced>>
      <4> DEFINE x == CHOOSE y \in unread[g] : TRUE
                 now == unread[g] \ {x}
                 kept == IF Retrievable(x) THEN exps[g] \cup {x} ELSE exps[g]
                 goal == IF now = {} THEN "conflicts" ELSE "get"
      <4>1. x \in unread[g]
        BY <2>1 DEF TypeInv, AtWork
      <4>2. /\ unread' = [unread EXCEPT ![g] = unread[g] \ {x}]
            /\ exps' = [exps EXCEPT ![g] = kept]
            /\ at' = [at EXCEPT ![g] = goal]
            /\ UNCHANGED <<cluster, raced>>
        BY <1>2, <2>3 DEF Get, Go
      <4>3. kept \in {exps[g], exps[g] \cup {x}} /\ goal \in {"conflicts", "get"}
        OBVIOUS
      <4> HIDE DEF x, kept, goal
      <4> QED BY <4>1, <4>2, <4>3
    <3>2. /\ unread'[g] = unread[g] \ {e} /\ exps'[g] = read /\ at'[g] = place
          /\ \A h \in Generalizer \ {g} :
               unread'[h] = unread[h] /\ exps'[h] = exps[h] /\ at'[h] = at[h]
      BY <3>1 DEF TypeInv, LocalTypes
    <3>3. Elsewhere(g)
      BY <3>1, <3>2 DEF Elsewhere
    <3>4. ReadsOwn(g)
      BY <3>1, <3>2 DEF ReadsOwn, DisjointInv, Reading
    <3>5. AloneUnlessRaced'
      BY <2>1, <3>1, <3>3, StaysAlone DEF DisjointInv, Generalizing
    <3> QED BY <2>1, <3>1, <3>2, <3>3, <3>4, <3>5, DisjointFrame
  <2> QED BY <2>2, <2>3
<1>3. CASE CheckConflicts(g)
  <2>1. at[g] = "conflicts" /\ UNCHANGED <<pattern, members, suspect>>
        /\ (SkipCluster(g) \/ (Go(g, "covering") /\ UNCHANGED <<cluster, unread, exps, raced>>))
    BY <1>3 DEF CheckConflicts, patternVars, localVars
  <2> QED BY <1>0, <1>1, <2>1 DEF Generalizing
<1>4. CASE FindCovering(g)
  <2>1. at[g] = "covering" /\ UNCHANGED <<pattern, members, suspect>>
    BY <1>4 DEF FindCovering, patternVars
  <2>2. CASE SkipCluster(g)
    BY <1>0, <2>1, <2>2
  <2>3. CASE ~ SkipCluster(g)
    <3>1. /\ Go(g, "fingerprint") /\ UNCHANGED <<cluster, unread, exps, raced>>
          /\ ~ \E p \in FoundByExperience(cluster[g]) : PatternFamily(p) = FamiliesOf(exps[g])
      BY <1>4, <2>3 DEF FindCovering, localVars, FamiliesOf
    <3>2. g \notin raced => LeftFree(exps[g])
      BY <2>1, <3>1, UncoveredIsFree
    <3> QED BY <1>1, <2>1, <3>1, <3>2 DEF Generalizing
  <2> QED BY <2>2, <2>3
<1>5. CASE LookUpFingerprint(g)
  <2>1. at[g] = "fingerprint" /\ UNCHANGED <<pattern, members, suspect>>
        /\ (SkipCluster(g) \/ (Go(g, "create") /\ UNCHANGED <<cluster, unread, exps, raced>>))
    BY <1>5 DEF LookUpFingerprint, patternVars, localVars
  <2>2. g \notin raced => LeftFree(exps[g])
    BY <2>1 DEF DisjointInv, FoundFree
  <2> QED BY <1>0, <1>1, <2>1, <2>2 DEF Generalizing
<1>6. CASE CreatePattern(g)
  <2>1. CASE SkipCluster(g) /\ UNCHANGED patternVars
    BY <1>0, <2>1 DEF patternVars
  <2>2. CASE ~ (SkipCluster(g) /\ UNCHANGED patternVars)
    <3>1. PICK c : c = cluster[g]
      OBVIOUS
    <3>2. /\ at[g] = "create" /\ c \notin pattern /\ pattern' = pattern \cup {c}
          /\ members' = [members EXCEPT ![c] = exps[g]]
          /\ suspect' = IF g \in raced THEN suspect \cup {c} ELSE suspect
          /\ at' = [at EXCEPT ![g] = "evidence"]
          /\ UNCHANGED <<cluster, unread, exps, raced>>
      BY <1>6, <2>2, <3>1 DEF CreatePattern, Go
    <3> QED BY <3>1, <3>2, DisjointByCreate
  <2> QED BY <2>1, <2>2
<1>7. CASE AddEvidence(g)
  <2>1. at[g] = "evidence" /\ UNCHANGED <<pattern, members, suspect>>
        /\ Go(g, "derive") /\ UNCHANGED <<cluster, unread, exps, raced>>
    BY <1>7 DEF AddEvidence, localVars
  <2> QED BY <1>1, <2>1 DEF Generalizing
<1>8. CASE RecordDerivation(g)
  <2>1. at[g] = "derive" /\ UNCHANGED <<pattern, members, suspect>>
        /\ (SkipCluster(g) \/ (Go(g, "evidence") /\ UNCHANGED <<cluster, unread, exps, raced>>))
    BY <1>8 DEF RecordDerivation
  <2> QED BY <1>0, <1>1, <2>1 DEF Generalizing
<1> QED BY <1>2, <1>3, <1>4, <1>5, <1>6, <1>7, <1>8 DEF GeneralizeStep

\* No generalizer moves.
LEMMA DisjointKept ==
  ASSUME DisjointInv, UNCHANGED <<pattern, members, suspect>>,
         UNCHANGED <<at, cluster, unread, exps, raced>>
  PROVE  DisjointInv'
BY DEF DisjointInv, Reading, AloneUnlessRaced, Generalizing, FoundFree, LeftFree, PatternFamily,
       PatternsDisjoint

LEMMA DisjointStep ==
  ASSUME TypeInv, IdleOutside, EvidenceInv, DisjointInv, [EvolutionNext]_allVars
  PROVE  DisjointInv'
<1>1. CASE UNCHANGED vars
  BY <1>1, DisjointKept DEF vars, patternVars, localVars
<1>2. ASSUME NEW g \in Generalizer, NEW clusters, TakeUp(g, clusters), UNCHANGED patternVars
      PROVE  DisjointInv'
  BY <1>2, DisjointByTakingUp DEF patternVars
<1>3. ASSUME NEW p \in Process, WorkerStep(p)
      PROVE  DisjointInv'
  <2>0. p \in Generalizer
    BY Workers
  <2>1. CASE ClearDirty(p)
    <3>1. at' = [at EXCEPT ![p] = "list"] /\ UNCHANGED <<pattern, members, suspect>>
          /\ UNCHANGED <<cluster, unread, exps, raced>>
      BY <2>1 DEF ClearDirty, Go, patternVars, localVars
    <3>2. at'[p] = "list" /\ \A h \in Generalizer \ {p} : at'[h] = at[h]
      BY <2>0, <3>1 DEF TypeInv, LocalTypes
    <3>3. Elsewhere(p) /\ ReadsOwn(p)
      BY <2>0, <3>1, <3>2 DEF Elsewhere, ReadsOwn, DisjointInv, Reading
    <3>4. AloneUnlessRaced'
      BY <2>0, <3>2, <3>3, StaysAlone DEF DisjointInv, Generalizing
    <3> QED BY <2>0, <3>1, <3>2, <3>3, <3>4, DisjointFrame
  <2>2. CASE Scan(p)
    BY <1>2, <2>0, <2>2, DisjointByGeneralizer DEF Scan, List
  <2>3. CASE MarkApplied(p) \/ MarkFailed(p)
    BY <2>0, <2>3, DisjointByLeaving DEF MarkApplied, MarkFailed, Settle
  <2>4. CASE ListStale(p) \/ FailStale(p) \/ RedirtyStale(p) \/ ListDirty(p) \/ ReadJob(p)
             \/ InsertJob(p) \/ ResetJob(p) \/ MarkProcessing(p)
    BY <1>1, <2>4 DEF ListStale, FailStale, RedirtyStale, ListDirty, ReadJob, InsertJob,
                      ResetJob, MarkProcessing
  <2> QED BY <1>3, <2>1, <2>2, <2>3, <2>4 DEF WorkerStep
<1>4. ASSUME NEW p \in Process, StoreFails(p) \/ Crash(p) \/ Restart(p)
      PROVE  DisjointInv'
  <2>1. UNCHANGED vars \/ Leave(p, "error") \/ Leave(p, "out")
    BY <1>4 DEF StoreFails, GeneralizeFails, Crash, Restart
  <2> QED BY <1>1, <2>1, Workers, DisjointByLeaving
<1>5. ASSUME NEW o \in Operator, Request(o)
      PROVE  DisjointInv'
  BY <1>2, <1>5, Workers DEF Request
<1>6. ASSUME NEW o \in Operator, RequestStep(o)
      PROVE  DisjointInv'
  <2>1. GeneralizeStep(o) \/ Leave(o, "error") \/ Leave(o, "out")
    BY <1>6 DEF RequestStep, GeneralizeFails
  <2> QED BY <2>1, Workers, DisjointByGeneralizer, DisjointByLeaving
<1>7. CASE \/ \E e \in Rated, u \in RaisedTo : Feedback(e, u)
           \/ ExperienceChanges
  <2>1. UNCHANGED <<patternVars, at, localVars>>
    BY <1>7 DEF Feedback, ExperienceChanges
  <2> QED BY <2>1, DisjointKept DEF patternVars, localVars
<1>8. CASE \E f \in Family : FeedbackMarks(f)
  BY <1>1, <1>8 DEF FeedbackMarks
<1>9. CASE UNCHANGED allVars
  BY <1>1, <1>9 DEF allVars
<1> QED BY <1>3, <1>4, <1>5, <1>6, <1>7, <1>8, <1>9 DEF EvolutionNext

\* A generalizer that is alone with its cluster makes no pattern over an experience that a
\* finished pattern of the family rests on, however many others break off before and after it
\* (internal/experience/pattern_service.go, "Reuse an existing pattern that already covers this
\* cluster").
THEOREM Disjoint == EvolutionSpec => []PatternsDisjoint
<1>1. EvolutionInit => EvidenceInv /\ DisjointInv
  <2> SUFFICES ASSUME EvolutionInit PROVE EvidenceInv /\ DisjointInv
    OBVIOUS
  <2>1. EvidenceInv
    BY DEF EvolutionInit, PatternsInit, EvidenceInv, EvidenceComplete, EvidenceOf, DerivedOf,
           AtWriting
  <2>2. DisjointInv
    BY DEF EvolutionInit, PatternsInit, DisjointInv, Reading, AloneUnlessRaced, Generalizing,
           FoundFree, PatternsDisjoint
  <2> QED BY <2>1, <2>2
<1>2. TypeInv /\ IdleOutside /\ EvidenceInv /\ DisjointInv /\ [EvolutionNext]_allVars
        => EvidenceInv' /\ DisjointInv'
  BY EvidenceStep, DisjointStep
<1>3. DisjointInv => PatternsDisjoint
  BY DEF DisjointInv
<1> QED BY <1>1, <1>2, <1>3, TypeInvAlways, IdleAlways, PTL DEF EvolutionSpec

=============================================================================
