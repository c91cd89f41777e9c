---------------------------- MODULE EvolutionJobs ----------------------------
(***************************************************************************)
(* The background evolution of patterns (internal/evolutionjob/            *)
(* processor.go and storage/postgres/evolution_job_repository.go):         *)
(* feedback marks the family of an experience dirty, the worker of a       *)
(* server process claims dirty families and generalizes their experiences, *)
(* a crash leaves a job PROCESSING for a later process to recover.         *)
(*                                                                         *)
(* The clocks of the processor and of its repository are the method values *)
(* `time.Now().UTC', bound when they are made: within a process they       *)
(* always answer the time at which it was started.                         *)
(***************************************************************************)
EXTENDS Patterns

CONSTANTS
    Process,        \* the server processes, each with one worker
    Operator,       \* the manual evolution requests, served by any process
    StaleAfter,     \* how long a job may be PROCESSING
    BootGap,        \* the least time between two starts of a process
    Batch,          \* how many dirty families a sweep takes
    Rated, RaisedTo,   \* what feedback may be about and which utility it leads to
    ManualCluster,  \* the clusters an operator may ask for; smaller ones are refused
    Deprecable, Conflicting,   \* what supersession and conflict detection may find
    None,           \* not marked dirty, or no family
    MaxTime, MaxChanges, MaxRequests,
    MaxFaults       \* bounds: the failed calls and the crashes

ASSUME EvolutionAssumption ==
    /\ Generalizer = Process \cup Operator
    /\ Process \cap Operator = {}
    /\ StaleAfter \in Nat /\ BootGap \in Nat /\ MaxTime \in Nat
    /\ Batch \in Nat \ {0}
    /\ None \notin Family /\ None \notin Nat
    /\ Rated \subseteq Exp /\ RaisedTo \subseteq Nat
    /\ ManualCluster \subseteq {C \in Cluster : Cardinality(C) >= MinExperiences}
    /\ Deprecable \subseteq Exp
    /\ Conflicting \subseteq Pair

Time == 0..MaxTime

VARIABLES
    dirtyAt,    \* when a family was marked dirty, or None
    job,        \* the status of the evolution job of a family
    jobAt,      \* when the job was last written
    unmarked,   \* the families whose mark a feedback request has still to write
    loop,       \* where the worker of a process is
    boot,       \* when the process was started
    stale,      \* the stale jobs it has listed
    batch,      \* the dirty families it has listed, with the age of their mark
    group,      \* the family at hand
    changes, faults, requests,   \* how much of the bounds is used
    owed,       \* the families marked dirty since their last complete scan
    listed,     \* the workers that listed their family after its last mark
    stranded,   \* the jobs whose last write was lost by a process that lives on
    shared      \* the families two workers had at once when they were listed last

jobVars == <<dirtyAt, job, jobAt>>
workerVars == <<loop, boot, stale, batch, group>>
historyVars == <<owed, listed, stranded, shared>>
boundVars == <<changes, faults, requests>>
allVars == <<vars, jobVars, unmarked, workerVars, historyVars, boundVars>>

JobStatus == {"none", "PENDING", "PROCESSING", "APPLIED", "FAILED"}
LoopPlace == {"down", "idle", "recover", "redirty", "sweep", "upsert", "insert",
              "reset", "claim", "clear", "work"}

EvolutionTypeOK ==
    /\ PatternsTypeOK
    /\ dirtyAt \in [Family -> Time \cup {None}]
    /\ job \in [Family -> JobStatus]
    /\ jobAt \in [Family -> Time]
    /\ unmarked \subseteq Family
    /\ loop \in [Process -> LoopPlace]
    /\ boot \in [Process -> Time]
    /\ stale \in [Process -> SUBSET Family]
    /\ batch \in [Process -> SUBSET (Family \X Time)]
    /\ group \in [Process -> Family \cup {None}]
    /\ owed \subseteq Family
    /\ listed \subseteq Process
    /\ stranded \subseteq Family
    /\ shared \subseteq Family

EvolutionInit ==
    /\ PatternsInit
    /\ dirtyAt = [f \in Family |-> None]
    /\ job = [f \in Family |-> "none"]
    /\ jobAt = [f \in Family |-> 0]
    /\ unmarked = {}
    /\ loop = [p \in Process |-> "idle"]
    /\ boot = [p \in Process |-> 0]
    /\ stale = [p \in Process |-> {}]
    /\ batch = [p \in Process |-> {}]
    /\ group = [p \in Process |-> None]
    /\ owed = {} /\ listed = {} /\ stranded = {} /\ shared = {}
    /\ changes = 0 /\ faults = 0 /\ requests = 0

-----------------------------------------------------------------------------
(* The store, as the repository writes it.                                 *)

(* The clock of a process is the time of its start. *)
Now(p) == boot[p]

WriteJob(p, f, newStatus) ==
    /\ job' = [job EXCEPT ![f] = newStatus]
    /\ jobAt' = [jobAt EXCEPT ![f] = Now(p)]

\* Faulty: the bound is counted twice.
StaleJobsLate(p) ==
    {f \in Family : job[f] = "PROCESSING" /\ jobAt[f] < Now(p) - 2 * StaleAfter}

(* ListStaleProcessing: strictly older than the cutoff. *)
StaleJobs(p) ==
    {f \in Family : job[f] = "PROCESSING" /\ jobAt[f] < Now(p) - StaleAfter}

(* isStale, of the job a worker has just read: the bound itself included. *)
IsStale(p, f) == Now(p) - jobAt[f] >= StaleAfter

Dirty == {f \in Family : dirtyAt[f] # None}

(* ListDirty: the oldest marks, at most a batch of them. *)
Batches ==
    {S \in SUBSET Dirty :
        /\ Cardinality(S) = IF Cardinality(Dirty) < Batch
                            THEN Cardinality(Dirty) ELSE Batch
        /\ \A f \in S, g \in Dirty \ S : dirtyAt[f] <= dirtyAt[g]}

(* A worker has a family at hand, or left of its batch. *)
InSweep(p) == loop[p] \in {"upsert", "insert", "reset", "claim", "clear", "work"}
Holds(p, f) == (InSweep(p) /\ group[p] = f) \/ \E x \in batch[p] : x[1] = f

(* What a mark means: the scans that listed the family before are not what *)
(* it asks for; where no worker has the family, it is as good as new.      *)
MarkOwed(f) ==
    /\ owed' = owed \cup {f}
    /\ listed' = {q \in listed : group[q] # f}
    /\ shared' = IF \E q \in Process : Holds(q, f) THEN shared ELSE shared \ {f}

\* Faulty: a family whose job is PROCESSING needs no mark.
MarkDirtyUnlessRunning(p, f) ==
    /\ dirtyAt' = IF job[f] = "PROCESSING" THEN dirtyAt
                  ELSE [dirtyAt EXCEPT ![f] = Now(p)]
    /\ MarkOwed(f)

(* A mark takes the time of the process that writes it. *)
MarkDirty(p, f) ==
    /\ dirtyAt' = [dirtyAt EXCEPT ![f] = Now(p)]
    /\ MarkOwed(f)

-----------------------------------------------------------------------------
(* The loop of a worker.                                                   *)

GoLoop(p, place) == loop' = [loop EXCEPT ![p] = place]

(* Take the oldest family of those left of the batch, or end the sweep. *)
NextGroup(p, rest) ==
    IF rest = {}
    THEN /\ GoLoop(p, "idle")
         /\ batch' = [batch EXCEPT ![p] = {}]
         /\ group' = [group EXCEPT ![p] = None]
    ELSE \E oldest \in rest :
         /\ \A other \in rest : oldest[2] <= other[2]
         /\ GoLoop(p, "upsert")
         /\ batch' = [batch EXCEPT ![p] = rest \ {oldest}]
         /\ group' = [group EXCEPT ![p] = oldest[1]]

(* A tick of the loop, and the first thing a process does: list stale jobs. *)
ListStale(p) ==
    /\ loop[p] = "idle"
    /\ stale' = [stale EXCEPT ![p] = StaleJobs(p)]
    /\ GoLoop(p, IF StaleJobs(p) = {} THEN "sweep" ELSE "recover")
    /\ UNCHANGED <<vars, jobVars, unmarked, boot, batch, group, historyVars,
                   boundVars>>

(* RecoverStaleJobs marks a stale job FAILED ... *)
FailStale(p) ==
    /\ loop[p] = "recover"
    /\ \E f \in stale[p] :
        /\ WriteJob(p, f, "FAILED")
        /\ group' = [group EXCEPT ![p] = f]
    /\ GoLoop(p, "redirty")
    /\ UNCHANGED <<vars, dirtyAt, unmarked, boot, stale, batch, historyVars,
                   boundVars>>

(* ... and its family dirty again. *)
RedirtyStale(p) ==
    /\ loop[p] = "redirty"
    /\ MarkDirty(p, group[p])
    /\ stale' = [stale EXCEPT ![p] = @ \ {group[p]}]
    /\ group' = [group EXCEPT ![p] = None]
    /\ GoLoop(p, IF stale[p] = {group[p]} THEN "sweep" ELSE "recover")
    /\ UNCHANGED <<vars, job, jobAt, unmarked, boot, batch, stranded, boundVars>>

(* Sweep lists the dirty families, those another worker has among them. *)
ListDirty(p) ==
    /\ loop[p] = "sweep"
    /\ \E S \in Batches :
        /\ NextGroup(p, {<<f, dirtyAt[f]>> : f \in S})
        /\ shared' = (shared \ S) \cup {f \in S : \E q \in Process \ {p} : Holds(q, f)}
    /\ UNCHANGED <<vars, jobVars, unmarked, boot, stale, owed, listed, stranded, boundVars>>

(* UpsertPending reads the job; one that is PROCESSING is left alone unless *)
(* it is stale.                                                             *)
ReadJob(p) ==
    LET f == group[p] IN
    /\ loop[p] = "upsert"
    /\ IF job[f] = "PROCESSING" /\ ~IsStale(p, f)
       THEN NextGroup(p, batch[p])
       ELSE /\ GoLoop(p, CASE job[f] = "none" -> "insert"
                           [] job[f] = "PROCESSING" -> "claim"
                           [] OTHER -> "reset")
            /\ UNCHANGED <<batch, group>>
    /\ UNCHANGED <<vars, jobVars, unmarked, boot, stale, historyVars, boundVars>>

(* UpsertPending inserts the job; a row that came first ends the sweep. *)
InsertJob(p) ==
    /\ loop[p] = "insert"
    /\ IF job[group[p]] = "none"
       THEN /\ WriteJob(p, group[p], "PENDING")
            /\ GoLoop(p, "claim")
            /\ UNCHANGED <<batch, group>>
       ELSE /\ NextGroup(p, {})
            /\ UNCHANGED <<job, jobAt>>
    /\ UNCHANGED <<vars, dirtyAt, unmarked, boot, stale, historyVars, boundVars>>

(* UpsertPending resets the job, whatever it has become meanwhile. *)
ResetJob(p) ==
    /\ loop[p] = "reset"
    /\ WriteJob(p, group[p], "PENDING")
    /\ GoLoop(p, "claim")
    /\ UNCHANGED <<vars, dirtyAt, unmarked, boot, stale, batch, group,
                   historyVars, boundVars>>

MarkProcessing(p) ==
    /\ loop[p] = "claim"
    /\ WriteJob(p, group[p], "PROCESSING")
    /\ stranded' = stranded \ {group[p]}
    /\ GoLoop(p, "clear")
    /\ UNCHANGED <<vars, dirtyAt, unmarked, boot, stale, batch, group, owed,
                   listed, shared, boundVars>>

(* A write that may fail: it happens, or a fault takes it away. *)
WriteOrFault(write, unchanged) ==
    \/ write /\ UNCHANGED faults
    \/ faults < MaxFaults /\ faults' = faults + 1 /\ unchanged

(* ClearDirty, its error ignored, and the scan begins. *)
ClearDirty(p) ==
    /\ loop[p] = "clear"
    /\ WriteOrFault(dirtyAt' = [dirtyAt EXCEPT ![group[p]] = None], UNCHANGED dirtyAt)
    /\ Go(p, "list")
    /\ GoLoop(p, "work")
    /\ UNCHANGED <<expVars, patternVars, localVars, job, jobAt, unmarked, boot, stale,
                   batch, group, historyVars, changes, requests>>

(* The scan of the family. *)
Scan(p) ==
    /\ loop[p] = "work"
    /\ \/ List(p, group[p]) /\ listed' = listed \cup {p}
       \/ GeneralizeStep(p) /\ UNCHANGED listed
    /\ UNCHANGED <<jobVars, unmarked, workerVars, owed, stranded, shared, boundVars>>

(* The result is written.  Where the write fails, the sweep ends after a   *)
(* complete scan and goes on after a failed one; the job stays PROCESSING. *)
Settle(p, result, newStatus, onFault) ==
    /\ loop[p] = "work"
    /\ at[p] = result
    /\ \/ /\ WriteJob(p, group[p], newStatus)
          /\ owed' = IF result = "done" /\ p \in listed THEN owed \ {group[p]} ELSE owed
          /\ NextGroup(p, batch[p])
          /\ UNCHANGED <<stranded, faults>>
       \/ /\ faults < MaxFaults
          /\ faults' = faults + 1
          /\ stranded' = stranded \cup {group[p]}
          /\ NextGroup(p, onFault)
          /\ UNCHANGED <<job, jobAt, owed>>
    /\ listed' = listed \ {p}
    /\ Leave(p, "out")
    /\ UNCHANGED <<dirtyAt, unmarked, boot, stale, shared, changes, requests>>

MarkApplied(p) == Settle(p, "done", "APPLIED", {})
MarkFailed(p) == Settle(p, "error", "FAILED", batch[p])

(* A call of the store fails: recovery gives way to the sweep, the sweep   *)
(* to the next tick, the scan to a failed job.                             *)
StoreFails(p) ==
    /\ faults < MaxFaults
    /\ faults' = faults + 1
    /\ \/ /\ loop[p] \in {"recover", "redirty"}
          /\ GoLoop(p, "sweep")
          /\ stale' = [stale EXCEPT ![p] = {}]
          /\ group' = [group EXCEPT ![p] = None]
          /\ UNCHANGED <<vars, batch>>
       \/ /\ loop[p] \in {"upsert", "insert", "reset", "claim"}
          /\ NextGroup(p, {})
          /\ UNCHANGED <<vars, stale>>
       \/ /\ loop[p] = "work"
          /\ GeneralizeFails(p)
          /\ UNCHANGED <<loop, stale, batch, group>>
    /\ UNCHANGED <<jobVars, unmarked, boot, historyVars, changes, requests>>

WorkerStep(p) ==
    \/ ListStale(p) \/ FailStale(p) \/ RedirtyStale(p) \/ ListDirty(p) \/ ReadJob(p)
    \/ InsertJob(p) \/ ResetJob(p) \/ MarkProcessing(p) \/ ClearDirty(p) \/ Scan(p)
    \/ MarkApplied(p) \/ MarkFailed(p)

-----------------------------------------------------------------------------
(* Processes and requests.                                                 *)

(* A process dies: its worker stops where it is. *)
Crash(p) ==
    /\ loop[p] # "down" /\ faults < MaxFaults
    /\ faults' = faults + 1
    /\ GoLoop(p, "down")
    /\ stale' = [stale EXCEPT ![p] = {}]
    /\ batch' = [batch EXCEPT ![p] = {}]
    /\ group' = [group EXCEPT ![p] = None]
    /\ stranded' = {}
    /\ listed' = listed \ {p}
    /\ Leave(p, "out")
    /\ UNCHANGED <<jobVars, unmarked, boot, owed, shared, changes, requests>>

(* It starts again, at some later time; its clocks are bound to this time. *)
Restart(p) ==
    /\ loop[p] = "down"
    /\ \E t \in boot[p] + BootGap..MaxTime : boot' = [boot EXCEPT ![p] = t]
    /\ GoLoop(p, "idle")
    /\ UNCHANGED <<vars, jobVars, unmarked, stale, batch, group, historyVars,
                   boundVars>>

(* An operator asks for one cluster, or for a scan of the whole tenant. *)
Request(o) ==
    /\ at[o] = "out" /\ requests < MaxRequests
    /\ requests' = requests + 1
    /\ \/ \E C \in ManualCluster : TakeUp(o, {C})
       \/ TakeUp(o, Clusters(UNION {Candidates(f) : f \in Family}))
    /\ UNCHANGED <<expVars, patternVars, jobVars, unmarked, workerVars,
                   historyVars, changes, faults>>

(* The request goes on, fails, or is answered. *)
RequestStep(o) ==
    /\ \/ GeneralizeStep(o) /\ UNCHANGED faults
       \/ faults < MaxFaults /\ faults' = faults + 1 /\ GeneralizeFails(o)
       \/ at[o] \in {"done", "error"} /\ Leave(o, "out") /\ UNCHANGED faults
    /\ UNCHANGED <<jobVars, unmarked, workerVars, historyVars, changes, requests>>

(* Feedback changes the utility of an experience; where it is ACTIVE and   *)
(* useful enough, the request goes on to mark its family.                  *)
Feedback(e, u) ==
    /\ changes < MaxChanges /\ changes' = changes + 1
    /\ SetUtility(e, u)
    /\ unmarked' = IF status[e] = "ACTIVE" /\ u >= MinUtility
                   THEN unmarked \cup {FamilyOf[e]} ELSE unmarked
    /\ UNCHANGED <<patternVars, at, localVars, jobVars, workerVars, historyVars,
                   faults, requests>>

(* The mark is written, or its error is ignored. *)
FeedbackMarks(f) ==
    /\ f \in unmarked
    /\ unmarked' = unmarked \ {f}
    /\ \E p \in Process :
        /\ loop[p] # "down"
        /\ WriteOrFault(MarkDirty(p, f), UNCHANGED <<dirtyAt, owed, listed, shared>>)
    /\ UNCHANGED <<vars, job, jobAt, workerVars, stranded, changes, requests>>

(* Supersession and conflict detection change experiences meanwhile. *)
ExperienceChanges ==
    /\ changes < MaxChanges /\ changes' = changes + 1
    /\ \/ \E e \in Deprecable : Deprecate(e)
       \/ \E pair \in Conflicting : RecordConflict(pair)
    /\ UNCHANGED <<patternVars, at, localVars, jobVars, unmarked, workerVars,
                   historyVars, faults, requests>>

EvolutionNext ==
    \/ \E p \in Process : WorkerStep(p) \/ StoreFails(p) \/ Crash(p) \/ Restart(p)
    \/ \E o \in Operator : Request(o) \/ RequestStep(o)
    \/ \E e \in Rated, u \in RaisedTo : Feedback(e, u)
    \/ \E f \in Family : FeedbackMarks(f)
    \/ ExperienceChanges

(* A server process runs its worker as long as it lives, and is started    *)
(* again.                                                                  *)
EvolutionFairness ==
    /\ \A p \in Process : WF_allVars(WorkerStep(p)) /\ WF_allVars(Restart(p))

EvolutionSpec == EvolutionInit /\ [][EvolutionNext]_allVars /\ EvolutionFairness

-----------------------------------------------------------------------------
(* What evolution jobs promise.                                            *)

(* A dirty mark is never lost without a trace: until a scan that began     *)
(* after the mark is complete, the family is dirty, its job is PROCESSING  *)
(* or its job says FAILED (processor.go ProcessGroup: ClearDirty before    *)
(* the work, its error ignored).  Excused is a family that a process listed*)
(* while another one had it, until it is listed, or marked, by itself: two *)
(* that work on one family hide each other's result.                       *)
NoMarkForgotten ==
    \A f \in owed \ shared : f \in Dirty \/ job[f] \in {"PROCESSING", "FAILED"}

(* A job does not stay PROCESSING for ever, nor a family dirty, unless the *)
(* result of the job was lost by a process that lives on, which never      *)
(* recovers it ("Stale `PROCESSING` jobs are recovered on startup and      *)
(* during the sweep loop").                                                *)
JobsSettle ==
    \A f \in Family :
        []<>(f \in stranded \/ (job[f] # "PROCESSING" /\ f \notin Dirty))

=============================================================================
