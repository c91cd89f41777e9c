--------------------------- MODULE EpisodeLearning ---------------------------
(***************************************************************************)
(* An episode of an agent's work and the job that learns from it           *)
(* (internal/episode/service.go, internal/episodelearn/processor.go, the   *)
(* handlers of api/http/episodes.go and the Postgres repositories).        *)
(*                                                                         *)
(* A request is a client's place in its handler; every read and every      *)
(* write of the store is a step of its own, none of them in a transaction  *)
(* with another.  Servers crash between any two steps, and every call may  *)
(* fail.  Experiences are not in this module: a completed store pipeline   *)
(* is remembered as the set of attempts it learnt from.                    *)
(*                                                                         *)
(* The processor reads the clock; the repository of its jobs writes the    *)
(* method value `time.Now().UTC', bound when the server started.           *)
(***************************************************************************)
EXTENDS Integers, FiniteSets, FiniteSetsExt

CONSTANTS
    Episode, Server,
    Client,        \* the requests that can be under way at the same time
    ServerOf,      \* the server that serves a client
    TerminalStatus,    \* SUCCESS, PARTIAL, FAILED, CANCELLED
    GivenSequence,     \* the sequence numbers callers may ask for
    StaleAfter,        \* how long a job may be PROCESSING
    None,              \* no outcome, no episode
    MaxSequence, MaxTime,
    MaxFaults          \* bounds; failed calls and crashes are faults

ASSUME EpisodeAssumption ==
    /\ ServerOf \in [Client -> Server]
    /\ None \notin Episode /\ None \notin TerminalStatus
    /\ TerminalStatus \cap {"none", "RUNNING"} = {}
    /\ StaleAfter \in Nat /\ MaxTime \in Nat /\ MaxFaults \in Nat
    /\ MaxSequence \in Nat
    /\ GivenSequence \subseteq 1..MaxSequence

Time == 0..MaxTime
Sequence == 1..MaxSequence

VARIABLES
    status,     \* of an episode; "none" before it is created
    outcome,    \* the status its outcome row records, or None
    attempts,   \* the sequence numbers of its attempt rows
    job, jobAt, \* its learning job and when that was last written
    at,         \* where a client's request is
    on,         \* the episode it is about, or None
    as,         \* the terminal status it reports, or None
    seq,        \* the sequence number it will insert, 0 if none
    seen,       \* the attempts it has listed
    up,         \* whether a server is down, recovering or up
    boot,       \* when it was started
    stale,      \* the stale jobs it has listed at its start
    clock, faults,
    closedWith, \* history: its attempts at the moment it was closed
    lessons     \* history: the attempts each completed pipeline learnt from

rowVars == <<status, outcome, attempts, job, jobAt>>
requestVars == <<at, on, as, seq, seen>>
serverVars == <<up, boot, stale>>
envVars == <<clock, faults>>
historyVars == <<closedWith, lessons>>
vars == <<rowVars, requestVars, serverVars, envVars, historyVars>>

JobStatus == {"none", "PENDING", "PROCESSING", "APPLIED", "FAILED"}
Place == {"idle",
          "number", "insert",                              \* AddAttempt
          "check", "record", "close", "list",              \* CompleteEpisode
          "relist", "decide", "requeue",                   \* Retry
          "upsert", "reset", "enqueue", "start",           \* Process
          "pipeline", "apply", "fail"}

EpisodeTypeOK ==
    /\ status \in [Episode -> {"none", "RUNNING"} \cup TerminalStatus]
    /\ outcome \in [Episode -> TerminalStatus \cup {None}]
    /\ attempts \in [Episode -> SUBSET Sequence]
    /\ job \in [Episode -> JobStatus]
    /\ jobAt \in [Episode -> Time]
    /\ at \in [Client -> Place]
    /\ on \in [Client -> Episode \cup {None}]
    /\ as \in [Client -> TerminalStatus \cup {None}]
    /\ seq \in [Client -> 0..MaxSequence]
    /\ seen \in [Client -> SUBSET Sequence]
    /\ up \in [Server -> {"down", "recovering", "up"}]
    /\ boot \in [Server -> Time]
    /\ stale \in [Server -> SUBSET Episode]
    /\ clock \in Time /\ faults \in 0..MaxFaults
    /\ closedWith \in [Episode -> SUBSET Sequence]
    /\ lessons \in [Episode -> SUBSET SUBSET Sequence]

Init ==
    /\ status = [e \in Episode |-> "none"]
    /\ outcome = [e \in Episode |-> None]
    /\ attempts = [e \in Episode |-> {}]
    /\ job = [e \in Episode |-> "none"]
    /\ jobAt = [e \in Episode |-> 0]
    /\ at = [c \in Client |-> "idle"]
    /\ on = [c \in Client |-> None]
    /\ as = [c \in Client |-> None]
    /\ seq = [c \in Client |-> 0]
    /\ seen = [c \in Client |-> {}]
    /\ up = [s \in Server |-> "up"]
    /\ boot = [s \in Server |-> 0]
    /\ stale = [s \in Server |-> {}]
    /\ clock = 0 /\ faults = 0
    /\ closedWith = [e \in Episode |-> {}]
    /\ lessons = [e \in Episode |-> {}]

-----------------------------------------------------------------------------
(* Requests.                                                               *)

Closed(e) == status[e] \in TerminalStatus

Go(c, place) == at' = [at EXCEPT ![c] = place]

(* A free client's request arrives at a server that is up. *)
Ask(c, e, place) ==
    /\ at[c] = "idle" /\ up[ServerOf[c]] = "up"
    /\ Go(c, place)
    /\ on' = [on EXCEPT ![c] = e]
    /\ UNCHANGED <<serverVars, envVars>>

Answer(c) ==
    /\ Go(c, "idle")
    /\ on' = [on EXCEPT ![c] = None]
    /\ as' = [as EXCEPT ![c] = None]
    /\ seq' = [seq EXCEPT ![c] = 0]
    /\ seen' = [seen EXCEPT ![c] = {}]
    /\ UNCHANGED <<serverVars, envVars>>

(* The request of c at `place' goes on to `next'. *)
Advance(c, place, next) ==
    /\ at[c] = place
    /\ Go(c, next)
    /\ UNCHANGED <<on, as, serverVars, envVars>>

-----------------------------------------------------------------------------
(* The episode and its attempts.                                           *)

InsertEpisode(e) == status' = [status EXCEPT ![e] = "RUNNING"]

CreateEpisode(c, e) ==
    /\ at[c] = "idle" /\ up[ServerOf[c]] = "up"
    /\ status[e] = "none"
    /\ InsertEpisode(e)
    /\ UNCHANGED <<outcome, attempts, job, jobAt, requestVars, serverVars,
                   envVars, historyVars>>

(* GetEpisode of AddAttempt: an attempt is taken while the episode is      *)
(* RUNNING at this read.                                                   *)
AskAttempt(c, e, number) ==
    /\ status[e] = "RUNNING"
    /\ Ask(c, e, IF number = 0 THEN "number" ELSE "insert")
    /\ seq' = [seq EXCEPT ![c] = number]
    /\ UNCHANGED <<rowVars, as, seen, historyVars>>

NextAttemptSequence(e) == Max({0} \cup attempts[e]) + 1

(* A number beyond the bound is given up. *)
NumberAttempt(c) ==
    LET next == NextAttemptSequence(on[c]) IN
    /\ at[c] = "number"
    /\ IF next \in Sequence
       THEN /\ Advance(c, "number", "insert")
            /\ seq' = [seq EXCEPT ![c] = next]
            /\ UNCHANGED seen
       ELSE Answer(c)
    /\ UNCHANGED <<rowVars, historyVars>>

(* The index (episode_id, sequence) refuses a number that is taken; the    *)
(* request then fails and is not repeated.                                 *)
InsertAttempt(c) ==
    /\ at[c] = "insert"
    /\ IF seq[c] \in attempts[on[c]]
       THEN UNCHANGED attempts
       ELSE attempts' = [attempts EXCEPT ![on[c]] = @ \cup {seq[c]}]
    /\ Answer(c)
    /\ UNCHANGED <<status, outcome, job, jobAt, closedWith, lessons>>

-----------------------------------------------------------------------------
(* The completion of an episode.                                           *)

AskComplete(c, e, s) ==
    /\ status[e] = "RUNNING"
    /\ Ask(c, e, "check")
    /\ as' = [as EXCEPT ![c] = s]
    /\ UNCHANGED <<rowVars, seq, seen, historyVars>>

(* GetOutcome: a completion that failed half way has left its outcome.     *)
RefuseOutcome(c) ==
    /\ at[c] = "check" /\ outcome[on[c]] # None
    /\ Answer(c)
    /\ UNCHANGED <<rowVars, historyVars>>

CheckOutcome(c) ==
    /\ Advance(c, "check", "record")
    /\ outcome[on[c]] = None
    /\ UNCHANGED <<rowVars, seq, seen, historyVars>>

\* Faulty: the insert replaces the outcome that is there.
RecordOutcomeUnindexed(c) ==
    /\ Advance(c, "record", "close")
    /\ outcome' = [outcome EXCEPT ![on[c]] = as[c]]
    /\ UNCHANGED <<status, attempts, job, jobAt, seq, seen, historyVars>>

(* CreateOutcome, with one outcome per episode. *)
RecordOutcome(c) ==
    /\ Advance(c, "record", "close")
    /\ outcome[on[c]] = None
    /\ outcome' = [outcome EXCEPT ![on[c]] = as[c]]
    /\ UNCHANGED <<status, attempts, job, jobAt, seq, seen, historyVars>>

OutcomeTaken(c) ==
    /\ at[c] = "record" /\ outcome[on[c]] # None
    /\ Answer(c)
    /\ UNCHANGED <<rowVars, historyVars>>

UpdateEpisode(e, s) == status' = [status EXCEPT ![e] = s]

\* Faulty: the attempts are listed before the episode is closed.
CloseEpisodeListed(c) ==
    /\ \/ /\ at[c] = "close" /\ status[on[c]] = "RUNNING" /\ seen[c] = {}
          /\ seen' = [seen EXCEPT ![c] = attempts[on[c]]]
          /\ UNCHANGED <<status, at, on, as, closedWith, serverVars, envVars>>
       \/ /\ seen[c] # {}
          /\ UpdateEpisode(on[c], as[c])
          /\ Advance(c, "close", "upsert")
          /\ closedWith' = [closedWith EXCEPT ![on[c]] = attempts[on[c]]]
          /\ UNCHANGED seen
    /\ UNCHANGED <<outcome, attempts, job, jobAt, seq, lessons>>

CloseEpisode(c) ==
    /\ Advance(c, "close", "list")
    /\ UpdateEpisode(on[c], as[c])
    /\ closedWith' = [closedWith EXCEPT ![on[c]] = attempts[on[c]]]
    /\ UNCHANGED <<outcome, attempts, job, jobAt, seq, seen, lessons>>

ListAttempts(c, place, next) ==
    /\ Advance(c, place, next)
    /\ seen' = [seen EXCEPT ![c] = attempts[on[c]]]
    /\ UNCHANGED <<rowVars, seq, historyVars>>

(* The handler lists the attempts of the episode it closed, for Process.   *)
ListForLearning(c) == ListAttempts(c, "list", "upsert")

-----------------------------------------------------------------------------
(* The learning job: Process of the episode learning processor.            *)

(* The repository's clock is that of the start of the server. *)
WriteJob(c, e, newStatus) ==
    /\ job' = [job EXCEPT ![e] = newStatus]
    /\ jobAt' = [jobAt EXCEPT ![e] = boot[ServerOf[c]]]
    /\ UNCHANGED <<status, outcome, attempts>>

(* UpsertPending reads the job, and leaves an APPLIED one as it is; but    *)
(* Process goes on and marks it PROCESSING all the same.                   *)
UpsertPending(c) ==
    /\ at[c] = "upsert"
    /\ Advance(c, "upsert", CASE job[on[c]] = "APPLIED" -> "start"
                              [] job[on[c]] = "none" -> "enqueue"
                              [] OTHER -> "reset")
    /\ UNCHANGED <<rowVars, seq, seen, historyVars>>

ResetPending(c) ==
    /\ Advance(c, "reset", "start")
    /\ WriteJob(c, on[c], "PENDING")
    /\ UNCHANGED <<seq, seen, historyVars>>

(* One job per episode.  No other request inserts it meanwhile: only the   *)
(* completion finds none, and it is alone in having closed the episode.    *)
InsertPending(c) ==
    /\ Advance(c, "enqueue", "start")
    /\ job[on[c]] = "none"
    /\ WriteJob(c, on[c], "PENDING")
    /\ UNCHANGED <<seq, seen, historyVars>>

MarkProcessing(c) ==
    /\ Advance(c, "start", "pipeline")
    /\ WriteJob(c, on[c], "PROCESSING")
    /\ UNCHANGED <<seq, seen, historyVars>>

\* Faulty: an extraction that fails is taken for one without lessons.
RunPipelineLeniently(c) ==
    /\ Advance(c, "pipeline", "apply")
    /\ \/ lessons' = [lessons EXCEPT ![on[c]] = @ \cup {seen[c]}]
       \/ UNCHANGED lessons
    /\ UNCHANGED <<rowVars, seq, seen, closedWith>>

(* Extraction and the store pipeline, when they succeed. *)
RunPipeline(c) ==
    /\ Advance(c, "pipeline", "apply")
    /\ lessons' = [lessons EXCEPT ![on[c]] = @ \cup {seen[c]}]
    /\ UNCHANGED <<rowVars, seq, seen, closedWith>>

MarkApplied(c) ==
    /\ at[c] = "apply"
    /\ WriteJob(c, on[c], "APPLIED")
    /\ Answer(c)
    /\ UNCHANGED historyVars

MarkFailed(c) ==
    /\ at[c] = "fail"
    /\ WriteJob(c, on[c], "FAILED")
    /\ Answer(c)
    /\ UNCHANGED historyVars

-----------------------------------------------------------------------------
(* The retry of a job.                                                     *)

(* GetEpisode of the handler: the episode must be completed. *)
AskRetry(c, e) ==
    /\ Closed(e)
    /\ Ask(c, e, "relist")
    /\ UNCHANGED <<rowVars, as, seq, seen, historyVars>>

ListForRetry(c) == ListAttempts(c, "relist", "decide")

\* Faulty: the processor's clock is bound at its start, as the repository's.
IsStaleAtBoot(e) == \E s \in Server : boot[s] - jobAt[e] >= StaleAfter

(* isStale: the processor's clock moves, the job's time is the start of    *)
(* the server that wrote it.                                               *)
IsStale(e) == clock - jobAt[e] >= StaleAfter

(* GetOutcome, which a closed episode has for good, and GetByEpisode.  A   *)
(* job that is not there, APPLIED or freshly PROCESSING ends the request.  *)
Decide(c) ==
    LET e == on[c] IN
    /\ at[c] = "decide"
    /\ CASE job[e] \in {"FAILED", "PENDING"} ->
                Advance(c, "decide", "upsert") /\ UNCHANGED <<seq, seen>>
         [] job[e] = "PROCESSING" /\ IsStale(e) ->
                Advance(c, "decide", "requeue") /\ UNCHANGED <<seq, seen>>
         [] OTHER -> Answer(c)
    /\ UNCHANGED <<rowVars, historyVars>>

(* A stale job is marked FAILED, whatever it has become, and processed. *)
Requeue(c) ==
    /\ Advance(c, "requeue", "upsert")
    /\ WriteJob(c, on[c], "FAILED")
    /\ UNCHANGED <<seq, seen, historyVars>>

-----------------------------------------------------------------------------
(* Failures, crashes and the start of a server.                            *)

Fault == faults < MaxFaults /\ faults' = faults + 1

(* The extractor or the store pipeline fails, before it wrote anything or  *)
(* after it wrote some.                                                    *)
PipelineFails(c) ==
    /\ Fault
    /\ at[c] = "pipeline"
    /\ Go(c, "fail")
    /\ UNCHANGED <<rowVars, on, as, seq, seen, serverVars, clock, historyVars>>

(* Any other call of the store fails: the request ends with an error, that *)
(* of MarkFailed unseen.                                                   *)
CallFails(c) ==
    /\ Fault
    /\ at[c] \notin {"idle", "pipeline"}
    /\ Go(c, "idle")
    /\ on' = [on EXCEPT ![c] = None]
    /\ as' = [as EXCEPT ![c] = None]
    /\ seq' = [seq EXCEPT ![c] = 0]
    /\ seen' = [seen EXCEPT ![c] = {}]
    /\ UNCHANGED <<rowVars, serverVars, clock, historyVars>>

(* Servers crash while the bounded clock leaves room for the jobs of the   *)
(* next start to become stale.                                             *)
Crash(s) ==
    LET Alive(c) == ServerOf[c] # s IN
    /\ Fault
    /\ up[s] # "down" /\ clock + StaleAfter <= MaxTime
    /\ up' = [up EXCEPT ![s] = "down"]
    /\ stale' = [stale EXCEPT ![s] = {}]
    /\ at' = [c \in Client |-> IF Alive(c) THEN at[c] ELSE "idle"]
    /\ on' = [c \in Client |-> IF Alive(c) THEN on[c] ELSE None]
    /\ as' = [c \in Client |-> IF Alive(c) THEN as[c] ELSE None]
    /\ seq' = [c \in Client |-> IF Alive(c) THEN seq[c] ELSE 0]
    /\ seen' = [c \in Client |-> IF Alive(c) THEN seen[c] ELSE {}]
    /\ UNCHANGED <<rowVars, boot, clock, historyVars>>

ListStaleProcessing ==
    {e \in Episode : job[e] = "PROCESSING" /\ jobAt[e] < clock - StaleAfter}

(* The start of a server, RecoverStaleJobs before it serves requests.      *)
Start(s) ==
    /\ up[s] = "down"
    /\ boot' = [boot EXCEPT ![s] = clock]
    /\ stale' = [stale EXCEPT ![s] = ListStaleProcessing]
    /\ up' = [up EXCEPT ![s] = IF ListStaleProcessing = {} THEN "up"
                               ELSE "recovering"]
    /\ UNCHANGED <<rowVars, requestVars, envVars, historyVars>>

RecoverOne(s) ==
    /\ up[s] = "recovering"
    /\ \E e \in stale[s] :
        /\ job' = [job EXCEPT ![e] = "FAILED"]
        /\ jobAt' = [jobAt EXCEPT ![e] = boot[s]]
        /\ stale' = [stale EXCEPT ![s] = @ \ {e}]
        /\ up' = [up EXCEPT ![s] = IF stale[s] = {e} THEN "up" ELSE @]
    /\ UNCHANGED <<status, outcome, attempts, requestVars, boot, envVars,
                   historyVars>>

Tick ==
    /\ clock < MaxTime
    /\ clock + StaleAfter >= MaxTime => \A s \in Server : up[s] # "down"
    /\ clock' = clock + 1
    /\ UNCHANGED <<rowVars, requestVars, serverVars, faults, historyVars>>

-----------------------------------------------------------------------------

RequestStep(c) ==
    \/ NumberAttempt(c) \/ InsertAttempt(c)
    \/ RefuseOutcome(c) \/ CheckOutcome(c) \/ RecordOutcome(c)
    \/ OutcomeTaken(c) \/ CloseEpisode(c) \/ ListForLearning(c)
    \/ ListForRetry(c) \/ Decide(c) \/ Requeue(c)
    \/ UpsertPending(c) \/ ResetPending(c) \/ InsertPending(c)
    \/ MarkProcessing(c) \/ RunPipeline(c) \/ MarkApplied(c) \/ MarkFailed(c)

Request(c, e) ==
    \/ CreateEpisode(c, e)
    \/ \E n \in {0} \cup GivenSequence : AskAttempt(c, e, n)
    \/ \E s \in TerminalStatus : AskComplete(c, e, s)
    \/ AskRetry(c, e)

ServerStep(s) == Start(s) \/ RecoverOne(s)

Next ==
    \/ \E c \in Client : RequestStep(c) \/ PipelineFails(c) \/ CallFails(c)
    \/ \E c \in Client, e \in Episode : Request(c, e)
    \/ \E s \in Server : ServerStep(s) \/ Crash(s)
    \/ Tick

(* Handlers run to their end, a server that died is started again, time    *)
(* passes, and somebody keeps asking for the retry of an episode.          *)
Fairness ==
    /\ \A c \in Client : WF_vars(RequestStep(c))
    /\ \A s \in Server : WF_vars(ServerStep(s))
    /\ \A e \in Episode : WF_vars(\E c \in Client : AskRetry(c, e))
    /\ WF_vars(Tick)

Spec == Init /\ [][Next]_vars /\ Fairness

-----------------------------------------------------------------------------
(* Properties.                                                             *)

(* An episode that is closed ended the way its outcome row says, although  *)
(* completions read it before they write the one and then the other.       *)
ClosedAsRecorded ==
    \A e \in Episode : Closed(e) => outcome[e] = status[e]

(* A pipeline learns from every attempt there was when the episode was     *)
(* closed: attempts race with the completion and its listing.              *)
LessonsComplete ==
    \A e \in Episode : \A l \in lessons[e] : closedWith[e] \subseteq l

(* An APPLIED job has been learnt from, whichever requests, recoveries and *)
(* crashes wrote the job in between.                                       *)
AppliedIsLearnt ==
    \A e \in Episode : job[e] = "APPLIED" => lessons[e] # {}

(* A job that exists is APPLIED in the end: abandoned by a crash, failed,  *)
(* or requeued under a pipeline that was still running.                    *)
JobsApplied ==
    \A e \in Episode : [](job[e] # "none" => <>(job[e] = "APPLIED"))

=============================================================================
