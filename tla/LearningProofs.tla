--------------------------- MODULE LearningProofs ---------------------------
(***************************************************************************)
(* What is learnt, and by whom.                                            *)
(*                                                                         *)
(* First EpisodeLearning, for any number of episodes, servers and          *)
(* requests, and any number of failed calls and crashes: how an episode is *)
(* closed, and what was learnt from it.  Then Attribution, for any         *)
(* experiences, patterns, versions and feedbacks: who learns from a        *)
(* reward, how much, and what that does to a utility.                      *)
(***************************************************************************)
EXTENDS EpisodeLearning, Attribution, FiniteSetTheorems, WellFoundedInduction, TLAPS

RowTypes ==
    /\ status \in [Episode -> {"none", "RUNNING"} \cup TerminalStatus]
    /\ outcome \in [Episode -> TerminalStatus \cup {None}]
    /\ attempts \in [Episode -> SUBSET Sequence]
    /\ job \in [Episode -> JobStatus]
    /\ jobAt \in [Episode -> Time]

RequestTypes ==
    /\ at \in [Client -> Place]
    /\ on \in [Client -> Episode \cup {None}]
    /\ as \in [Client -> TerminalStatus \cup {None}]
    /\ seq \in [Client -> 0..MaxSequence]
    /\ seen \in [Client -> SUBSET Sequence]

ServerTypes ==
    /\ up \in [Server -> {"down", "recovering", "up"}]
    /\ boot \in [Server -> Time]
    /\ stale \in [Server -> SUBSET Episode]
    /\ clock \in Time /\ faults \in 0..MaxFaults

HistoryTypes ==
    /\ closedWith \in [Episode -> SUBSET Sequence]
    /\ lessons \in [Episode -> SUBSET SUBSET Sequence]

LEMMA TypesInParts ==
    EpisodeTypeOK <=> RowTypes /\ RequestTypes /\ ServerTypes /\ HistoryTypes
BY DEF EpisodeTypeOK, RowTypes, RequestTypes, ServerTypes, HistoryTypes

\* A request that is under way is about an episode; where it completes it, it carries a terminal
\* status, where it inserts an attempt, a number.
AtWork ==
    \A c \in Client :
        /\ at[c] # "idle" => on[c] \in Episode
        /\ at[c] \in {"check", "record", "close"} => as[c] \in TerminalStatus
        /\ at[c] = "insert" => seq[c] \in Sequence

TypeInv == RowTypes /\ RequestTypes /\ ServerTypes /\ HistoryTypes /\ AtWork

LEMMA TypeInvInit == Init => TypeInv
<1> SUFFICES ASSUME Init PROVE TypeInv
  OBVIOUS
<1>1. RowTypes
  BY EpisodeAssumption DEF EpisodeAssumption, Init, RowTypes, JobStatus, Time
<1>2. RequestTypes
  BY EpisodeAssumption DEF EpisodeAssumption, Init, RequestTypes, Place
<1>3. ServerTypes
  BY EpisodeAssumption DEF EpisodeAssumption, Init, ServerTypes, Time
<1>4. HistoryTypes
  BY DEF Init, HistoryTypes
<1>5. AtWork
  BY DEF Init, AtWork
<1> QED BY <1>1, <1>2, <1>3, <1>4, <1>5 DEF TypeInv

-----------------------------------------------------------------------------
(* Types.                                                                  *)

\* A request that is answered is idle.
LEMMA AnswerTypes ==
  ASSUME TypeInv, NEW c \in Client, Answer(c)
  PROVE  RequestTypes' /\ ServerTypes' /\ AtWork'
<1>1. RequestTypes'
  <2>1. at' \in [Client -> Place]
    BY DEF TypeInv, RequestTypes, Answer, Go, Place
  <2>2. on' \in [Client -> Episode \cup {None}]
    BY DEF TypeInv, RequestTypes, Answer
  <2>3. as' \in [Client -> TerminalStatus \cup {None}]
    BY DEF TypeInv, RequestTypes, Answer
  <2>4. seq' \in [Client -> 0..MaxSequence]
    BY EpisodeAssumption DEF EpisodeAssumption, TypeInv, RequestTypes, Answer
  <2>5. seen' \in [Client -> SUBSET Sequence]
    BY DEF TypeInv, RequestTypes, Answer
  <2> QED BY <2>1, <2>2, <2>3, <2>4, <2>5 DEF RequestTypes
<1>2. ServerTypes'
  BY DEF TypeInv, ServerTypes, Answer, serverVars, envVars
<1>3. AtWork'
  BY DEF TypeInv, RequestTypes, AtWork, Answer, Go
<1> QED BY <1>1, <1>2, <1>3

\* A request that goes on keeps what it is about.
LEMMA AdvanceTypes ==
  ASSUME TypeInv, NEW c \in Client, NEW place \in Place \ {"idle"},
         NEW next \in Place \ {"idle", "insert"},
         next \in {"record", "close"} => place \in {"check", "record"}, next # "check",
         Advance(c, place, next), seq' = seq, seen' \in [Client -> SUBSET Sequence]
  PROVE  RequestTypes' /\ ServerTypes' /\ AtWork'
<1>1. RequestTypes'
  BY DEF TypeInv, RequestTypes, Advance, Go
<1>2. ServerTypes'
  BY DEF TypeInv, ServerTypes, Advance, serverVars, envVars
<1>3. AtWork'
  BY DEF TypeInv, RequestTypes, AtWork, Advance, Go
<1> QED BY <1>1, <1>2, <1>3

LEMMA AskTypes ==
  ASSUME TypeInv, NEW c \in Client, NEW e \in Episode,
         NEW place \in {"number", "insert", "check", "relist"}, Ask(c, e, place),
         as' \in [Client -> TerminalStatus \cup {None}],
         seq' \in [Client -> 0..MaxSequence], seen' = seen,
         \A d \in Client \ {c} : as'[d] = as[d] /\ seq'[d] = seq[d],
         place = "check" => as'[c] \in TerminalStatus,
         place = "insert" => seq'[c] \in Sequence
  PROVE  RequestTypes' /\ ServerTypes' /\ AtWork'
<1>1. RequestTypes'
  BY DEF TypeInv, RequestTypes, Ask, Go, Place
<1>2. ServerTypes'
  BY DEF TypeInv, ServerTypes, Ask, serverVars, envVars
<1>3. AtWork'
  BY DEF TypeInv, RequestTypes, AtWork, Ask, Go
<1> QED BY <1>1, <1>2, <1>3

LEMMA WriteJobTypes ==
  ASSUME TypeInv, NEW c \in Client, NEW e \in Episode, NEW s \in JobStatus, WriteJob(c, e, s)
  PROVE  RowTypes'
BY EpisodeAssumption DEF EpisodeAssumption, TypeInv, RowTypes, ServerTypes, WriteJob

LEMMA UnchangedTypes ==
  ASSUME TypeInv
  PROVE  /\ UNCHANGED rowVars => RowTypes'
         /\ UNCHANGED requestVars => RequestTypes' /\ AtWork'
         /\ UNCHANGED <<serverVars, envVars>> => ServerTypes'
         /\ UNCHANGED historyVars => HistoryTypes'
BY DEF TypeInv, RowTypes, RequestTypes, ServerTypes, HistoryTypes, AtWork,
       rowVars, requestVars, serverVars, envVars, historyVars

LEMMA RequestStepTypes ==
  ASSUME TypeInv, NEW c \in Client, RequestStep(c)
  PROVE  TypeInv'
<1> USE UnchangedTypes DEF rowVars
<1>0. at[c] # "idle" => on[c] \in Episode
  BY DEF TypeInv, AtWork
<1>1. CASE NumberAttempt(c)
  <2>1. RowTypes' /\ HistoryTypes'
    BY <1>1 DEF NumberAttempt
  <2>2. CASE Answer(c)
    BY <2>1, <2>2, AnswerTypes DEF TypeInv
  <2>3. CASE ~ Answer(c)
    <3> DEFINE next == NextAttemptSequence(on[c])
    <3> HIDE DEF next
    <3>1. /\ next \in Sequence /\ Advance(c, "number", "insert")
          /\ seq' = [seq EXCEPT ![c] = next] /\ UNCHANGED seen
      BY <1>1, <2>3 DEF NumberAttempt, next
    <3>2. RequestTypes'
      <4>1. at' \in [Client -> Place]
        BY <3>1 DEF TypeInv, RequestTypes, Advance, Go, Place
      <4>2. next \in 0..MaxSequence
        BY <3>1, EpisodeAssumption DEF EpisodeAssumption, Sequence
      <4>3. seq' \in [Client -> 0..MaxSequence]
        BY <3>1, <4>2 DEF TypeInv, RequestTypes
      <4> QED BY <3>1, <4>1, <4>3 DEF TypeInv, RequestTypes, Advance
    <3>3. ServerTypes'
      BY <3>1 DEF TypeInv, ServerTypes, Advance, serverVars, envVars
    <3>4. AtWork'
      BY <3>1 DEF TypeInv, RequestTypes, AtWork, Advance, Go
    <3> QED BY <2>1, <3>2, <3>3, <3>4 DEF TypeInv
  <2> QED BY <2>2, <2>3
<1>2. CASE InsertAttempt(c)
  <2>1. RowTypes'
    <3>1. on[c] \in Episode /\ seq[c] \in Sequence
      BY <1>0, <1>2 DEF InsertAttempt, TypeInv, AtWork
    <3>2. attempts' \in [Episode -> SUBSET Sequence]
      BY <1>2, <3>1 DEF InsertAttempt, TypeInv, RowTypes
    <3> QED BY <1>2, <3>2 DEF InsertAttempt, TypeInv, RowTypes
  <2>2. HistoryTypes'
    BY <1>2 DEF InsertAttempt, TypeInv, HistoryTypes
  <2> QED BY <1>2, <2>1, <2>2, AnswerTypes DEF InsertAttempt, TypeInv
<1>3. CASE RefuseOutcome(c) \/ OutcomeTaken(c)
  BY <1>3, AnswerTypes DEF RefuseOutcome, OutcomeTaken, TypeInv
<1>4. CASE CheckOutcome(c)
  <2>1. RequestTypes' /\ ServerTypes' /\ AtWork'
    BY <1>4, AdvanceTypes DEF CheckOutcome, Place, TypeInv, RequestTypes
  <2> QED BY <1>4, <2>1 DEF CheckOutcome, TypeInv
<1>5. CASE RecordOutcome(c)
  <2>1. RequestTypes' /\ ServerTypes' /\ AtWork'
    BY <1>5, AdvanceTypes DEF RecordOutcome, Place, TypeInv, RequestTypes
  <2>2. RowTypes'
    BY <1>5 DEF RecordOutcome, TypeInv, RowTypes, RequestTypes, AtWork
  <2> QED BY <1>5, <2>1, <2>2 DEF RecordOutcome, TypeInv
<1>6. CASE CloseEpisode(c)
  <2>1. RequestTypes' /\ ServerTypes' /\ AtWork'
    BY <1>6, AdvanceTypes DEF CloseEpisode, Place, TypeInv, RequestTypes
  <2>2. RowTypes'
    BY <1>6 DEF CloseEpisode, UpdateEpisode, Advance, TypeInv, RowTypes, AtWork
  <2>3. HistoryTypes'
    BY <1>0, <1>6 DEF CloseEpisode, Advance, TypeInv, RowTypes, HistoryTypes
  <2> QED BY <2>1, <2>2, <2>3 DEF TypeInv
<1>7. CASE ListForLearning(c) \/ ListForRetry(c)
  <2>1. PICK place \in {"list", "relist"}, next \in {"upsert", "decide"} :
            ListAttempts(c, place, next)
    BY <1>7 DEF ListForLearning, ListForRetry
  <2>2. on[c] \in Episode
    BY <1>0, <2>1 DEF ListAttempts, Advance
  <2>3. seen' \in [Client -> SUBSET Sequence]
    BY <2>1, <2>2 DEF ListAttempts, TypeInv, RowTypes, RequestTypes
  <2>4. RequestTypes' /\ ServerTypes' /\ AtWork'
    BY <2>1, <2>3, AdvanceTypes DEF ListAttempts, Place
  <2> QED BY <2>1, <2>4 DEF ListAttempts, TypeInv
<1>8. CASE Decide(c)
  <2>1. \/ Answer(c)
        \/ /\ UNCHANGED <<seq, seen>>
           /\ Advance(c, "decide", "upsert") \/ Advance(c, "decide", "requeue")
    BY <1>8 DEF Decide
  <2>2. RequestTypes' /\ ServerTypes' /\ AtWork'
    BY <2>1, AnswerTypes, AdvanceTypes DEF Place, TypeInv, RequestTypes
  <2> QED BY <1>8, <2>2 DEF Decide, TypeInv
<1>9. CASE Requeue(c) \/ ResetPending(c) \/ InsertPending(c) \/ MarkProcessing(c)
  <2>1. PICK place \in {"requeue", "reset", "enqueue", "start"},
             next \in {"upsert", "start", "pipeline"}, s \in JobStatus :
            Advance(c, place, next) /\ WriteJob(c, on[c], s) /\ UNCHANGED <<seq, seen, historyVars>>
    BY <1>9 DEF Requeue, ResetPending, InsertPending, MarkProcessing, JobStatus
  <2>2. RequestTypes' /\ ServerTypes' /\ AtWork'
    BY <2>1, AdvanceTypes DEF Place, TypeInv, RequestTypes
  <2>3. RowTypes'
    BY <1>0, <2>1, WriteJobTypes DEF Advance
  <2> QED BY <2>1, <2>2, <2>3 DEF TypeInv
<1>10. CASE UpsertPending(c)
  <2>1. PICK next \in {"start", "enqueue", "reset"} : Advance(c, "upsert", next)
    BY <1>10 DEF UpsertPending
  <2>2. RequestTypes' /\ ServerTypes' /\ AtWork'
    BY <1>10, <2>1, AdvanceTypes DEF UpsertPending, Place, TypeInv, RequestTypes
  <2> QED BY <1>10, <2>2 DEF UpsertPending, TypeInv
<1>12. CASE RunPipeline(c)
  <2>1. RequestTypes' /\ ServerTypes' /\ AtWork'
    BY <1>12, AdvanceTypes DEF RunPipeline, Place, TypeInv, RequestTypes
  <2>2. HistoryTypes'
    <3>1. on[c] \in Episode /\ seen[c] \in SUBSET Sequence
      BY <1>0, <1>12 DEF RunPipeline, Advance, TypeInv, RequestTypes
    <3>2. lessons[on[c]] \cup {seen[c]} \in SUBSET SUBSET Sequence
      BY <3>1 DEF TypeInv, HistoryTypes
    <3>3. lessons' = [lessons EXCEPT ![on[c]] = lessons[on[c]] \cup {seen[c]}]
      BY <1>12 DEF RunPipeline
    <3>4. lessons' \in [Episode -> SUBSET SUBSET Sequence]
      BY <3>1, <3>2, <3>3 DEF TypeInv, HistoryTypes
    <3> QED BY <1>12, <3>4 DEF RunPipeline, TypeInv, HistoryTypes
  <2> QED BY <1>12, <2>1, <2>2 DEF RunPipeline, TypeInv
<1>13. CASE MarkApplied(c) \/ MarkFailed(c)
  <2>1. PICK s \in JobStatus : WriteJob(c, on[c], s) /\ Answer(c) /\ UNCHANGED historyVars
    BY <1>13 DEF MarkApplied, MarkFailed, JobStatus
  <2>2. RowTypes'
    BY <1>0, <1>13, <2>1, WriteJobTypes DEF MarkApplied, MarkFailed
  <2> QED BY <2>1, <2>2, AnswerTypes DEF TypeInv
<1> QED BY <1>1, <1>2, <1>3, <1>4, <1>5, <1>6, <1>7, <1>8, <1>9, <1>10, <1>12, <1>13
        DEF RequestStep

LEMMA RequestTypesKept ==
  ASSUME TypeInv, NEW c \in Client, NEW e \in Episode, Request(c, e)
  PROVE  TypeInv'
<1> USE UnchangedTypes DEF rowVars
<1>1. CASE CreateEpisode(c, e)
  <2>1. RowTypes'
    BY <1>1 DEF CreateEpisode, InsertEpisode, TypeInv, RowTypes
  <2> QED BY <1>1, <2>1 DEF CreateEpisode, TypeInv
<1>2. CASE \E n \in {0} \cup GivenSequence : AskAttempt(c, e, n)
  <2>1. PICK n \in {0} \cup GivenSequence : AskAttempt(c, e, n)
    BY <1>2
  <2>2. n \in 0..MaxSequence /\ (n # 0 => n \in Sequence)
    BY EpisodeAssumption DEF EpisodeAssumption, Sequence
  <2>3. PICK place \in {"number", "insert"} :
            Ask(c, e, place) /\ (place = "insert" => n # 0)
    BY <2>1 DEF AskAttempt
  <2>4. seq' \in [Client -> 0..MaxSequence] /\ seq'[c] = n
        /\ \A d \in Client \ {c} : seq'[d] = seq[d]
    BY <2>1, <2>2 DEF AskAttempt, TypeInv, RequestTypes
  <2>5. as' = as /\ seen' = seen /\ UNCHANGED rowVars /\ UNCHANGED historyVars
    BY <2>1 DEF AskAttempt
  <2>6. RequestTypes' /\ ServerTypes' /\ AtWork'
    BY <2>2, <2>3, <2>4, <2>5, AskTypes DEF TypeInv, RequestTypes
  <2> QED BY <2>5, <2>6 DEF TypeInv
<1>3. CASE \E s \in TerminalStatus : AskComplete(c, e, s)
  <2>1. PICK s \in TerminalStatus : AskComplete(c, e, s)
    BY <1>3
  <2>2. as' \in [Client -> TerminalStatus \cup {None}] /\ as'[c] = s
        /\ \A d \in Client \ {c} : as'[d] = as[d]
    BY <2>1 DEF AskComplete, TypeInv, RequestTypes
  <2>3. Ask(c, e, "check") /\ seq' = seq /\ seen' = seen /\ UNCHANGED rowVars
        /\ UNCHANGED historyVars
    BY <2>1 DEF AskComplete
  <2>4. RequestTypes' /\ ServerTypes' /\ AtWork'
    BY <2>2, <2>3, AskTypes DEF TypeInv, RequestTypes
  <2> QED BY <2>3, <2>4 DEF TypeInv
<1>4. CASE AskRetry(c, e)
  <2>1. RequestTypes' /\ ServerTypes' /\ AtWork'
    BY <1>4, AskTypes DEF AskRetry, TypeInv, RequestTypes
  <2> QED BY <1>4, <2>1 DEF AskRetry, TypeInv
<1> QED BY <1>1, <1>2, <1>3, <1>4 DEF Request

\* Requests that break off, by a failed call or with their server.
LEMMA BrokenOffTypes ==
  ASSUME TypeInv, NEW Alive \in SUBSET Client,
         at' = [c \in Client |-> IF c \in Alive THEN at[c] ELSE "idle"],
         on' = [c \in Client |-> IF c \in Alive THEN on[c] ELSE None],
         as' = [c \in Client |-> IF c \in Alive THEN as[c] ELSE None],
         seq' = [c \in Client |-> IF c \in Alive THEN seq[c] ELSE 0],
         seen' = [c \in Client |-> IF c \in Alive THEN seen[c] ELSE {}]
  PROVE  RequestTypes' /\ AtWork'
<1>1. RequestTypes'
  <2>1. at' \in [Client -> Place]
    BY DEF TypeInv, RequestTypes, Place
  <2>2. on' \in [Client -> Episode \cup {None}] /\ as' \in [Client -> TerminalStatus \cup {None}]
    BY DEF TypeInv, RequestTypes
  <2>3. seq' \in [Client -> 0..MaxSequence]
    BY EpisodeAssumption DEF EpisodeAssumption, TypeInv, RequestTypes
  <2>4. seen' \in [Client -> SUBSET Sequence]
    BY DEF TypeInv, RequestTypes
  <2> QED BY <2>1, <2>2, <2>3, <2>4 DEF RequestTypes
<1>2. AtWork'
  BY DEF TypeInv, AtWork, RequestTypes
<1> QED BY <1>1, <1>2

LEMMA TypeInvStep ==
  ASSUME TypeInv, [Next]_vars
  PROVE  TypeInv'
<1> USE UnchangedTypes
<1>1. CASE \E c \in Client : RequestStep(c)
  BY <1>1, RequestStepTypes
<1>2. CASE \E c \in Client, e \in Episode : Request(c, e)
  BY <1>2, RequestTypesKept
<1>3. ASSUME NEW c \in Client, PipelineFails(c) \/ CallFails(c)
      PROVE  TypeInv'
  <2>1. ServerTypes' /\ RowTypes' /\ HistoryTypes'
    <3>1. UNCHANGED <<serverVars, clock, rowVars, historyVars>> /\ Fault
      BY <1>3 DEF PipelineFails, CallFails
    <3>2. faults' \in 0..MaxFaults
      BY <3>1, EpisodeAssumption DEF EpisodeAssumption, Fault, TypeInv, ServerTypes
    <3>3. ServerTypes'
      BY <3>1, <3>2 DEF TypeInv, ServerTypes, serverVars
    <3> QED BY <3>1, <3>3
  <2>2. CASE PipelineFails(c)
    <3>1. RequestTypes'
      BY <2>2 DEF PipelineFails, Go, TypeInv, RequestTypes, Place
    <3>2. AtWork'
      BY <2>2 DEF PipelineFails, Go, TypeInv, RequestTypes, AtWork
    <3> QED BY <2>1, <3>1, <3>2 DEF TypeInv
  <2>3. CASE CallFails(c)
    <3> DEFINE Alive == Client \ {c}
    <3>1. /\ at' = [d \in Client |-> IF d \in Alive THEN at[d] ELSE "idle"]
          /\ on' = [d \in Client |-> IF d \in Alive THEN on[d] ELSE None]
          /\ as' = [d \in Client |-> IF d \in Alive THEN as[d] ELSE None]
          /\ seq' = [d \in Client |-> IF d \in Alive THEN seq[d] ELSE 0]
          /\ seen' = [d \in Client |-> IF d \in Alive THEN seen[d] ELSE {}]
      BY <2>3 DEF CallFails, Go, TypeInv, RequestTypes
    <3> HIDE DEF Alive
    <3>2. Alive \in SUBSET Client
      BY DEF Alive
    <3>3. RequestTypes' /\ AtWork'
      BY <3>1, <3>2, BrokenOffTypes
    <3> QED BY <2>1, <3>3 DEF TypeInv
  <2> QED BY <1>3, <2>2, <2>3
<1>4. ASSUME NEW s \in Server, Start(s) \/ RecoverOne(s)
      PROVE  TypeInv'
  <2>1. RequestTypes' /\ AtWork' /\ HistoryTypes'
    BY <1>4 DEF Start, RecoverOne
  <2>2. ServerTypes'
    BY <1>4 DEF Start, RecoverOne, ListStaleProcessing, TypeInv, ServerTypes, envVars
  <2>3. RowTypes'
    <3>1. CASE Start(s)
      BY <3>1 DEF Start
    <3>2. CASE RecoverOne(s)
      BY <3>2 DEF RecoverOne, TypeInv, RowTypes, ServerTypes, JobStatus
    <3> QED BY <1>4, <3>1, <3>2
  <2> QED BY <2>1, <2>2, <2>3 DEF TypeInv
<1>5. ASSUME NEW s \in Server, Crash(s)
      PROVE  TypeInv'
  <2> DEFINE Alive == {c \in Client : ServerOf[c] # s}
  <2>1. /\ at' = [c \in Client |-> IF c \in Alive THEN at[c] ELSE "idle"]
        /\ on' = [c \in Client |-> IF c \in Alive THEN on[c] ELSE None]
        /\ as' = [c \in Client |-> IF c \in Alive THEN as[c] ELSE None]
        /\ seq' = [c \in Client |-> IF c \in Alive THEN seq[c] ELSE 0]
        /\ seen' = [c \in Client |-> IF c \in Alive THEN seen[c] ELSE {}]
    BY <1>5 DEF Crash
  <2> HIDE DEF Alive
  <2>2. Alive \in SUBSET Client
    BY DEF Alive
  <2>3. RequestTypes' /\ AtWork'
    BY <2>1, <2>2, BrokenOffTypes
  <2>4. RowTypes' /\ HistoryTypes'
    BY <1>5 DEF Crash
  <2>5. ServerTypes'
    BY <1>5, EpisodeAssumption
       DEF EpisodeAssumption, Crash, Fault, TypeInv, ServerTypes
  <2> QED BY <2>3, <2>4, <2>5 DEF TypeInv
<1>6. CASE Tick
  <2>1. ServerTypes'
    BY <1>6, EpisodeAssumption DEF EpisodeAssumption, Tick, TypeInv, ServerTypes, Time, serverVars
  <2> QED BY <1>6, <2>1 DEF Tick, TypeInv
<1>7. CASE UNCHANGED vars
  BY <1>7 DEF vars, TypeInv
<1> QED BY <1>1, <1>2, <1>3, <1>4, <1>5, <1>6, <1>7 DEF Next, ServerStep

LEMMA TypeInvAlways == Spec => []TypeInv
<1>1. TypeInv /\ [Next]_vars => TypeInv'
  BY TypeInvStep
<1> QED BY <1>1, TypeInvInit, PTL DEF Spec

\* Every row, request and server is one of those the code can have, whatever fails or crashes.
THEOREM EpisodeTypes == Spec => []EpisodeTypeOK
<1>1. TypeInv => EpisodeTypeOK
  BY TypesInParts DEF TypeInv
<1> QED BY <1>1, TypeInvAlways, PTL

-----------------------------------------------------------------------------
(* How requests move.                                                      *)

OthersStay(c) ==
    \A d \in Client \ {c} :
        at'[d] = at[d] /\ on'[d] = on[d] /\ as'[d] = as[d] /\ seen'[d] = seen[d]

\* A step of a request moves no other request.
LEMMA RequestsAreApart ==
  ASSUME TypeInv, NEW c \in Client,
         \/ RequestStep(c) \/ PipelineFails(c) \/ CallFails(c)
         \/ \E e \in Episode : Request(c, e)
  PROVE  OthersStay(c)
<1>1. ASSUME NEW d \in Client \ {c}
      PROVE  at'[d] = at[d] /\ on'[d] = on[d] /\ as'[d] = as[d] /\ seen'[d] = seen[d]
  <2> USE <1>1 DEF TypeInv, RequestTypes
  <2>1. CASE RequestStep(c)
    <3>1. CASE NumberAttempt(c) \/ InsertAttempt(c) \/ RefuseOutcome(c) \/ OutcomeTaken(c)
               \/ MarkApplied(c) \/ MarkFailed(c) \/ InsertPending(c)
      BY <3>1 DEF NumberAttempt, InsertAttempt, RefuseOutcome, OutcomeTaken, MarkApplied,
                  MarkFailed, InsertPending, Answer, Advance, Go
    <3>2. CASE CheckOutcome(c) \/ RecordOutcome(c) \/ CloseEpisode(c) \/ ListForLearning(c)
               \/ ListForRetry(c)
      BY <3>2 DEF CheckOutcome, RecordOutcome, CloseEpisode, ListForLearning, ListForRetry,
                  ListAttempts, Advance, Go
    <3>3. CASE Decide(c)
      BY <3>3 DEF Decide, Answer, Advance, Go
    <3>4. CASE Requeue(c) \/ UpsertPending(c) \/ ResetPending(c) \/ MarkProcessing(c)
               \/ RunPipeline(c)
      BY <3>4 DEF Requeue, UpsertPending, ResetPending, MarkProcessing, RunPipeline, Advance, Go
    <3> QED BY <2>1, <3>1, <3>2, <3>3, <3>4 DEF RequestStep
  <2>2. CASE PipelineFails(c) \/ CallFails(c)
    BY <2>2 DEF PipelineFails, CallFails, Go
  <2>3. CASE \E e \in Episode : Request(c, e)
    BY <2>3 DEF Request, CreateEpisode, AskAttempt, AskComplete, AskRetry, Ask, Go, requestVars
  <2> QED BY <2>1, <2>2, <2>3
<1> QED BY <1>1 DEF OthersStay

-----------------------------------------------------------------------------
(* The end of an episode.                                                  *)

\* A completion about to close an episode recorded its outcome, and is the only one.
ClosedInv ==
    /\ ClosedAsRecorded
    /\ \A c \in Client :
            at[c] = "close" => outcome[on[c]] = as[c] /\ ~ Closed(on[c])
    /\ \A c, d \in Client :
            at[c] = "close" /\ at[d] = "close" /\ on[c] = on[d] => c = d

\* What neither ends an episode nor is about to keeps the invariant.
LEMMA ClosedFrame ==
  ASSUME ClosedInv, UNCHANGED <<status, outcome>>,
         \A d \in Client : at'[d] = "close" => at[d] = "close" /\ on'[d] = on[d] /\ as'[d] = as[d]
  PROVE  ClosedInv'
BY DEF ClosedInv, ClosedAsRecorded, Closed

LEMMA ClosedByRequest ==
  ASSUME TypeInv, ClosedInv, NEW c \in Client, RequestStep(c)
  PROVE  ClosedInv'
<1> USE RequestsAreApart DEF OthersStay
<1>1. CASE RecordOutcome(c)
  <2>1. /\ at[c] = "record" /\ at'[c] = "close" /\ on' = on /\ as' = as /\ status' = status
        /\ outcome[on[c]] = None /\ outcome' = [outcome EXCEPT ![on[c]] = as[c]]
    BY <1>1 DEF RecordOutcome, Advance, Go, TypeInv, RequestTypes
  <2>2. on[c] \in Episode /\ as[c] \in TerminalStatus
    BY <2>1 DEF TypeInv, AtWork
  <2>3. ~ Closed(on[c])
    BY <2>1, <2>2, EpisodeAssumption DEF EpisodeAssumption, ClosedInv, ClosedAsRecorded, Closed
  <2>4. \A e \in Episode : outcome'[e] = IF e = on[c] THEN as[c] ELSE outcome[e]
    BY <2>1 DEF TypeInv, RowTypes
  <2>5. ClosedAsRecorded'
    BY <2>1, <2>3, <2>4 DEF ClosedInv, ClosedAsRecorded, Closed
  <2>6. ASSUME NEW d \in Client \ {c}, at'[d] = "close"
        PROVE  at[d] = "close" /\ on[d] \in Episode /\ on[d] # on[c]
    <3>1. at[d] = "close"
      BY <1>1, <2>6, RequestsAreApart DEF OthersStay
    <3>2. on[d] \in Episode /\ as[d] \in TerminalStatus
      BY <3>1 DEF TypeInv, AtWork
    <3>3. outcome[on[d]] = as[d]
      BY <3>1 DEF ClosedInv
    <3>4. None \notin TerminalStatus
      BY EpisodeAssumption DEF EpisodeAssumption
    <3> QED BY <2>1, <3>1, <3>2, <3>3, <3>4, Zenon
  <2>7. ASSUME NEW d \in Client, at'[d] = "close"
        PROVE  outcome'[on'[d]] = as'[d] /\ ~ Closed(on[d])
    <3> USE <2>7
    <3>1. CASE d = c
      BY <2>1, <2>2, <2>3, <2>4, <3>1
    <3>2. CASE d # c
      <4>1. at[d] = "close" /\ on[d] \in Episode /\ on[d] # on[c]
        BY <2>6, <2>7, <3>2, Zenon
      <4>2. outcome'[on[d]] = outcome[on[d]]
        BY <2>4, <4>1
      <4>3. outcome[on[d]] = as[d] /\ ~ Closed(on[d])
        BY <4>1 DEF ClosedInv
      <4>4. on'[d] = on[d] /\ as'[d] = as[d]
        BY <2>1
      <4> QED BY <4>2, <4>3, <4>4
    <3> QED BY <3>1, <3>2
  <2>8. ASSUME NEW d \in Client, at'[d] = "close"
        PROVE  outcome'[on'[d]] = as'[d] /\ status'[on'[d]] \notin TerminalStatus
    BY <2>1, <2>7, <2>8, Zenon DEF Closed
  <2>9. ASSUME NEW d \in Client, NEW f \in Client,
               at'[d] = "close", at'[f] = "close", on'[d] = on'[f]
        PROVE  d = f
    <3>1. on[d] = on[f]
      BY <2>1, <2>9
    <3>2. CASE d = c \/ f = c
      BY <2>6, <2>9, <3>1, <3>2, Zenon
    <3>3. CASE d # c /\ f # c
      <4>1. at[d] = "close" /\ at[f] = "close"
        BY <2>6, <2>9, <3>3, Zenon
      <4> QED BY <3>1, <4>1 DEF ClosedInv
    <3> QED BY <3>2, <3>3
  <2> QED BY <2>5, <2>8, <2>9, Zenon DEF ClosedInv, Closed
<1>2. CASE CloseEpisode(c)
  <2>1. /\ at[c] = "close" /\ at'[c] # "close" /\ on' = on /\ as' = as /\ outcome' = outcome
        /\ status' = [status EXCEPT ![on[c]] = as[c]]
    BY <1>2 DEF CloseEpisode, UpdateEpisode, Advance, Go, TypeInv, RequestTypes
  <2>2. on[c] \in Episode
    BY <2>1 DEF TypeInv, AtWork
  <2>3. \A e \in Episode : status'[e] = IF e = on[c] THEN as[c] ELSE status[e]
    BY <2>1 DEF TypeInv, RowTypes
  <2>4. ClosedAsRecorded'
    <3>1. outcome'[on[c]] = as[c]
      BY <2>1 DEF ClosedInv
    <3>2. outcome' = outcome
      BY <2>1
    <3>3. ASSUME NEW e \in Episode, status'[e] \in TerminalStatus
          PROVE  outcome'[e] = status'[e]
      <4>1. CASE e = on[c]
        BY <2>3, <3>1, <4>1
      <4>2. CASE e # on[c]
        BY <2>3, <3>2, <3>3, <4>2 DEF ClosedInv, ClosedAsRecorded, Closed
      <4> QED BY <4>1, <4>2
    <3> QED BY <3>3 DEF ClosedAsRecorded, Closed
  <2>5. \A d \in Client : at'[d] = "close" => at[d] = "close" /\ on[d] \in Episode /\ on[d] # on[c]
    BY <2>1 DEF TypeInv, AtWork, ClosedInv
  <2>6. ASSUME NEW d \in Client, at'[d] = "close"
        PROVE  outcome'[on'[d]] = as'[d] /\ status'[on'[d]] \notin TerminalStatus
    <3>1. at[d] = "close" /\ on[d] \in Episode /\ on[d] # on[c]
      BY <2>5, <2>6
    <3>2. status'[on[d]] = status[on[d]] /\ outcome' = outcome
      BY <2>1, <2>3, <3>1
    <3>3. outcome[on[d]] = as[d] /\ status[on[d]] \notin TerminalStatus
      BY <3>1 DEF ClosedInv, Closed
    <3>4. on'[d] = on[d] /\ as'[d] = as[d]
      BY <2>1
    <3> QED BY <3>2, <3>3, <3>4
  <2>7. \A d, f \in Client : at'[d] = "close" /\ at'[f] = "close" /\ on'[d] = on'[f] => d = f
    BY <2>1, <2>5 DEF ClosedInv
  <2> QED BY <2>4, <2>6, <2>7 DEF ClosedInv, Closed
<1>3. CASE ~ RecordOutcome(c) /\ ~ CloseEpisode(c)
  <2>1. UNCHANGED <<status, outcome>>
    BY <1>3 DEF RequestStep, NumberAttempt, InsertAttempt, RefuseOutcome, CheckOutcome,
           OutcomeTaken, ListForLearning, ListForRetry, ListAttempts, Decide, Requeue,
           UpsertPending, ResetPending, InsertPending, MarkProcessing, RunPipeline, MarkApplied,
           MarkFailed, WriteJob, rowVars
  <2>2. at'[c] # "close"
    <3> USE DEF TypeInv, RequestTypes, Advance, Answer, Go
    <3>1. CASE NumberAttempt(c) \/ InsertAttempt(c) \/ RefuseOutcome(c) \/ OutcomeTaken(c)
               \/ MarkApplied(c) \/ MarkFailed(c) \/ InsertPending(c)
      BY <3>1 DEF NumberAttempt, InsertAttempt, RefuseOutcome, OutcomeTaken, MarkApplied,
                  MarkFailed, InsertPending
    <3>2. CASE CheckOutcome(c) \/ ListForLearning(c) \/ ListForRetry(c) \/ Decide(c)
      BY <3>2 DEF CheckOutcome, ListForLearning, ListForRetry, ListAttempts, Decide
    <3>3. CASE Requeue(c) \/ UpsertPending(c) \/ ResetPending(c) \/ MarkProcessing(c)
               \/ RunPipeline(c)
      BY <3>3 DEF Requeue, UpsertPending, ResetPending, MarkProcessing, RunPipeline
    <3> QED BY <1>3, <3>1, <3>2, <3>3 DEF RequestStep
  <2>3. \A d \in Client : at'[d] = "close" => at[d] = "close" /\ on'[d] = on[d] /\ as'[d] = as[d]
    BY <2>2
  <2> QED BY <2>1, <2>3, ClosedFrame
<1> QED BY <1>1, <1>2, <1>3

LEMMA ClosedStep ==
  ASSUME TypeInv, ClosedInv, [Next]_vars
  PROVE  ClosedInv'
<1>1. CASE \E c \in Client : RequestStep(c)
  BY <1>1, ClosedByRequest
<1>2. ASSUME NEW c \in Client, PipelineFails(c) \/ CallFails(c)
      PROVE  ClosedInv'
  <2>1. at'[c] # "close" /\ UNCHANGED <<status, outcome>>
    BY <1>2 DEF PipelineFails, CallFails, Go, TypeInv, RequestTypes, rowVars
  <2> QED BY <1>2, <2>1, RequestsAreApart, ClosedFrame DEF OthersStay
<1>3. ASSUME NEW c \in Client, NEW e \in Episode, Request(c, e)
      PROVE  ClosedInv'
  <2>1. CASE CreateEpisode(c, e)
    <3>1. UNCHANGED <<outcome, at, on, as>> /\ status[e] = "none"
          /\ status' = [status EXCEPT ![e] = "RUNNING"]
      BY <2>1 DEF CreateEpisode, InsertEpisode, requestVars
    <3>2. \A f \in Episode : Closed(f)' => Closed(f) /\ status'[f] = status[f]
      BY <3>1, EpisodeAssumption DEF EpisodeAssumption, TypeInv, RowTypes, Closed
    <3>3. \A d \in Client : at[d] = "close" => on[d] \in Episode
      BY DEF TypeInv, AtWork
    <3>4. ClosedAsRecorded'
      BY <3>1, <3>2 DEF ClosedInv, ClosedAsRecorded
    <3>5. ASSUME NEW d \in Client, at'[d] = "close"
          PROVE  outcome'[on'[d]] = as'[d] /\ status'[on'[d]] \notin TerminalStatus
      <4>1. at[d] = "close" /\ on'[d] = on[d] /\ on[d] \in Episode
        BY <3>1, <3>3, <3>5
      <4>2. outcome[on[d]] = as[d] /\ ~ Closed(on[d])
        BY <4>1 DEF ClosedInv
      <4>3. status'[on[d]] \notin TerminalStatus
        BY <3>2, <4>1, <4>2 DEF Closed
      <4> QED BY <3>1, <4>1, <4>2, <4>3
    <3> QED BY <3>1, <3>4, <3>5 DEF ClosedInv, Closed
  <2>2. CASE ~ CreateEpisode(c, e)
    <3>1. at'[c] # "close" /\ UNCHANGED <<status, outcome>>
      BY <1>3, <2>2 DEF Request, AskAttempt, AskComplete, AskRetry, Ask, Go, TypeInv,
                        RequestTypes, rowVars
    <3> QED BY <1>3, <3>1, RequestsAreApart, ClosedFrame DEF OthersStay
  <2> QED BY <2>1, <2>2
<1>4. CASE \/ \E s \in Server : Start(s) \/ RecoverOne(s) \/ Crash(s)
           \/ Tick \/ UNCHANGED vars
  <2>1. UNCHANGED <<status, outcome>>
    BY <1>4 DEF Start, RecoverOne, Crash, Tick, vars, rowVars
  <2>2. \A d \in Client : at'[d] = "close" => at[d] = "close" /\ on'[d] = on[d] /\ as'[d] = as[d]
    <3>1. CASE UNCHANGED requestVars
      BY <3>1 DEF requestVars
    <3>2. CASE \E s \in Server : Crash(s)
      <4>1. PICK s \in Server : Crash(s)
        BY <3>2
      <4>2. ASSUME NEW d \in Client, at'[d] = "close"
            PROVE  at[d] = "close" /\ on'[d] = on[d] /\ as'[d] = as[d]
        <5>1. at'[d] = IF ServerOf[d] # s THEN at[d] ELSE "idle"
          BY <4>1 DEF Crash
        <5>2. ServerOf[d] # s /\ at[d] = "close"
          BY <4>2, <5>1
        <5> QED BY <4>1, <5>2 DEF Crash
      <4> QED BY <4>2
    <3>3. UNCHANGED requestVars \/ \E s \in Server : Crash(s)
      BY <1>4 DEF Start, RecoverOne, Tick, vars
    <3> QED BY <3>1, <3>2, <3>3
  <2> QED BY <2>1, <2>2, ClosedFrame
<1> QED BY <1>1, <1>2, <1>3, <1>4 DEF Next, ServerStep

LEMMA ClosedAlways == Spec => [](TypeInv /\ ClosedInv)
<1>1. Init => ClosedInv
  BY EpisodeAssumption DEF EpisodeAssumption, Init, ClosedInv, ClosedAsRecorded, Closed
<1>2. TypeInv /\ ClosedInv /\ [Next]_vars => (TypeInv /\ ClosedInv)'
  BY TypeInvStep, ClosedStep
<1> QED BY <1>1, <1>2, TypeInvInit, PTL DEF Spec

\* An episode ends the way its outcome row says, however many completions race and break off
\* between the row and the episode (internal/episode/service.go:189).
THEOREM Completion == Spec => []ClosedAsRecorded
<1>1. ClosedInv => ClosedAsRecorded
  BY DEF ClosedInv
<1> QED BY <1>1, ClosedAlways, PTL

-----------------------------------------------------------------------------
(* What is learnt from an episode.                                         *)

\* Where a request is once the episode it is about is closed, and where it has listed the attempts.
AfterClose == {"list", "relist", "decide", "requeue", "upsert", "reset", "enqueue", "start",
               "pipeline", "apply", "fail"}
Listed == AfterClose \ {"list", "relist", "apply", "fail"}

\* Attempts only arrive, so whoever lists them after the end has all there were at the end; and
\* nobody learns before it.
LearningInv ==
    /\ \A e \in Episode : lessons[e] # {} => Closed(e)
    /\ \A e \in Episode : closedWith[e] \subseteq attempts[e]
    /\ \A c \in Client : at[c] \in AfterClose => Closed(on[c])
    /\ \A c \in Client : at[c] \in Listed => closedWith[on[c]] \subseteq seen[c]
    /\ \A c \in Client : at[c] = "apply" => lessons[on[c]] # {}
    /\ LessonsComplete
    /\ AppliedIsLearnt

\* What neither closes, lists, learns nor applies.
LEMMA LearningFrame ==
  ASSUME TypeInv, LearningInv, UNCHANGED historyVars,
         \A e \in Episode : Closed(e) => status'[e] \in TerminalStatus,
         \A e \in Episode : attempts[e] \subseteq attempts'[e],
         \A e \in Episode : job'[e] = "APPLIED" => job[e] = "APPLIED",
         \A d \in Client : at'[d] \in AfterClose =>
             /\ at[d] \in AfterClose /\ on'[d] = on[d]
             /\ at'[d] \in Listed => at[d] \in Listed /\ seen'[d] = seen[d]
             /\ at'[d] = "apply" => at[d] = "apply"
  PROVE  LearningInv'
<1>1. \A d \in Client : at[d] \in AfterClose => on[d] \in Episode
  BY DEF TypeInv, AtWork, AfterClose
<1>2. closedWith' = closedWith /\ lessons' = lessons
  BY DEF historyVars
<1>3. \A e \in Episode : lessons'[e] # {} => Closed(e)'
  BY <1>2 DEF LearningInv, Closed
<1>4. \A e \in Episode : closedWith'[e] \subseteq attempts'[e]
  BY <1>2 DEF LearningInv
<1>5. \A d \in Client : at'[d] \in AfterClose => status'[on'[d]] \in TerminalStatus
  BY <1>1 DEF LearningInv
<1>6. \A d \in Client : at'[d] \in Listed => closedWith'[on'[d]] \subseteq seen'[d]
  <2>1. Listed \subseteq AfterClose
    BY DEF Listed
  <2> QED BY <1>2, <2>1 DEF LearningInv
<1>7. \A d \in Client : at'[d] = "apply" => lessons'[on'[d]] # {}
  <2>1. "apply" \in AfterClose
    BY DEF AfterClose
  <2> QED BY <1>2, <2>1 DEF LearningInv
<1>8. LessonsComplete' /\ AppliedIsLearnt'
  BY <1>2 DEF LearningInv, LessonsComplete, AppliedIsLearnt
<1> QED BY <1>3, <1>4, <1>5, <1>6, <1>7, <1>8 DEF LearningInv, Closed

\* The four steps of a request that are outside the frame.
LEMMA LearningByClose ==
  ASSUME TypeInv, ClosedInv, LearningInv, NEW c \in Client, CloseEpisode(c)
  PROVE  LearningInv'
<1>1. /\ at[c] = "close" /\ at'[c] = "list" /\ UNCHANGED <<on, as, job, attempts, seen, lessons>>
      /\ status' = [status EXCEPT ![on[c]] = as[c]]
      /\ closedWith' = [closedWith EXCEPT ![on[c]] = attempts[on[c]]]
      /\ \A d \in Client \ {c} : at'[d] = at[d]
  BY DEF CloseEpisode, UpdateEpisode, Advance, Go, TypeInv, RequestTypes
<1>2. on[c] \in Episode /\ as[c] \in TerminalStatus /\ ~ Closed(on[c])
  BY <1>1 DEF TypeInv, AtWork, ClosedInv
<1>3. /\ \A e \in Episode \ {on[c]} : status'[e] = status[e] /\ closedWith'[e] = closedWith[e]
      /\ status'[on[c]] = as[c] /\ closedWith'[on[c]] = attempts[on[c]]
  BY <1>1, <1>2 DEF TypeInv, RowTypes, HistoryTypes
<1>4. \A d \in Client : at[d] \in AfterClose => on[d] \in Episode /\ Closed(on[d])
  BY DEF TypeInv, AtWork, AfterClose, LearningInv
<1>5. \A d \in Client : at[d] \in Listed => at[d] \in AfterClose
  BY DEF Listed
<1>6. at'[c] \in AfterClose /\ at'[c] \notin Listed /\ at'[c] # "apply"
  BY <1>1 DEF AfterClose, Listed
<1>7. lessons[on[c]] = {}
  BY <1>2 DEF LearningInv
<1>8. \A e \in Episode : lessons'[e] # {} => status'[e] \in TerminalStatus
  BY <1>1, <1>2, <1>3 DEF LearningInv, Closed
<1>9. \A e \in Episode : closedWith'[e] \subseteq attempts'[e]
  BY <1>1, <1>2, <1>3 DEF LearningInv
<1>10. ASSUME NEW d \in Client, at'[d] \in AfterClose
       PROVE  status'[on'[d]] \in TerminalStatus
  <2>1. CASE on[d] = on[c]
    BY <1>1, <1>2, <1>3, <2>1
  <2>2. CASE on[d] # on[c]
    <3>1. at[d] \in AfterClose
      BY <1>1, <1>10, <2>2
    <3>2. on[d] \in Episode /\ status[on[d]] \in TerminalStatus
      BY <1>4, <3>1 DEF Closed
    <3>3. status'[on[d]] = status[on[d]]
      BY <1>3, <2>2, <3>2
    <3> QED BY <1>1, <3>2, <3>3
  <2> QED BY <2>1, <2>2
<1>11. ASSUME NEW d \in Client, at'[d] \in Listed
       PROVE  closedWith'[on'[d]] \subseteq seen'[d]
  <2>1. at[d] \in Listed
    BY <1>1, <1>6, <1>11
  <2>2. on[d] \in Episode /\ on[d] # on[c]
    BY <1>2, <1>4, <1>5, <2>1
  <2>3. closedWith[on[d]] \subseteq seen[d]
    BY <2>1 DEF LearningInv
  <2> QED BY <1>1, <1>3, <2>2, <2>3
<1>12. \A d \in Client : at'[d] = "apply" => lessons'[on'[d]] # {}
  BY <1>1, <1>6 DEF LearningInv
<1>13. LessonsComplete'
  BY <1>1, <1>3, <1>7 DEF LearningInv, LessonsComplete
<1>14. AppliedIsLearnt'
  BY <1>1 DEF LearningInv, AppliedIsLearnt
<1> QED BY <1>8, <1>9, <1>10, <1>11, <1>12, <1>13, <1>14 DEF LearningInv, Closed

LEMMA LearningByListing ==
  ASSUME TypeInv, LearningInv, NEW c \in Client, ListForLearning(c) \/ ListForRetry(c)
  PROVE  LearningInv'
<1>1. /\ UNCHANGED <<status, attempts, job, closedWith, lessons, on>>
      /\ at[c] \in AfterClose /\ at'[c] \in {"upsert", "decide"}
      /\ seen'[c] = attempts[on[c]]
      /\ \A d \in Client \ {c} : at'[d] = at[d] /\ seen'[d] = seen[d]
  BY DEF ListForLearning, ListForRetry, ListAttempts, Advance, Go, AfterClose, TypeInv,
         RequestTypes, rowVars, historyVars
<1>2. on[c] \in Episode
  BY <1>1 DEF TypeInv, AtWork, AfterClose
<1>3. closedWith[on[c]] \subseteq seen'[c]
  BY <1>1, <1>2 DEF LearningInv
<1>4. at'[c] \in AfterClose /\ at'[c] # "apply"
  BY <1>1 DEF AfterClose
<1>5. \A d \in Client : at'[d] \in AfterClose => status'[on'[d]] \in TerminalStatus
  BY <1>1, <1>4 DEF LearningInv, Closed
<1>6. \A d \in Client : at'[d] \in Listed => closedWith'[on'[d]] \subseteq seen'[d]
  BY <1>1, <1>3 DEF LearningInv
<1>7. \A d \in Client : at'[d] = "apply" => lessons'[on'[d]] # {}
  BY <1>1, <1>4 DEF LearningInv
<1>8. /\ \A e \in Episode : lessons'[e] # {} => status'[e] \in TerminalStatus
      /\ \A e \in Episode : closedWith'[e] \subseteq attempts'[e]
      /\ LessonsComplete' /\ AppliedIsLearnt'
  BY <1>1 DEF LearningInv, LessonsComplete, AppliedIsLearnt, Closed
<1> QED BY <1>5, <1>6, <1>7, <1>8 DEF LearningInv, Closed

LEMMA LearningByPipeline ==
  ASSUME TypeInv, LearningInv, NEW c \in Client, RunPipeline(c)
  PROVE  LearningInv'
<1>1. /\ UNCHANGED <<status, attempts, job, closedWith, on, seen>>
      /\ at[c] = "pipeline" /\ at'[c] = "apply"
      /\ lessons' = [lessons EXCEPT ![on[c]] = lessons[on[c]] \cup {seen[c]}]
      /\ \A d \in Client \ {c} : at'[d] = at[d]
  BY DEF RunPipeline, Advance, Go, TypeInv, RequestTypes, rowVars
<1>2. on[c] \in Episode
  BY <1>1 DEF TypeInv, AtWork
<1>3. /\ lessons'[on[c]] = lessons[on[c]] \cup {seen[c]}
      /\ \A e \in Episode \ {on[c]} : lessons'[e] = lessons[e]
  BY <1>1, <1>2 DEF TypeInv, HistoryTypes
<1>4. at[c] \in AfterClose /\ at[c] \in Listed /\ at'[c] \notin Listed
  BY <1>1 DEF AfterClose, Listed
<1>5. Closed(on[c]) /\ closedWith[on[c]] \subseteq seen[c]
  BY <1>4 DEF LearningInv
<1>6. \A e \in Episode : lessons[e] # {} => lessons'[e] # {}
  BY <1>2, <1>3
<1>7. \A e \in Episode : lessons'[e] # {} => status'[e] \in TerminalStatus
  BY <1>1, <1>3, <1>5 DEF LearningInv, Closed
<1>8. \A d \in Client : at'[d] \in AfterClose => status'[on'[d]] \in TerminalStatus
  BY <1>1, <1>4, <1>5 DEF LearningInv, Closed
<1>9. \A d \in Client : at'[d] \in Listed => closedWith'[on'[d]] \subseteq seen'[d]
  BY <1>1, <1>4 DEF LearningInv
<1>10. ASSUME NEW d \in Client, at'[d] = "apply"
       PROVE  lessons'[on'[d]] # {}
  <2>1. CASE d = c
    BY <1>1, <1>3, <2>1
  <2>2. CASE d # c
    <3>1. at[d] = "apply" /\ lessons[on[d]] # {}
      BY <1>1, <1>10, <2>2 DEF LearningInv
    <3>2. on[d] \in Episode
      BY <3>1 DEF TypeInv, AtWork
    <3> QED BY <1>1, <1>6, <3>1, <3>2
  <2> QED BY <2>1, <2>2
<1>11. ASSUME NEW e \in Episode, NEW l \in lessons'[e]
       PROVE  closedWith'[e] \subseteq l
  <2>1. CASE l \in lessons[e]
    BY <1>1, <2>1 DEF LearningInv, LessonsComplete
  <2>2. CASE l \notin lessons[e]
    <3>1. e = on[c] /\ l = seen[c]
      BY <1>3, <1>11, <2>2
    <3> QED BY <1>1, <1>5, <3>1
  <2> QED BY <2>1, <2>2
<1>12. LessonsComplete'
  BY <1>11 DEF LessonsComplete
<1>13. AppliedIsLearnt'
  BY <1>1, <1>6 DEF LearningInv, AppliedIsLearnt
<1>14. \A e \in Episode : closedWith'[e] \subseteq attempts'[e]
  BY <1>1 DEF LearningInv
<1> QED BY <1>7, <1>8, <1>9, <1>10, <1>12, <1>13, <1>14 DEF LearningInv, Closed

LEMMA LearningByApplying ==
  ASSUME TypeInv, LearningInv, NEW c \in Client, MarkApplied(c)
  PROVE  LearningInv'
<1>1. /\ UNCHANGED <<status, attempts, closedWith, lessons>>
      /\ at[c] = "apply" /\ at'[c] = "idle"
      /\ job' = [job EXCEPT ![on[c]] = "APPLIED"]
      /\ \A d \in Client \ {c} : at'[d] = at[d] /\ on'[d] = on[d] /\ seen'[d] = seen[d]
  BY DEF MarkApplied, WriteJob, Answer, Go, TypeInv, RequestTypes, historyVars
<1>2. on[c] \in Episode /\ lessons[on[c]] # {}
  BY <1>1 DEF TypeInv, AtWork, LearningInv
<1>3. \A e \in Episode : job'[e] = "APPLIED" => job[e] = "APPLIED" \/ e = on[c]
  BY <1>1 DEF TypeInv, RowTypes
<1>4. AppliedIsLearnt'
  BY <1>1, <1>2, <1>3 DEF LearningInv, AppliedIsLearnt
<1>5. at'[c] \notin AfterClose /\ at'[c] \notin Listed
  BY <1>1 DEF AfterClose, Listed
<1>6. \A d \in Client : at'[d] \in AfterClose => status'[on'[d]] \in TerminalStatus
  BY <1>1, <1>5 DEF LearningInv, Closed
<1>7. \A d \in Client : at'[d] \in Listed => closedWith'[on'[d]] \subseteq seen'[d]
  BY <1>1, <1>5 DEF LearningInv
<1>8. \A d \in Client : at'[d] = "apply" => lessons'[on'[d]] # {}
  BY <1>1 DEF LearningInv
<1>9. /\ \A e \in Episode : lessons'[e] # {} => status'[e] \in TerminalStatus
      /\ \A e \in Episode : closedWith'[e] \subseteq attempts'[e]
      /\ LessonsComplete'
  BY <1>1 DEF LearningInv, LessonsComplete, Closed
<1> QED BY <1>4, <1>6, <1>7, <1>8, <1>9 DEF LearningInv, Closed

\* Every other step of a request is inside the frame.
LEMMA LearningByRequest ==
  ASSUME TypeInv, ClosedInv, LearningInv, NEW c \in Client, RequestStep(c)
  PROVE  LearningInv'
<1> DEFINE Framed ==
        /\ UNCHANGED <<status, closedWith, lessons>>
        /\ \A e \in Episode : attempts[e] \subseteq attempts'[e]
        /\ \A e \in Episode : job'[e] = "APPLIED" => job[e] = "APPLIED"
        /\ at'[c] \in AfterClose =>
             /\ at[c] \in AfterClose /\ on'[c] = on[c]
             /\ at'[c] \in Listed => at[c] \in Listed /\ seen'[c] = seen[c]
             /\ at'[c] = "apply" => at[c] = "apply"
<1>1. ASSUME Framed PROVE LearningInv'
  <2>1. \A e \in Episode : Closed(e) => status'[e] \in TerminalStatus
    BY <1>1 DEF Closed
  <2>2. \A d \in Client : at'[d] \in AfterClose =>
             /\ at[d] \in AfterClose /\ on'[d] = on[d]
             /\ at'[d] \in Listed => at[d] \in Listed /\ seen'[d] = seen[d]
             /\ at'[d] = "apply" => at[d] = "apply"
    BY <1>1, RequestsAreApart DEF OthersStay
  <2>3. UNCHANGED historyVars
    BY <1>1 DEF historyVars
  <2> HIDE DEF Framed
  <2> QED BY <1>1, <2>1, <2>2, <2>3, LearningFrame DEF Framed
<1>2. CASE CloseEpisode(c)
  BY <1>2, LearningByClose
<1>3. CASE ListForLearning(c) \/ ListForRetry(c)
  BY <1>3, LearningByListing
<1>4. CASE RunPipeline(c)
  BY <1>4, LearningByPipeline
<1>5. CASE MarkApplied(c)
  BY <1>5, LearningByApplying
<1>6. CASE NumberAttempt(c) \/ RefuseOutcome(c) \/ OutcomeTaken(c) \/ CheckOutcome(c)
           \/ RecordOutcome(c)
  <2>1. UNCHANGED <<status, attempts, job, closedWith, lessons>>
    BY <1>6 DEF NumberAttempt, RefuseOutcome, OutcomeTaken, CheckOutcome, RecordOutcome,
                rowVars, historyVars
  <2>2. at'[c] \in {"idle", "insert", "record", "close"}
    BY <1>6 DEF NumberAttempt, RefuseOutcome, OutcomeTaken, CheckOutcome, RecordOutcome,
                Answer, Advance, Go, TypeInv, RequestTypes
  <2>3. at'[c] \notin AfterClose
    BY <2>2 DEF AfterClose
  <2> QED BY <1>1, <2>1, <2>3
<1>7. CASE InsertAttempt(c)
  <2>1. UNCHANGED <<status, job, closedWith, lessons>> /\ at'[c] = "idle"
    BY <1>7 DEF InsertAttempt, Answer, Go, TypeInv, RequestTypes
  <2>2. \A e \in Episode : attempts[e] \subseteq attempts'[e]
    BY <1>7 DEF InsertAttempt, TypeInv, RowTypes
  <2>3. at'[c] \notin AfterClose
    BY <2>1 DEF AfterClose
  <2> QED BY <1>1, <2>1, <2>2, <2>3
<1>8. CASE Decide(c) \/ UpsertPending(c)
  <2>1. UNCHANGED <<status, attempts, job, closedWith, lessons>>
    BY <1>8 DEF Decide, UpsertPending, rowVars, historyVars
  <2>2. /\ at[c] \in {"decide", "upsert"}
        /\ \/ at'[c] = "idle"
           \/ /\ at'[c] \in {"upsert", "requeue", "start", "enqueue", "reset"}
              /\ on' = on /\ seen' = seen
    <3>1. CASE Decide(c)
      <4>1. /\ at[c] = "decide"
            /\ \/ Answer(c)
               \/ /\ Advance(c, "decide", "upsert") \/ Advance(c, "decide", "requeue")
                  /\ seen' = seen
        BY <3>1 DEF Decide
      <4>2. at \in [Client -> Place]
        BY DEF TypeInv, RequestTypes
      <4>3. CASE Answer(c)
        BY <4>1, <4>2, <4>3 DEF Answer, Go
      <4>4. CASE \/ Advance(c, "decide", "upsert") /\ seen' = seen
                 \/ Advance(c, "decide", "requeue") /\ seen' = seen
        BY <4>1, <4>2, <4>4 DEF Advance, Go
      <4> QED BY <4>1, <4>3, <4>4
    <3>2. CASE UpsertPending(c)
      BY <3>2 DEF UpsertPending, Advance, Go, TypeInv, RequestTypes
    <3> QED BY <1>8, <3>1, <3>2
  <2>3. at[c] \in AfterClose /\ at[c] \in Listed /\ at'[c] # "apply"
        /\ (at'[c] = "idle" => at'[c] \notin AfterClose)
    BY <2>2 DEF AfterClose, Listed
  <2> QED BY <1>1, <2>1, <2>2, <2>3
<1>9. CASE Requeue(c) \/ ResetPending(c) \/ InsertPending(c) \/ MarkProcessing(c) \/ MarkFailed(c)
  <2>1. PICK s \in {"FAILED", "PENDING", "PROCESSING"} : WriteJob(c, on[c], s)
    BY <1>9 DEF Requeue, ResetPending, InsertPending, MarkProcessing, MarkFailed
  <2>2. UNCHANGED <<status, attempts, closedWith, lessons>>
        /\ \A e \in Episode : job'[e] = "APPLIED" => job[e] = "APPLIED"
    BY <1>9, <2>1 DEF WriteJob, Requeue, ResetPending, InsertPending, MarkProcessing, MarkFailed,
                      historyVars, TypeInv, RowTypes
  <2>3. /\ at[c] \in {"requeue", "reset", "enqueue", "start", "fail"}
        /\ \/ at'[c] = "idle"
           \/ /\ at[c] # "fail"
              /\ at'[c] \in {"upsert", "start", "pipeline"} /\ on' = on /\ seen' = seen
    BY <1>9 DEF Requeue, ResetPending, InsertPending, MarkProcessing, MarkFailed,
                Answer, Advance, Go, TypeInv, RequestTypes
  <2>4. at[c] \in AfterClose /\ (at[c] # "fail" => at[c] \in Listed) /\ at'[c] # "apply"
        /\ (at'[c] = "idle" => at'[c] \notin AfterClose)
    BY <2>3 DEF AfterClose, Listed
  <2> QED BY <1>1, <2>2, <2>3, <2>4
<1> QED BY <1>2, <1>3, <1>4, <1>5, <1>6, <1>7, <1>8, <1>9 DEF RequestStep

LEMMA LearningStep ==
  ASSUME TypeInv, ClosedInv, LearningInv, [Next]_vars
  PROVE  LearningInv'
<1>1. CASE \E c \in Client : RequestStep(c)
  BY <1>1, LearningByRequest
<1>2. ASSUME NEW c \in Client, PipelineFails(c) \/ CallFails(c)
      PROVE  LearningInv'
  <2>1. UNCHANGED <<status, attempts, job>> /\ UNCHANGED historyVars
    BY <1>2 DEF PipelineFails, CallFails, rowVars
  <2>2. \/ at'[c] = "idle"
        \/ at[c] = "pipeline" /\ at'[c] = "fail" /\ on' = on
    BY <1>2 DEF PipelineFails, CallFails, Go, TypeInv, RequestTypes
  <2>3. at'[c] \in AfterClose =>
             at[c] \in AfterClose /\ on'[c] = on[c] /\ at'[c] \notin Listed /\ at'[c] # "apply"
    BY <2>2 DEF AfterClose, Listed
  <2> QED BY <1>2, <2>1, <2>3, RequestsAreApart, LearningFrame DEF OthersStay, Closed
<1>3. ASSUME NEW c \in Client, NEW e \in Episode, Request(c, e)
      PROVE  LearningInv'
  <2>1. OthersStay(c)
    BY <1>3, RequestsAreApart
  <2>2. CASE AskRetry(c, e)
    <3>1. /\ UNCHANGED <<status, attempts, job, closedWith, lessons>>
          /\ status[e] \in TerminalStatus /\ at'[c] = "relist" /\ on'[c] = e
      BY <2>2 DEF AskRetry, Ask, Go, Closed, TypeInv, RequestTypes, rowVars, historyVars
    <3>2. at'[c] \notin Listed /\ at'[c] # "apply"
      BY <3>1 DEF Listed
    <3>3. \A d \in Client : at'[d] \in AfterClose => status'[on'[d]] \in TerminalStatus
      BY <2>1, <3>1 DEF OthersStay, LearningInv, Closed
    <3>4. \A d \in Client : at'[d] \in Listed => closedWith'[on'[d]] \subseteq seen'[d]
      BY <2>1, <3>1, <3>2 DEF OthersStay, LearningInv
    <3>5. \A d \in Client : at'[d] = "apply" => lessons'[on'[d]] # {}
      BY <2>1, <3>1, <3>2 DEF OthersStay, LearningInv
    <3>6. /\ \A f \in Episode : lessons'[f] # {} => status'[f] \in TerminalStatus
          /\ \A f \in Episode : closedWith'[f] \subseteq attempts'[f]
          /\ LessonsComplete' /\ AppliedIsLearnt'
      BY <3>1 DEF LearningInv, LessonsComplete, AppliedIsLearnt, Closed
    <3> QED BY <3>3, <3>4, <3>5, <3>6 DEF LearningInv, Closed
  <2>3. CASE ~ AskRetry(c, e)
    <3>1. UNCHANGED <<attempts, job>> /\ UNCHANGED historyVars
      BY <1>3, <2>3 DEF Request, CreateEpisode, AskAttempt, AskComplete, rowVars
    <3>2. \A f \in Episode : Closed(f) => status'[f] \in TerminalStatus
      BY <1>3, <2>3, EpisodeAssumption
         DEF EpisodeAssumption, Request, CreateEpisode, InsertEpisode, AskAttempt, AskComplete,
             rowVars, Closed, TypeInv, RowTypes
    <3>3. at'[c] \in {"idle", "number", "insert", "check"}
      BY <1>3, <2>3 DEF Request, CreateEpisode, AskAttempt, AskComplete, Ask, Go, TypeInv,
                        RequestTypes, requestVars
    <3>4. at'[c] \notin AfterClose
      BY <3>3 DEF AfterClose
    <3> QED BY <2>1, <3>1, <3>2, <3>4, LearningFrame DEF OthersStay
  <2> QED BY <2>2, <2>3
<1>4. CASE \/ \E s \in Server : Start(s) \/ RecoverOne(s) \/ Crash(s)
           \/ Tick \/ UNCHANGED vars
  <2>1. UNCHANGED <<status, attempts>> /\ UNCHANGED historyVars
    BY <1>4 DEF Start, RecoverOne, Crash, Tick, vars, rowVars
  <2>2. \A e \in Episode : job'[e] = "APPLIED" => job[e] = "APPLIED"
    BY <1>4 DEF Start, RecoverOne, Crash, Tick, vars, rowVars, TypeInv, RowTypes
  <2>3. \A d \in Client :
            \/ at'[d] = "idle"
            \/ at'[d] = at[d] /\ on'[d] = on[d] /\ seen'[d] = seen[d]
    <3>1. CASE \E s \in Server : Crash(s)
      BY <3>1 DEF Crash
    <3>2. CASE ~ \E s \in Server : Crash(s)
      <4>1. UNCHANGED <<at, on, seen>>
        BY <1>4, <3>2 DEF Start, RecoverOne, Tick, vars, requestVars
      <4> QED BY <4>1
    <3> QED BY <3>1, <3>2
  <2>4. "idle" \notin AfterClose
    BY DEF AfterClose
  <2> QED BY <2>1, <2>2, <2>3, <2>4, LearningFrame DEF Closed
<1> QED BY <1>1, <1>2, <1>3, <1>4 DEF Next, ServerStep

LEMMA LearningAlways == Spec => []LearningInv
<1>1. Init => LearningInv
  BY DEF Init, LearningInv, LessonsComplete, AppliedIsLearnt, AfterClose, Listed
<1>2. TypeInv /\ ClosedInv /\ LearningInv /\ [Next]_vars => LearningInv'
  BY LearningStep
<1> QED BY <1>1, <1>2, ClosedAlways, PTL DEF Spec

\* Whatever attempts race with the completion, every pipeline learns from all there were at the
\* end (internal/episode/service.go:110).
THEOREM Lessons == Spec => []LessonsComplete
<1>1. LearningInv => LessonsComplete
  BY DEF LearningInv
<1> QED BY <1>1, LearningAlways, PTL

\* Requests, retries and recoveries write the job of an episode over one another, but none of them
\* makes it APPLIED before a pipeline has learnt (internal/episodelearn/processor.go:92).
THEOREM Applied == Spec => []AppliedIsLearnt
<1>1. LearningInv => AppliedIsLearnt
  BY DEF LearningInv
<1> QED BY <1>1, LearningAlways, PTL

-----------------------------------------------------------------------------
(* Attribution. *)


(* Among numbers there is a smallest one, and among the subsets of a finite set. *)
LEMMA Smallest ==
  ASSUME NEW S, S \subseteq Nat, S # {}
  PROVE  \E n \in S : \A m \in S : n <= m
<1>1. IsWellFoundedOn(OpToRel(<, Nat), Nat)
  BY NatLessThanWellFounded
<1>2. PICK n \in S : \A m \in S : ~(<<m, n>> \in OpToRel(<, Nat))
  BY <1>1, WFMin
<1>3. \A m \in S : ~(m < n)
  BY <1>2 DEF OpToRel
<1> QED
  BY <1>3

LEMMA SmallestSubset ==
  ASSUME NEW S, IsFiniteSet(S), NEW B, B \subseteq SUBSET S, B # {}
  PROVE  \E T \in B : \A U \in B : U \subseteq T => U = T
<1>1. IsWellFoundedOn(StrictSubsetOrdering(S), FiniteSubsetsOf(S))
  BY FS_StrictSubsetOrderingWellFounded
<1>2. \A T \in SUBSET S : IsFiniteSet(T)
  BY FS_Subset
<1>3. B \subseteq FiniteSubsetsOf(S)
  BY <1>2 DEF FiniteSubsetsOf
<1>4. PICK T \in B : \A U \in B : ~(<<U, T>> \in StrictSubsetOrdering(S))
  BY <1>1, <1>3, WFMin
<1>5. ASSUME NEW U \in B, U \subseteq T, U # T PROVE FALSE
  <2>1. U \in SUBSET S /\ T \in SUBSET S
    OBVIOUS
  <2>2. <<U, T>> \in StrictSubsetOrdering(S)
    BY <1>5, <2>1 DEF StrictSubsetOrdering
  <2> QED
    BY <1>4, <2>2
<1> QED
  BY <1>5

-----------------------------------------------------------------------------
(* Sums. *)

(* The element by which a sum over s goes on. *)
Pick(s) == CHOOSE x \in s : TRUE

(* The sums over all subsets of S. *)
Sums(F, S, g) ==
  g = [s \in SUBSET S |-> IF s = {} THEN 0 ELSE F[Pick(s)] + g[s \ {Pick(s)}]]

LEMMA SumIsChosen ==
  ASSUME NEW F, NEW S
  PROVE  SumFunctionOnSet(F, S) = (CHOOSE g : Sums(F, S, g))[S]
BY DEF SumFunctionOnSet, FoldFunctionOnSet, MapThenFoldSet, Sums, Pick

\* A sum over a smaller set is the same when it is part of the sums over a larger one.
LEMMA SumsOfLess ==
  ASSUME NEW F, NEW S, NEW T, T \subseteq S, NEW g, Sums(F, S, g)
  PROVE  \E h : Sums(F, T, h) /\ h[T] = g[T]
<1> DEFINE h == [s \in SUBSET T |-> g[s]]
<1>1. ASSUME NEW s \in SUBSET T
      PROVE  h[s] = IF s = {} THEN 0 ELSE F[Pick(s)] + h[s \ {Pick(s)}]
  BY <1>1 DEF Sums
<1>2. h = [s \in SUBSET T |-> IF s = {} THEN 0 ELSE F[Pick(s)] + h[s \ {Pick(s)}]]
  BY <1>1
<1>3. h[T] = g[T]
  OBVIOUS
<1> HIDE DEF h
<1> QED
  BY <1>2, <1>3 DEF Sums

\* There are such sums, and all agree.
SumsOne(F, T) ==
  /\ \E g : Sums(F, T, g)
  /\ \A g, h : Sums(F, T, g) /\ Sums(F, T, h) => g[T] = h[T]

LEMMA SumsExist ==
  ASSUME NEW F, NEW S, IsFiniteSet(S)
  PROVE  \A T \in SUBSET S : SumsOne(F, T)
<1> DEFINE B == {T \in SUBSET S : ~SumsOne(F, T)}
<1>1. SUFFICES B = {}
  OBVIOUS
<1>2. SUFFICES ASSUME B # {} PROVE FALSE
  OBVIOUS
<1>3. PICK T \in B : \A U \in B : U \subseteq T => U = T
  <2>1. B \subseteq SUBSET S
    OBVIOUS
  <2> HIDE DEF B
  <2> QED
    BY <1>2, <2>1, SmallestSubset
<1>4. \A U \in SUBSET T : U # T => SumsOne(F, U)
  BY <1>3
<1>5. \A s : s # {} => Pick(s) \in s
  BY DEF Pick
<1>6. ASSUME NEW U \in SUBSET T, U # T, NEW g, Sums(F, U, g)
      PROVE  g[U] = SumFunctionOnSet(F, U)
  BY <1>4, <1>6, SumIsChosen DEF SumsOne
<1> DEFINE H == [s \in SUBSET T |-> IF s = {} THEN 0
                                   ELSE F[Pick(s)] + SumFunctionOnSet(F, s \ {Pick(s)})]
<1>7. ASSUME NEW U \in SUBSET T, U # T
      PROVE  SumFunctionOnSet(F, U) = H[U]
  <2>1. PICK g : Sums(F, U, g)
    BY <1>4, <1>7 DEF SumsOne
  <2>2. g[U] = SumFunctionOnSet(F, U)
    BY <1>6, <1>7, <2>1
  <2>3. CASE U = {}
    BY <2>1, <2>2, <2>3 DEF Sums
  <2>4. CASE U # {}
    <3> DEFINE V == U \ {Pick(U)}
    <3>1. V \in SUBSET U /\ V # T /\ V \in SUBSET T
      BY <1>5, <1>7, <2>4
    <3>2. PICK h : Sums(F, V, h) /\ h[V] = g[V]
      <4> HIDE DEF V
      <4> QED
        BY <3>1, <2>1, SumsOfLess
    <3>3. g[V] = SumFunctionOnSet(F, V)
      BY <3>1, <3>2, <1>6
    <3>4. g[U] = F[Pick(U)] + g[V]
      BY <2>1, <2>4 DEF Sums
    <3> QED
      BY <2>2, <2>4, <3>3, <3>4
  <2> QED
    BY <2>3, <2>4
<1>8. Sums(F, T, H)
  <2>1. ASSUME NEW s \in SUBSET T
        PROVE  H[s] = IF s = {} THEN 0 ELSE F[Pick(s)] + H[s \ {Pick(s)}]
    <3>1. s # {} => s \ {Pick(s)} \in SUBSET T /\ s \ {Pick(s)} # T
      BY <1>5
    <3> QED
      BY <3>1, <1>7
  <2>2. H = [s \in SUBSET T |-> IF s = {} THEN 0 ELSE F[Pick(s)] + H[s \ {Pick(s)}]]
    BY <2>1
  <2> HIDE DEF H
  <2> QED
    BY <2>2 DEF Sums
<1>9. ASSUME NEW g, Sums(F, T, g) PROVE g[T] = H[T]
  <2>1. CASE T = {}
    BY <1>9, <2>1 DEF Sums
  <2>2. CASE T # {}
    <3> DEFINE V == T \ {Pick(T)}
    <3>1. V \in SUBSET T /\ V # T
      BY <1>5, <2>2
    <3>2. PICK h : Sums(F, V, h) /\ h[V] = g[V]
      <4> HIDE DEF V
      <4> QED
        BY <3>1, <1>9, SumsOfLess
    <3>3. g[V] = SumFunctionOnSet(F, V)
      BY <3>1, <3>2, <1>6
    <3>4. g[T] = F[Pick(T)] + g[V]
      BY <1>9, <2>2 DEF Sums
    <3> QED
      BY <2>2, <3>3, <3>4
  <2> QED
    BY <2>1, <2>2
<1>10. SumsOne(F, T)
  <2> HIDE DEF H
  <2> QED
    BY <1>8, <1>9 DEF SumsOne
<1> QED
  BY <1>3, <1>10

\* What a sum is, step by step.
LEMMA SumSteps ==
  ASSUME NEW F, NEW S, IsFiniteSet(S)
  PROVE  SumFunctionOnSet(F, S) =
           IF S = {} THEN 0 ELSE F[Pick(S)] + SumFunctionOnSet(F, S \ {Pick(S)})
<1>1. \A T \in SUBSET S : SumsOne(F, T)
  BY SumsExist
<1>2. PICK g : Sums(F, S, g)
  BY <1>1 DEF SumsOne
<1>3. ASSUME NEW T \in SUBSET S PROVE g[T] = SumFunctionOnSet(F, T)
  <2>1. PICK h : Sums(F, T, h) /\ h[T] = g[T]
    BY <1>2, SumsOfLess
  <2>2. h[T] = (CHOOSE k : Sums(F, T, k))[T]
    BY <1>1, <2>1 DEF SumsOne
  <2> QED
    BY <2>1, <2>2, SumIsChosen
<1>4. S # {} => g[S] = F[Pick(S)] + g[S \ {Pick(S)}]
  BY <1>2 DEF Sums
<1>5. S = {} => g[S] = 0
  BY <1>2 DEF Sums
<1>6. S # {} => g[S \ {Pick(S)}] = SumFunctionOnSet(F, S \ {Pick(S)})
  BY <1>3
<1> QED
  BY <1>3, <1>4, <1>5, <1>6

\* Induction over the subsets of a finite set; A is the set of those it holds of.
LEMMA SubsetInduction ==
  ASSUME NEW S, IsFiniteSet(S), NEW A,
         \A T \in SUBSET S : (\A U \in SUBSET T : U # T => U \in A) => T \in A
  PROVE  \A T \in SUBSET S : T \in A
<1> DEFINE B == {T \in SUBSET S : T \notin A}
<1>1. SUFFICES ASSUME B # {} PROVE FALSE
  OBVIOUS
<1>2. B \subseteq SUBSET S
  OBVIOUS
<1>3. PICK T \in B : \A U \in B : U \subseteq T => U = T
  <2> HIDE DEF B
  <2> QED
    BY <1>1, <1>2, SmallestSubset
<1>4. \A U \in SUBSET T : U # T => U \in A
  BY <1>3
<1> QED
  BY <1>4

LEMMA SumOfNone ==
  ASSUME NEW F
  PROVE  SumFunctionOnSet(F, {}) = 0
BY SumSteps, FS_EmptySet

\* A sum of whole numbers is one, and a sum of numbers that are not negative is not.
LEMMA SumIsInt ==
  ASSUME NEW F, NEW S, IsFiniteSet(S), \A x \in S : F[x] \in Int
  PROVE  SumFunctionOnSet(F, S) \in Int
<1> DEFINE A == {T \in SUBSET S : SumFunctionOnSet(F, T) \in Int}
<1>1. ASSUME NEW T \in SUBSET S, \A U \in SUBSET T : U # T => U \in A
      PROVE  T \in A
  <2>1. CASE T = {}
    BY <2>1, SumOfNone
  <2>2. CASE T # {}
    <3>1. Pick(T) \in T
      BY <2>2 DEF Pick
    <3>2. SumFunctionOnSet(F, T \ {Pick(T)}) \in Int /\ F[Pick(T)] \in Int
      BY <1>1, <3>1
    <3>3. IsFiniteSet(T)
      BY FS_Subset
    <3>4. SumFunctionOnSet(F, T) = F[Pick(T)] + SumFunctionOnSet(F, T \ {Pick(T)})
      BY <2>2, <3>3, SumSteps
    <3> QED
      BY <3>2, <3>4
  <2> QED
    BY <2>1, <2>2
<1>2. \A T \in SUBSET S : T \in A
  <2> HIDE DEF A
  <2> QED
    BY <1>1, SubsetInduction
<1> QED
  BY <1>2

LEMMA SumIsNat ==
  ASSUME NEW F, NEW S, IsFiniteSet(S), \A x \in S : F[x] \in Nat
  PROVE  SumFunctionOnSet(F, S) \in Nat
<1> DEFINE A == {T \in SUBSET S : SumFunctionOnSet(F, T) \in Nat}
<1>1. ASSUME NEW T \in SUBSET S, \A U \in SUBSET T : U # T => U \in A
      PROVE  T \in A
  <2>1. CASE T = {}
    BY <2>1, SumOfNone
  <2>2. CASE T # {}
    <3>1. Pick(T) \in T
      BY <2>2 DEF Pick
    <3>2. SumFunctionOnSet(F, T \ {Pick(T)}) \in Nat /\ F[Pick(T)] \in Nat
      BY <1>1, <3>1
    <3>3. IsFiniteSet(T)
      BY FS_Subset
    <3>4. SumFunctionOnSet(F, T) = F[Pick(T)] + SumFunctionOnSet(F, T \ {Pick(T)})
      BY <2>2, <3>3, SumSteps
    <3> QED
      BY <3>2, <3>4
  <2> QED
    BY <2>1, <2>2
<1>2. \A T \in SUBSET S : T \in A
  <2> HIDE DEF A
  <2> QED
    BY <1>1, SubsetInduction
<1> QED
  BY <1>2

\* A factor of every term is a factor of the sum.
LEMMA SumTimes ==
  ASSUME NEW F, NEW G, NEW S, IsFiniteSet(S), NEW c \in Int, NEW d \in Int,
         \A x \in S : F[x] \in Int /\ G[x] \in Int /\ c * F[x] = d * G[x]
  PROVE  c * SumFunctionOnSet(F, S) = d * SumFunctionOnSet(G, S)
<1> DEFINE A == {T \in SUBSET S : c * SumFunctionOnSet(F, T) = d * SumFunctionOnSet(G, T)}
<1>1. ASSUME NEW T \in SUBSET S, \A U \in SUBSET T : U # T => U \in A
      PROVE  T \in A
  <2>1. CASE T = {}
    BY <2>1, SumOfNone
  <2>2. CASE T # {}
    <3> DEFINE x == Pick(T)
               U == T \ {x}
    <3>1. x \in T
      BY <2>2 DEF Pick
    <3>2. U \in SUBSET T /\ U # T /\ x \in S
      BY <3>1
    <3>3. IsFiniteSet(T) /\ IsFiniteSet(U)
      BY <3>2, FS_Subset
    <3>4. /\ SumFunctionOnSet(F, T) = F[x] + SumFunctionOnSet(F, U)
          /\ SumFunctionOnSet(G, T) = G[x] + SumFunctionOnSet(G, U)
      BY <2>2, <3>3, SumSteps
    <3>5. SumFunctionOnSet(F, U) \in Int /\ SumFunctionOnSet(G, U) \in Int
      BY <3>2, <3>3, SumIsInt
    <3>6. c * SumFunctionOnSet(F, U) = d * SumFunctionOnSet(G, U)
      BY <1>1, <3>2
    <3>7. c * F[x] = d * G[x] /\ F[x] \in Int /\ G[x] \in Int
      BY <3>2
    <3> HIDE DEF x, U
    <3>8. \A i, j, k, l \in Int :
            c * i = d * j /\ c * k = d * l => c * (i + k) = d * (j + l)
      OBVIOUS
    <3>9. c * SumFunctionOnSet(F, T) = d * SumFunctionOnSet(G, T)
      BY <3>4, <3>5, <3>6, <3>7, <3>8
    <3> QED
      BY <3>9
  <2> QED
    BY <2>1, <2>2
<1>2. \A T \in SUBSET S : T \in A
  <2> HIDE DEF A
  <2> QED
    BY <1>1, SubsetInduction
<1> QED
  BY <1>2

LEMMA SumIsPositive ==
  ASSUME NEW F, NEW S, IsFiniteSet(S), S # {}, \A x \in S : F[x] \in Nat \ {0}
  PROVE  SumFunctionOnSet(F, S) \in Nat \ {0}
<1>1. Pick(S) \in S
  BY DEF Pick
<1>2. IsFiniteSet(S \ {Pick(S)})
  BY FS_Subset
<1>3. SumFunctionOnSet(F, S \ {Pick(S)}) \in Nat
  BY <1>2, SumIsNat
<1>4. SumFunctionOnSet(F, S) = F[Pick(S)] + SumFunctionOnSet(F, S \ {Pick(S)})
  BY SumSteps
<1> QED
  BY <1>1, <1>3, <1>4

LEMMA SumIsNegative ==
  ASSUME NEW F, NEW S, IsFiniteSet(S), \A x \in S : F[x] \in Int /\ F[x] <= 0
  PROVE  SumFunctionOnSet(F, S) \in Int /\ SumFunctionOnSet(F, S) <= 0
<1>1. PICK G : G = [x \in S |-> -F[x]]
  OBVIOUS
<1>2. \A x \in S : G[x] \in Nat /\ G[x] \in Int /\ (-1) * F[x] = 1 * G[x]
  BY <1>1
<1>3. SumFunctionOnSet(G, S) \in Nat /\ SumFunctionOnSet(F, S) \in Int
  BY <1>2, SumIsNat, SumIsInt
<1>4. (-1) * SumFunctionOnSet(F, S) = 1 * SumFunctionOnSet(G, S)
  BY <1>2, SumTimes
<1> QED
  BY <1>3, <1>4

\* A sum goes on by any of its elements.
LEMMA SumRemove ==
  ASSUME NEW F, NEW S, IsFiniteSet(S), \A x \in S : F[x] \in Int
  PROVE  \A x \in S : SumFunctionOnSet(F, S) = F[x] + SumFunctionOnSet(F, S \ {x})
<1> DEFINE A == {T \in SUBSET S : \A x \in T :
                   SumFunctionOnSet(F, T) = F[x] + SumFunctionOnSet(F, T \ {x})}
<1>1. ASSUME NEW T \in SUBSET S, \A U \in SUBSET T : U # T => U \in A
      PROVE  T \in A
  <2>1. SUFFICES ASSUME NEW x \in T
                 PROVE  SumFunctionOnSet(F, T) = F[x] + SumFunctionOnSet(F, T \ {x})
    OBVIOUS
  <2>2. PICK y : y = Pick(T)
    OBVIOUS
  <2>3. y \in T
    BY <2>2 DEF Pick
  <2>4. IsFiniteSet(T)
    BY FS_Subset
  <2>5. SumFunctionOnSet(F, T) = F[y] + SumFunctionOnSet(F, T \ {y})
    BY <2>2, <2>3, <2>4, SumSteps
  <2>6. CASE y # x
    <3>1. PICK V : V = (T \ {y}) \ {x}
      OBVIOUS
    <3>2. V = (T \ {x}) \ {y}
      BY <3>1
    <3>3. SumFunctionOnSet(F, T \ {y}) = F[x] + SumFunctionOnSet(F, V)
      <4>1. T \ {y} \in SUBSET T /\ T \ {y} # T /\ x \in T \ {y}
        BY <2>3, <2>6
      <4> QED
        BY <1>1, <3>1, <4>1
    <3>4. SumFunctionOnSet(F, T \ {x}) = F[y] + SumFunctionOnSet(F, V)
      <4>1. T \ {x} \in SUBSET T /\ T \ {x} # T /\ y \in T \ {x}
        BY <2>3, <2>6
      <4> QED
        BY <1>1, <3>2, <4>1
    <3>5. SumFunctionOnSet(F, V) \in Int
      <4>1. IsFiniteSet(V) /\ \A v \in V : F[v] \in Int
        BY <2>4, <3>1, FS_Subset
      <4> QED
        BY <4>1, SumIsInt
    <3>6. F[x] \in Int /\ F[y] \in Int
      BY <2>3
    <3> QED
      BY <2>5, <3>3, <3>4, <3>5, <3>6
  <2> QED
    BY <2>5, <2>6
<1>2. \A T \in SUBSET S : T \in A
  <2> HIDE DEF A
  <2> QED
    BY <1>1, SubsetInduction
<1> QED
  BY <1>2

\* A sum may be taken over other names of its elements.
LEMMA SumRenamed ==
  ASSUME NEW F, NEW G, NEW S, IsFiniteSet(S), NEW h,
         \A i, j \in S : h[i] = h[j] => i = j,
         \A i \in S : F[i] \in Int /\ G[h[i]] = F[i]
  PROVE  SumFunctionOnSet(G, {h[i] : i \in S}) = SumFunctionOnSet(F, S)
<1> DEFINE A == {T \in SUBSET S :
                   /\ IsFiniteSet({h[i] : i \in T})
                   /\ SumFunctionOnSet(G, {h[i] : i \in T}) = SumFunctionOnSet(F, T)}
<1>1. ASSUME NEW T \in SUBSET S, \A U \in SUBSET T : U # T => U \in A
      PROVE  T \in A
  <2>1. CASE T = {}
    <3>1. {h[i] : i \in T} = {}
      BY <2>1
    <3> QED
      BY <2>1, <3>1, SumOfNone, FS_EmptySet
  <2>2. CASE T # {}
    <3>1. PICK y \in T : y = Pick(T)
      BY <2>2 DEF Pick
    <3>2. PICK U : U = T \ {y}
      OBVIOUS
    <3>3. PICK H : H = {h[i] : i \in T}
      OBVIOUS
    <3>4. {h[i] : i \in U} = H \ {h[y]} /\ h[y] \in H
      BY <3>2, <3>3
    <3>5. U \in A
      BY <1>1, <3>2
    <3>6. IsFiniteSet(H \ {h[y]}) /\ SumFunctionOnSet(G, H \ {h[y]}) = SumFunctionOnSet(F, U)
      BY <3>4, <3>5
    <3>7. H = (H \ {h[y]}) \cup {h[y]}
      BY <3>4
    <3>8. IsFiniteSet(H)
      BY <3>6, <3>7, FS_AddElement
    <3>9. \A k \in H : G[k] \in Int
      BY <3>3
    <3>10. SumFunctionOnSet(G, H) = G[h[y]] + SumFunctionOnSet(G, H \ {h[y]})
      BY <3>4, <3>8, <3>9, SumRemove
    <3>11. IsFiniteSet(T) /\ \A x \in T : F[x] \in Int
      BY FS_Subset
    <3>12. SumFunctionOnSet(F, T) = F[y] + SumFunctionOnSet(F, U)
      BY <3>2, <3>11, SumRemove
    <3>13. SumFunctionOnSet(G, H) = SumFunctionOnSet(F, T)
      BY <3>6, <3>10, <3>12
    <3> QED
      BY <3>3, <3>8, <3>13
  <2> QED
    BY <2>1, <2>2
<1>2. \A T \in SUBSET S : T \in A
  <2> HIDE DEF A
  <2> QED
    BY <1>1, SubsetInduction
<1> QED
  BY <1>2


\* As many ones as there are add up to that number.
LEMMA SumOfOnes ==
  ASSUME NEW n \in Nat
  PROVE  SumFunctionOnSet([i \in 1..n |-> 1], 1..n) = n
<1>1. PICK F : F = [i \in 1..n |-> 1]
  OBVIOUS
<1> DEFINE Bad == {m \in 0..n : SumFunctionOnSet(F, 1..m) # m}
<1>2. ASSUME Bad # {} PROVE FALSE
  <2>1. PICK m \in Bad : \A k \in Bad : m <= k
    <3>1. Bad \subseteq Nat
      OBVIOUS
    <3> HIDE DEF Bad
    <3> QED
      BY <1>2, <3>1, Smallest
  <2>2. CASE m = 0
    <3>1. 1..m = {}
      BY <2>2
    <3> QED
      BY <2>1, <2>2, <3>1, SumOfNone
  <2>3. CASE m # 0
    <3>1. m - 1 \in 0..n /\ m - 1 \notin Bad
      BY <2>1, <2>3
    <3>2. SumFunctionOnSet(F, 1..(m - 1)) = m - 1
      BY <3>1
    <3>3. (1..m) \ {m} = 1..(m - 1) /\ m \in 1..m /\ m \in 1..n
      BY <2>3
    <3>4. IsFiniteSet(1..m) /\ \A i \in 1..m : F[i] \in Int
      BY <1>1, FS_Interval
    <3>5. SumFunctionOnSet(F, 1..m) = F[m] + SumFunctionOnSet(F, (1..m) \ {m})
      BY <3>3, <3>4, SumRemove
    <3>6. F[m] = 1 /\ m \in Nat
      BY <1>1, <3>3
    <3>7. PICK s : s = SumFunctionOnSet(F, 1..m)
      OBVIOUS
    <3>8. s = 1 + (m - 1)
      BY <3>2, <3>3, <3>5, <3>6, <3>7
    <3>9. s = m
      BY <3>6, <3>8
    <3> QED
      BY <2>1, <3>7, <3>9
  <2> QED
    BY <2>2, <2>3
<1>3. n \notin Bad
  BY <1>2
<1> QED
  BY <1>1, <1>3

-----------------------------------------------------------------------------
(* Shares. *)

LEMMA ExactDivision ==
  ASSUME NEW n \in Nat, NEW m \in Nat \ {0}
  PROVE  /\ n \div m \in Nat
         /\ Divides(m, n) => m * (n \div m) = n
BY DEF Divides

LEMMA Factor ==
  ASSUME NEW c \in Nat \ {0}, NEW m \in Int, NEW n \in Int, c * m = c * n
  PROVE  m = n
OBVIOUS

\* Shares in proportion are whole, and add up to Whole.
LEMMA Proportion ==
  ASSUME NEW w, IsFiniteSet(DOMAIN w), \A x \in DOMAIN w : w[x] \in Nat,
         SumFunction(w) > 0, SharesWell(w)
  PROVE  /\ InProportion(w) \in [DOMAIN w -> Nat]
         /\ SumFunction(InProportion(w)) = Whole
<1>1. PICK total : total = SumFunction(w)
  OBVIOUS
<1>2. PICK q : q = InProportion(w)
  OBVIOUS
<1>3. total \in Nat \ {0} /\ Whole \in Nat \ {0}
  BY <1>1, SumIsNat, AttributionAssumption DEF SumFunction
<1>4. q = [x \in DOMAIN w |-> (w[x] * Whole) \div total]
  BY <1>1, <1>2 DEF InProportion
<1>5. ASSUME NEW x \in DOMAIN w
      PROVE  q[x] \in Nat /\ total * q[x] = w[x] * Whole
  <2>1. w[x] * Whole \in Nat
    BY <1>3
  <2>2. Divides(total, w[x] * Whole)
    BY <1>1 DEF SharesWell
  <2>3. q[x] = (w[x] * Whole) \div total
    BY <1>4
  <2>4. PICK n \in Nat : n = w[x] * Whole
    BY <2>1
  <2> QED
    BY <1>3, <2>2, <2>3, <2>4, ExactDivision
<1>6. q \in [DOMAIN w -> Nat]
  BY <1>4, <1>5
<1>7. \A x \in DOMAIN w : q[x] \in Int /\ w[x] \in Int /\ total * q[x] = Whole * w[x]
  BY <1>3, <1>5
<1>8. total * SumFunctionOnSet(q, DOMAIN w) = Whole * SumFunctionOnSet(w, DOMAIN w)
  BY <1>3, <1>7, SumTimes
<1>9. SumFunctionOnSet(q, DOMAIN w) \in Int
  BY <1>7, SumIsInt
<1>10. DOMAIN q = DOMAIN w
  BY <1>4
<1>11. SumFunctionOnSet(q, DOMAIN w) = SumFunction(q)
  BY <1>10 DEF SumFunction
<1>12. SumFunctionOnSet(w, DOMAIN w) = total
  BY <1>1 DEF SumFunction
<1>13. PICK s \in Int : s = SumFunctionOnSet(q, DOMAIN w)
  BY <1>9
<1>14. total * s = total * Whole
  BY <1>3, <1>8, <1>12, <1>13
<1>15. s = Whole
  BY <1>3, <1>14, Factor
<1> QED
  BY <1>2, <1>6, <1>11, <1>13, <1>15


-----------------------------------------------------------------------------
(* What an episode has, and what a feedback takes from it. *)

UsageTypes ==
  /\ used \in Seq([exp : Experiences, score : Scores]) /\ Len(used) <= MaxUsages
  /\ shown \in [Patterns -> Nat]
  /\ \A p \in Patterns : shown[p] # 0 => \E score \in Scores : shown[p] = PatternScore(score)
  /\ done \subseteq Actions
  /\ links \subseteq Links /\ IsFiniteSet(links)

LEMMA TablesAreFinite ==
  /\ IsFiniteSet(Experiences) /\ IsFiniteSet(Patterns) /\ IsFiniteSet(Versions)
BY AttributionAssumption

\* An experience that is used has a first row.
LEMMA UsedTypes ==
  ASSUME UsageTypes
  PROVE  /\ UsedOnes \subseteq Experiences /\ IsFiniteSet(UsedOnes)
         /\ Len(used) \in Nat /\ DOMAIN used = 1..Len(used)
         /\ \A i \in 1..Len(used) : used[i].score \in Scores /\ used[i].exp \in UsedOnes
         /\ \A x \in UsedOnes : FirstUse(x) \in 1..Len(used) /\ used[FirstUse(x)].exp = x
<1>1. used \in Seq([exp : Experiences, score : Scores])
  BY DEF UsageTypes
<1>2. Len(used) \in Nat /\ DOMAIN used = 1..Len(used)
  BY <1>1
<1>3. ASSUME NEW i \in 1..Len(used)
      PROVE  used[i] \in [exp : Experiences, score : Scores]
  <2>1. PICK X : X = [exp : Experiences, score : Scores]
    OBVIOUS
  <2>2. used \in Seq(X)
    BY <1>1, <2>1
  <2>3. used[i] \in X
    BY <2>2
  <2> QED
    BY <2>1, <2>3
<1>4. \A i \in 1..Len(used) : used[i].score \in Scores /\ used[i].exp \in Experiences
  BY <1>3
<1>5. UsedOnes \subseteq Experiences
  BY <1>2, <1>4 DEF UsedOnes
<1>6. IsFiniteSet(UsedOnes)
  BY <1>5, TablesAreFinite, FS_Subset
<1>7. ASSUME NEW x \in UsedOnes
      PROVE  FirstUse(x) \in 1..Len(used) /\ used[FirstUse(x)].exp = x
  <2>1. PICK S : S = {i \in DOMAIN used : used[i].exp = x}
    OBVIOUS
  <2>2. S \subseteq Nat /\ S # {}
    BY <1>2, <2>1 DEF UsedOnes
  <2>3. \E n \in S : \A m \in S : n <= m
    BY <2>2, Smallest
  <2>4. (CHOOSE n \in S : \A m \in S : n <= m) \in S
    BY <2>3
  <2>5. FirstUse(x) \in S
    BY <2>1, <2>4 DEF FirstUse, Min
  <2> QED
    BY <1>2, <2>1, <2>5
<1> QED
  BY <1>2, <1>4, <1>5, <1>6, <1>7 DEF UsedOnes

\* No experience was shown by two contexts.
UsedOnce == Cardinality(UsedOnes) = Len(used)

LEMMA EachUsedOnce ==
  ASSUME UsageTypes, UsedOnce
  PROVE  \A i, j \in 1..Len(used) : used[i].exp = used[j].exp => i = j
<1>1. PICK n \in Nat : n = Len(used)
  BY UsedTypes
<1>2. PICK h : h = [i \in 1..n |-> used[i].exp]
  OBVIOUS
<1>3. IsFiniteSet(1..n) /\ Cardinality(1..n) = n
  BY FS_Interval
<1>4. h \in [1..n -> UsedOnes]
  BY <1>1, <1>2, UsedTypes
<1>5. \A x \in UsedOnes : \E i \in 1..n : h[i] = x
  BY <1>1, <1>2, UsedTypes
<1>6. h \in Surjection(1..n, UsedOnes)
  BY <1>4, <1>5 DEF Surjection
<1>7. Cardinality(UsedOnes) = Cardinality(1..n)
  BY <1>1, <1>3 DEF UsedOnce
<1>8. h \in Injection(1..n, UsedOnes)
  BY <1>3, <1>6, <1>7, FS_Surjection
<1>9. \A i, j \in 1..n : h[i] = h[j] => i = j
  BY <1>4, <1>8 DEF Injection, IsInjective
<1> QED
  BY <1>1, <1>2, <1>9

\* The scores of an episode give each used experience a share; used once each, they share it all.
LEMMA ScoresShare ==
  ASSUME UsageTypes
  PROVE  /\ ByScores \in [UsedOnes -> Nat]
         /\ UsedOnce /\ UsedOnes # {} => SumFunction(ByScores) = Whole
<1>1. PICK n \in Nat : n = Len(used)
  BY UsedTypes
<1>2. PICK score : score = [i \in 1..n |-> used[i].score]
  OBVIOUS
<1>3. PICK share : share = IF n = 1 \/ SumFunction(score) = 0
                           THEN [i \in 1..n |-> Whole \div n] ELSE InProportion(score)
  OBVIOUS
<1>4. ByScores = [x \in UsedOnes |-> share[FirstUse(x)]]
  BY <1>1, <1>2, <1>3 DEF ByScores
<1>5. n <= MaxUsages /\ MaxUsages \in Nat /\ Whole \in Nat \ {0} /\ Scores \subseteq Nat
  BY <1>1, AttributionAssumption DEF UsageTypes
<1>6. score \in [1..n -> Scores] /\ DOMAIN score = 1..n /\ \A i \in 1..n : score[i] \in Nat
  BY <1>1, <1>2, <1>5, UsedTypes
<1>7. IsFiniteSet(1..n)
  BY FS_Interval
<1>8. SumFunction(score) \in Nat
  BY <1>6, <1>7, SumIsNat DEF SumFunction
<1>9. CASE n = 0
  <2>1. UsedOnes = {}
    BY <1>1, <1>9, UsedTypes
  <2> QED
    BY <1>4, <2>1
<1>10. CASE n # 0
  <2>1. n \in 1..MaxUsages /\ n \in Nat \ {0}
    BY <1>5, <1>10
  <2>2. Divides(n, Whole) /\ SharesWell(score)
    BY <1>6, <2>1, WholeAssumption
  <2>3. share \in [1..n -> Nat] /\ SumFunctionOnSet(share, 1..n) = Whole
    <3>1. CASE n = 1 \/ SumFunction(score) = 0
      <4>1. share = [i \in 1..n |-> Whole \div n]
        BY <1>3, <3>1
      <4>2. PICK q \in Nat : q = Whole \div n /\ n * q = Whole
        BY <1>5, <2>1, <2>2, ExactDivision
      <4>3. PICK one : one = [i \in 1..n |-> 1]
        OBVIOUS
      <4>4. SumFunctionOnSet(one, 1..n) = n
        BY <4>3, SumOfOnes
      <4>5. \A i \in 1..n : share[i] \in Int /\ one[i] \in Int
                            /\ 1 * share[i] = q * one[i]
        BY <4>1, <4>2, <4>3
      <4>6. 1 * SumFunctionOnSet(share, 1..n) = q * SumFunctionOnSet(one, 1..n)
        <5>1. PICK S : S = 1..n
          OBVIOUS
        <5>2. IsFiniteSet(S) /\ \A i \in S : share[i] \in Int /\ one[i] \in Int
                                            /\ 1 * share[i] = q * one[i]
          BY <1>7, <4>5, <5>1
        <5>3. 1 * SumFunctionOnSet(share, S) = q * SumFunctionOnSet(one, S)
          BY <5>2, SumTimes
        <5> QED
          BY <5>1, <5>3
      <4>7. SumFunctionOnSet(share, 1..n) \in Int
        BY <1>7, <4>5, SumIsInt
      <4> QED
        BY <4>1, <4>2, <4>4, <4>6, <4>7
    <3>2. CASE ~(n = 1 \/ SumFunction(score) = 0)
      <4>1. SumFunction(score) > 0
        BY <1>8, <3>2
      <4>2. share = InProportion(score)
        BY <1>3, <3>2
      <4>3. share \in [1..n -> Nat] /\ SumFunction(share) = Whole
        BY <1>6, <1>7, <2>2, <4>1, <4>2, Proportion
      <4> QED
        BY <4>3 DEF SumFunction
    <3> QED
      BY <3>1, <3>2
  <2>4. ByScores \in [UsedOnes -> Nat]
    BY <1>1, <1>4, <2>3, UsedTypes
  <2>5. ASSUME UsedOnce PROVE SumFunction(ByScores) = Whole
    <3>1. PICK h : h = [i \in 1..n |-> used[i].exp]
      OBVIOUS
    <3>2. \A i, j \in 1..n : h[i] = h[j] => i = j
      BY <1>1, <2>5, <3>1, EachUsedOnce
    <3>3. \A i \in 1..n : FirstUse(used[i].exp) = i
      BY <1>1, <2>5, UsedTypes, EachUsedOnce
    <3>4. {h[i] : i \in 1..n} = UsedOnes
      BY <1>1, <3>1, UsedTypes DEF UsedOnes
    <3>5. PICK G : G = ByScores
      OBVIOUS
    <3>6. \A i \in 1..n : share[i] \in Int /\ G[h[i]] = share[i]
      BY <1>1, <1>4, <2>3, <3>1, <3>3, <3>5, UsedTypes
    <3>8. SumFunctionOnSet(G, {h[i] : i \in 1..n}) = SumFunctionOnSet(share, 1..n)
      <4>1. PICK S : S = 1..n
        OBVIOUS
      <4>2. /\ IsFiniteSet(S)
            /\ \A i, j \in S : h[i] = h[j] => i = j
            /\ \A i \in S : share[i] \in Int /\ G[h[i]] = share[i]
        BY <1>7, <3>2, <3>6, <4>1
      <4>3. SumFunctionOnSet(G, {h[i] : i \in S}) = SumFunctionOnSet(share, S)
        BY <4>2, SumRenamed
      <4> QED
        BY <4>1, <4>3
    <3>7. DOMAIN ByScores = UsedOnes
      BY <1>4
    <3> QED
      BY <2>3, <3>4, <3>5, <3>7, <3>8 DEF SumFunction
  <2> QED
    BY <2>4, <2>5
<1> QED
  BY <1>9, <1>10


(* The links of used experiences a precise target is about. *)
UsedEvidence(t) == {l \in Evidence(t) : l.exp \in UsedOnes}

LEMMA InfluenceCounts ==
  ASSUME NEW l \in Links
  PROVE  Influence(l) \in Nat \ {0}
<1>1. l.influence \in 0..Full /\ Full \in Nat \ {0}
  BY AttributionAssumption
<1> QED
  BY <1>1 DEF Influence

LEMMA WeightsCount ==
  ASSUME UsageTypes, NEW ls, ls \subseteq links, \A l \in ls : l.exp \in UsedOnes
  PROVE  /\ DOMAIN Weights(ls) = {l.exp : l \in ls}
         /\ IsFiniteSet(DOMAIN Weights(ls))
         /\ \A x \in DOMAIN Weights(ls) : Weights(ls)[x] \in Nat \ {0}
         /\ SharesWell(Weights(ls))
<1>1. ls \in SUBSET Links /\ IsFiniteSet(ls)
  BY FS_Subset DEF UsageTypes
<1>2. DOMAIN Weights(ls) = {l.exp : l \in ls}
  BY DEF Weights
<1>3. DOMAIN Weights(ls) \subseteq UsedOnes
  BY <1>2
<1>4. IsFiniteSet(DOMAIN Weights(ls))
  BY <1>3, UsedTypes, FS_Subset
<1>5. ASSUME NEW x \in DOMAIN Weights(ls)
      PROVE  Weights(ls)[x] \in Nat \ {0}
  <2>1. PICK own : own = {l \in ls : l.exp = x}
    OBVIOUS
  <2>2. PICK F : F = [l \in own |-> Influence(l)]
    OBVIOUS
  <2>3. Weights(ls)[x] = SumFunction(F)
    BY <1>2, <2>1, <2>2 DEF Weights
  <2>4. own # {} /\ IsFiniteSet(own) /\ own \subseteq Links
    BY <1>1, <1>2, <2>1, FS_Subset
  <2>5. DOMAIN F = own /\ \A l \in own : F[l] \in Nat \ {0}
    BY <2>2, <2>4, InfluenceCounts
  <2>6. SumFunctionOnSet(F, own) \in Nat \ {0}
    BY <2>4, <2>5, SumIsPositive
  <2> QED
    BY <2>3, <2>5, <2>6 DEF SumFunction
<1>6. SharesWell(Weights(ls))
  BY <1>1, WholeAssumption
<1> QED
  BY <1>2, <1>4, <1>5, <1>6

\* The links of a precise target give each experience a share, and all of it together.
LEMMA LinksShare ==
  ASSUME UsageTypes, NEW t, t.type \in Evidenced
  PROVE  /\ ByLinks(t) \in [{l.exp : l \in UsedEvidence(t)} -> Nat]
         /\ UsedEvidence(t) # {} => SumFunction(ByLinks(t)) = Whole
         /\ \A l \in UsedEvidence(t) : /\ l \in links /\ l.exp \in UsedOnes
                                       /\ t.of \in {l.action, ToolOf[l.action]}
<1>1. PICK ls : ls = UsedEvidence(t)
  OBVIOUS
<1>2. \A l \in ls : l \in links /\ l.exp \in UsedOnes /\ t.of \in {l.action, ToolOf[l.action]}
  BY <1>1 DEF UsedEvidence, Evidence, Evidenced
<1>3. PICK w : w = Weights(ls)
  OBVIOUS
<1>4. /\ DOMAIN w = {l.exp : l \in ls}
      /\ IsFiniteSet(DOMAIN w)
      /\ \A x \in DOMAIN w : w[x] \in Nat \ {0}
      /\ SharesWell(w)
  BY <1>2, <1>3, WeightsCount
<1>5. ByLinks(t) = InProportion(w)
  BY <1>1, <1>3 DEF ByLinks, UsedEvidence
<1>6. CASE ls = {}
  <2>1. DOMAIN w = {}
    BY <1>4, <1>6
  <2>2. DOMAIN ByLinks(t) = {} /\ ByLinks(t) = [x \in {} |-> ByLinks(t)[x]]
    BY <1>5, <2>1 DEF InProportion
  <2>3. {l.exp : l \in UsedEvidence(t)} = {}
    BY <1>1, <1>6
  <2> QED
    BY <1>1, <1>6, <2>2, <2>3
<1>7. CASE ls # {}
  <2>1. DOMAIN w # {}
    BY <1>4, <1>7
  <2>2. SumFunction(w) \in Nat \ {0}
    BY <1>4, <2>1, SumIsPositive DEF SumFunction
  <2>3. InProportion(w) \in [DOMAIN w -> Nat] /\ SumFunction(InProportion(w)) = Whole
    BY <1>4, <2>2, Proportion
  <2> QED
    BY <1>1, <1>2, <1>4, <1>5, <2>3
<1> QED
  BY <1>6, <1>7

\* Whom a target means.
Named(t, x) == x = t.of \/ \E l \in links : l.exp = x /\ t.of \in {l.action, ToolOf[l.action]}

\* A feedback is shared among used experiences, those its target means, and it is shared whole.
LEMMA AttributeShares ==
  ASSUME UsageTypes, NEW t, t.type \in Types \ {"SKILL_EXECUTION"}
  PROVE  /\ Attribute(t) \in [DOMAIN Attribute(t) -> Nat]
         /\ DOMAIN Attribute(t) \subseteq UsedOnes
         /\ UsedOnce /\ DOMAIN Attribute(t) # {} => SumFunction(Attribute(t)) = Whole
         /\ t.type # "EPISODE" => \A x \in DOMAIN Attribute(t) : Named(t, x)
<1>1. CASE t.type \in Evidenced
  <2>1. Attribute(t) = ByLinks(t) /\ t.type # "EPISODE"
    BY <1>1 DEF Attribute, Evidenced
  <2>2. DOMAIN ByLinks(t) = {l.exp : l \in UsedEvidence(t)}
    BY <1>1, LinksShare
  <2>3. \A l \in UsedEvidence(t) : l \in links /\ l.exp \in UsedOnes
                                   /\ t.of \in {l.action, ToolOf[l.action]}
    BY <1>1, LinksShare
  <2>4. ByLinks(t) \in [DOMAIN ByLinks(t) -> Nat]
    BY <1>1, <2>2, LinksShare
  <2>5. DOMAIN ByLinks(t) # {} => SumFunction(ByLinks(t)) = Whole
    BY <1>1, <2>2, LinksShare
  <2>6. \A x \in DOMAIN ByLinks(t) : Named(t, x) /\ x \in UsedOnes
    BY <2>2, <2>3 DEF Named
  <2> QED
    BY <2>1, <2>4, <2>5, <2>6
<1>2. CASE t.type = "EXPERIENCE"
  <2>1. PICK S : S = UsedOnes \cap {t.of}
    OBVIOUS
  <2>2. Attribute(t) = [x \in S |-> Whole]
    BY <1>2, <2>1 DEF Attribute, Evidenced
  <2>3. Whole \in Nat
    BY AttributionAssumption
  <2>4. ASSUME S # {} PROVE SumFunction(Attribute(t)) = Whole
    <3>1. S = {t.of}
      BY <2>1, <2>4
    <3>2. IsFiniteSet({t.of}) /\ Pick({t.of}) = t.of /\ {t.of} \ {t.of} = {}
      BY FS_Singleton DEF Pick
    <3>3. PICK F : F = [x \in S |-> Whole]
      OBVIOUS
    <3>4. SumFunctionOnSet(F, S) = F[t.of] + SumFunctionOnSet(F, {})
      BY <3>1, <3>2, SumSteps
    <3>5. SumFunctionOnSet(F, S) = Whole
      BY <2>3, <3>1, <3>3, <3>4, SumOfNone
    <3> QED
      BY <2>2, <3>3, <3>5 DEF SumFunction
  <2> QED
    BY <1>2, <2>1, <2>2, <2>3, <2>4 DEF Named
<1>3. CASE t.type = "EPISODE"
  <2>1. Attribute(t) = ByScores
    BY <1>3 DEF Attribute, Evidenced
  <2> QED
    BY <1>3, <2>1, ScoresShare
<1> QED
  BY <1>1, <1>2, <1>3 DEF Types, Evidenced


-----------------------------------------------------------------------------
(* Learning events. *)

Keys == ({Credit} \X Experiences) \cup Members \cup ({Usage} \X Patterns)
          \cup ({Skill} \X Versions) \cup ({Direct} \X Patterns)

IsLedger(e) == e \in [DOMAIN e -> Int] /\ DOMAIN e \subseteq Keys

\* What a feedback may say, and what it may say when its target was accepted.
Said(fb) ==
  /\ fb \in Rows \cup Directs
  /\ fb.target.type = "SKILL_EXECUTION" => fb.target.of \in Versions

LEMMA SaidTypes ==
  ASSUME NEW fb, Said(fb)
  PROVE  /\ fb.reward \in Int /\ fb.confidence \in 0..10 /\ fb # NoRow
         /\ \/ fb.target.type = "PATTERN" /\ fb.target.of \in Patterns
            \/ fb.target.type = "SKILL_EXECUTION" /\ fb.target.of \in Versions
            \/ fb.target.type \in Types \ {"SKILL_EXECUTION"}
BY AttributionAssumption DEF Said, Types

LEMMA KeysAreFinite == IsFiniteSet(Keys)
<1>1. IsFiniteSet({Credit}) /\ IsFiniteSet({Usage}) /\ IsFiniteSet({Skill}) /\ IsFiniteSet({Direct})
  BY FS_Singleton
<1>2. IsFiniteSet({Credit} \X Experiences)
  BY <1>1, TablesAreFinite, FS_Product
<1>3. IsFiniteSet({Usage} \X Patterns)
  BY <1>1, TablesAreFinite, FS_Product
<1>4. IsFiniteSet({Skill} \X Versions)
  BY <1>1, TablesAreFinite, FS_Product
<1>5. IsFiniteSet({Direct} \X Patterns)
  BY <1>1, TablesAreFinite, FS_Product
<1>6. IsFiniteSet(Members)
  BY TablesAreFinite, FS_Product, FS_Subset, AttributionAssumption
<1>7. IsFiniteSet(({Credit} \X Experiences) \cup Members)
  BY <1>2, <1>6, FS_Union
<1>8. IsFiniteSet(({Credit} \X Experiences) \cup Members \cup ({Usage} \X Patterns))
  BY <1>3, <1>7, FS_Union
<1>9. IsFiniteSet(({Credit} \X Experiences) \cup Members \cup ({Usage} \X Patterns)
                    \cup ({Skill} \X Versions))
  BY <1>4, <1>8, FS_Union
<1> QED
  BY <1>5, <1>9, FS_Union DEF Keys

\* The four tags of events, and the members of patterns, are told apart.
LEMMA TagsDiffer ==
  /\ Credit # Usage /\ Credit # Skill /\ Credit # Direct /\ Usage # Skill /\ Usage # Direct
  /\ Skill # Direct
  /\ \A m \in Members : m[1] \in Experiences /\ m[2] \in Patterns /\ m = <<m[1], m[2]>>
  /\ \A m \in Members : m[1] \notin {Credit, Usage, Skill, Direct}
BY AttributionAssumption DEF Credit, Usage, Skill, Direct

\* The shares of the patterns that were shown.
PatternShares == InProportion([p \in Shown |-> shown[p]])

LEMMA PatternsShare ==
  ASSUME UsageTypes
  PROVE  /\ PatternShares \in [Shown -> Nat]
         /\ Shown # {} => SumFunction(PatternShares) = Whole
         /\ Shown \subseteq Patterns
<1>1. PICK w : w = [p \in Shown |-> shown[p]]
  OBVIOUS
<1>2. \A p \in Shown : p \in Patterns /\ shown[p] \in Nat \ {0}
  BY DEF Shown, UsageTypes
<1>3. Shown \in SUBSET Patterns /\ IsFiniteSet(Shown)
  BY <1>2, TablesAreFinite, FS_Subset
<1>4. DOMAIN w = Shown /\ \A p \in Shown : w[p] \in Nat \ {0}
  BY <1>1, <1>2
<1>5. CASE Shown = {}
  BY <1>1, <1>3, <1>5 DEF PatternShares, InProportion
<1>6. CASE Shown # {}
  <2>1. SumFunction(w) \in Nat \ {0}
    BY <1>3, <1>4, <1>6, SumIsPositive DEF SumFunction
  <2>2. PICK score : score = [p \in Shown |-> CHOOSE s \in Scores : shown[p] = PatternScore(s)]
    OBVIOUS
  <2>3. \A p \in Shown : score[p] \in Scores /\ shown[p] = PatternScore(score[p])
    <3>1. \A p \in Shown : \E s \in Scores : shown[p] = PatternScore(s)
      BY <1>2 DEF UsageTypes
    <3> QED
      BY <2>2, <3>1
  <2>4. score \in [Shown -> Scores]
    BY <2>2, <2>3
  <2>5. SharesWell([p \in Shown |-> PatternScore(score[p])])
    BY <1>3, <2>4, WholeAssumption
  <2>6. w = [p \in Shown |-> PatternScore(score[p])]
    BY <1>1, <2>3
  <2>7. IsFiniteSet(DOMAIN w) /\ \A p \in DOMAIN w : w[p] \in Nat
    BY <1>3, <1>4
  <2>8. InProportion(w) \in [DOMAIN w -> Nat] /\ SumFunction(InProportion(w)) = Whole
    BY <2>1, <2>5, <2>6, <2>7, Proportion
  <2> QED
    BY <1>1, <1>3, <1>4, <2>8 DEF PatternShares
<1> QED
  BY <1>5, <1>6

\* The credits of a feedback on experiences: those it has, or else those it is attributed.
LEMMA CreditsOf ==
  ASSUME UsageTypes, NEW f, IsLedger(ledger[f]), NEW t, t.type \in Types \ {"SKILL_EXECUTION"},
         NEW r \in Int, NEW c, c = CreditEvents(f, t, r)
  PROVE  /\ c \in [DOMAIN c -> Int] /\ DOMAIN c \subseteq Experiences
         /\ Credited(f) # {} => /\ DOMAIN c = Credited(f)
                                /\ \A x \in DOMAIN c : c[x] = ledger[f][<<Credit, x>>]
         /\ Credited(f) = {} => /\ DOMAIN c = DOMAIN Attribute(t)
                                /\ \A x \in DOMAIN c : c[x] = r * Attribute(t)[x]
<1>1. CASE Credited(f) # {}
  <2>1. c = [x \in Credited(f) |-> ledger[f][<<Credit, x>>]]
    BY <1>1 DEF CreditEvents
  <2>2. \A x \in Credited(f) : x \in Experiences /\ ledger[f][<<Credit, x>>] \in Int
    BY DEF Credited, IsLedger
  <2> QED
    BY <1>1, <2>1, <2>2
<1>2. CASE Credited(f) = {}
  <2>1. PICK a : a = Attribute(t)
    OBVIOUS
  <2>2. a \in [DOMAIN a -> Nat] /\ DOMAIN a \subseteq Experiences
    BY <2>1, AttributeShares, UsedTypes
  <2>3. c = [x \in DOMAIN a |-> r * a[x]]
    BY <1>2, <2>1 DEF CreditEvents
  <2>4. \A x \in DOMAIN a : r * a[x] \in Int
    BY <2>2
  <2> QED
    BY <1>2, <2>1, <2>2, <2>3, <2>4
<1> QED
  BY <1>1, <1>2


LEMMA MergedTypes ==
  ASSUME NEW e, IsLedger(e), NEW g, IsLedger(g)
  PROVE  /\ IsLedger(Merged(e, g))
         /\ DOMAIN Merged(e, g) = DOMAIN e \cup DOMAIN g
         /\ \A k \in DOMAIN e : Merged(e, g)[k] = e[k]
         /\ \A k \in DOMAIN g \ DOMAIN e : Merged(e, g)[k] = g[k]
<1>1. PICK m : m = Merged(e, g)
  OBVIOUS
<1>2. m = [k \in DOMAIN e \cup DOMAIN g |-> IF k \in DOMAIN e THEN e[k] ELSE g[k]]
  BY <1>1 DEF Merged
<1>3. DOMAIN m = DOMAIN e \cup DOMAIN g
  BY <1>2
<1>4. \A k \in DOMAIN m : m[k] \in Int
  BY <1>2 DEF IsLedger
<1>5. m \in [DOMAIN m -> Int]
  BY <1>2, <1>3, <1>4
<1> QED
  BY <1>1, <1>2, <1>3, <1>5 DEF IsLedger

\* What events a feedback on experiences calls for: c are its credits.
Calls(e, t, r, c) ==
  /\ \A k \in DOMAIN e : \/ k[1] = Credit /\ k[2] \in DOMAIN c /\ k = <<Credit, k[2]>>
                         \/ k \in Members /\ k[1] \in DOMAIN c
                         \/ k[1] = Usage /\ k[2] \in Shown /\ t.type = "EPISODE"
  /\ \A x \in DOMAIN c : <<Credit, x>> \in DOMAIN e /\ e[<<Credit, x>>] = c[x]
  /\ \A p \in Shown : t.type = "EPISODE" =>
       <<Usage, p>> \in DOMAIN e /\ e[<<Usage, p>>] = r * PatternShares[p]

LEMMA CalledFor ==
  ASSUME UsageTypes, NEW f, IsLedger(ledger[f]), NEW t, t.type \in Types \ {"SKILL_EXECUTION"},
         NEW r \in Int, NEW c, c = CreditEvents(f, t, r), ~(Credited(f) = {} /\ Unused(t))
  PROVE  IsLedger(Events(f, t, r)) /\ Calls(Events(f, t, r), t, r, c)
<1>1. /\ c \in [DOMAIN c -> Int] /\ DOMAIN c \subseteq Experiences
  BY CreditsOf
<1>2. PICK A : A = [k \in {Credit} \X DOMAIN c |-> c[k[2]]]
  OBVIOUS
<1>3. PICK B : B = MemberEvents(t, c)
  OBVIOUS
<1>4. PICK C : C = UsageEvents(t, r)
  OBVIOUS
<1>5. /\ IsLedger(A) /\ DOMAIN A = {Credit} \X DOMAIN c
      /\ \A x \in DOMAIN c : <<Credit, x>> \in DOMAIN A /\ A[<<Credit, x>>] = c[x]
  <2>1. \A k \in {Credit} \X DOMAIN c : c[k[2]] \in Int /\ k \in Keys
    BY <1>1 DEF Keys
  <2>2. \A x \in DOMAIN c : <<Credit, x>> \in {Credit} \X DOMAIN c /\ <<Credit, x>>[2] = x
    OBVIOUS
  <2> QED
    BY <1>2, <2>1, <2>2 DEF IsLedger
<1>6. PICK M : M = {m \in Members : /\ m[1] \in DOMAIN c
                                    /\ ~(t.type = "EPISODE" /\ m[2] \in Shown)}
  OBVIOUS
<1>7. B = [m \in M |-> c[m[1]]]
  BY <1>3, <1>6 DEF MemberEvents
<1>8. IsLedger(B) /\ DOMAIN B = M
  <2>1. \A m \in M : c[m[1]] \in Int /\ m \in Keys
    BY <1>1, <1>6 DEF Keys
  <2> QED
    BY <1>7, <2>1 DEF IsLedger
<1>9. PICK U : U = IF t.type = "EPISODE" THEN {Usage} \X Shown ELSE {}
  OBVIOUS
<1>10. C = [k \in U |-> r * PatternShares[k[2]]]
  BY <1>4, <1>9 DEF UsageEvents, PatternShares
<1>11. IsLedger(C) /\ DOMAIN C = U
  <2>1. \A p \in Shown : PatternShares[p] \in Int /\ p \in Patterns
    BY PatternsShare
  <2>2. \A k \in U : k[2] \in Shown /\ k \in {Usage} \X Shown
    BY <1>9
  <2>3. \A k \in U : r * PatternShares[k[2]] \in Int /\ k \in Keys
    BY <2>1, <2>2 DEF Keys
  <2> QED
    BY <1>10, <2>3 DEF IsLedger
<1>12. PICK D : D = Merged(B, C)
  OBVIOUS
<1>13. /\ IsLedger(D) /\ DOMAIN D = M \cup U
       /\ \A k \in U \ M : D[k] = C[k]
  <2>1. /\ IsLedger(Merged(B, C)) /\ DOMAIN Merged(B, C) = DOMAIN B \cup DOMAIN C
        /\ \A k \in DOMAIN C \ DOMAIN B : Merged(B, C)[k] = C[k]
    BY <1>8, <1>11, MergedTypes
  <2> QED
    BY <1>8, <1>11, <1>12, <2>1
<1>14. PICK e : e = Merged(A, D)
  OBVIOUS
<1>15. /\ IsLedger(e) /\ DOMAIN e = DOMAIN A \cup M \cup U
       /\ \A k \in DOMAIN A : e[k] = A[k]
       /\ \A k \in (M \cup U) \ DOMAIN A : e[k] = D[k]
  <2>1. /\ IsLedger(Merged(A, D)) /\ DOMAIN Merged(A, D) = DOMAIN A \cup DOMAIN D
        /\ \A k \in DOMAIN A : Merged(A, D)[k] = A[k]
        /\ \A k \in DOMAIN D \ DOMAIN A : Merged(A, D)[k] = D[k]
    <3>1. IsLedger(A) /\ IsLedger(D)
      BY <1>5, <1>13
    <3> QED
      BY <3>1, MergedTypes
  <2> QED
    BY <1>5, <1>13, <1>14, <2>1
<1>16. Events(f, t, r) = e
  BY <1>2, <1>3, <1>4, <1>12, <1>14 DEF Events, Types
<1>17. \A k \in DOMAIN e : \/ k[1] = Credit /\ k[2] \in DOMAIN c /\ k = <<Credit, k[2]>>
                           \/ k \in Members /\ k[1] \in DOMAIN c
                           \/ k[1] = Usage /\ k[2] \in Shown /\ t.type = "EPISODE"
  <2>1. \A k \in DOMAIN A : k[1] = Credit /\ k[2] \in DOMAIN c /\ k = <<Credit, k[2]>>
    BY <1>5
  <2>2. \A k \in M : k \in Members /\ k[1] \in DOMAIN c
    BY <1>6
  <2>3. \A k \in U : k[1] = Usage /\ k[2] \in Shown /\ t.type = "EPISODE"
    BY <1>9
  <2> QED
    BY <1>15, <2>1, <2>2, <2>3
<1>18. \A x \in DOMAIN c : <<Credit, x>> \in DOMAIN e /\ e[<<Credit, x>>] = c[x]
  BY <1>5, <1>15
<1>19. ASSUME t.type = "EPISODE", NEW p \in Shown
       PROVE  <<Usage, p>> \in DOMAIN e /\ e[<<Usage, p>>] = r * PatternShares[p]
  <2>1. PICK k : k = <<Usage, p>>
    OBVIOUS
  <2>2. k \in U /\ k[1] = Usage /\ k[2] = p
    BY <1>9, <1>19, <2>1
  <2>3. k \notin M /\ k \notin DOMAIN A
    BY <1>5, <1>6, <2>2, TagsDiffer
  <2>4. e[k] = C[k] /\ k \in DOMAIN e
    BY <1>13, <1>15, <2>2, <2>3
  <2> QED
    BY <1>10, <2>1, <2>2, <2>4
<1> QED
  BY <1>15, <1>16, <1>17, <1>18, <1>19 DEF Calls

\* The events of any feedback, and its ledger with them.
LEMMA EventTypes ==
  ASSUME UsageTypes, NEW f, IsLedger(ledger[f]), NEW fb, Said(fb)
  PROVE  IsLedger(Events(f, fb.target, fb.reward))
<1>1. PICK t : t = fb.target
  OBVIOUS
<1>2. PICK r \in Int : r = fb.reward
  BY SaidTypes
<1>3. Whole \in Nat
  BY AttributionAssumption
<1>4. CASE t.type = "SKILL_EXECUTION"
  <2>1. Events(f, t, r) = [k \in {<<Skill, t.of>>} |-> r * Whole]
    BY <1>4 DEF Events, SkillEvents
  <2>2. <<Skill, t.of>> \in Keys
    BY <1>1, <1>4 DEF Said, Keys
  <2> QED
    BY <1>1, <1>2, <1>3, <2>1, <2>2 DEF IsLedger
<1>5. CASE t.type = "PATTERN"
  <2>1. Events(f, t, r) = [k \in {<<Direct, t.of>>} |-> r * Whole]
    BY <1>5 DEF Events, DirectEvents
  <2>2. <<Direct, t.of>> \in Keys
    BY <1>1, <1>5, SaidTypes DEF Keys, Types
  <2> QED
    BY <1>1, <1>2, <1>3, <2>1, <2>2 DEF IsLedger
<1>6. CASE t.type \in Types \ {"SKILL_EXECUTION"}
  <2>1. CASE Credited(f) = {} /\ Unused(t)
    <3>1. Events(f, t, r) = <<>>
      BY <1>6, <2>1 DEF Events, Types
    <3>2. DOMAIN << >> = {} /\ << >> \in [{} -> Int]
      OBVIOUS
    <3> QED
      BY <1>1, <1>2, <3>1, <3>2 DEF IsLedger
  <2>2. CASE ~(Credited(f) = {} /\ Unused(t))
    <3>1. PICK c : c = CreditEvents(f, t, r)
      OBVIOUS
    <3> QED
      BY <1>1, <1>2, <1>6, <2>2, <3>1, CalledFor
  <2> QED
    BY <2>1, <2>2
<1> QED
  BY <1>1, <1>4, <1>5, <1>6, SaidTypes


-----------------------------------------------------------------------------
(* Counts and utilities. *)

CountTypes ==
  /\ alpha \in [Artifacts -> Nat] /\ beta \in [Artifacts -> Nat]
  /\ wins \in [Artifacts -> Nat] /\ losses \in [Artifacts -> Nat]
  /\ utility \in [Artifacts -> Nat \X (Nat \ {0})]
  /\ active \subseteq Patterns

\* A utility is the mean of the counts, unless it was given as 0 or 1.
UtilityIsMean ==
  \A a \in Artifacts :
    /\ alpha[a] + beta[a] > 0 /\ utility[a][1] <= utility[a][2]
    /\ ~Extreme(a) => utility[a][1] * (alpha[a] + beta[a]) = utility[a][2] * alpha[a]

LEMMA NoSuccess ==
  ASSUME NEW n \in Nat, NEW d \in Nat, NEW a \in Nat, NEW b \in Nat, NEW m \in Nat,
         n * (a + b) = d * a
  PROVE  ~(a * d > n * (a + (b + m)))
<1>1. n * (a + (b + m)) = n * (a + b) + n * m /\ n * m \in Nat /\ d * a = a * d
  OBVIOUS
<1>2. PICK x \in Nat : x = n * m
  BY <1>1
<1>3. PICK y \in Int : y = a * d
  OBVIOUS
<1> QED
  BY <1>1, <1>2, <1>3

LEMMA NoFailure ==
  ASSUME NEW n \in Nat, NEW d \in Nat, n <= d, NEW a \in Nat, NEW b \in Nat, NEW m \in Nat,
         n * (a + b) = d * a
  PROVE  ~((a + m) * d < n * ((a + m) + b))
<1>1. PICK k \in Nat : d = n + k
  <2>1. d - n \in Nat /\ d = n + (d - n)
    OBVIOUS
  <2> QED
    BY <2>1
<1>2. n * ((a + m) + b) = n * (a + b) + n * m
  OBVIOUS
<1>3. (a + m) * d = d * a + (n * m + k * m)
  BY <1>1
<1>4. PICK x \in Nat : x = k * m
  OBVIOUS
<1>5. PICK y \in Int : y = n * m
  OBVIOUS
<1>6. PICK z \in Int : z = d * a
  OBVIOUS
<1> QED
  BY <1>2, <1>3, <1>4, <1>5, <1>6

\* The events of an artifact, its successes and what they add up to.
LEMMA Effects ==
  ASSUME NEW news, IsLedger(news), NEW c \in 0..10, NEW S, S \subseteq DOMAIN news
  PROVE  /\ IsFiniteSet(S) /\ Cardinality(S) \in Nat /\ (S # {} => Cardinality(S) > 0)
         /\ (\A k \in S : news[k] >= 0) => SumFunction([k \in S |-> news[k] * c]) \in Nat
         /\ (\A k \in S : news[k] < 0) => /\ SumFunction([k \in S |-> news[k] * c]) \in Int
                                          /\ SumFunction([k \in S |-> news[k] * c]) <= 0
         /\ S = {} => SumFunction([k \in S |-> news[k] * c]) = 0
<1>1. IsFiniteSet(S)
  BY KeysAreFinite, FS_Subset DEF IsLedger
<1>2. Cardinality(S) \in Nat /\ (S # {} => Cardinality(S) > 0)
  BY <1>1, FS_CardinalityType, FS_EmptySet
<1>3. PICK F : F = [k \in S |-> news[k] * c]
  OBVIOUS
<1>4. SumFunction(F) = SumFunctionOnSet(F, S)
  BY <1>3 DEF SumFunction
<1>5. \A k \in S : news[k] \in Int /\ F[k] = news[k] * c
  BY <1>3 DEF IsLedger
<1>6. \A i \in Int : /\ i >= 0 => i * c \in Nat
                     /\ i < 0 => i * c \in Int /\ i * c <= 0
  OBVIOUS
<1>7. ASSUME \A k \in S : news[k] >= 0
      PROVE  SumFunctionOnSet(F, S) \in Nat
  <2>1. \A k \in S : F[k] \in Nat
    BY <1>5, <1>6, <1>7
  <2> QED
    BY <1>1, <2>1, SumIsNat
<1>8. ASSUME \A k \in S : news[k] < 0
      PROVE  SumFunctionOnSet(F, S) \in Int /\ SumFunctionOnSet(F, S) <= 0
  <2>1. \A k \in S : F[k] \in Int /\ F[k] <= 0
    BY <1>5, <1>6, <1>8
  <2> QED
    BY <1>1, <2>1, SumIsNegative
<1>9. S = {} => SumFunctionOnSet(F, S) = 0
  BY SumOfNone
<1> QED
  BY <1>1, <1>2, <1>3, <1>4, <1>7, <1>8, <1>9

\* What a step may do to an artifact: only a success raises its utility, only a failure lowers it.
Followed(a) ==
  ~Extreme(a) =>
    LET before == utility[a][1] * utility'[a][2]
        after == utility'[a][1] * utility[a][2]
    IN /\ after > before => wins'[a] > wins[a]
       /\ after < before => losses'[a] > losses[a]

LEMMA BetaStep ==
  ASSUME CountTypes, UtilityIsMean, NEW news, IsLedger(news), NEW c \in 0..10,
         ApplyBetaUpdate(news, c), active' \subseteq Patterns
  PROVE  CountTypes' /\ UtilityIsMean' /\ \A a \in Artifacts : Followed(a)
<1> DEFINE Of(a) == {k \in DOMAIN news : k[2] = a}
           Good(a) == {k \in Of(a) : news[k] >= 0}
           Bad(a) == Of(a) \ Good(a)
           Up(a) == SumFunction([k \in Good(a) |-> news[k] * c])
           Down(a) == SumFunction([k \in Bad(a) |-> news[k] * c])
<1>1. /\ alpha' = [a \in Artifacts |-> alpha[a] + Up(a)]
      /\ beta' = [a \in Artifacts |-> beta[a] - Down(a)]
      /\ wins' = [a \in Artifacts |-> wins[a] + Cardinality(Good(a))]
      /\ losses' = [a \in Artifacts |-> losses[a] + Cardinality(Bad(a))]
      /\ utility' = [a \in Artifacts |-> IF a \in {b \in Artifacts : Of(b) # {}}
                                         THEN <<alpha'[a], alpha'[a] + beta'[a]>> ELSE utility[a]]
  BY DEF ApplyBetaUpdate
<1>2. ASSUME NEW a
      PROVE  /\ Up(a) \in Nat /\ Down(a) \in Int /\ Down(a) <= 0
             /\ Cardinality(Good(a)) \in Nat /\ Cardinality(Bad(a)) \in Nat
             /\ Good(a) = {} => Up(a) = 0
             /\ Good(a) # {} => Cardinality(Good(a)) > 0
             /\ Bad(a) = {} => Down(a) = 0
             /\ Bad(a) # {} => Cardinality(Bad(a)) > 0
             /\ Of(a) = {} => Good(a) = {} /\ Bad(a) = {}
  <2>1. PICK G : G = Good(a)
    OBVIOUS
  <2>2. PICK B : B = Bad(a)
    OBVIOUS
  <2>3. G \subseteq DOMAIN news /\ \A k \in G : news[k] >= 0
    BY <2>1
  <2>4. B \subseteq DOMAIN news /\ \A k \in B : news[k] < 0
    BY <2>2 DEF IsLedger
  <2>5. /\ Cardinality(G) \in Nat /\ (G # {} => Cardinality(G) > 0)
        /\ SumFunction([k \in G |-> news[k] * c]) \in Nat
        /\ G = {} => SumFunction([k \in G |-> news[k] * c]) = 0
    BY <2>3, Effects
  <2>6. /\ Cardinality(B) \in Nat /\ (B # {} => Cardinality(B) > 0)
        /\ SumFunction([k \in B |-> news[k] * c]) \in Int
        /\ SumFunction([k \in B |-> news[k] * c]) <= 0
        /\ B = {} => SumFunction([k \in B |-> news[k] * c]) = 0
    BY <2>4, Effects
  <2>7. Up(a) = SumFunction([k \in G |-> news[k] * c])
    BY <2>1
  <2>8. Down(a) = SumFunction([k \in B |-> news[k] * c])
    BY <2>2
  <2>9. Of(a) = {} => G = {} /\ B = {}
    BY <2>1, <2>2
  <2> HIDE DEF Up, Down, Good, Bad, Of
  <2> QED
    BY <2>1, <2>2, <2>5, <2>6, <2>7, <2>8, <2>9
<1> HIDE DEF Up, Down, Good, Bad, Of
<1>3. ASSUME NEW a \in Artifacts
      PROVE  /\ alpha'[a] \in Nat /\ beta'[a] \in Nat /\ alpha'[a] + beta'[a] > 0
             /\ wins'[a] \in Nat /\ losses'[a] \in Nat
             /\ utility'[a] \in Nat \X (Nat \ {0}) /\ utility'[a][1] <= utility'[a][2]
             /\ (~Extreme(a))' =>
                   utility'[a][1] * (alpha'[a] + beta'[a]) = utility'[a][2] * alpha'[a]
             /\ Followed(a)
  <2>1. /\ alpha[a] \in Nat /\ beta[a] \in Nat /\ wins[a] \in Nat /\ losses[a] \in Nat
        /\ utility[a] \in Nat \X (Nat \ {0})
        /\ alpha[a] + beta[a] > 0 /\ utility[a][1] <= utility[a][2]
        /\ ~Extreme(a) => utility[a][1] * (alpha[a] + beta[a]) = utility[a][2] * alpha[a]
    BY DEF CountTypes, UtilityIsMean
  <2>2. PICK gain \in Nat : gain = Up(a)
    BY <1>2
  <2>3. PICK loss \in Nat : loss = -Down(a)
    BY <1>2
  <2>4. alpha'[a] = alpha[a] + gain /\ beta'[a] = beta[a] + loss
    BY <1>1, <1>2, <2>1, <2>2, <2>3
  <2>5. /\ wins'[a] = wins[a] + Cardinality(Good(a))
        /\ losses'[a] = losses[a] + Cardinality(Bad(a))
    BY <1>1
  <2>6. gain # 0 => wins'[a] > wins[a]
    BY <1>2, <2>1, <2>2, <2>5
  <2>7. loss # 0 => losses'[a] > losses[a]
    BY <1>2, <2>1, <2>3, <2>5
  <2>8. wins'[a] \in Nat /\ losses'[a] \in Nat
    BY <1>2, <2>1, <2>5
  <2>9. /\ alpha'[a] \in Nat /\ beta'[a] \in Nat /\ alpha'[a] + beta'[a] > 0
    BY <2>1, <2>4
  <2>10. CASE Of(a) # {}
    <3>1. utility'[a] = <<alpha'[a], alpha'[a] + beta'[a]>>
      BY <1>1, <2>10
    <3>2. utility'[a] \in Nat \X (Nat \ {0}) /\ utility'[a][1] <= utility'[a][2]
      BY <2>9, <3>1
    <3>3. utility'[a][1] * (alpha'[a] + beta'[a]) = utility'[a][2] * alpha'[a]
      BY <2>9, <3>1
    <3>4. Followed(a)
      <4>1. SUFFICES ASSUME ~Extreme(a) PROVE Followed(a)
        BY DEF Followed
      <4>2. PICK n \in Nat, d \in Nat : utility[a][1] = n /\ utility[a][2] = d
        BY <2>1
      <4>3. PICK x \in Nat, y \in Nat : alpha[a] = x /\ beta[a] = y
        BY <2>1
      <4>4. n * (x + y) = d * x /\ n <= d
        BY <2>1, <4>1, <4>2, <4>3
      <4>5. utility'[a][1] = x + gain /\ utility'[a][2] = (x + gain) + (y + loss)
        BY <2>4, <3>1, <4>3
      <4>6. gain = 0 => ~((x + gain) * d > n * ((x + gain) + (y + loss)))
        BY <4>4, NoSuccess
      <4>7. loss = 0 => ~((x + gain) * d < n * ((x + gain) + (y + loss)))
        BY <4>4, NoFailure
      <4> QED
        BY <2>6, <2>7, <4>2, <4>5, <4>6, <4>7 DEF Followed
    <3> QED
      BY <2>8, <2>9, <3>2, <3>3, <3>4
  <2>11. CASE Of(a) = {}
    <3>1. utility'[a] = utility[a]
      BY <1>1, <2>11
    <3>2. gain = 0 /\ loss = 0
      BY <1>2, <2>2, <2>3, <2>11
    <3>3. alpha'[a] = alpha[a] /\ beta'[a] = beta[a]
      BY <2>1, <2>4, <3>2
    <3>4. PICK n \in Nat, d \in Nat : utility[a][1] = n /\ utility[a][2] = d
      BY <2>1
    <3>5. Followed(a)
      BY <3>1, <3>4 DEF Followed
    <3>6. (~Extreme(a))' <=> ~Extreme(a)
      BY <3>1 DEF Extreme
    <3> QED
      BY <2>1, <2>8, <2>9, <3>1, <3>3, <3>5, <3>6
  <2> QED
    BY <2>10, <2>11
<1>4. /\ alpha' \in [Artifacts -> Nat] /\ beta' \in [Artifacts -> Nat]
      /\ wins' \in [Artifacts -> Nat] /\ losses' \in [Artifacts -> Nat]
      /\ utility' \in [Artifacts -> Nat \X (Nat \ {0})]
  BY <1>1, <1>3
<1>5. CountTypes'
  BY <1>4 DEF CountTypes
<1>6. UtilityIsMean'
  BY <1>3 DEF UtilityIsMean
<1> QED
  BY <1>3, <1>5, <1>6


-----------------------------------------------------------------------------
(* Types. *)

RowsAccepted ==
  /\ row \in [Feedbacks -> Rows \cup Directs \cup {NoRow}]
  /\ \A f \in Feedbacks : row[f] # NoRow => Said(row[f])

LedgerTypes ==
  /\ ledger = [f \in Feedbacks |-> ledger[f]] /\ revisited \subseteq Feedbacks
  /\ \A f \in Feedbacks : IsLedger(ledger[f]) /\ (row[f] = NoRow => DOMAIN ledger[f] = {})

AttributionTypeOK ==
  UsageTypes /\ RowsAccepted /\ LedgerTypes /\ CountTypes /\ UtilityIsMean

\* A seed has the given utility for its mean.
LEMMA SeedMean ==
  ASSUME NEW n \in Nat, NEW d \in Nat \ {0}, NEW unit \in Nat \ {0}, unit = Unit, n <= d,
         n > 0 /\ n < d =>
           IF n >= d - n THEN Divides(d - n, unit * n) ELSE Divides(n, unit * (d - n))
  PROVE  \E s \in Nat, u \in Nat :
           /\ SeedBetaFromUtility(n, d) = <<s, u>> /\ s + u > 0
           /\ n > 0 /\ n < d => n * (s + u) = d * s
<1>1. CASE n = 0
  BY <1>1 DEF SeedBetaFromUtility
<1>2. CASE n = d
  BY <1>2 DEF SeedBetaFromUtility
<1>3. CASE 0 < n /\ n < d /\ 2 * n >= d
  <2>1. PICK rest \in Nat \ {0} : rest = d - n
    BY <1>3
  <2>2. PICK most \in Nat : most = unit * n
    OBVIOUS
  <2>3. Divides(rest, most)
    BY <1>3, <2>1, <2>2
  <2>4. PICK s \in Nat : s = most \div rest /\ rest * s = most
    BY <2>1, <2>2, <2>3, ExactDivision
  <2>5. SeedBetaFromUtility(n, d) = <<s, unit>>
    <3>1. n # 0 /\ n # d /\ ~(0 < n /\ 2 * n < d)
      BY <1>3
    <3>2. SeedBetaFromUtility(n, d) = <<(unit * n) \div (d - n), unit>>
      BY <1>3, <3>1 DEF SeedBetaFromUtility
    <3> QED
      BY <2>1, <2>2, <2>4, <3>2
  <2>6. d * s = n * s + rest * s
    <3>1. d = n + rest
      BY <2>1
    <3> QED
      BY <2>1, <3>1
  <2>7. n * (s + unit) = n * s + unit * n
    OBVIOUS
  <2>8. n * (s + unit) = d * s
    BY <2>2, <2>4, <2>6, <2>7
  <2> QED
    BY <2>4, <2>5, <2>8
<1>4. CASE 0 < n /\ 2 * n < d
  <2>1. PICK rest \in Nat \ {0} : rest = d - n
    BY <1>4
  <2>2. PICK most \in Nat : most = unit * rest
    BY <2>1
  <2>3. Divides(n, most) /\ n \in Nat \ {0}
    BY <1>4, <2>1, <2>2
  <2>4. PICK u \in Nat : u = most \div n /\ n * u = most
    BY <2>2, <2>3, ExactDivision
  <2>5. SeedBetaFromUtility(n, d) = <<unit, u>>
    <3>1. n # 0 /\ n # d /\ ~(0 < n /\ n < d /\ 2 * n >= d)
      BY <1>4
    <3>2. SeedBetaFromUtility(n, d) = <<unit, (unit * (d - n)) \div n>>
      BY <1>4, <3>1 DEF SeedBetaFromUtility
    <3> QED
      BY <2>1, <2>2, <2>4, <3>2
  <2>6. d * unit = n * unit + unit * rest
    <3>1. d = n + rest
      BY <2>1
    <3> QED
      BY <2>1, <3>1
  <2>7. n * (unit + u) = n * unit + n * u
    OBVIOUS
  <2>8. n * (unit + u) = d * unit
    BY <2>2, <2>4, <2>6, <2>7
  <2> QED
    BY <2>4, <2>5, <2>8
<1> QED
  BY <1>1, <1>2, <1>3, <1>4

LEMMA CountsInit ==
  ASSUME AttributionInit
  PROVE  CountTypes /\ UtilityIsMean
<1>1. PICK unit \in Nat \ {0} : unit = Unit
  BY AttributionAssumption DEF Unit
<1>2. ASSUME NEW a \in Artifacts
      PROVE  \E s \in Nat, u \in Nat, n \in Nat, d \in Nat \ {0} :
               /\ Seed(a) = <<s, u>> /\ s + u > 0
               /\ utility[a] = <<n, d>> /\ n <= d
               /\ n > 0 /\ n < d => n * (s + u) = d * s
  <2>1. utility[a] = IF a \in Experiences THEN <<1, 2>> ELSE Given[a]
    BY DEF AttributionInit
  <2>2. CASE a \in Experiences
    <3>1. Seed(a) = <<unit, unit>> /\ utility[a] = <<1, 2>>
      BY <1>1, <2>1, <2>2 DEF Seed
    <3> QED
      BY <3>1
  <2>3. CASE a \notin Experiences
    <3>1. a \in Patterns \cup Versions
      BY <2>3 DEF Artifacts
    <3>2. Given[a] \in Nat \X (Nat \ {0}) /\ Given[a][1] <= Given[a][2]
      BY <3>1, AttributionAssumption
    <3>3. PICK n \in Nat, d \in Nat \ {0} : Given[a] = <<n, d>>
      BY <3>2
    <3>4. Given[a][1] = n /\ Given[a][2] = d /\ n <= d
      BY <3>2, <3>3
    <3>5. n > 0 /\ d - n > 0 =>
            IF n >= d - n THEN Divides(d - n, unit * n) ELSE Divides(n, unit * (d - n))
      BY <1>1, <3>1, <3>4, WholeAssumption
    <3>6. \E s \in Nat, u \in Nat :
            /\ SeedBetaFromUtility(n, d) = <<s, u>> /\ s + u > 0
            /\ n > 0 /\ n < d => n * (s + u) = d * s
      BY <1>1, <3>4, <3>5, SeedMean
    <3>7. Seed(a) = SeedBetaFromUtility(n, d)
      BY <2>3, <3>4 DEF Seed
    <3>8. PICK s \in Nat, u \in Nat :
            /\ SeedBetaFromUtility(n, d) = <<s, u>> /\ s + u > 0
            /\ n > 0 /\ n < d => n * (s + u) = d * s
      BY <3>6, Zenon
    <3>9. Seed(a) = <<s, u>>
      BY <3>7, <3>8, Zenon
    <3>10. utility[a] = <<n, d>>
      BY <2>1, <2>3, <3>3, Zenon
    <3> WITNESS s \in Nat, u \in Nat, n \in Nat, d \in Nat \ {0}
    <3> QED
      BY <3>4, <3>8, <3>9, <3>10, Zenon
  <2> QED
    BY <2>2, <2>3
<1>3. ASSUME NEW a \in Artifacts
      PROVE  /\ alpha[a] \in Nat /\ beta[a] \in Nat /\ alpha[a] + beta[a] > 0
             /\ utility[a] \in Nat \X (Nat \ {0}) /\ utility[a][1] <= utility[a][2]
             /\ ~Extreme(a) => utility[a][1] * (alpha[a] + beta[a]) = utility[a][2] * alpha[a]
  <2>1. PICK s \in Nat, u \in Nat, n \in Nat, d \in Nat \ {0} :
               /\ Seed(a) = <<s, u>> /\ s + u > 0
               /\ utility[a] = <<n, d>> /\ n <= d
               /\ n > 0 /\ n < d => n * (s + u) = d * s
    BY <1>2
  <2>2. alpha[a] = s /\ beta[a] = u
    BY <2>1 DEF AttributionInit
  <2>3. ~Extreme(a) => n > 0 /\ n < d
    BY <2>1 DEF Extreme
  <2> QED
    BY <2>1, <2>2, <2>3
<1>4. /\ alpha = [a \in Artifacts |-> alpha[a]] /\ beta = [a \in Artifacts |-> beta[a]]
      /\ utility = [a \in Artifacts |-> utility[a]]
  BY DEF AttributionInit
<1>5. alpha \in [Artifacts -> Nat] /\ beta \in [Artifacts -> Nat]
  BY <1>3, <1>4
<1>6. utility \in [Artifacts -> Nat \X (Nat \ {0})]
  BY <1>3, <1>4
<1>7. wins \in [Artifacts -> Nat] /\ losses \in [Artifacts -> Nat] /\ active \subseteq Patterns
  BY DEF AttributionInit
<1>8. CountTypes
  BY <1>5, <1>6, <1>7 DEF CountTypes
<1> QED
  BY <1>3, <1>8 DEF UtilityIsMean

LEMMA TypesInit ==
  ASSUME AttributionInit
  PROVE  AttributionTypeOK
<1>1. UsageTypes
  <2>1. used = << >> /\ << >> \in Seq([exp : Experiences, score : Scores]) /\ Len(<< >>) = 0
    BY DEF AttributionInit
  <2>2. shown \in [Patterns -> Nat] /\ \A p \in Patterns : shown[p] = 0
    BY DEF AttributionInit
  <2>3. done \subseteq Actions /\ links \subseteq Links /\ IsFiniteSet(links)
    BY FS_EmptySet DEF AttributionInit
  <2>4. MaxUsages \in Nat
    BY AttributionAssumption
  <2> QED
    BY <2>1, <2>2, <2>3, <2>4 DEF UsageTypes
<1>2. RowsAccepted
  BY DEF AttributionInit, RowsAccepted
<1>3. LedgerTypes
  <2>1. DOMAIN << >> = {} /\ << >> \in [{} -> Int]
    OBVIOUS
  <2>2. ledger = [f \in Feedbacks |-> << >>]
    BY DEF AttributionInit
  <2>3. \A f \in Feedbacks : ledger[f] = << >>
    BY <2>2
  <2>4. IsLedger(<< >>)
    BY <2>1 DEF IsLedger
  <2> QED
    BY <2>1, <2>2, <2>3, <2>4 DEF LedgerTypes, AttributionInit
<1> QED
  BY <1>1, <1>2, <1>3, CountsInit DEF AttributionTypeOK


\* What learning from a feedback does to the ledgers.
LedgerStep(f, e) ==
  /\ ledger' = [g \in Feedbacks |-> ledger'[g]]
  /\ \A g \in Feedbacks \ {f} : ledger'[g] = ledger[g]
  /\ IsLedger(ledger'[f])
  /\ DOMAIN ledger'[f] = DOMAIN ledger[f] \cup DOMAIN e
  /\ \A k \in DOMAIN ledger[f] : ledger'[f][k] = ledger[f][k]
  /\ \A k \in DOMAIN e \ DOMAIN ledger[f] : ledger'[f][k] = e[k]

LEMMA LearnStep ==
  ASSUME UsageTypes, LedgerTypes, CountTypes, UtilityIsMean, NEW f \in Feedbacks,
         NEW fb, Said(fb), Learn(f, fb)
  PROVE  /\ LedgerStep(f, Events(f, fb.target, fb.reward))
         /\ CountTypes' /\ UtilityIsMean' /\ \A a \in Artifacts : Followed(a)
<1>1. PICK e : e = Events(f, fb.target, fb.reward)
  OBVIOUS
<1>2. PICK old : old = ledger[f]
  OBVIOUS
<1>3. IsLedger(old) /\ IsLedger(e)
  BY <1>1, <1>2, EventTypes DEF LedgerTypes
<1>4. PICK news : news = New(f, e)
  OBVIOUS
<1>5. news = [k \in DOMAIN e \ DOMAIN old |-> e[k]]
  BY <1>2, <1>4 DEF New
<1>6. IsLedger(news) /\ DOMAIN news = DOMAIN e \ DOMAIN old
  BY <1>3, <1>5 DEF IsLedger
<1>7. /\ ledger' = [ledger EXCEPT ![f] = Merged(@, news)]
      /\ ApplyBetaUpdate(news, fb.confidence)
      /\ Promote(news)
  BY <1>1, <1>4 DEF Learn
<1>8. DOMAIN ledger = Feedbacks
  BY DEF LedgerTypes
<1>9. PICK new : new = Merged(old, news)
  OBVIOUS
<1>10. /\ IsLedger(new) /\ DOMAIN new = DOMAIN old \cup DOMAIN news
       /\ \A k \in DOMAIN old : new[k] = old[k]
       /\ \A k \in DOMAIN news \ DOMAIN old : new[k] = news[k]
  <2>1. IsLedger(old) /\ IsLedger(news)
    BY <1>3, <1>6
  <2>2. /\ IsLedger(Merged(old, news))
        /\ DOMAIN Merged(old, news) = DOMAIN old \cup DOMAIN news
        /\ \A k \in DOMAIN old : Merged(old, news)[k] = old[k]
        /\ \A k \in DOMAIN news \ DOMAIN old : Merged(old, news)[k] = news[k]
    BY <2>1, MergedTypes
  <2> QED
    BY <1>9, <2>2
<1>11. /\ ledger'[f] = new
       /\ ledger' = [g \in Feedbacks |-> ledger'[g]]
       /\ \A g \in Feedbacks \ {f} : ledger'[g] = ledger[g]
  BY <1>2, <1>7, <1>8, <1>9
<1>12. /\ DOMAIN new = DOMAIN old \cup DOMAIN e
       /\ \A k \in DOMAIN e \ DOMAIN old : new[k] = e[k]
  BY <1>5, <1>6, <1>10
<1>13. LedgerStep(f, e)
  BY <1>2, <1>10, <1>11, <1>12 DEF LedgerStep
<1>14. active' \subseteq Patterns
  BY <1>7 DEF Promote, CountTypes
<1>15. fb.confidence \in 0..10
  BY SaidTypes
<1>16. CountTypes' /\ UtilityIsMean' /\ \A a \in Artifacts : Followed(a)
  BY <1>6, <1>7, <1>14, <1>15, BetaStep
<1> QED
  BY <1>1, <1>13, <1>16

\* Where nothing is learnt, nothing moves.
LEMMA NothingLearnt ==
  ASSUME CountTypes, UtilityIsMean, UNCHANGED learnt
  PROVE  CountTypes' /\ UtilityIsMean' /\ \A a \in Artifacts : Followed(a)
<1>1. /\ alpha' = alpha /\ beta' = beta /\ wins' = wins /\ losses' = losses
      /\ utility' = utility /\ active' = active
  BY DEF learnt
<1>2. CountTypes'
  BY <1>1 DEF CountTypes
<1>3. UtilityIsMean'
  BY <1>1 DEF UtilityIsMean, Extreme
<1>4. ASSUME NEW a \in Artifacts PROVE Followed(a)
  <2>1. PICK n \in Nat, d \in Nat : utility[a][1] = n /\ utility[a][2] = d
    BY DEF CountTypes
  <2> QED
    BY <1>1, <2>1 DEF Followed
<1> QED
  BY <1>2, <1>3, <1>4

\* The steps of the episode leave what was learnt as it is.
EpisodeStep ==
  \/ \E x \in Experiences, score \in Scores : Use(x, score)
  \/ \E p \in Patterns, score \in Scores : Show(p, score)
  \/ \E a \in Actions : RecordAction(a)
  \/ \E l \in Links : LinkExperience(l)

LEMMA EpisodeSteps ==
  ASSUME UsageTypes, EpisodeStep
  PROVE  UsageTypes' /\ UNCHANGED <<row, learnt>>
<1>1. ASSUME NEW x \in Experiences, NEW score \in Scores, Use(x, score)
      PROVE  UsageTypes' /\ UNCHANGED <<row, learnt>>
  <2>1. PICK X : X = [exp : Experiences, score : Scores]
    OBVIOUS
  <2>2. PICK u : u = [exp |-> x, score |-> score]
    OBVIOUS
  <2>3. u \in X /\ used \in Seq(X) /\ used' = Append(used, u) /\ Len(used) < MaxUsages
    BY <1>1, <2>1, <2>2 DEF Use, UsageTypes
  <2>4. used' \in Seq(X) /\ Len(used') = Len(used) + 1 /\ Len(used) \in Nat
    BY <2>3
  <2>5. Len(used') <= MaxUsages
    BY <2>3, <2>4, AttributionAssumption
  <2> QED
    BY <1>1, <2>1, <2>4, <2>5 DEF Use, UsageTypes
<1>2. ASSUME NEW p \in Patterns, NEW score \in Scores, Show(p, score)
      PROVE  UsageTypes' /\ UNCHANGED <<row, learnt>>
  <2>1. shown' = [shown EXCEPT ![p] = PatternScore(score)]
    BY <1>2 DEF Show
  <2>2. PatternScore(score) \in Nat
    BY AttributionAssumption DEF PatternScore
  <2>3. shown' \in [Patterns -> Nat]
    BY <2>1, <2>2 DEF UsageTypes
  <2>4. ASSUME NEW q \in Patterns, shown'[q] # 0
        PROVE  \E s \in Scores : shown'[q] = PatternScore(s)
    <3>1. q = p => shown'[q] = PatternScore(score)
      BY <2>1 DEF UsageTypes
    <3>2. q # p => shown'[q] = shown[q]
      BY <2>1 DEF UsageTypes
    <3> QED
      BY <2>4, <3>1, <3>2 DEF UsageTypes
  <2> QED
    BY <1>2, <2>3, <2>4 DEF Show, UsageTypes
<1>3. ASSUME NEW a \in Actions, RecordAction(a)
      PROVE  UsageTypes' /\ UNCHANGED <<row, learnt>>
  BY <1>3 DEF RecordAction, UsageTypes
<1>4. ASSUME NEW l \in Links, LinkExperience(l)
      PROVE  UsageTypes' /\ UNCHANGED <<row, learnt>>
  <2>1. IsFiniteSet(links \cup {l})
    BY FS_AddElement DEF UsageTypes
  <2> QED
    BY <1>4, <2>1 DEF LinkExperience, UsageTypes
<1> QED
  BY <1>1, <1>2, <1>3, <1>4 DEF EpisodeStep

\* The other steps: a feedback is stored, or read again, and learnt from, or not.
FeedbackStep(f, fb) ==
  /\ Said(fb)
  /\ row' = [row EXCEPT ![f] = fb]
  /\ \/ row[f] = NoRow /\ revisited' = revisited
     \/ row[f] = fb /\ revisited' = IF ledger' = ledger THEN revisited ELSE revisited \cup {f}
  /\ Learn(f, fb) \/ UNCHANGED learnt
  /\ UNCHANGED episode

LEMMA FeedbackSteps ==
  ASSUME AttributionTypeOK, AttributionNext
  PROVE  EpisodeStep \/ \E f \in Feedbacks, fb \in Rows \cup Directs : FeedbackStep(f, fb)
<1>1. RowsAccepted
  BY DEF AttributionTypeOK
<1>2. ASSUME NEW f \in Feedbacks, NEW fb \in Rows, Submit(f, fb)
      PROVE  FeedbackStep(f, fb)
  <2>1. Said(fb)
    BY <1>2 DEF Submit, Accepted, Said
  <2>2. row[f] = NoRow /\ row' = [row EXCEPT ![f] = fb] /\ UNCHANGED episode
    BY <1>2 DEF Submit
  <2>3. (Learn(f, fb) \/ UNCHANGED learnt) /\ revisited' = revisited
    BY <1>2 DEF Submit, learnt
  <2> QED
    BY <2>1, <2>2, <2>3 DEF FeedbackStep
<1>3. ASSUME NEW f \in Feedbacks, NEW fb \in Directs, RewardPattern(f, fb)
      PROVE  FeedbackStep(f, fb)
  <2>1. Said(fb)
    <3>1. fb.target.type = "PATTERN"
      BY AttributionAssumption
    <3> QED
      BY <3>1 DEF Said
  <2> QED
    BY <1>3, <2>1 DEF RewardPattern, FeedbackStep
<1>4. ASSUME NEW f \in Feedbacks, Replay(f)
      PROVE  row[f] \in Rows \cup Directs /\ FeedbackStep(f, row[f])
  <2>1. Said(row[f]) /\ row' = row
    BY <1>1, <1>4 DEF Replay, RowsAccepted
  <2>2. row' = [row EXCEPT ![f] = row[f]]
    BY <1>1, <2>1 DEF RowsAccepted
  <2>3. UNCHANGED episode
    BY <1>4 DEF Replay
  <2>4. CASE Weighted \/ row[f] \in Directs
    BY <1>4, <2>1, <2>2, <2>3, <2>4 DEF Replay, FeedbackStep, Said
  <2>5. CASE ~(Weighted \/ row[f] \in Directs)
    <3>1. UNCHANGED learnt
      BY <1>4, <2>5 DEF Replay
    <3>2. ledger' = ledger /\ revisited' = revisited
      BY <3>1 DEF learnt
    <3> QED
      BY <2>1, <2>2, <2>3, <3>1, <3>2 DEF FeedbackStep, Said
  <2> QED
    BY <2>4, <2>5
<1> QED
  BY <1>2, <1>3, <1>4 DEF AttributionNext, EpisodeStep

\* The events of a feedback are in its ledger after a step that learnt from it, and other ledgers
\* stay.
LEMMA FeedbackLearns ==
  ASSUME AttributionTypeOK, NEW f \in Feedbacks, NEW fb, FeedbackStep(f, fb)
  PROVE  /\ AttributionTypeOK' /\ \A a \in Artifacts : Followed(a)
         /\ \/ UNCHANGED ledger
            \/ LedgerStep(f, Events(f, fb.target, fb.reward))
<1>1. UsageTypes /\ RowsAccepted /\ LedgerTypes /\ CountTypes /\ UtilityIsMean
  BY DEF AttributionTypeOK
<1>2. Said(fb) /\ fb # NoRow
  BY SaidTypes DEF FeedbackStep
<1>3. row' = [row EXCEPT ![f] = fb]
  BY DEF FeedbackStep
<1>4. UsageTypes'
  BY <1>1 DEF FeedbackStep, episode, UsageTypes
<1>5. /\ row' \in [Feedbacks -> Rows \cup Directs \cup {NoRow}]
      /\ row'[f] = fb /\ \A g \in Feedbacks \ {f} : row'[g] = row[g]
  BY <1>1, <1>2, <1>3 DEF RowsAccepted, Said
<1>6. RowsAccepted'
  <2>1. ASSUME NEW g \in Feedbacks, row'[g] # NoRow PROVE Said(row'[g])
    BY <1>1, <1>2, <1>5, <2>1 DEF RowsAccepted
  <2> QED
    BY <1>5, <2>1 DEF RowsAccepted, Said
<1>7. revisited' \subseteq Feedbacks
  BY <1>1 DEF FeedbackStep, LedgerTypes
<1>8. CASE Learn(f, fb)
  <2>1. /\ LedgerStep(f, Events(f, fb.target, fb.reward))
        /\ CountTypes' /\ UtilityIsMean' /\ \A a \in Artifacts : Followed(a)
    BY <1>1, <1>2, <1>8, LearnStep
  <2>2. LedgerTypes'
    <3>1. ASSUME NEW g \in Feedbacks
          PROVE  IsLedger(ledger'[g]) /\ (row'[g] = NoRow => DOMAIN ledger'[g] = {})
      BY <1>1, <1>2, <1>5, <2>1 DEF LedgerTypes, LedgerStep
    <3> QED
      BY <1>7, <2>1, <3>1 DEF LedgerTypes, LedgerStep, IsLedger
  <2> QED
    BY <1>4, <1>6, <2>1, <2>2 DEF AttributionTypeOK
<1>9. CASE UNCHANGED learnt
  <2>1. CountTypes' /\ UtilityIsMean' /\ \A a \in Artifacts : Followed(a)
    BY <1>1, <1>9, NothingLearnt
  <2>2. ledger' = ledger
    BY <1>9 DEF learnt
  <2>3. LedgerTypes'
    BY <1>1, <1>2, <1>5, <1>7, <2>2 DEF LedgerTypes, IsLedger
  <2> QED
    BY <1>4, <1>6, <2>1, <2>2, <2>3 DEF AttributionTypeOK
<1> QED
  BY <1>8, <1>9 DEF FeedbackStep

LEMMA EpisodeLearnsNot ==
  ASSUME AttributionTypeOK, EpisodeStep
  PROVE  AttributionTypeOK' /\ UNCHANGED <<row, learnt>> /\ \A a \in Artifacts : Followed(a)
<1>1. UsageTypes /\ RowsAccepted /\ LedgerTypes /\ CountTypes /\ UtilityIsMean
  BY DEF AttributionTypeOK
<1>2. UsageTypes' /\ UNCHANGED <<row, learnt>>
  BY <1>1, EpisodeSteps
<1>3. CountTypes' /\ UtilityIsMean' /\ \A a \in Artifacts : Followed(a)
  BY <1>1, <1>2, NothingLearnt
<1>4. row' = row /\ ledger' = ledger /\ revisited' = revisited
  BY <1>2 DEF learnt
<1>5. RowsAccepted' /\ LedgerTypes'
  BY <1>1, <1>4 DEF RowsAccepted, LedgerTypes, Said, IsLedger
<1> QED
  BY <1>2, <1>3, <1>5 DEF AttributionTypeOK

LEMMA TypesStep ==
  ASSUME AttributionTypeOK, [AttributionNext]_attributionVars
  PROVE  AttributionTypeOK' /\ \A a \in Artifacts : Followed(a)
<1>1. CASE AttributionNext
  BY <1>1, FeedbackSteps, FeedbackLearns, EpisodeLearnsNot
<1>2. CASE UNCHANGED attributionVars
  <2>1. UNCHANGED <<episode, row, learnt>>
    BY <1>2 DEF attributionVars
  <2>2. UsageTypes' /\ RowsAccepted' /\ LedgerTypes'
    BY <2>1 DEF AttributionTypeOK, UsageTypes, RowsAccepted, LedgerTypes, Said, IsLedger,
                episode, learnt
  <2> QED
    BY <2>1, <2>2, NothingLearnt DEF AttributionTypeOK
<1> QED
  BY <1>1, <1>2

\* Usages, rows, events and counts are what the code can have, a ledger holds events of known things
\* with whole rewards, and a utility is the mean of its counts unless it was given as 0 or 1
\* (utility.go:10, pattern_utility.go:57), for any experiences, patterns, links and feedbacks.
THEOREM AttributionTypes == AttributionSpec => []AttributionTypeOK
<1>1. AttributionInit => AttributionTypeOK
  BY TypesInit
<1>2. AttributionTypeOK /\ [AttributionNext]_attributionVars => AttributionTypeOK'
  BY TypesStep
<1> QED
  BY <1>1, <1>2, PTL DEF AttributionSpec

\* Only a success raises a utility and only a failure lowers it (utility.go:37,
\* pattern_utility.go:43), whatever the seeds, the shares and the confidences are.
THEOREM SignsAreFollowed == AttributionSpec => FollowsReward
<1>1. AttributionTypeOK /\ [AttributionNext]_attributionVars =>
        [\A a \in Artifacts : ~Extreme(a) =>
           LET before == utility[a][1] * utility'[a][2]
               after == utility'[a][1] * utility[a][2]
           IN /\ after > before => wins'[a] > wins[a]
              /\ after < before => losses'[a] > losses[a]]_attributionVars
  BY TypesStep DEF Followed
<1> QED
  BY <1>1, AttributionTypes, PTL DEF AttributionSpec, FollowsReward


-----------------------------------------------------------------------------
(* Whom a feedback teaches. *)

\* An event k that a feedback with target t, which is not the episode, may have.
OfTarget(f, t, k) ==
  \/ k[1] \in {Skill, Direct} /\ t.type \in {"SKILL_EXECUTION", "PATTERN"} /\ k[2] = t.of
  \/ k[1] \in Credited(f) /\ k \in Members
  \/ k[1] = Credit /\ k[2] \in UsedOnes /\ Named(t, k[2])

LEMMA OnlyTheNamedKeys ==
  OnlyTheNamed <=>
    \A f \in Feedbacks : row[f] # NoRow /\ row[f].target.type # "EPISODE" =>
      \A k \in DOMAIN ledger[f] : OfTarget(f, row[f].target, k)
BY DEF OnlyTheNamed, OfTarget, Named

\* What is used, done and linked is not taken back.
Grown ==
  /\ \A i \in DOMAIN used : i \in DOMAIN used' /\ used'[i] = used[i]
  /\ links \subseteq links'

LEMMA EpisodeGrows ==
  ASSUME AttributionTypeOK, EpisodeStep \/ UNCHANGED episode
  PROVE  Grown
<1>1. CASE UNCHANGED episode
  BY <1>1 DEF Grown, episode
<1>2. ASSUME NEW x \in Experiences, NEW score \in Scores, Use(x, score)
      PROVE  Grown
  <2>1. PICK X : X = [exp : Experiences, score : Scores]
    OBVIOUS
  <2>2. PICK u : u = [exp |-> x, score |-> score]
    OBVIOUS
  <2>3. u \in X /\ used \in Seq(X) /\ used' = Append(used, u)
    BY <1>2, <2>1, <2>2 DEF Use, UsageTypes, AttributionTypeOK
  <2>4. \A i \in DOMAIN used : i \in DOMAIN used' /\ used'[i] = used[i]
    BY <2>3
  <2> QED
    BY <1>2, <2>4 DEF Grown, Use
<1>3. ASSUME NEW p \in Patterns, NEW score \in Scores, Show(p, score)
      PROVE  Grown
  BY <1>3 DEF Grown, Show
<1>4. ASSUME NEW a \in Actions, RecordAction(a)
      PROVE  Grown
  BY <1>4 DEF Grown, RecordAction
<1>5. ASSUME NEW l \in Links, LinkExperience(l)
      PROVE  Grown
  BY <1>5 DEF Grown, LinkExperience
<1> QED
  BY <1>1, <1>2, <1>3, <1>4, <1>5 DEF EpisodeStep

LEMMA TargetStays ==
  ASSUME Grown, NEW f, NEW t, NEW k, OfTarget(f, t, k), DOMAIN ledger[f] \subseteq DOMAIN ledger'[f]
  PROVE  OfTarget(f, t, k)'
<1>1. \A x \in UsedOnes : x \in UsedOnes'
  BY DEF UsedOnes, Grown
<1>2. \A x \in Credited(f) : x \in Credited(f)'
  BY DEF Credited
<1>3. \A x : Named(t, x) => Named(t, x)'
  BY DEF Named, Grown
<1> QED
  BY <1>1, <1>2, <1>3 DEF OfTarget

\* What a feedback that is not on the episode calls for is about its target.
LEMMA EventsOfTarget ==
  ASSUME UsageTypes, NEW f, IsLedger(ledger[f]), NEW fb, Said(fb), fb.target.type # "EPISODE",
         NEW e, e = Events(f, fb.target, fb.reward), NEW k \in DOMAIN e
  PROVE  \/ OfTarget(f, fb.target, k)
         \/ k \in Members /\ <<Credit, k[1]>> \in DOMAIN e /\ k[1] \in Experiences
         \/ k \in DOMAIN ledger[f]
<1>1. PICK t : t = fb.target
  OBVIOUS
<1>2. PICK r \in Int : r = fb.reward
  BY SaidTypes
<1>3. CASE t.type = "SKILL_EXECUTION"
  <2>1. e = [j \in {<<Skill, t.of>>} |-> r * Whole]
    BY <1>1, <1>2, <1>3 DEF Events, SkillEvents
  <2>2. k = <<Skill, t.of>>
    BY <2>1
  <2> QED
    BY <1>1, <1>3, <2>2 DEF OfTarget
<1>4. CASE t.type = "PATTERN"
  <2>1. e = [j \in {<<Direct, t.of>>} |-> r * Whole]
    BY <1>1, <1>2, <1>4 DEF Events, DirectEvents
  <2>2. k = <<Direct, t.of>>
    BY <2>1
  <2> QED
    BY <1>1, <1>4, <2>2 DEF OfTarget
<1>5. CASE t.type \in Types \ {"SKILL_EXECUTION"}
  <2>1. ~(Credited(f) = {} /\ Unused(t))
    <3>1. ASSUME Credited(f) = {}, Unused(t) PROVE FALSE
      <4>1. e = << >>
        BY <1>1, <1>2, <1>5, <3>1 DEF Events, Types
      <4> QED
        BY <4>1
    <3> QED
      BY <3>1
  <2>2. PICK c : c = CreditEvents(f, t, r)
    OBVIOUS
  <2>3. Calls(e, t, r, c) /\ IsLedger(e)
    BY <1>1, <1>2, <1>5, <2>1, <2>2, CalledFor
  <2>4. \/ k[1] = Credit /\ k[2] \in DOMAIN c /\ k = <<Credit, k[2]>>
        \/ k \in Members /\ k[1] \in DOMAIN c
    BY <1>1, <2>3 DEF Calls
  <2>5. DOMAIN c \subseteq Experiences /\ \A x \in DOMAIN c : <<Credit, x>> \in DOMAIN e
    BY <1>2, <1>5, <2>2, <2>3, CreditsOf DEF Calls
  <2>6. CASE Credited(f) = {}
    <3>1. DOMAIN c = DOMAIN Attribute(t)
      BY <1>2, <1>5, <2>2, <2>6, CreditsOf
    <3>2. \A x \in DOMAIN c : x \in UsedOnes /\ Named(t, x)
      BY <1>1, <1>5, <3>1, AttributeShares
    <3> QED
      BY <1>1, <2>4, <2>5, <3>2 DEF OfTarget
  <2>7. CASE Credited(f) # {}
    <3>1. DOMAIN c = Credited(f)
      BY <1>2, <1>5, <2>2, <2>7, CreditsOf
    <3>2. \A x \in DOMAIN c : <<Credit, x>> \in DOMAIN ledger[f]
      BY <3>1 DEF Credited
    <3> QED
      BY <2>4, <2>5, <3>2
  <2> QED
    BY <2>6, <2>7
<1> QED
  BY <1>1, <1>3, <1>4, <1>5, SaidTypes


LEMMA NamedInit ==
  ASSUME AttributionInit
  PROVE  OnlyTheNamed
BY DEF AttributionInit, OnlyTheNamed

LEMMA NamedLedger ==
  ASSUME AttributionTypeOK, OnlyTheNamed, NEW f \in Feedbacks, NEW fb, FeedbackStep(f, fb),
         LedgerStep(f, Events(f, fb.target, fb.reward)), fb.target.type # "EPISODE",
         NEW k \in DOMAIN ledger'[f]
  PROVE  OfTarget(f, fb.target, k)'
<1>1. PICK e : e = Events(f, fb.target, fb.reward)
  OBVIOUS
<1>2. PICK t : t = fb.target
  OBVIOUS
<1>3. /\ DOMAIN ledger'[f] = DOMAIN ledger[f] \cup DOMAIN e
      /\ DOMAIN ledger[f] \subseteq DOMAIN ledger'[f]
  BY <1>1 DEF LedgerStep
<1>4. Grown
  BY EpisodeGrows DEF FeedbackStep
<1>5. Said(fb) /\ fb # NoRow /\ (row[f] = NoRow \/ row[f] = fb)
  BY SaidTypes DEF FeedbackStep
<1>6. CASE k \in DOMAIN ledger[f]
  <2>1. row[f] = fb
    BY <1>5, <1>6 DEF AttributionTypeOK, LedgerTypes
  <2>2. OfTarget(f, t, k)
    BY <1>2, <1>5, <1>6, <2>1, OnlyTheNamedKeys
  <2>3. OfTarget(f, t, k)'
    BY <1>3, <1>4, <2>2, TargetStays
  <2> QED
    BY <1>2, <2>3 DEF OfTarget, Named
<1>7. CASE k \notin DOMAIN ledger[f]
  <2>1. k \in DOMAIN e
    BY <1>3, <1>7
  <2>2. UsageTypes /\ IsLedger(ledger[f])
    BY DEF AttributionTypeOK, LedgerTypes
  <2>3. \/ OfTarget(f, t, k)
        \/ k \in Members /\ <<Credit, k[1]>> \in DOMAIN e /\ k[1] \in Experiences
    BY <1>1, <1>2, <1>5, <1>7, <2>1, <2>2, EventsOfTarget
  <2>4. CASE OfTarget(f, t, k)
    <3>1. OfTarget(f, t, k)'
      BY <1>3, <1>4, <2>4, TargetStays
    <3> QED
      BY <1>2, <3>1 DEF OfTarget, Named
  <2>5. CASE k \in Members /\ <<Credit, k[1]>> \in DOMAIN e /\ k[1] \in Experiences
    <3>1. k[1] \in Credited(f)'
      BY <1>3, <2>5 DEF Credited
    <3> QED
      BY <2>5, <3>1 DEF OfTarget
  <2> QED
    BY <2>3, <2>4, <2>5
<1> QED
  BY <1>6, <1>7

LEMMA NamedStep ==
  ASSUME AttributionTypeOK, OnlyTheNamed, [AttributionNext]_attributionVars
  PROVE  OnlyTheNamed'
<1>1. SUFFICES ASSUME NEW f \in Feedbacks, row'[f] # NoRow, row'[f].target.type # "EPISODE",
                      NEW k \in DOMAIN ledger'[f], NEW t, t = row'[f].target
               PROVE  OfTarget(f, t, k)'
  BY DEF OnlyTheNamed, OfTarget, Named
<1>4. ASSUME Grown, row'[f] = row[f], ledger'[f] = ledger[f]
      PROVE  OfTarget(f, t, k)'
  <2>1. OfTarget(f, t, k)
    BY <1>1, <1>4, OnlyTheNamedKeys
  <2> QED
    BY <1>4, <2>1, TargetStays
<1>5. CASE EpisodeStep \/ UNCHANGED attributionVars
  <2>1. Grown
    BY <1>5, EpisodeGrows DEF attributionVars
  <2>2. row' = row /\ ledger' = ledger
    BY <1>5, EpisodeLearnsNot DEF attributionVars, learnt
  <2> QED
    BY <1>4, <2>1, <2>2
<1>6. ASSUME NEW g \in Feedbacks, NEW fb, FeedbackStep(g, fb)
      PROVE  OfTarget(f, t, k)'
  <2>1. Grown
    BY <1>6, EpisodeGrows DEF FeedbackStep
  <2>2. row' = [row EXCEPT ![g] = fb] /\ row \in [Feedbacks -> Rows \cup Directs \cup {NoRow}]
    BY <1>6 DEF FeedbackStep, AttributionTypeOK, RowsAccepted
  <2>3. UNCHANGED ledger \/ LedgerStep(g, Events(g, fb.target, fb.reward))
    BY <1>6, FeedbackLearns
  <2>4. CASE f # g
    <3>1. row'[f] = row[f] /\ ledger'[f] = ledger[f]
      BY <2>2, <2>3, <2>4 DEF LedgerStep
    <3> QED
      BY <1>4, <2>1, <3>1
  <2>5. CASE f = g
    <3>1. row'[f] = fb
      BY <2>2, <2>5
    <3>2. CASE LedgerStep(g, Events(g, fb.target, fb.reward))
      <4>1. OfTarget(f, fb.target, k)'
        BY <1>1, <1>6, <2>5, <3>1, <3>2, NamedLedger
      <4> QED
        BY <1>1, <3>1, <4>1 DEF OfTarget, Named
    <3>3. CASE UNCHANGED ledger
      <4>1. row[f] # NoRow
        BY <1>1, <3>3 DEF AttributionTypeOK, LedgerTypes
      <4>2. row'[f] = row[f]
        BY <1>6, <2>5, <3>1, <4>1 DEF FeedbackStep
      <4> QED
        BY <1>4, <2>1, <3>3, <4>2
    <3> QED
      BY <2>3, <3>2, <3>3
  <2> QED
    BY <2>4, <2>5
<1> QED
  BY <1>5, <1>6, FeedbackSteps

\* A feedback with a precise target teaches only experiences that were used and that it names, or
\* that are linked to the very action or tool, and only patterns that generalise one it taught
\* (targeted.go:9, service.go:509), in whatever order usages, actions, links and feedbacks come.
THEOREM NobodyElse == AttributionSpec => []OnlyTheNamed
<1>1. AttributionInit => OnlyTheNamed
  BY NamedInit
<1>2. AttributionTypeOK /\ OnlyTheNamed /\ [AttributionNext]_attributionVars => OnlyTheNamed'
  BY NamedStep
<1> QED
  BY <1>1, <1>2, AttributionTypes, PTL DEF AttributionSpec


-----------------------------------------------------------------------------
(* How much a feedback teaches. *)

\* What a ledger teaches those of S that have an event of one source.
TaughtBy(l, source, S) ==
  SumFunction([a \in {a \in S : <<source, a>> \in DOMAIN l} |-> l[<<source, a>>]])

LEMMA TaughtIs ==
  ASSUME NEW f, NEW source, NEW S
  PROVE  /\ Taught(f, source, S) = TaughtBy(ledger[f], source, S)
         /\ Taught(f, source, S)' = TaughtBy(ledger'[f], source, S)
BY DEF Taught, TaughtBy

LEMMA TaughtSame ==
  ASSUME NEW l, NEW m, NEW source, NEW S,
         \A a \in S : <<source, a>> \in DOMAIN l <=> <<source, a>> \in DOMAIN m,
         \A k \in DOMAIN l : m[k] = l[k]
  PROVE  TaughtBy(l, source, S) = TaughtBy(m, source, S)
<1>1. PICK D : D = {a \in S : <<source, a>> \in DOMAIN l}
  OBVIOUS
<1>2. D = {a \in S : <<source, a>> \in DOMAIN m}
  BY <1>1
<1>3. \A a \in D : l[<<source, a>>] = m[<<source, a>>]
  BY <1>1
<1>4. [a \in D |-> l[<<source, a>>]] = [a \in D |-> m[<<source, a>>]]
  BY <1>3
<1> QED
  BY <1>1, <1>2, <1>4 DEF TaughtBy

\* Shares of a reward that add up to Whole teach the whole reward.
LEMMA TaughtWhole ==
  ASSUME NEW l, NEW source, NEW S, NEW r \in Int, NEW share, IsFiniteSet(DOMAIN share),
         share \in [DOMAIN share -> Nat], SumFunction(share) = Whole,
         {a \in S : <<source, a>> \in DOMAIN l} = DOMAIN share,
         \A a \in DOMAIN share : l[<<source, a>>] = r * share[a]
  PROVE  TaughtBy(l, source, S) = r * Whole
<1>1. PICK D : D = DOMAIN share
  OBVIOUS
<1>2. PICK F : F = [a \in D |-> l[<<source, a>>]]
  OBVIOUS
<1>3. TaughtBy(l, source, S) = SumFunctionOnSet(F, D)
  BY <1>1, <1>2 DEF TaughtBy, SumFunction
<1>4. IsFiniteSet(D) /\ \A a \in D : F[a] \in Int /\ share[a] \in Int /\ 1 * F[a] = r * share[a]
  BY <1>1, <1>2
<1>5. 1 * SumFunctionOnSet(F, D) = r * SumFunctionOnSet(share, D)
  BY <1>4, SumTimes
<1>6. SumFunctionOnSet(F, D) \in Int
  BY <1>4, SumIsInt
<1>7. SumFunctionOnSet(share, D) = Whole
  BY <1>1 DEF SumFunction
<1> QED
  BY <1>3, <1>5, <1>6, <1>7

\* The credits in e are what a feedback is attributed.
Attributed(e, fb) ==
  /\ fb.target.type \in Types \ {"SKILL_EXECUTION"}
  /\ {x \in Experiences : <<Credit, x>> \in DOMAIN e} = DOMAIN Attribute(fb.target)
  /\ \A x \in DOMAIN Attribute(fb.target) :
       e[<<Credit, x>>] = fb.reward * Attribute(fb.target)[x]

\* The credits a feedback calls for: those it has, or a share for everyone it is attributed to.
LEMMA EventCredits ==
  ASSUME UsageTypes, NEW f, IsLedger(ledger[f]), NEW fb, Said(fb),
         NEW e, e = Events(f, fb.target, fb.reward)
  PROVE  /\ Credited(f) # {} => \A x : <<Credit, x>> \in DOMAIN e => x \in Credited(f)
         /\ Credited(f) = {} /\ (\E x : <<Credit, x>> \in DOMAIN e) => Attributed(e, fb)
<1>1. PICK t : t = fb.target
  OBVIOUS
<1>2. PICK r \in Int : r = fb.reward
  BY SaidTypes
<1>3. ASSUME t.type \notin Types \ {"SKILL_EXECUTION"}
      PROVE  \A x : <<Credit, x>> \notin DOMAIN e
  <2>1. CASE t.type = "SKILL_EXECUTION"
    <3>1. e = [j \in {<<Skill, t.of>>} |-> r * Whole]
      BY <1>1, <1>2, <2>1 DEF Events, SkillEvents
    <3> QED
      BY <3>1, TagsDiffer
  <2>2. CASE t.type = "PATTERN"
    <3>1. e = [j \in {<<Direct, t.of>>} |-> r * Whole]
      BY <1>1, <1>2, <2>2 DEF Events, DirectEvents
    <3> QED
      BY <3>1, TagsDiffer
  <2> QED
    BY <1>1, <1>3, <2>1, <2>2, SaidTypes
<1>4. ASSUME t.type \in Types \ {"SKILL_EXECUTION"}, NEW y, <<Credit, y>> \in DOMAIN e
      PROVE  \E c : /\ c = CreditEvents(f, t, r)
                    /\ \A x : <<Credit, x>> \in DOMAIN e => x \in DOMAIN c
                    /\ \A x \in DOMAIN c : <<Credit, x>> \in DOMAIN e /\ e[<<Credit, x>>] = c[x]
  <2>1. ~(Credited(f) = {} /\ Unused(t))
    <3>1. ASSUME Credited(f) = {}, Unused(t) PROVE FALSE
      <4>1. e = << >>
        BY <1>1, <1>2, <1>4, <3>1 DEF Events, Types
      <4> QED
        BY <1>4, <4>1
    <3> QED
      BY <3>1
  <2>2. PICK c : c = CreditEvents(f, t, r)
    OBVIOUS
  <2>3. Calls(e, t, r, c)
    BY <1>1, <1>2, <1>4, <2>1, <2>2, CalledFor
  <2>4. ASSUME NEW x, <<Credit, x>> \in DOMAIN e PROVE x \in DOMAIN c
    <3>1. PICK k : k = <<Credit, x>>
      OBVIOUS
    <3>2. k[1] = Credit /\ k[2] = x /\ k \in DOMAIN e
      BY <2>4, <3>1
    <3> QED
      BY <2>3, <3>2, TagsDiffer DEF Calls
  <2> QED
    BY <2>2, <2>3, <2>4 DEF Calls
<1>5. ASSUME Credited(f) # {}, NEW x, <<Credit, x>> \in DOMAIN e
      PROVE  x \in Credited(f)
  <2>1. t.type \in Types \ {"SKILL_EXECUTION"}
    BY <1>3, <1>5
  <2>2. PICK c : /\ c = CreditEvents(f, t, r)
                 /\ \A z : <<Credit, z>> \in DOMAIN e => z \in DOMAIN c
    BY <1>4, <1>5, <2>1
  <2>3. DOMAIN c = Credited(f)
    BY <1>2, <1>5, <2>1, <2>2, CreditsOf
  <2> QED
    BY <1>5, <2>2, <2>3
<1>6. ASSUME Credited(f) = {}, NEW y, <<Credit, y>> \in DOMAIN e
      PROVE  /\ t.type \in Types \ {"SKILL_EXECUTION"}
             /\ {x \in Experiences : <<Credit, x>> \in DOMAIN e} = DOMAIN Attribute(t)
             /\ \A x \in DOMAIN Attribute(t) : e[<<Credit, x>>] = r * Attribute(t)[x]
  <2>1. t.type \in Types \ {"SKILL_EXECUTION"}
    BY <1>3, <1>6
  <2>2. PICK c : /\ c = CreditEvents(f, t, r)
                 /\ \A x : <<Credit, x>> \in DOMAIN e => x \in DOMAIN c
                 /\ \A x \in DOMAIN c : <<Credit, x>> \in DOMAIN e /\ e[<<Credit, x>>] = c[x]
    BY <1>4, <1>6, <2>1
  <2>3. /\ DOMAIN c = DOMAIN Attribute(t) /\ DOMAIN c \subseteq Experiences
        /\ \A x \in DOMAIN c : c[x] = r * Attribute(t)[x]
    BY <1>2, <1>6, <2>1, <2>2, CreditsOf
  <2> QED
    BY <2>1, <2>2, <2>3
<1>7. Credited(f) = {} /\ (\E x : <<Credit, x>> \in DOMAIN e) => Attributed(e, fb)
  BY <1>1, <1>2, <1>6 DEF Attributed
<1> QED
  BY <1>5, <1>7

LEMMA EventUsages ==
  ASSUME UsageTypes, NEW f, IsLedger(ledger[f]), NEW fb, Said(fb),
         NEW e, e = Events(f, fb.target, fb.reward), NEW q, <<Usage, q>> \in DOMAIN e
  PROVE  /\ {p \in Patterns : <<Usage, p>> \in DOMAIN e} = Shown /\ Shown # {}
         /\ \A p \in Shown : e[<<Usage, p>>] = fb.reward * PatternShares[p]
<1>1. PICK t : t = fb.target
  OBVIOUS
<1>2. PICK r \in Int : r = fb.reward
  BY SaidTypes
<1>3. CASE t.type = "SKILL_EXECUTION"
  <2>1. e = [j \in {<<Skill, t.of>>} |-> r * Whole]
    BY <1>1, <1>2, <1>3 DEF Events, SkillEvents
  <2> QED
    BY <2>1, TagsDiffer
<1>4. CASE t.type = "PATTERN"
  <2>1. e = [j \in {<<Direct, t.of>>} |-> r * Whole]
    BY <1>1, <1>2, <1>4 DEF Events, DirectEvents
  <2> QED
    BY <2>1, TagsDiffer
<1>5. CASE t.type \in Types \ {"SKILL_EXECUTION"}
  <2>1. ~(Credited(f) = {} /\ Unused(t))
    <3>1. ASSUME Credited(f) = {}, Unused(t) PROVE FALSE
      <4>1. e = << >>
        BY <1>1, <1>2, <1>5, <3>1 DEF Events, Types
      <4> QED
        BY <4>1
    <3> QED
      BY <3>1
  <2>2. PICK c : c = CreditEvents(f, t, r)
    OBVIOUS
  <2>3. Calls(e, t, r, c)
    BY <1>1, <1>2, <1>5, <2>1, <2>2, CalledFor
  <2>4. ASSUME NEW p, <<Usage, p>> \in DOMAIN e PROVE p \in Shown /\ t.type = "EPISODE"
    <3>1. PICK k : k = <<Usage, p>>
      OBVIOUS
    <3>2. k[1] = Usage /\ k[2] = p /\ k \in DOMAIN e
      BY <2>4, <3>1
    <3> QED
      BY <2>3, <3>2, TagsDiffer DEF Calls
  <2>5. t.type = "EPISODE" /\ Shown # {}
    BY <2>4
  <2>6. \A p \in Shown : <<Usage, p>> \in DOMAIN e /\ e[<<Usage, p>>] = r * PatternShares[p]
    BY <2>3, <2>5 DEF Calls
  <2> QED
    BY <1>2, <2>4, <2>5, <2>6, PatternsShare
<1> QED
  BY <1>1, <1>3, <1>4, <1>5, SaidTypes


\* The two halves of WholeReward, of a ledger l and a reward r.
CreditsWhole(l, r) ==
  (\E x \in Experiences : <<Credit, x>> \in DOMAIN l) =>
    TaughtBy(l, Credit, Experiences) = r * Whole
UsagesWhole(l, r) ==
  (\E p \in Patterns : <<Usage, p>> \in DOMAIN l) => TaughtBy(l, Usage, Patterns) = r * Whole

LEMMA WholeIs ==
  WholeReward <=>
    \A f \in Feedbacks : row[f] # NoRow =>
      /\ UsedOnce => CreditsWhole(ledger[f], row[f].reward)
      /\ f \notin revisited => UsagesWhole(ledger[f], row[f].reward)
<1>1. \A f : (Credited(f) # {}) <=> \E x \in Experiences : <<Credit, x>> \in DOMAIN ledger[f]
  BY DEF Credited
<1>2. \A f : /\ Taught(f, Credit, Experiences) = TaughtBy(ledger[f], Credit, Experiences)
             /\ Taught(f, Usage, Patterns) = TaughtBy(ledger[f], Usage, Patterns)
  BY TaughtIs
<1> QED
  BY <1>1, <1>2 DEF WholeReward, UsedOnce, CreditsWhole, UsagesWhole

LEMMA WholeWill ==
  ASSUME \A f \in Feedbacks : row'[f] # NoRow =>
           /\ UsedOnce' => CreditsWhole(ledger'[f], row'[f].reward)
           /\ f \notin revisited' => UsagesWhole(ledger'[f], row'[f].reward)
  PROVE  WholeReward'
<1>1. \A f : (Credited(f) # {})' <=> \E x \in Experiences : <<Credit, x>> \in DOMAIN ledger'[f]
  BY DEF Credited
<1>2. \A f : /\ Taught(f, Credit, Experiences)' = TaughtBy(ledger'[f], Credit, Experiences)
             /\ Taught(f, Usage, Patterns)' = TaughtBy(ledger'[f], Usage, Patterns)
  BY TaughtIs
<1> QED
  BY <1>1, <1>2 DEF WholeReward, UsedOnce, CreditsWhole, UsagesWhole

\* Two contexts that showed an experience are not undone.
LEMMA UsedOnceBefore ==
  ASSUME AttributionTypeOK, EpisodeStep \/ UNCHANGED episode, UsedOnce'
  PROVE  UsedOnce
<1>1. UsageTypes
  BY DEF AttributionTypeOK
<1>2. CASE used' = used
  BY <1>2 DEF UsedOnce, UsedOnes
<1>3. ASSUME NEW x \in Experiences, NEW score \in Scores, Use(x, score)
      PROVE  UsedOnce
  <2>1. PICK X : X = [exp : Experiences, score : Scores]
    OBVIOUS
  <2>2. PICK u : u = [exp |-> x, score |-> score]
    OBVIOUS
  <2>3. u \in X /\ used \in Seq(X) /\ used' = Append(used, u)
    BY <1>1, <1>3, <2>1, <2>2 DEF Use, UsageTypes
  <2>4. PICK n \in Nat : n = Len(used)
    BY <2>3
  <2>5. /\ Len(used') = n + 1 /\ DOMAIN used = 1..n /\ DOMAIN used' = 1..(n + 1)
        /\ used'[n + 1] = u /\ \A i \in 1..n : used'[i] = used[i]
    BY <2>3, <2>4
  <2>6. UsedOnes' = UsedOnes \cup {x}
    BY <2>2, <2>5 DEF UsedOnes
  <2>7. PICK U : U = UsedOnes
    OBVIOUS
  <2>8. IsFiniteSet(U) /\ Cardinality(U) \in Nat
    BY <1>1, <2>7, UsedTypes, FS_CardinalityType
  <2>9. Cardinality(U \cup {x}) <= Cardinality(U) + 1
    <3>1. Cardinality(U \cup {x}) = IF x \in U THEN Cardinality(U) ELSE Cardinality(U) + 1
      BY <2>8, FS_AddElement
    <3> QED
      BY <2>8, <3>1
  <2>10. Cardinality(U \cup {x}) = n + 1
    BY <2>5, <2>6, <2>7 DEF UsedOnce
  <2>11. Cardinality(U) <= n
    <3>1. PICK h : h = [i \in 1..n |-> used[i].exp]
      OBVIOUS
    <3>2. h \in [1..n -> U] /\ \A y \in U : \E i \in 1..n : h[i] = y
      BY <1>1, <2>4, <2>7, <3>1, UsedTypes
    <3>3. h \in Surjection(1..n, U)
      BY <3>2 DEF Surjection
    <3>4. IsFiniteSet(1..n) /\ Cardinality(1..n) = n
      BY FS_Interval
    <3> QED
      BY <3>3, <3>4, FS_Surjection
  <2>12. Cardinality(U) = n
    BY <2>8, <2>9, <2>10, <2>11
  <2> QED
    BY <2>4, <2>7, <2>12 DEF UsedOnce
<1>4. EpisodeStep => used' = used \/ \E x \in Experiences, score \in Scores : Use(x, score)
  BY DEF EpisodeStep, Show, RecordAction, LinkExperience
<1>5. UNCHANGED episode => used' = used
  BY DEF episode
<1> QED
  BY <1>2, <1>3, <1>4, <1>5

\* What a feedback learns, and learns again, is its whole reward.
LEMMA WholeLedger ==
  ASSUME AttributionTypeOK, WholeReward, NEW f \in Feedbacks, NEW fb, FeedbackStep(f, fb),
         LedgerStep(f, Events(f, fb.target, fb.reward))
  PROVE  /\ UsedOnce => CreditsWhole(ledger'[f], fb.reward)
         /\ f \notin revisited' => UsagesWhole(ledger'[f], fb.reward)
<1>1. PICK e : e = Events(f, fb.target, fb.reward)
  OBVIOUS
<1>2. PICK old : old = ledger[f]
  OBVIOUS
<1>3. PICK new : new = ledger'[f]
  OBVIOUS
<1>4. PICK r \in Int : r = fb.reward
  BY SaidTypes DEF FeedbackStep
<1>5. /\ UsageTypes /\ IsLedger(ledger[f]) /\ Said(fb) /\ fb # NoRow
      /\ row[f] = NoRow => DOMAIN old = {}
      /\ row[f] = NoRow \/ row[f] = fb
  BY <1>2, SaidTypes DEF AttributionTypeOK, LedgerTypes, FeedbackStep
<1>6. /\ DOMAIN new = DOMAIN old \cup DOMAIN e
      /\ \A k \in DOMAIN old : new[k] = old[k]
      /\ \A k \in DOMAIN e \ DOMAIN old : new[k] = e[k]
  BY <1>1, <1>2, <1>3 DEF LedgerStep
<1>7. row[f] = fb => /\ UsedOnce => CreditsWhole(old, r)
                     /\ f \notin revisited => UsagesWhole(old, r)
  BY <1>2, <1>4, <1>5, WholeIs
<1>8. ASSUME UsedOnce, NEW y \in Experiences, <<Credit, y>> \in DOMAIN new
      PROVE  TaughtBy(new, Credit, Experiences) = r * Whole
  <2>1. CASE Credited(f) # {}
    <3>1. row[f] = fb
      BY <1>2, <1>5, <2>1 DEF Credited
    <3>2. \A x : <<Credit, x>> \in DOMAIN e => x \in Credited(f)
      BY <1>1, <1>5, <2>1, EventCredits
    <3>3. \A x \in Experiences : <<Credit, x>> \in DOMAIN old <=> <<Credit, x>> \in DOMAIN new
      BY <1>2, <1>6, <3>2 DEF Credited
    <3>4. TaughtBy(old, Credit, Experiences) = TaughtBy(new, Credit, Experiences)
      BY <1>6, <3>3, TaughtSame
    <3>5. \E x \in Experiences : <<Credit, x>> \in DOMAIN old
      BY <1>2, <2>1 DEF Credited
    <3> QED
      BY <1>7, <1>8, <3>1, <3>4, <3>5 DEF CreditsWhole
  <2>2. CASE Credited(f) = {}
    <3>1. \A x \in Experiences : <<Credit, x>> \notin DOMAIN old
      BY <1>2, <2>2 DEF Credited
    <3>2. <<Credit, y>> \in DOMAIN e
      BY <1>6, <1>8, <3>1
    <3>3. PICK t : t = fb.target
      OBVIOUS
    <3>4. PICK share : share = Attribute(t)
      OBVIOUS
    <3>5. /\ t.type \in Types \ {"SKILL_EXECUTION"}
          /\ {x \in Experiences : <<Credit, x>> \in DOMAIN e} = DOMAIN share
          /\ \A x \in DOMAIN share : e[<<Credit, x>>] = r * share[x]
      <4>1. UsageTypes /\ IsLedger(ledger[f]) /\ Said(fb)
        BY <1>5
      <4>2. \E x : <<Credit, x>> \in DOMAIN e
        BY <3>2
      <4>3. Attributed(e, fb)
        BY <1>1, <2>2, <4>1, <4>2, EventCredits
      <4> QED
        BY <1>4, <3>3, <3>4, <4>3 DEF Attributed
    <3>6. /\ share \in [DOMAIN share -> Nat] /\ DOMAIN share \subseteq UsedOnes
          /\ DOMAIN share # {} => SumFunction(share) = Whole
      BY <1>5, <1>8, <3>4, <3>5, AttributeShares
    <3>7. IsFiniteSet(DOMAIN share) /\ DOMAIN share # {}
      BY <1>5, <1>8, <3>2, <3>5, <3>6, UsedTypes, FS_Subset
    <3>8. {x \in Experiences : <<Credit, x>> \in DOMAIN new} = DOMAIN share
      BY <1>6, <3>1, <3>5
    <3>9. \A x \in DOMAIN share : new[<<Credit, x>>] = r * share[x]
      <4>1. \A x \in DOMAIN share : <<Credit, x>> \in DOMAIN e \ DOMAIN old
        BY <3>1, <3>5
      <4> QED
        BY <1>6, <3>5, <4>1
    <3> QED
      BY <3>6, <3>7, <3>8, <3>9, TaughtWhole
  <2> QED
    BY <2>1, <2>2
<1>9. ASSUME f \notin revisited', NEW q \in Patterns, <<Usage, q>> \in DOMAIN new
      PROVE  TaughtBy(new, Usage, Patterns) = r * Whole
  <2>1. CASE row[f] = fb
    <3>1. ledger' = ledger /\ revisited' = revisited
      BY <1>5, <1>9, <2>1 DEF FeedbackStep
    <3>2. new = old
      BY <1>2, <1>3, <3>1
    <3> QED
      BY <1>7, <1>9, <2>1, <3>1, <3>2 DEF UsagesWhole
  <2>2. CASE row[f] = NoRow
    <3>1. DOMAIN old = {}
      BY <1>5, <2>2
    <3>2. DOMAIN new = DOMAIN e /\ \A k \in DOMAIN e : new[k] = e[k]
      BY <1>6, <3>1
    <3>3. /\ {p \in Patterns : <<Usage, p>> \in DOMAIN e} = Shown /\ Shown # {}
          /\ \A p \in Shown : e[<<Usage, p>>] = r * PatternShares[p]
      BY <1>1, <1>4, <1>5, <1>9, <3>2, EventUsages
    <3>4. PICK share : share = PatternShares
      OBVIOUS
    <3>5. /\ share \in [DOMAIN share -> Nat] /\ DOMAIN share = Shown
          /\ SumFunction(share) = Whole /\ Shown \subseteq Patterns
      BY <1>5, <3>3, <3>4, PatternsShare
    <3>6. IsFiniteSet(DOMAIN share)
      BY <3>5, TablesAreFinite, FS_Subset
    <3>7. {p \in Patterns : <<Usage, p>> \in DOMAIN new} = DOMAIN share
      BY <3>2, <3>3, <3>5
    <3>8. \A p \in DOMAIN share : new[<<Usage, p>>] = r * share[p]
      <4>1. \A p \in DOMAIN share : <<Usage, p>> \in DOMAIN e
        BY <3>3, <3>5
      <4> QED
        BY <3>2, <3>3, <3>4, <3>5, <4>1
    <3> QED
      BY <3>5, <3>6, <3>7, <3>8, TaughtWhole
  <2> QED
    BY <1>5, <2>1, <2>2
<1> QED
  BY <1>3, <1>4, <1>8, <1>9 DEF CreditsWhole, UsagesWhole

LEMMA WholeInit ==
  ASSUME AttributionInit
  PROVE  WholeReward
BY DEF AttributionInit, WholeReward

LEMMA WholeStep ==
  ASSUME AttributionTypeOK, WholeReward, [AttributionNext]_attributionVars
  PROVE  WholeReward'
<1>1. SUFFICES ASSUME NEW f \in Feedbacks, row'[f] # NoRow
               PROVE  /\ UsedOnce' => CreditsWhole(ledger'[f], row'[f].reward)
                      /\ f \notin revisited' => UsagesWhole(ledger'[f], row'[f].reward)
  BY WholeWill
<1>2. ASSUME row'[f] = row[f], ledger'[f] = ledger[f], UsedOnce' => UsedOnce,
             revisited \subseteq revisited'
      PROVE  /\ UsedOnce' => CreditsWhole(ledger'[f], row'[f].reward)
             /\ f \notin revisited' => UsagesWhole(ledger'[f], row'[f].reward)
  BY <1>1, <1>2, WholeIs
<1>3. CASE EpisodeStep \/ UNCHANGED attributionVars
  <2>1. UsedOnce' => UsedOnce
    BY <1>3, UsedOnceBefore DEF attributionVars
  <2>2. row' = row /\ ledger' = ledger /\ revisited' = revisited
    BY <1>3, EpisodeLearnsNot DEF attributionVars, learnt
  <2> QED
    BY <1>2, <2>1, <2>2
<1>4. ASSUME NEW g \in Feedbacks, NEW fb, FeedbackStep(g, fb)
      PROVE  /\ UsedOnce' => CreditsWhole(ledger'[f], row'[f].reward)
             /\ f \notin revisited' => UsagesWhole(ledger'[f], row'[f].reward)
  <2>1. UsedOnce' => UsedOnce
    BY <1>4, UsedOnceBefore DEF FeedbackStep
  <2>2. row' = [row EXCEPT ![g] = fb] /\ row \in [Feedbacks -> Rows \cup Directs \cup {NoRow}]
    BY <1>4 DEF FeedbackStep, AttributionTypeOK, RowsAccepted
  <2>3. UNCHANGED ledger \/ LedgerStep(g, Events(g, fb.target, fb.reward))
    BY <1>4, FeedbackLearns
  <2>4. revisited \subseteq revisited'
    BY <1>4 DEF FeedbackStep
  <2>5. CASE f # g
    <3>1. row'[f] = row[f] /\ ledger'[f] = ledger[f]
      BY <2>2, <2>3, <2>5 DEF LedgerStep
    <3> QED
      BY <1>2, <2>1, <2>4, <3>1
  <2>6. CASE f = g
    <3>1. row'[f] = fb
      BY <2>2, <2>6
    <3>2. CASE LedgerStep(g, Events(g, fb.target, fb.reward))
      <4>1. /\ UsedOnce => CreditsWhole(ledger'[f], fb.reward)
            /\ f \notin revisited' => UsagesWhole(ledger'[f], fb.reward)
        BY <1>4, <2>6, <3>2, WholeLedger
      <4> QED
        BY <2>1, <3>1, <4>1
    <3>3. CASE UNCHANGED ledger
      <4>1. CASE row[f] = NoRow
        <5>1. DOMAIN ledger'[f] = {}
          BY <3>3, <4>1 DEF AttributionTypeOK, LedgerTypes
        <5> QED
          BY <5>1 DEF CreditsWhole, UsagesWhole
      <4>2. CASE row[f] # NoRow
        <5>1. row'[f] = row[f]
          BY <1>4, <2>6, <3>1, <4>2 DEF FeedbackStep
        <5> QED
          BY <1>2, <2>1, <2>4, <3>3, <5>1
      <4> QED
        BY <4>1, <4>2
    <3> QED
      BY <2>3, <3>2, <3>3
  <2> QED
    BY <2>5, <2>6
<1> QED
  BY <1>3, <1>4, FeedbackSteps

\* The credits of a feedback sum to its reward, or there are none, and so do the lessons of the
\* patterns shown (score.go:74, types.go:38), for any number of usages, links, patterns and
\* feedbacks in any order, and however often a feedback is submitted again.
THEOREM RewardIsShared == AttributionSpec => []WholeReward
<1>1. AttributionInit => WholeReward
  BY WholeInit
<1>2. AttributionTypeOK /\ WholeReward /\ [AttributionNext]_attributionVars => WholeReward'
  BY WholeStep
<1> QED
  BY <1>1, <1>2, AttributionTypes, PTL DEF AttributionSpec

=============================================================================
