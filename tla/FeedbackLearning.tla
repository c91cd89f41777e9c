-------------------------- MODULE FeedbackLearning --------------------------
(***************************************************************************)
(* What one feedback teaches (learning.Service.ApplyFeedbackReward).       *)
(*                                                                         *)
(* A feedback is stored once per idempotency key.  Every submission of the *)
(* key, the first one or a repetition, then works through two ledgers: a   *)
(* learning event per experience that gets credit, and a pattern learning  *)
(* event per pattern that was in the context or generalises a credited     *)
(* experience.  Events are created PENDING and applied in a transaction    *)
(* that updates the Beta counts and marks the event APPLIED; a call that   *)
(* fails is marked FAILED in a statement of its own, whatever the event    *)
(* has become meanwhile.  Submissions run side by side, fail and crash.    *)
(***************************************************************************)
EXTENDS Naturals, FiniteSets

CONSTANTS
  Callers,      \* clients that submit the feedback, with one idempotency key
  Experiences,  \* experiences the attribution gives credit for this feedback
  Patterns,     \* patterns in reach of the feedback
  Members,      \* <<x, p>>: pattern p generalises experience x (FindByExperience)
  InContext,    \* patterns the feedback credits directly (PatternUsage rows)
  MaxFailures,  \* bound: calls of an applier that return an error
  MaxCrashes,   \* bound: submissions that break off elsewhere
  Nobody        \* no experience, no pattern event

\* Pattern events: derived from a member experience, or PATTERN_USAGE.
Usage == "PATTERN_USAGE"
Derived == Members \cup ({Usage} \X InContext)

ASSUME LearningAssumption ==
  /\ Members \subseteq Experiences \X Patterns /\ InContext \subseteq Patterns
  /\ Usage \notin Experiences /\ IsFiniteSet(Callers)
  /\ MaxFailures \in Nat /\ MaxCrashes \in Nat

VARIABLES
  stored,    \* the feedback row exists
  event,     \* learning_events: status by experience
  beta,      \* Beta updates an experience got from this feedback
  pevent,    \* pattern_learning_events: status by source and pattern
  pbeta,     \* Beta updates a pattern got from each of its events
  live,      \* patterns that may be retrieved, and so learn from members
  pc,        \* where each caller is
  fresh,     \* the caller found no event of this feedback
  todo,      \* experiences whose event is still to be applied
  seen,      \* experiences whose event it found APPLIED
  puts,      \* pattern events it is about to create
  todoP,     \* pattern events it is about to apply
  cur,       \* the experience, or pattern event, it works at
  failures,  \* failed calls so far
  crashes    \* crashes so far

ledgers == <<event, beta, pevent, pbeta>>
locals  == <<fresh, todo, seen, puts, todoP, cur>>
env     == <<live, failures, crashes>>
vars    == <<stored, ledgers, pc, locals, env>>

Status == {"NONE", "PENDING", "APPLIED", "FAILED"}
\* Faulty: an event whose submission crashed stays PENDING.
FailedOnly == {"FAILED"}

\* What a repetition of the feedback tries again.
Unapplied == {"PENDING", "FAILED"}

Init ==
  /\ stored = FALSE
  /\ event = [x \in Experiences |-> "NONE"]
  /\ beta = [x \in Experiences |-> 0]
  /\ pevent = [d \in Derived |-> "NONE"]
  /\ pbeta = [d \in Derived |-> 0]
  /\ live = Patterns
  /\ pc = [c \in Callers |-> "idle"]
  /\ fresh = [c \in Callers |-> FALSE]
  /\ todo = [c \in Callers |-> {}]
  /\ seen = [c \in Callers |-> {}]
  /\ puts = [c \in Callers |-> {}]
  /\ todoP = [c \in Callers |-> {}]
  /\ cur = [c \in Callers |-> Nobody]
  /\ failures = 0 /\ crashes = 0

At(c, here) == pc[c] = here
Goto(c, there) == pc' = [pc EXCEPT ![c] = there]

\* A submission that returns, or breaks off, leaves nothing behind but the ledgers.
Return(c, there) ==
  /\ Goto(c, there)
  /\ fresh' = [fresh EXCEPT ![c] = FALSE]
  /\ todo' = [todo EXCEPT ![c] = {}] /\ seen' = [seen EXCEPT ![c] = {}]
  /\ puts' = [puts EXCEPT ![c] = {}] /\ todoP' = [todoP EXCEPT ![c] = {}]
  /\ cur' = [cur EXCEPT ![c] = Nobody]

-----------------------------------------------------------------------------
(* Storing the feedback. *)

\* Submit looks the idempotency key up: known, it replays the stored feedback.
Lookup(c) ==
  /\ At(c, "idle")
  /\ Goto(c, IF stored THEN "list" ELSE "insert")
  /\ UNCHANGED <<stored, ledgers, locals, env>>

\* It is inserted; when another submission was first, the unique key refuses the row and the
\* stored one is replayed.
Insert(c) ==
  /\ At(c, "insert")
  /\ stored' = TRUE
  /\ Goto(c, "list")
  /\ UNCHANGED <<ledgers, locals, env>>

\* Faulty: APPLIED events are taken for done, whether or not their patterns know.
NotFound == {}

\* The events that ensurePatternLearningForFeedback goes through.
FoundApplied == {x \in Experiences : event[x] = "APPLIED"}

\* ListByFeedback: without any event the credits are attributed; with some, only those events
\* count, and the ones that are not APPLIED are tried again.
List(c) ==
  LET none == \A x \in Experiences : event[x] = "NONE" IN
  /\ At(c, "list")
  /\ fresh' = [fresh EXCEPT ![c] = none]
  /\ todo' = [todo EXCEPT ![c] =
       IF none THEN Experiences ELSE {x \in Experiences : event[x] \in Unapplied}]
  /\ seen' = [seen EXCEPT ![c] = FoundApplied]
  /\ Goto(c, "credits")
  /\ UNCHANGED <<stored, ledgers, puts, todoP, cur, env>>

-----------------------------------------------------------------------------
(* The events of the experiences. *)

\* Faulty: an insert that overwrites the row it conflicts with.
Recreated(status) == "PENDING"

\* The unique key refuses a second event: the row stays as it is.
Created(status) == IF status = "NONE" THEN "PENDING" ELSE status

\* createAndApplyEvent, retryExistingEvents: the next event is created unless it exists; one
\* that a fresh submission finds APPLIED is answered from the ledger.
Take(c, x) ==
  /\ At(c, "credits") /\ puts[c] = {} /\ x \in todo[c]
  /\ \/ /\ fresh[c] /\ event[x] = "APPLIED"
        /\ todo' = [todo EXCEPT ![c] = @ \ {x}]
        /\ UNCHANGED <<event, pc, cur>>
     \/ /\ fresh[c] => event[x] # "APPLIED"
        /\ event' = [event EXCEPT ![x] = Created(@)]
        /\ cur' = [cur EXCEPT ![c] = x]
        /\ Goto(c, "apply")
        /\ UNCHANGED todo
  /\ UNCHANGED <<stored, beta, pevent, pbeta, fresh, seen, puts, todoP, env>>

\* Faulty: the transaction does not look at the status of the event it locked.
CountedAgain(count, status) == count + 1

\* A transaction that finds the event APPLIED leaves the Beta counts alone.
Counted(count, status) == IF status = "APPLIED" THEN count ELSE count + 1

\* ApplyPendingEvent, one transaction that locks the event and the experience.
Commit(x) ==
  /\ event' = [event EXCEPT ![x] = "APPLIED"]
  /\ beta' = [beta EXCEPT ![x] = Counted(@, event[x])]
  /\ UNCHANGED <<pevent, pbeta>>

\* applyExistingEvent: whoever applied the event goes on to the patterns of its experience.
Apply(c) ==
  /\ At(c, "apply")
  /\ Commit(cur[c])
  /\ todo' = [todo EXCEPT ![c] = @ \ {cur[c]}]
  /\ Goto(c, IF event[cur[c]] = "APPLIED" THEN "credits" ELSE "find")
  /\ cur' = [cur EXCEPT ![c] = IF event[@] = "APPLIED" THEN Nobody ELSE @]
  /\ UNCHANGED <<stored, fresh, seen, puts, todoP, env>>

\* The transaction returns an error: nothing happened, or the answer to its commit is lost.
ApplyFails(c) ==
  /\ At(c, "apply") /\ failures < MaxFailures
  /\ Commit(cur[c]) \/ UNCHANGED ledgers
  /\ failures' = failures + 1
  /\ Goto(c, "mark")
  /\ UNCHANGED <<stored, locals, live, crashes>>

\* MarkFailed has no condition on the status; the submission then returns the error, and the
\* client sends it again.
MarkFailed(c) ==
  /\ At(c, "mark")
  /\ event' = [event EXCEPT ![cur[c]] = "FAILED"]
  /\ Return(c, "idle")
  /\ UNCHANGED <<stored, beta, pevent, pbeta, env>>

-----------------------------------------------------------------------------
(* The events of the patterns. *)

\* The patterns of an event found APPLIED may never have heard of it.
Revisit(c, x) ==
  /\ At(c, "credits") /\ puts[c] = {} /\ todo[c] = {} /\ x \in seen[c]
  /\ seen' = [seen EXCEPT ![c] = @ \ {x}]
  /\ cur' = [cur EXCEPT ![c] = x]
  /\ Goto(c, "find")
  /\ UNCHANGED <<stored, ledgers, fresh, todo, puts, todoP, env>>

\* Faulty: a pattern of the experience, whether or not the feedback credits it itself.
GeneralisedBy(x) == {p \in live : <<x, p>> \in Members}

\* enqueueMemberPatternEvents: the patterns of the experience, but not those the feedback
\* credits itself, nor those that may not be retrieved.
PatternsOf(x) == {p \in live \ InContext : <<x, p>> \in Members}

Find(c) ==
  /\ At(c, "find")
  /\ puts' = [puts EXCEPT ![c] = {cur[c]} \X PatternsOf(cur[c])]
  /\ cur' = [cur EXCEPT ![c] = Nobody]
  /\ Goto(c, "credits")
  /\ UNCHANGED <<stored, ledgers, fresh, todo, seen, todoP, env>>

\* createOrLoadPatternEvent, one after the other, the unique key refusing a second event.
Put(c, d) ==
  /\ pc[c] \in {"credits", "usage"} /\ d \in puts[c]
  /\ pevent' = [pevent EXCEPT ![d] = Created(@)]
  /\ puts' = [puts EXCEPT ![c] = @ \ {d}]
  /\ UNCHANGED <<stored, event, beta, pbeta, pc, fresh, todo, seen, todoP, cur, env>>

\* enqueuePatternUsageEvents: the patterns that were in the context.
CreditsDone(c) ==
  /\ At(c, "credits") /\ puts[c] = {} /\ todo[c] = {} /\ seen[c] = {}
  /\ puts' = [puts EXCEPT ![c] = {Usage} \X InContext]
  /\ Goto(c, "usage")
  /\ UNCHANGED <<stored, ledgers, fresh, todo, seen, todoP, cur, env>>

\* retryPatternEvents lists the events of the feedback ...
ListPatterns(c) ==
  /\ At(c, "usage") /\ puts[c] = {}
  /\ todoP' = [todoP EXCEPT ![c] = {d \in Derived : pevent[d] \in Unapplied}]
  /\ Goto(c, "patterns")
  /\ UNCHANGED <<stored, ledgers, fresh, todo, seen, puts, cur, env>>

\* ... and applies each: ApplyPendingPatternEvent, a transaction of the same form.
CommitPattern(d) ==
  /\ pevent' = [pevent EXCEPT ![d] = "APPLIED"]
  /\ pbeta' = [pbeta EXCEPT ![d] = Counted(@, pevent[d])]
  /\ UNCHANGED <<event, beta>>

ApplyPattern(c, d) ==
  /\ At(c, "patterns") /\ d \in todoP[c]
  /\ CommitPattern(d)
  /\ todoP' = [todoP EXCEPT ![c] = @ \ {d}]
  /\ UNCHANGED <<stored, pc, fresh, todo, seen, puts, cur, env>>

PatternFails(c, d) ==
  /\ At(c, "patterns") /\ d \in todoP[c] /\ failures < MaxFailures
  /\ CommitPattern(d) \/ UNCHANGED ledgers
  /\ failures' = failures + 1
  /\ cur' = [cur EXCEPT ![c] = d]
  /\ Goto(c, "markPattern")
  /\ UNCHANGED <<stored, fresh, todo, seen, puts, todoP, live, crashes>>

MarkPatternFailed(c) ==
  /\ At(c, "markPattern")
  /\ pevent' = [pevent EXCEPT ![cur[c]] = "FAILED"]
  /\ Return(c, "idle")
  /\ UNCHANGED <<stored, event, beta, pbeta, env>>

\* The submission is answered.
Answer(c) ==
  /\ At(c, "patterns") /\ todoP[c] = {}
  /\ Return(c, "done")
  /\ UNCHANGED <<stored, ledgers, env>>

-----------------------------------------------------------------------------
(* The environment. *)

\* The process dies, the client goes away or a statement fails: the client sends it again.
Crash(c) ==
  /\ pc[c] \notin {"idle", "done"} /\ crashes < MaxCrashes
  /\ crashes' = crashes + 1
  /\ Return(c, "idle")
  /\ UNCHANGED <<stored, ledgers, live, failures>>

\* A pattern is deprecated, or blocked, by its governance.
Retire(p) ==
  /\ p \in live
  /\ live' = live \ {p}
  /\ UNCHANGED <<stored, ledgers, pc, locals, failures, crashes>>

-----------------------------------------------------------------------------
Submission(c) ==
  \/ Lookup(c) \/ Insert(c) \/ List(c)
  \/ \E x \in Experiences : Take(c, x) \/ Revisit(c, x)
  \/ Apply(c) \/ MarkFailed(c)
  \/ Find(c) \/ CreditsDone(c) \/ ListPatterns(c)
  \/ \E d \in Derived : Put(c, d) \/ ApplyPattern(c, d)
  \/ MarkPatternFailed(c) \/ Answer(c)

Next ==
  \/ \E c \in Callers :
       \/ Submission(c) \/ ApplyFails(c) \/ Crash(c)
       \/ \E d \in Derived : PatternFails(c, d)
  \/ \E p \in Patterns : Retire(p)

Spec == Init /\ [][Next]_vars

\* A handler that runs takes its next step, and a client that got no answer asks again.
FairSpec == Spec /\ \A c \in Callers : WF_vars(Submission(c))
-----------------------------------------------------------------------------
Places == {"idle", "insert", "list", "credits", "apply", "mark", "find", "usage",
           "patterns", "markPattern", "done"}

LearningTypeOK ==
  /\ stored \in BOOLEAN
  /\ event \in [Experiences -> Status] /\ beta \in [Experiences -> Nat]
  /\ pevent \in [Derived -> Status] /\ pbeta \in [Derived -> Nat]
  /\ live \subseteq Patterns
  /\ pc \in [Callers -> Places]
  /\ fresh \in [Callers -> BOOLEAN]
  /\ todo \in [Callers -> SUBSET Experiences] /\ seen \in [Callers -> SUBSET Experiences]
  /\ puts \in [Callers -> SUBSET Derived] /\ todoP \in [Callers -> SUBSET Derived]
  /\ cur \in [Callers -> Experiences \cup Derived \cup {Nobody}]
  /\ failures \in 0..MaxFailures /\ crashes \in 0..MaxCrashes

\* The ledgers say what happened, whoever raced or crashed: nothing is learned from an event
\* that is not there or still PENDING, and what is APPLIED has been learned.
Agrees(status, count) ==
  /\ status \in {"NONE", "PENDING"} => count = 0
  /\ status = "APPLIED" => count >= 1
LedgersAgree ==
  /\ \A x \in Experiences : Agrees(event[x], beta[x])
  /\ \A d \in Derived : Agrees(pevent[d], pbeta[d])

\* "without double Beta updates" (docs/domain-model.md:164), as far as the code keeps it: only
\* a call that failed can make an event count once more; crashes, repetitions and races cannot.
OnceUnlessFailed ==
  /\ \A x \in Experiences : beta[x] <= 1 + failures
  /\ \A d \in Derived : pbeta[d] <= 1 + failures

\* A pattern that the feedback credits for its own part gets nothing through its members.
CreditedOneWay == \A d \in Members : pevent[d] # "NONE" => d[2] \notin InContext

\* When nothing fails, a feedback whose submissions have been answered has taught everything:
\* a repetition that found the events of another half-created has not hidden the rest.
Finished == /\ \E c \in Callers : pc[c] = "done"
            /\ \A c \in Callers : pc[c] \in {"idle", "done"}
AnsweredMeansLearned ==
  Finished /\ failures = 0 /\ crashes = 0 =>
    /\ \A x \in Experiences : event[x] = "APPLIED"
    /\ \A d \in Members : pevent[d] = "APPLIED" \/ d[2] \notin live \/ d[2] \in InContext
    /\ \A p \in InContext : pevent[<<Usage, p>>] = "APPLIED"

\* "Replay / crash recovery re-derives missing events and retries PENDING/FAILED"
\* (docs/domain-model.md:164): in the end every event that was ever created is APPLIED, and
\* every experience that learned has taught its patterns.
Settled ==
  /\ \A x \in Experiences : event[x] \notin Unapplied
  /\ \A d \in Derived : pevent[d] \notin Unapplied
  /\ \A d \in Members : event[d[1]] = "APPLIED" /\ d[2] \in live \ InContext => pevent[d] = "APPLIED"
Redriven == <>[]Settled

=============================================================================
