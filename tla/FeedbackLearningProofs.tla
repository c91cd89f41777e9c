----------------------- MODULE FeedbackLearningProofs -----------------------
(***************************************************************************)
(* What FeedbackLearning keeps for any number of submissions, experiences  *)
(* and patterns, and any number of failures and crashes.                   *)
(***************************************************************************)
EXTENDS FeedbackLearning, FiniteSetTheorems, TLAPS

\* A caller that applies an event, or marks it, holds one of the right kind.
AtWork ==
  \A c \in Callers :
    /\ pc[c] \in {"apply", "mark", "find"} => cur[c] \in Experiences
    /\ pc[c] = "markPattern" => cur[c] \in Derived

LInv == LearningTypeOK /\ AtWork

LEMMA StatusFacts ==
  /\ Unapplied \subseteq Status /\ "APPLIED" \in Status /\ "FAILED" \in Status
  /\ \A s \in Status : Created(s) \in Status
  /\ \A n \in Nat, s \in Status : Counted(n, s) \in Nat
BY DEF Unapplied, Status, Created, Counted

LEMMA LInvInit == Init => LInv
<1> SUFFICES ASSUME Init PROVE LInv
  OBVIOUS
<1>1. AtWork
  BY DEF Init, AtWork
<1>2. /\ event \in [Experiences -> Status] /\ beta \in [Experiences -> Nat]
      /\ pevent \in [Derived -> Status] /\ pbeta \in [Derived -> Nat]
  BY DEF Init, Status
<1>3. /\ todo \in [Callers -> SUBSET Experiences] /\ seen \in [Callers -> SUBSET Experiences]
      /\ puts \in [Callers -> SUBSET Derived] /\ todoP \in [Callers -> SUBSET Derived]
  BY DEF Init
<1>4. /\ pc \in [Callers -> Places] /\ fresh \in [Callers -> BOOLEAN]
      /\ cur \in [Callers -> Experiences \cup Derived \cup {Nobody}]
  BY DEF Init, Places
<1>5. failures \in 0..MaxFailures /\ crashes \in 0..MaxCrashes
  BY LearningAssumption DEF LearningAssumption, Init
<1> QED BY <1>1, <1>2, <1>3, <1>4, <1>5 DEF Init, LInv, LearningTypeOK

\* What a submission leaves behind has its type.
LEMMA ReturnTypes ==
  ASSUME LInv, NEW c \in Callers, NEW there \in {"idle", "done"}, Return(c, there)
  PROVE  /\ pc' \in [Callers -> Places]
         /\ fresh' \in [Callers -> BOOLEAN]
         /\ todo' \in [Callers -> SUBSET Experiences] /\ seen' \in [Callers -> SUBSET Experiences]
         /\ puts' \in [Callers -> SUBSET Derived] /\ todoP' \in [Callers -> SUBSET Derived]
         /\ cur' \in [Callers -> Experiences \cup Derived \cup {Nobody}]
         /\ AtWork'
<1>1. pc' \in [Callers -> Places]
  BY DEF LInv, LearningTypeOK, Return, Goto, Places
<1>2. fresh' \in [Callers -> BOOLEAN]
  BY DEF LInv, LearningTypeOK, Return
<1>3. /\ todo' \in [Callers -> SUBSET Experiences] /\ seen' \in [Callers -> SUBSET Experiences]
      /\ puts' \in [Callers -> SUBSET Derived] /\ todoP' \in [Callers -> SUBSET Derived]
  BY DEF LInv, LearningTypeOK, Return
<1>4. cur' \in [Callers -> Experiences \cup Derived \cup {Nobody}]
  BY DEF LInv, LearningTypeOK, Return
<1>5. AtWork'
  BY DEF LInv, LearningTypeOK, AtWork, Return, Goto
<1> QED BY <1>1, <1>2, <1>3, <1>4, <1>5

\* The transactions keep the types of the ledgers.
LedgerTypes ==
  /\ event \in [Experiences -> Status] /\ beta \in [Experiences -> Nat]
  /\ pevent \in [Derived -> Status] /\ pbeta \in [Derived -> Nat]

LEMMA CommitTypes ==
  ASSUME LedgerTypes, NEW x \in Experiences, Commit(x)
  PROVE  LedgerTypes'
BY StatusFacts DEF LedgerTypes, Commit

LEMMA CommitPatternTypes ==
  ASSUME LedgerTypes, NEW d \in Derived, CommitPattern(d)
  PROVE  LedgerTypes'
BY StatusFacts DEF LedgerTypes, CommitPattern

LEMMA LInvStep == LInv /\ [Next]_vars => LInv'
<1> SUFFICES ASSUME LInv, [Next]_vars PROVE LInv'
  OBVIOUS
<1> USE DEF LInv
<1>0. LedgerTypes
  BY DEF LedgerTypes, LearningTypeOK
<1>1. ASSUME NEW c \in Callers, Lookup(c) PROVE LInv'
  BY <1>1 DEF Lookup, At, Goto, ledgers, locals, env, LearningTypeOK, AtWork, Places
<1>2. ASSUME NEW c \in Callers, Insert(c) PROVE LInv'
  BY <1>2 DEF Insert, At, Goto, ledgers, locals, env, LearningTypeOK, AtWork, Places
<1>3. ASSUME NEW c \in Callers, List(c) PROVE LInv'
  BY <1>3 DEF List, FoundApplied, At, Goto, ledgers, env, LearningTypeOK, AtWork, Places
<1>4. ASSUME NEW c \in Callers, NEW x \in Experiences, Take(c, x) PROVE LInv'
  <2>1. event' \in [Experiences -> Status]
    <3>1. event[x] \in Status /\ Created(event[x]) \in Status
      BY StatusFacts DEF LearningTypeOK
    <3>2. [event EXCEPT ![x] = Created(event[x])] \in [Experiences -> Status]
      BY <3>1 DEF LearningTypeOK
    <3> QED BY <1>4, <3>2 DEF Take, LearningTypeOK
  <2>2. todo' \in [Callers -> SUBSET Experiences]
    BY <1>4 DEF Take, LearningTypeOK
  <2> QED BY <1>4, <2>1, <2>2 DEF Take, At, Goto, env, LearningTypeOK, AtWork, Places
<1>5. ASSUME NEW c \in Callers, Apply(c) PROVE LInv'
  <2>1. cur[c] \in Experiences
    BY <1>5 DEF Apply, At, AtWork
  <2>2. LedgerTypes'
    BY <1>0, <1>5, <2>1, CommitTypes DEF Apply
  <2>3. todo' \in [Callers -> SUBSET Experiences]
    BY <1>5 DEF Apply, LearningTypeOK
  <2> QED BY <1>5, <2>1, <2>2, <2>3
        DEF Apply, At, Goto, env, LedgerTypes, LearningTypeOK, AtWork, Places
<1>6. ASSUME NEW c \in Callers, ApplyFails(c) PROVE LInv'
  <2>1. cur[c] \in Experiences
    BY <1>6 DEF ApplyFails, At, AtWork
  <2>2. LedgerTypes'
    BY <1>0, <1>6, <2>1, CommitTypes DEF ApplyFails, ledgers, LedgerTypes
  <2>3. failures' \in 0..MaxFailures
    BY <1>6, LearningAssumption DEF ApplyFails, LearningTypeOK
  <2> QED BY <1>6, <2>1, <2>2, <2>3
        DEF ApplyFails, At, Goto, locals, LedgerTypes, LearningTypeOK, AtWork, Places
<1>7. ASSUME NEW c \in Callers, MarkFailed(c) PROVE LInv'
  <2>1. event' \in [Experiences -> Status]
    BY <1>7, StatusFacts DEF MarkFailed, LearningTypeOK
  <2> QED BY <1>7, <2>1, ReturnTypes DEF MarkFailed, env, LearningTypeOK
<1>8. ASSUME NEW c \in Callers, NEW x \in Experiences, Revisit(c, x) PROVE LInv'
  BY <1>8 DEF Revisit, At, Goto, ledgers, env, LearningTypeOK, AtWork, Places
<1>9. ASSUME NEW c \in Callers, Find(c) PROVE LInv'
  <2>1. {cur[c]} \X PatternsOf(cur[c]) \in SUBSET Derived
    BY DEF PatternsOf, Derived
  <2> QED BY <1>9, <2>1 DEF Find, At, Goto, ledgers, env, LearningTypeOK, AtWork, Places
<1>10. ASSUME NEW c \in Callers, NEW d \in Derived, Put(c, d) PROVE LInv'
  <2>1. pevent' \in [Derived -> Status]
    BY <1>10, StatusFacts DEF Put, LearningTypeOK
  <2> QED BY <1>10, <2>1 DEF Put, env, LearningTypeOK, AtWork
<1>11. ASSUME NEW c \in Callers, CreditsDone(c) PROVE LInv'
  <2>1. {Usage} \X InContext \in SUBSET Derived
    BY DEF Derived
  <2> QED BY <1>11, <2>1 DEF CreditsDone, At, Goto, ledgers, env, LearningTypeOK, AtWork, Places
<1>12. ASSUME NEW c \in Callers, ListPatterns(c) PROVE LInv'
  BY <1>12 DEF ListPatterns, At, Goto, ledgers, env, LearningTypeOK, AtWork, Places
<1>13. ASSUME NEW c \in Callers, NEW d \in Derived, ApplyPattern(c, d) PROVE LInv'
  <2>1. LedgerTypes'
    BY <1>0, <1>13, CommitPatternTypes DEF ApplyPattern
  <2> QED BY <1>13, <2>1 DEF ApplyPattern, env, LedgerTypes, LearningTypeOK, AtWork
<1>14. ASSUME NEW c \in Callers, NEW d \in Derived, PatternFails(c, d) PROVE LInv'
  <2>1. LedgerTypes'
    BY <1>0, <1>14, CommitPatternTypes DEF PatternFails, ledgers, LedgerTypes
  <2>2. failures' \in 0..MaxFailures
    BY <1>14, LearningAssumption DEF PatternFails, LearningTypeOK
  <2> QED BY <1>14, <2>1, <2>2
        DEF PatternFails, At, Goto, LedgerTypes, LearningTypeOK, AtWork, Places
<1>15. ASSUME NEW c \in Callers, MarkPatternFailed(c) PROVE LInv'
  <2>1. pevent' \in [Derived -> Status]
    BY <1>15, StatusFacts DEF MarkPatternFailed, LearningTypeOK
  <2> QED BY <1>15, <2>1, ReturnTypes DEF MarkPatternFailed, env, LearningTypeOK
<1>16. ASSUME NEW c \in Callers, Answer(c) PROVE LInv'
  BY <1>16, ReturnTypes DEF Answer, ledgers, env, LearningTypeOK
<1>17. ASSUME NEW c \in Callers, Crash(c) PROVE LInv'
  <2>1. crashes' \in 0..MaxCrashes
    BY <1>17, LearningAssumption DEF Crash, LearningTypeOK
  <2> QED BY <1>17, <2>1, ReturnTypes DEF Crash, ledgers, LearningTypeOK
<1>18. ASSUME NEW p \in Patterns, Retire(p) PROVE LInv'
  BY <1>18 DEF Retire, ledgers, locals, LearningTypeOK, AtWork
<1>19. CASE UNCHANGED vars
  BY <1>19 DEF vars, ledgers, locals, env, LearningTypeOK, AtWork
<1> QED BY <1>1, <1>2, <1>3, <1>4, <1>5, <1>6, <1>7, <1>8, <1>9, <1>10, <1>11, <1>12, <1>13,
           <1>14, <1>15, <1>16, <1>17, <1>18, <1>19 DEF Next, Submission

\* Every variable keeps its type, whatever fails and crashes.
THEOREM LearningTypes == Spec => []LearningTypeOK
<1>1. LInv => LearningTypeOK
  BY DEF LInv
<1> QED BY LInvInit, LInvStep, <1>1, PTL DEF Spec

-----------------------------------------------------------------------------
(***************************************************************************)
(* What a step does to one event.  A failed call pays for one more Beta    *)
(* update: the caller that is about to mark the event FAILED holds that    *)
(* payment until it does, or crashes.                                      *)
(***************************************************************************)
Holders(place, e) == {c \in Callers : pc[c] = place /\ cur[c] = e}

\* The event stays, is created, or is applied, at most once.
Kept(n, s, n2, s2) ==
  \/ n2 = n /\ s2 = s
  \/ n2 = n /\ s2 = Created(s)
  \/ n2 = Counted(n, s) /\ s2 = "APPLIED"

\* n, s, H, f: updates, status, holders and failures before the step, n2 ... after it.
Moves(n, s, H, f, n2, s2, H2, f2) ==
  \/ Kept(n, s, n2, s2) /\ H2 \subseteq H /\ f2 \in {f, f + 1}
  \/ Kept(n, s, n2, s2) /\ f2 = f + 1 /\ \E c \in Callers : H2 \subseteq H \cup {c}
  \/ n2 = n /\ s2 = "FAILED" /\ f2 = f /\ \E c \in H : H2 = H \ {c}

ExperienceMoves ==
  \A y \in Experiences : Moves(beta[y], event[y], Holders("mark", y), failures,
                               beta'[y], event'[y], Holders("mark", y)', failures')
PatternMoves ==
  \A y \in Derived : Moves(pbeta[y], pevent[y], Holders("markPattern", y), failures,
                           pbeta'[y], pevent'[y], Holders("markPattern", y)', failures')

\* A step that neither fails nor marks.
LEMMA QuietMoves ==
  ASSUME LInv, failures' = failures,
         \A y \in Experiences : Kept(beta[y], event[y], beta'[y], event'[y]),
         \A y \in Derived : Kept(pbeta[y], pevent[y], pbeta'[y], pevent'[y]),
         \A y : Holders("mark", y)' \subseteq Holders("mark", y),
         \A y : Holders("markPattern", y)' \subseteq Holders("markPattern", y)
  PROVE  ExperienceMoves /\ PatternMoves
BY DEF ExperienceMoves, PatternMoves, Moves

\* A caller that goes on to a place where nothing is marked.
LEMMA QuietPlaces ==
  ASSUME LInv, NEW c \in Callers,
         NEW there \in Places \ {"mark", "markPattern"}, Goto(c, there),
         \A k \in Callers : k # c => cur'[k] = cur[k]
  PROVE  /\ \A y : Holders("mark", y)' \subseteq Holders("mark", y)
         /\ \A y : Holders("markPattern", y)' \subseteq Holders("markPattern", y)
<1>1. pc'[c] = there /\ \A k \in Callers : k # c => pc'[k] = pc[k]
  BY DEF Goto, LInv, LearningTypeOK
<1> QED BY <1>1 DEF Holders

LEMMA CreateKept ==
  ASSUME LInv, NEW x \in Experiences, event' = [event EXCEPT ![x] = Created(@)], UNCHANGED beta
  PROVE  \A y \in Experiences : Kept(beta[y], event[y], beta'[y], event'[y])
BY DEF LInv, LearningTypeOK, Kept

LEMMA CreatePatternKept ==
  ASSUME LInv, NEW d \in Derived, pevent' = [pevent EXCEPT ![d] = Created(@)], UNCHANGED pbeta
  PROVE  \A y \in Derived : Kept(pbeta[y], pevent[y], pbeta'[y], pevent'[y])
BY DEF LInv, LearningTypeOK, Kept

LEMMA CommitKept ==
  ASSUME LInv, NEW x \in Experiences, Commit(x)
  PROVE  /\ \A y \in Experiences : Kept(beta[y], event[y], beta'[y], event'[y])
         /\ \A y \in Derived : Kept(pbeta[y], pevent[y], pbeta'[y], pevent'[y])
BY DEF LInv, LearningTypeOK, Kept, Commit

LEMMA CommitPatternKept ==
  ASSUME LInv, NEW d \in Derived, CommitPattern(d)
  PROVE  /\ \A y \in Experiences : Kept(beta[y], event[y], beta'[y], event'[y])
         /\ \A y \in Derived : Kept(pbeta[y], pevent[y], pbeta'[y], pevent'[y])
BY DEF LInv, LearningTypeOK, Kept, CommitPattern

LEMMA UnchangedKept ==
  ASSUME UNCHANGED ledgers
  PROVE  /\ \A y \in Experiences : Kept(beta[y], event[y], beta'[y], event'[y])
         /\ \A y \in Derived : Kept(pbeta[y], pevent[y], pbeta'[y], pevent'[y])
BY DEF ledgers, Kept

\* A call has failed: its caller is about to mark the event it holds.
LEMMA FailedMoves ==
  ASSUME LInv, NEW c \in Callers, failures' = failures + 1,
         \A y \in Experiences : Kept(beta[y], event[y], beta'[y], event'[y]),
         \A y \in Derived : Kept(pbeta[y], pevent[y], pbeta'[y], pevent'[y]),
         \A k \in Callers : k # c => pc'[k] = pc[k] /\ cur'[k] = cur[k]
  PROVE  ExperienceMoves /\ PatternMoves
<1>1. \A y : Holders("mark", y)' \subseteq Holders("mark", y) \cup {c}
  BY DEF Holders
<1>2. \A y : Holders("markPattern", y)' \subseteq Holders("markPattern", y) \cup {c}
  BY DEF Holders
<1> QED BY <1>1, <1>2 DEF ExperienceMoves, PatternMoves, Moves

\* The failed event is marked, and the submission returns.
LEMMA MarkedMoves ==
  ASSUME LInv, NEW c \in Callers, MarkFailed(c)
  PROVE  ExperienceMoves /\ PatternMoves
<1>1. cur[c] \in Experiences
  BY DEF MarkFailed, At, LInv, AtWork
<1>2. /\ \A y : Holders("markPattern", y)' \subseteq Holders("markPattern", y)
      /\ \A y : Holders("mark", y)' = Holders("mark", y) \ {c}
      /\ c \in Holders("mark", cur[c])
  <2>1. /\ pc[c] = "mark" /\ pc'[c] = "idle"
        /\ \A k \in Callers : k # c => pc'[k] = pc[k] /\ cur'[k] = cur[k]
    BY DEF MarkFailed, At, Return, Goto, LInv, LearningTypeOK
  <2> QED BY <2>1 DEF Holders
<1>3. PatternMoves
  BY <1>2 DEF PatternMoves, Moves, Kept, MarkFailed, env
<1>4. ASSUME NEW y \in Experiences
      PROVE  Moves(beta[y], event[y], Holders("mark", y), failures,
                   beta'[y], event'[y], Holders("mark", y)', failures')
  <2>1. CASE y = cur[c]
    <3>1. beta'[y] = beta[y] /\ event'[y] = "FAILED" /\ failures' = failures
      BY <2>1 DEF MarkFailed, env, LInv, LearningTypeOK
    <3> QED BY <1>2, <2>1, <3>1 DEF Moves
  <2>2. CASE y # cur[c]
    <3>1. beta'[y] = beta[y] /\ event'[y] = event[y] /\ failures' = failures
      BY <2>2 DEF MarkFailed, env, LInv, LearningTypeOK
    <3> QED BY <1>2, <2>2, <3>1 DEF Moves, Kept
  <2> QED BY <2>1, <2>2
<1> QED BY <1>3, <1>4 DEF ExperienceMoves

LEMMA MarkedPatternMoves ==
  ASSUME LInv, NEW c \in Callers, MarkPatternFailed(c)
  PROVE  ExperienceMoves /\ PatternMoves
<1>1. cur[c] \in Derived
  BY DEF MarkPatternFailed, At, LInv, AtWork
<1>2. /\ \A y : Holders("mark", y)' \subseteq Holders("mark", y)
      /\ \A y : Holders("markPattern", y)' = Holders("markPattern", y) \ {c}
      /\ c \in Holders("markPattern", cur[c])
  <2>1. /\ pc[c] = "markPattern" /\ pc'[c] = "idle"
        /\ \A k \in Callers : k # c => pc'[k] = pc[k] /\ cur'[k] = cur[k]
    BY DEF MarkPatternFailed, At, Return, Goto, LInv, LearningTypeOK
  <2> QED BY <2>1 DEF Holders
<1>3. ExperienceMoves
  BY <1>2 DEF ExperienceMoves, Moves, Kept, MarkPatternFailed, env
<1>4. ASSUME NEW y \in Derived
      PROVE  Moves(pbeta[y], pevent[y], Holders("markPattern", y), failures,
                   pbeta'[y], pevent'[y], Holders("markPattern", y)', failures')
  <2>1. CASE y = cur[c]
    <3>1. pbeta'[y] = pbeta[y] /\ pevent'[y] = "FAILED" /\ failures' = failures
      BY <2>1 DEF MarkPatternFailed, env, LInv, LearningTypeOK
    <3> QED BY <1>2, <2>1, <3>1 DEF Moves
  <2>2. CASE y # cur[c]
    <3>1. pbeta'[y] = pbeta[y] /\ pevent'[y] = pevent[y] /\ failures' = failures
      BY <2>2 DEF MarkPatternFailed, env, LInv, LearningTypeOK
    <3> QED BY <1>2, <2>2, <3>1 DEF Moves, Kept
  <2> QED BY <2>1, <2>2
<1> QED BY <1>3, <1>4 DEF PatternMoves

LEMMA EventMoves == LInv /\ [Next]_vars => ExperienceMoves /\ PatternMoves
<1> SUFFICES ASSUME LInv, [Next]_vars PROVE ExperienceMoves /\ PatternMoves
  OBVIOUS
\* A step of one caller to a harmless place, that leaves the ledgers alone.
<1>q. ASSUME NEW c \in Callers, NEW there \in Places \ {"mark", "markPattern"},
             Goto(c, there), \A k \in Callers : k # c => cur'[k] = cur[k],
             UNCHANGED ledgers, failures' = failures
      PROVE  ExperienceMoves /\ PatternMoves
  BY <1>q, QuietPlaces, UnchangedKept, QuietMoves
<1>r. ASSUME NEW c \in Callers, NEW there \in {"idle", "done"}, Return(c, there)
      PROVE  Goto(c, there) /\ \A k \in Callers : k # c => cur'[k] = cur[k]
  BY <1>r DEF Return, LInv, LearningTypeOK
<1>1. ASSUME NEW c \in Callers, Lookup(c) PROVE ExperienceMoves /\ PatternMoves
  <2>1. (IF stored THEN "list" ELSE "insert") \in Places \ {"mark", "markPattern"}
    BY DEF Places
  <2> QED BY <1>1, <1>q, <2>1 DEF Lookup, locals, env
<1>2. ASSUME NEW c \in Callers, Insert(c) PROVE ExperienceMoves /\ PatternMoves
  <2>1. "list" \in Places \ {"mark", "markPattern"}
    BY DEF Places
  <2> QED BY <1>2, <1>q, <2>1 DEF Insert, locals, env
<1>3. ASSUME NEW c \in Callers, List(c) PROVE ExperienceMoves /\ PatternMoves
  <2>1. "credits" \in Places \ {"mark", "markPattern"}
    BY DEF Places
  <2> QED BY <1>3, <1>q, <2>1 DEF List, env
<1>4. ASSUME NEW c \in Callers, NEW x \in Experiences, Take(c, x)
      PROVE  ExperienceMoves /\ PatternMoves
  <2>1. CASE fresh[c] /\ UNCHANGED <<event, pc, cur>>
    <3>1. UNCHANGED ledgers /\ failures' = failures /\ UNCHANGED <<pc, cur>>
      BY <1>4, <2>1 DEF Take, ledgers, env
    <3>2. /\ \A y : Holders("mark", y)' \subseteq Holders("mark", y)
          /\ \A y : Holders("markPattern", y)' \subseteq Holders("markPattern", y)
      BY <3>1 DEF Holders
    <3> QED BY <3>1, <3>2, UnchangedKept, QuietMoves
  <2>2. CASE /\ event' = [event EXCEPT ![x] = Created(@)]
             /\ cur' = [cur EXCEPT ![c] = x] /\ Goto(c, "apply")
    <3>1. UNCHANGED <<beta, pevent, pbeta>> /\ failures' = failures
      BY <1>4 DEF Take, env
    <3>2. "apply" \in Places \ {"mark", "markPattern"}
      BY DEF Places
    <3>3. \A k \in Callers : k # c => cur'[k] = cur[k]
      BY <2>2 DEF LInv, LearningTypeOK
    <3>4. \A y \in Derived : Kept(pbeta[y], pevent[y], pbeta'[y], pevent'[y])
      BY <3>1 DEF Kept
    <3> QED BY <2>2, <3>1, <3>2, <3>3, <3>4, CreateKept, QuietPlaces, QuietMoves
  <2> QED BY <1>4, <2>1, <2>2 DEF Take
<1>5. ASSUME NEW c \in Callers, Apply(c) PROVE ExperienceMoves /\ PatternMoves
  <2>1. cur[c] \in Experiences
    BY <1>5 DEF Apply, At, LInv, AtWork
  <2>2. (IF event[cur[c]] = "APPLIED" THEN "credits" ELSE "find")
           \in Places \ {"mark", "markPattern"}
    BY DEF Places
  <2>3. \A k \in Callers : k # c => cur'[k] = cur[k]
    BY <1>5 DEF Apply, LInv, LearningTypeOK
  <2>4. failures' = failures
    BY <1>5 DEF Apply, env
  <2> QED BY <1>5, <2>1, <2>2, <2>3, <2>4, CommitKept, QuietPlaces, QuietMoves DEF Apply
<1>6. ASSUME NEW c \in Callers, ApplyFails(c) PROVE ExperienceMoves /\ PatternMoves
  <2>1. cur[c] \in Experiences
    BY <1>6 DEF ApplyFails, At, LInv, AtWork
  <2>2. \A k \in Callers : k # c => pc'[k] = pc[k] /\ cur'[k] = cur[k]
    BY <1>6 DEF ApplyFails, Goto, locals, LInv, LearningTypeOK
  <2> QED BY <1>6, <2>1, <2>2, CommitKept, UnchangedKept, FailedMoves DEF ApplyFails
<1>7. ASSUME NEW c \in Callers, MarkFailed(c) PROVE ExperienceMoves /\ PatternMoves
  BY <1>7, MarkedMoves
<1>8. ASSUME NEW c \in Callers, NEW x \in Experiences, Revisit(c, x)
      PROVE  ExperienceMoves /\ PatternMoves
  <2>1. "find" \in Places \ {"mark", "markPattern"}
    BY DEF Places
  <2>2. \A k \in Callers : k # c => cur'[k] = cur[k]
    BY <1>8 DEF Revisit, LInv, LearningTypeOK
  <2> QED BY <1>8, <1>q, <2>1, <2>2 DEF Revisit, env
<1>9. ASSUME NEW c \in Callers, Find(c) PROVE ExperienceMoves /\ PatternMoves
  <2>1. "credits" \in Places \ {"mark", "markPattern"}
    BY DEF Places
  <2>2. \A k \in Callers : k # c => cur'[k] = cur[k]
    BY <1>9 DEF Find, LInv, LearningTypeOK
  <2> QED BY <1>9, <1>q, <2>1, <2>2 DEF Find, env
<1>10. ASSUME NEW c \in Callers, NEW d \in Derived, Put(c, d)
       PROVE  ExperienceMoves /\ PatternMoves
  <2>1. UNCHANGED <<event, beta, pbeta, pc, cur>> /\ failures' = failures
    BY <1>10 DEF Put, env
  <2>2. /\ \A y : Holders("mark", y)' \subseteq Holders("mark", y)
        /\ \A y : Holders("markPattern", y)' \subseteq Holders("markPattern", y)
    BY <2>1 DEF Holders
  <2>3. \A y \in Experiences : Kept(beta[y], event[y], beta'[y], event'[y])
    BY <2>1 DEF Kept
  <2> QED BY <1>10, <2>1, <2>2, <2>3, CreatePatternKept, QuietMoves DEF Put
<1>11. ASSUME NEW c \in Callers, CreditsDone(c) PROVE ExperienceMoves /\ PatternMoves
  <2>1. "usage" \in Places \ {"mark", "markPattern"}
    BY DEF Places
  <2> QED BY <1>11, <1>q, <2>1 DEF CreditsDone, env
<1>12. ASSUME NEW c \in Callers, ListPatterns(c) PROVE ExperienceMoves /\ PatternMoves
  <2>1. "patterns" \in Places \ {"mark", "markPattern"}
    BY DEF Places
  <2> QED BY <1>12, <1>q, <2>1 DEF ListPatterns, env
<1>13. ASSUME NEW c \in Callers, NEW d \in Derived, ApplyPattern(c, d)
       PROVE  ExperienceMoves /\ PatternMoves
  <2>1. UNCHANGED <<pc, cur>> /\ failures' = failures
    BY <1>13 DEF ApplyPattern, env
  <2>2. /\ \A y : Holders("mark", y)' \subseteq Holders("mark", y)
        /\ \A y : Holders("markPattern", y)' \subseteq Holders("markPattern", y)
    BY <2>1 DEF Holders
  <2> QED BY <1>13, <2>1, <2>2, CommitPatternKept, QuietMoves DEF ApplyPattern
<1>14. ASSUME NEW c \in Callers, NEW d \in Derived, PatternFails(c, d)
       PROVE  ExperienceMoves /\ PatternMoves
  <2>1. \A k \in Callers : k # c => pc'[k] = pc[k] /\ cur'[k] = cur[k]
    BY <1>14 DEF PatternFails, Goto, LInv, LearningTypeOK
  <2> QED BY <1>14, <2>1, CommitPatternKept, UnchangedKept, FailedMoves DEF PatternFails
<1>15. ASSUME NEW c \in Callers, MarkPatternFailed(c) PROVE ExperienceMoves /\ PatternMoves
  BY <1>15, MarkedPatternMoves
<1>16. ASSUME NEW c \in Callers, Answer(c) PROVE ExperienceMoves /\ PatternMoves
  <2>1. "done" \in Places \ {"mark", "markPattern"}
    BY DEF Places
  <2> QED BY <1>16, <1>q, <1>r, <2>1 DEF Answer, env
<1>17. ASSUME NEW c \in Callers, Crash(c) PROVE ExperienceMoves /\ PatternMoves
  <2>1. "idle" \in Places \ {"mark", "markPattern"}
    BY DEF Places
  <2> QED BY <1>17, <1>q, <1>r, <2>1 DEF Crash
<1>18. ASSUME UNCHANGED <<ledgers, pc, cur, failures>>
       PROVE  ExperienceMoves /\ PatternMoves
  <2>1. /\ \A y : Holders("mark", y)' \subseteq Holders("mark", y)
        /\ \A y : Holders("markPattern", y)' \subseteq Holders("markPattern", y)
    BY <1>18 DEF Holders
  <2> QED BY <1>18, <2>1, UnchangedKept, QuietMoves
<1>19. ASSUME NEW p \in Patterns, Retire(p) PROVE ExperienceMoves /\ PatternMoves
  BY <1>18, <1>19 DEF Retire, locals
<1>20. CASE UNCHANGED vars
  BY <1>18, <1>20 DEF vars, locals, env
<1> QED BY <1>1, <1>2, <1>3, <1>4, <1>5, <1>6, <1>7, <1>8, <1>9, <1>10, <1>11, <1>12, <1>13,
           <1>14, <1>15, <1>16, <1>17, <1>19, <1>20 DEF Next, Submission

-----------------------------------------------------------------------------
\* The ledgers say what happened, for any number of submissions, failures and crashes.
LEMMA MovesAgree ==
  ASSUME NEW n \in Nat, NEW s \in Status, Agrees(s, n), NEW n2, NEW s2,
         Kept(n, s, n2, s2) \/ (n2 = n /\ s2 = "FAILED")
  PROVE  Agrees(s2, n2)
BY DEF Agrees, Kept, Created, Counted, Status

THEOREM LedgersTrue == Spec => []LedgersAgree
<1>1. Init => LedgersAgree
  BY DEF Init, LedgersAgree, Agrees
<1>2. LInv /\ LedgersAgree /\ [Next]_vars => LedgersAgree'
  <2> SUFFICES ASSUME LInv, LedgersAgree, [Next]_vars PROVE LedgersAgree'
    OBVIOUS
  <2>1. ASSUME NEW x \in Experiences PROVE Agrees(event'[x], beta'[x])
    <3>1. Kept(beta[x], event[x], beta'[x], event'[x])
            \/ (beta'[x] = beta[x] /\ event'[x] = "FAILED")
      BY EventMoves DEF ExperienceMoves, Moves
    <3>2. beta[x] \in Nat /\ event[x] \in Status /\ Agrees(event[x], beta[x])
      BY DEF LInv, LearningTypeOK, LedgersAgree
    <3> QED BY <3>1, <3>2, MovesAgree
  <2>2. ASSUME NEW d \in Derived PROVE Agrees(pevent'[d], pbeta'[d])
    <3>1. Kept(pbeta[d], pevent[d], pbeta'[d], pevent'[d])
            \/ (pbeta'[d] = pbeta[d] /\ pevent'[d] = "FAILED")
      BY EventMoves DEF PatternMoves, Moves
    <3>2. pbeta[d] \in Nat /\ pevent[d] \in Status /\ Agrees(pevent[d], pbeta[d])
      BY DEF LInv, LearningTypeOK, LedgersAgree
    <3> QED BY <3>1, <3>2, MovesAgree
  <2> QED BY <2>1, <2>2 DEF LedgersAgree
<1> QED BY LInvInit, LInvStep, <1>1, <1>2, PTL DEF Spec

-----------------------------------------------------------------------------
\* Every Beta update but one per event, and every failure still to be marked, is paid for by a
\* failure.
Paid(n, s, H, f) == n + Cardinality(H) <= f + (IF s = "APPLIED" THEN 1 ELSE 0)

Budget ==
  /\ \A x \in Experiences : Paid(beta[x], event[x], Holders("mark", x), failures)
  /\ \A d \in Derived : Paid(pbeta[d], pevent[d], Holders("markPattern", d), failures)

LEMMA HoldersFinite ==
  \A place, e : IsFiniteSet(Holders(place, e)) /\ IsFiniteSet(Holders(place, e)')
<1>1. \A H : H \subseteq Callers => IsFiniteSet(H)
  BY LearningAssumption, FS_Subset DEF LearningAssumption
<1> QED BY <1>1 DEF Holders

LEMMA KeptPays ==
  ASSUME NEW n \in Nat, NEW s \in Status, NEW n2, NEW s2, Kept(n, s, n2, s2)
  PROVE  /\ n2 \in Nat /\ s2 \in Status
         /\ n2 - (IF s2 = "APPLIED" THEN 1 ELSE 0) <= n - (IF s = "APPLIED" THEN 1 ELSE 0)
BY DEF Kept, Created, Counted, Status

LEMMA MovesPay ==
  ASSUME NEW n \in Nat, NEW s \in Status, NEW H, IsFiniteSet(H), NEW f \in Nat,
         NEW n2, NEW s2, NEW H2, IsFiniteSet(H2), NEW f2,
         Paid(n, s, H, f), Moves(n, s, H, f, n2, s2, H2, f2)
  PROVE  Paid(n2, s2, H2, f2)
<1>1. Cardinality(H) \in Nat /\ Cardinality(H2) \in Nat
  BY FS_CardinalityType
<1>2. CASE Kept(n, s, n2, s2) /\ H2 \subseteq H /\ f2 \in {f, f + 1}
  <2>1. Cardinality(H2) <= Cardinality(H)
    BY <1>2, FS_Subset
  <2> QED BY <1>1, <1>2, <2>1, KeptPays DEF Paid
<1>3. CASE Kept(n, s, n2, s2) /\ f2 = f + 1 /\ \E c \in Callers : H2 \subseteq H \cup {c}
  <2>1. PICK c \in Callers : H2 \subseteq H \cup {c}
    BY <1>3
  <2>2. IsFiniteSet(H \cup {c}) /\ Cardinality(H \cup {c}) <= Cardinality(H) + 1
    <3> DEFINE one == IF c \in H THEN Cardinality(H) ELSE Cardinality(H) + 1
    <3>1. IsFiniteSet(H \cup {c}) /\ Cardinality(H \cup {c}) = one
      BY FS_AddElement, Zenon
    <3>2. one <= Cardinality(H) + 1
      BY <1>1
    <3> HIDE DEF one
    <3> QED BY <3>1, <3>2
  <2>3. Cardinality(H2) <= Cardinality(H \cup {c})
    BY <2>1, <2>2, FS_Subset
  <2>4. Cardinality(H \cup {c}) \in Nat
    BY <2>2, FS_CardinalityType
  <2> QED BY <1>1, <1>3, <2>2, <2>3, <2>4, KeptPays DEF Paid
<1>4. CASE n2 = n /\ s2 = "FAILED" /\ f2 = f /\ \E c \in H : H2 = H \ {c}
  <2>1. Cardinality(H2) = Cardinality(H) - 1
    BY <1>4, FS_RemoveElement
  <2> QED BY <1>1, <1>4, <2>1 DEF Paid
<1> QED BY <1>2, <1>3, <1>4 DEF Moves

LEMMA BudgetStep == LInv /\ Budget /\ [Next]_vars => Budget'
<1> SUFFICES ASSUME LInv, Budget, [Next]_vars PROVE Budget'
  OBVIOUS
<1>1. failures \in Nat
  BY LearningAssumption DEF LearningAssumption, LInv, LearningTypeOK
<1>2. ASSUME NEW x \in Experiences
      PROVE  Paid(beta'[x], event'[x], Holders("mark", x)', failures')
  <2>1. beta[x] \in Nat /\ event[x] \in Status
    BY DEF LInv, LearningTypeOK
  <2>2. Moves(beta[x], event[x], Holders("mark", x), failures,
              beta'[x], event'[x], Holders("mark", x)', failures')
    BY EventMoves DEF ExperienceMoves
  <2>3. Paid(beta[x], event[x], Holders("mark", x), failures)
    BY DEF Budget
  <2>4. IsFiniteSet(Holders("mark", x)) /\ IsFiniteSet(Holders("mark", x)')
    BY HoldersFinite
  <2> HIDE DEF Holders
  <2> QED BY <1>1, <2>1, <2>2, <2>3, <2>4, MovesPay
<1>3. ASSUME NEW d \in Derived
      PROVE  Paid(pbeta'[d], pevent'[d], Holders("markPattern", d)', failures')
  <2>1. pbeta[d] \in Nat /\ pevent[d] \in Status
    BY DEF LInv, LearningTypeOK
  <2>2. Moves(pbeta[d], pevent[d], Holders("markPattern", d), failures,
              pbeta'[d], pevent'[d], Holders("markPattern", d)', failures')
    BY EventMoves DEF PatternMoves
  <2>3. Paid(pbeta[d], pevent[d], Holders("markPattern", d), failures)
    BY DEF Budget
  <2>4. IsFiniteSet(Holders("markPattern", d)) /\ IsFiniteSet(Holders("markPattern", d)')
    BY HoldersFinite
  <2> QED BY <1>1, <2>1, <2>2, <2>3, <2>4, MovesPay
<1> QED BY <1>2, <1>3 DEF Budget

\* No event counts twice without a failed call, however many submissions repeat the feedback,
\* race or crash.
THEOREM Once == Spec => []OnceUnlessFailed
<1>1. Init => Budget
  <2> SUFFICES ASSUME Init PROVE Budget
    OBVIOUS
  <2>1. \A e : Holders("mark", e) = {} /\ Holders("markPattern", e) = {}
    BY DEF Init, Holders
  <2>2. Cardinality({}) = 0
    BY FS_EmptySet
  <2>3. \A x \in Experiences : Paid(beta[x], event[x], Holders("mark", x), failures)
    <3> TAKE x \in Experiences
    <3>1. beta[x] = 0 /\ event[x] = "NONE" /\ failures = 0
      BY DEF Init
    <3>2. Cardinality(Holders("mark", x)) = 0
      BY <2>1, <2>2
    <3> HIDE DEF Holders
    <3> QED BY <3>1, <3>2 DEF Paid
  <2>4. \A d \in Derived : Paid(pbeta[d], pevent[d], Holders("markPattern", d), failures)
    <3> TAKE d \in Derived
    <3>1. pbeta[d] = 0 /\ pevent[d] = "NONE" /\ failures = 0
      BY DEF Init
    <3>2. Cardinality(Holders("markPattern", d)) = 0
      BY <2>1, <2>2
    <3> HIDE DEF Holders
    <3> QED BY <3>1, <3>2 DEF Paid
  <2> QED BY <2>3, <2>4 DEF Budget
<1>2. LInv /\ Budget => OnceUnlessFailed
  <2> SUFFICES ASSUME LInv, Budget PROVE OnceUnlessFailed
    OBVIOUS
  <2>1. \A place, e : Cardinality(Holders(place, e)) \in Nat
    BY HoldersFinite, FS_CardinalityType
  <2>2. failures \in Nat
    BY LearningAssumption DEF LearningAssumption, LInv, LearningTypeOK
  <2> QED BY <2>1, <2>2 DEF Budget, Paid, OnceUnlessFailed, LInv, LearningTypeOK
<1> QED BY LInvInit, LInvStep, BudgetStep, <1>1, <1>2, PTL DEF Spec

-----------------------------------------------------------------------------
\* A member event in anybody's hands is of a pattern the feedback does not credit itself.
Sole(d) == d \in Members => d[2] \notin InContext

OneWay ==
  /\ \A d \in Derived : pevent[d] # "NONE" => Sole(d)
  /\ \A c \in Callers :
       /\ \A d \in puts[c] : Sole(d)
       /\ \A d \in todoP[c] : Sole(d)
       /\ pc[c] = "markPattern" => Sole(cur[c])

LEMMA OneWayReturn ==
  ASSUME LInv, OneWay, NEW c \in Callers, NEW there \in {"idle", "done"}, Return(c, there),
         \A d \in Derived : pevent'[d] # "NONE" => Sole(d)
  PROVE  OneWay'
<1>1. /\ puts'[c] = {} /\ todoP'[c] = {} /\ pc'[c] # "markPattern"
      /\ \A k \in Callers : k # c =>
           puts'[k] = puts[k] /\ todoP'[k] = todoP[k] /\ pc'[k] = pc[k] /\ cur'[k] = cur[k]
  BY DEF Return, Goto, LInv, LearningTypeOK
<1> QED BY <1>1 DEF OneWay, Sole

\* A step of a caller that neither marks nor touches the pattern events.
LEMMA OneWayQuiet ==
  ASSUME LInv, OneWay, NEW c \in Callers, UNCHANGED <<pevent, puts, todoP>>,
         \A k \in Callers : k # c => pc'[k] = pc[k] /\ cur'[k] = cur[k],
         pc'[c] # "markPattern"
  PROVE  OneWay'
BY DEF OneWay, Sole

LEMMA OneWayStep == LInv /\ OneWay /\ [Next]_vars => OneWay'
<1> SUFFICES ASSUME LInv, OneWay, [Next]_vars PROVE OneWay'
  OBVIOUS
<1> USE DEF LInv
<1>1. ASSUME NEW c \in Callers, Lookup(c) PROVE OneWay'
  BY <1>1, OneWayQuiet DEF Lookup, At, Goto, ledgers, locals, LearningTypeOK
<1>2. ASSUME NEW c \in Callers, Insert(c) PROVE OneWay'
  BY <1>2, OneWayQuiet DEF Insert, At, Goto, ledgers, locals, LearningTypeOK
<1>3. ASSUME NEW c \in Callers, List(c) PROVE OneWay'
  BY <1>3, OneWayQuiet DEF List, At, Goto, ledgers, LearningTypeOK
<1>4. ASSUME NEW c \in Callers, NEW x \in Experiences, Take(c, x) PROVE OneWay'
  BY <1>4, OneWayQuiet DEF Take, At, Goto, LearningTypeOK
<1>5. ASSUME NEW c \in Callers, Apply(c) PROVE OneWay'
  BY <1>5, OneWayQuiet DEF Apply, Commit, At, Goto, LearningTypeOK
<1>6. ASSUME NEW c \in Callers, ApplyFails(c) PROVE OneWay'
  BY <1>6, OneWayQuiet DEF ApplyFails, Commit, At, Goto, ledgers, locals, LearningTypeOK
<1>7. ASSUME NEW c \in Callers, MarkFailed(c) PROVE OneWay'
  BY <1>7, OneWayReturn DEF MarkFailed, OneWay
<1>8. ASSUME NEW c \in Callers, NEW x \in Experiences, Revisit(c, x) PROVE OneWay'
  BY <1>8, OneWayQuiet DEF Revisit, At, Goto, ledgers, LearningTypeOK
<1>9. ASSUME NEW c \in Callers, Find(c) PROVE OneWay'
  <2>1. \A d \in {cur[c]} \X PatternsOf(cur[c]) : Sole(d)
    BY DEF PatternsOf, Sole
  <2>2. /\ puts'[c] = {cur[c]} \X PatternsOf(cur[c]) /\ pc'[c] = "credits"
        /\ \A k \in Callers : k # c =>
             puts'[k] = puts[k] /\ pc'[k] = pc[k] /\ cur'[k] = cur[k]
        /\ UNCHANGED <<pevent, todoP>>
    BY <1>9 DEF Find, Goto, ledgers, LearningTypeOK
  <2> QED BY <2>1, <2>2 DEF OneWay, Sole
<1>10. ASSUME NEW c \in Callers, NEW d \in Derived, Put(c, d) PROVE OneWay'
  <2>1. Sole(d)
    BY <1>10 DEF Put, OneWay
  <2>2. /\ \A e \in Derived : e # d => pevent'[e] = pevent[e]
        /\ \A k \in Callers : puts'[k] \subseteq puts[k]
        /\ UNCHANGED <<todoP, pc, cur>>
    BY <1>10 DEF Put, LearningTypeOK
  <2> QED BY <2>1, <2>2 DEF OneWay, Sole
<1>11. ASSUME NEW c \in Callers, CreditsDone(c) PROVE OneWay'
  <2>1. \A d \in {Usage} \X InContext : Sole(d)
    BY LearningAssumption DEF LearningAssumption, Sole
  <2>2. /\ puts'[c] = {Usage} \X InContext /\ pc'[c] = "usage"
        /\ \A k \in Callers : k # c => puts'[k] = puts[k] /\ pc'[k] = pc[k]
        /\ UNCHANGED <<pevent, todoP, cur>>
    BY <1>11 DEF CreditsDone, Goto, ledgers, LearningTypeOK
  <2> QED BY <2>1, <2>2 DEF OneWay, Sole
<1>12. ASSUME NEW c \in Callers, ListPatterns(c) PROVE OneWay'
  <2>1. \A d \in Derived : pevent[d] \in Unapplied => Sole(d)
    BY DEF OneWay, Unapplied
  <2>2. /\ todoP'[c] = {d \in Derived : pevent[d] \in Unapplied} /\ pc'[c] = "patterns"
        /\ \A k \in Callers : k # c => todoP'[k] = todoP[k] /\ pc'[k] = pc[k]
        /\ UNCHANGED <<pevent, puts, cur>>
    BY <1>12 DEF ListPatterns, Goto, ledgers, LearningTypeOK
  <2> QED BY <2>1, <2>2 DEF OneWay, Sole
<1>13. ASSUME NEW c \in Callers, NEW d \in Derived, ApplyPattern(c, d) PROVE OneWay'
  <2>1. Sole(d)
    BY <1>13 DEF ApplyPattern, OneWay
  <2>2. /\ \A e \in Derived : e # d => pevent'[e] = pevent[e]
        /\ \A k \in Callers : todoP'[k] \subseteq todoP[k]
        /\ UNCHANGED <<puts, pc, cur>>
    BY <1>13 DEF ApplyPattern, CommitPattern, LearningTypeOK
  <2> QED BY <2>1, <2>2 DEF OneWay, Sole
<1>14. ASSUME NEW c \in Callers, NEW d \in Derived, PatternFails(c, d) PROVE OneWay'
  <2>1. Sole(d)
    BY <1>14 DEF PatternFails, OneWay
  <2>2. /\ \A e \in Derived : e # d => pevent'[e] = pevent[e]
        /\ cur'[c] = d
        /\ \A k \in Callers : k # c => pc'[k] = pc[k] /\ cur'[k] = cur[k]
        /\ UNCHANGED <<puts, todoP>>
    BY <1>14 DEF PatternFails, CommitPattern, Goto, ledgers, LearningTypeOK
  <2> QED BY <2>1, <2>2 DEF OneWay, Sole
<1>15. ASSUME NEW c \in Callers, MarkPatternFailed(c) PROVE OneWay'
  <2>1. Sole(cur[c])
    BY <1>15 DEF MarkPatternFailed, At, OneWay
  <2>2. \A e \in Derived : e # cur[c] => pevent'[e] = pevent[e]
    BY <1>15 DEF MarkPatternFailed, LearningTypeOK
  <2>3. \A e \in Derived : pevent'[e] # "NONE" => Sole(e)
    BY <2>1, <2>2 DEF OneWay, Sole
  <2> QED BY <1>15, <2>3, OneWayReturn DEF MarkPatternFailed
<1>16. ASSUME NEW c \in Callers, Answer(c) PROVE OneWay'
  BY <1>16, OneWayReturn DEF Answer, ledgers, OneWay
<1>17. ASSUME NEW c \in Callers, Crash(c) PROVE OneWay'
  BY <1>17, OneWayReturn DEF Crash, ledgers, OneWay
<1>18. ASSUME NEW p \in Patterns, Retire(p) PROVE OneWay'
  BY <1>18 DEF Retire, ledgers, locals, OneWay, Sole
<1>19. CASE UNCHANGED vars
  BY <1>19 DEF vars, ledgers, locals, OneWay, Sole
<1> QED BY <1>1, <1>2, <1>3, <1>4, <1>5, <1>6, <1>7, <1>8, <1>9, <1>10, <1>11, <1>12, <1>13,
           <1>14, <1>15, <1>16, <1>17, <1>18, <1>19 DEF Next, Submission

\* A pattern in the context learns from the feedback once, never through its members as well.
THEOREM NotTwoWays == Spec => []CreditedOneWay
<1>1. Init => OneWay
  BY DEF Init, OneWay
<1>2. OneWay => CreditedOneWay
  BY DEF OneWay, Sole, CreditedOneWay, Derived
<1> QED BY LInvInit, LInvStep, OneWayStep, <1>1, <1>2, PTL DEF Spec

-----------------------------------------------------------------------------
(***************************************************************************)
(* Where nothing fails, a submission that ends has left nothing out: what  *)
(* it did not teach itself is in the hands of another that is still at it. *)
(***************************************************************************)
Calm == failures = 0 /\ crashes = 0

AllApplied == \A x \in Experiences : event[x] = "APPLIED"
Begun == AllApplied \/ \E x \in Experiences : event[x] # "NONE"

AtCredits(c) == pc[c] \in {"credits", "apply", "find"}
Past(c) == pc[c] \in {"usage", "patterns", "done"}

\* It found no event, and creates them all.
Attributing(c) == AtCredits(c) /\ fresh[c]

\* What a submission has left to do, whatever others do.
Own(c) ==
  /\ pc[c] \notin {"mark", "markPattern"}
  /\ pc[c] \in {"apply", "find"} => puts[c] = {}
  /\ Attributing(c) => \A x \in Experiences : event[x] = "APPLIED" \/ x \in todo[c]
  /\ (AtCredits(c) /\ ~fresh[c]) \/ Past(c) => Begun
  /\ \A p \in InContext :
       /\ pc[c] = "usage" => <<Usage, p>> \in puts[c] \/ pevent[<<Usage, p>>] # "NONE"
       /\ pc[c] = "patterns" => <<Usage, p>> \in todoP[c] \/ pevent[<<Usage, p>>] = "APPLIED"
       /\ pc[c] = "done" => pevent[<<Usage, p>>] = "APPLIED"

\* It will see to an event that is due.
Minds(c, d) ==
  \/ pc[c] = "find" /\ cur[c] = d[1]
  \/ pc[c] = "credits" /\ d \in puts[c]
  \/ (AtCredits(c) \/ pc[c] = "usage") /\ pevent[d] # "NONE"
  \/ pc[c] = "patterns" /\ d \in todoP[c]

Due(d) == d \in Members /\ d[2] \in live \ InContext

NoneFailed ==
  /\ \A x \in Experiences : event[x] # "FAILED"
  /\ \A d \in Derived : pevent[d] # "FAILED"

Taught ==
  /\ NoneFailed /\ \A c \in Callers : Own(c)
  /\ Begun => AllApplied \/ \E c \in Callers : Attributing(c)
  /\ \A d \in Members : Due(d) /\ event[d[1]] = "APPLIED" =>
       pevent[d] = "APPLIED" \/ \E c \in Callers : Minds(c, d)

CalmTaught == Calm => Taught

\* Events move one way, and only submission c moves.
Onward ==
  /\ \A x \in Experiences : /\ event[x] # "NONE" => event'[x] # "NONE"
                            /\ event[x] = "APPLIED" => event'[x] = "APPLIED"
                            /\ event'[x] # "FAILED"
  /\ \A d \in Derived : /\ pevent[d] # "NONE" => pevent'[d] # "NONE"
                        /\ pevent[d] = "APPLIED" => pevent'[d] = "APPLIED"
                        /\ pevent'[d] # "FAILED"

Still(k) ==
  /\ pc'[k] = pc[k] /\ fresh'[k] = fresh[k] /\ todo'[k] = todo[k]
  /\ puts'[k] = puts[k] /\ todoP'[k] = todoP[k] /\ cur'[k] = cur[k]

\* What a step of c hands on.
Goes(c) ==
  /\ Onward /\ live' = live /\ \A k \in Callers : k # c => Still(k)
  /\ Own(c)'
  /\ \A d \in Members : Due(d) /\ Minds(c, d) => pevent'[d] = "APPLIED" \/ Minds(c, d)'
  /\ \A d \in Members : event'[d[1]] = "APPLIED" /\ event[d[1]] # "APPLIED" => Minds(c, d)'
  /\ Attributing(c) => AllApplied \/ Attributing(c)'
  /\ Begun' => Begun \/ Attributing(c)'

LEMMA MembersDerived == Members \subseteq Derived /\ \A d \in Members : d[1] \in Experiences
BY LearningAssumption DEF LearningAssumption, Derived

LEMMA StillOwn ==
  ASSUME Onward, NEW k \in Callers, Own(k), Still(k)
  PROVE  Own(k)'
<1>1. \A p \in InContext : <<Usage, p>> \in Derived
  BY DEF Derived
<1>2. Begun => Begun'
  BY DEF Onward, Begun, AllApplied
<1> QED BY <1>1, <1>2 DEF Onward, Own, Still, Attributing, AtCredits, Past

\* A step that goes on keeps what is taught.
LEMMA GoesTaught ==
  ASSUME LInv, Taught, NEW c \in Callers, Goes(c)
  PROVE  Taught'
<1>1. NoneFailed'
  BY DEF Goes, Onward, NoneFailed
<1>2. \A k \in Callers : Own(k)'
  BY StillOwn DEF Goes, Taught
<1>3. Begun' => AllApplied' \/ \E k \in Callers : Attributing(k)'
  <2>1. AllApplied => AllApplied'
    BY DEF Goes, Onward, AllApplied
  <2>2. \A k \in Callers : k # c /\ Attributing(k) => Attributing(k)'
    BY DEF Goes, Still, Attributing, AtCredits
  <2> QED BY <2>1, <2>2 DEF Goes, Taught
<1>4. ASSUME NEW d \in Members, Due(d)', event'[d[1]] = "APPLIED"
      PROVE  pevent'[d] = "APPLIED" \/ \E k \in Callers : Minds(k, d)'
  <2>1. Due(d) /\ d \in Derived
    BY <1>4, MembersDerived DEF Due, Goes
  <2>2. CASE event[d[1]] = "APPLIED"
    <3>1. CASE pevent[d] = "APPLIED"
      BY <2>1, <3>1 DEF Goes, Onward
    <3>2. ASSUME NEW k \in Callers, Minds(k, d)
          PROVE  pevent'[d] = "APPLIED" \/ Minds(k, d)'
      <4>1. CASE k = c
        BY <2>1, <3>2, <4>1 DEF Goes
      <4>2. CASE k # c
        <5>1. Still(k) /\ (pevent[d] # "NONE" => pevent'[d] # "NONE")
          BY <2>1, <4>2 DEF Goes, Onward
        <5> QED BY <3>2, <5>1 DEF Still, Minds, AtCredits
      <4> QED BY <4>1, <4>2
    <3> QED BY <2>1, <2>2, <3>1, <3>2 DEF Taught
  <2>3. CASE event[d[1]] # "APPLIED"
    BY <1>4, <2>3 DEF Goes
  <2> QED BY <2>2, <2>3
<1> QED BY <1>1, <1>2, <1>3, <1>4 DEF Taught


\* A step between places that moves no event.
LEMMA LookupGoes ==
  ASSUME LInv, Taught, NEW c \in Callers, Lookup(c) \/ Insert(c)
  PROVE  Goes(c)
<1>1. /\ pc[c] \in {"idle", "insert"} /\ pc'[c] \in {"insert", "list"}
      /\ UNCHANGED <<ledgers, locals, live>> /\ \A k \in Callers : k # c => pc'[k] = pc[k]
  BY DEF Lookup, Insert, At, Goto, env, LInv, LearningTypeOK
<1>2. Onward /\ \A k \in Callers : k # c => Still(k)
  BY <1>1 DEF ledgers, locals, Onward, Still, Taught, NoneFailed
<1>3. Own(c)'
  BY <1>1 DEF Own, Attributing, AtCredits, Past
<1>4. ~Attributing(c) /\ (Begun' => Begun) /\ \A d : ~Minds(c, d)
  BY <1>1 DEF Attributing, AtCredits, ledgers, Begun, AllApplied, Minds
<1> QED BY <1>1, <1>2, <1>3, <1>4 DEF Goes, ledgers

LEMMA ListGoes ==
  ASSUME LInv, Taught, NEW c \in Callers, List(c)
  PROVE  Goes(c)
<1> DEFINE none == \A x \in Experiences : event[x] = "NONE"
<1>1. /\ pc[c] = "list" /\ pc'[c] = "credits" /\ UNCHANGED <<ledgers, puts, todoP, cur, live>>
      /\ fresh'[c] = none
      /\ todo'[c] = IF none THEN Experiences ELSE {x \in Experiences : event[x] \in Unapplied}
      /\ \A k \in Callers : k # c => pc'[k] = pc[k] /\ fresh'[k] = fresh[k] /\ todo'[k] = todo[k]
  BY DEF List, At, Goto, env, LInv, LearningTypeOK
<1>2. Onward /\ \A k \in Callers : k # c => Still(k)
  BY <1>1 DEF ledgers, Onward, Still, Taught, NoneFailed
<1>3. Own(c)'
  <2>1. ~none => Begun'
    BY <1>1 DEF ledgers, Begun
  <2>2. none => todo'[c] = Experiences
    BY <1>1
  <2> QED BY <1>1, <2>1, <2>2 DEF Own, Attributing, AtCredits, Past
<1>4. ~Attributing(c) /\ (Begun' => Begun) /\ \A d : ~Minds(c, d)
  BY <1>1 DEF Attributing, AtCredits, ledgers, Begun, AllApplied, Minds
<1> QED BY <1>1, <1>2, <1>3, <1>4 DEF Goes, ledgers

LEMMA TakeGoes ==
  ASSUME LInv, Taught, NEW c \in Callers, NEW x \in Experiences, Take(c, x)
  PROVE  Goes(c)
<1>0. /\ pc[c] = "credits" /\ puts[c] = {} /\ Own(c)
      /\ UNCHANGED <<beta, pevent, pbeta, fresh, seen, puts, todoP, live>>
      /\ event[x] \in Status
  BY DEF Take, At, env, Taught, LInv, LearningTypeOK
<1>1. CASE /\ fresh[c] /\ event[x] = "APPLIED" /\ todo' = [todo EXCEPT ![c] = @ \ {x}]
           /\ UNCHANGED <<event, pc, cur>>
  <2>1. todo'[c] = todo[c] \ {x} /\ \A k \in Callers : k # c => todo'[k] = todo[k]
    BY <1>1 DEF LInv, LearningTypeOK
  <2>2. Onward /\ \A k \in Callers : k # c => Still(k)
    BY <1>0, <1>1, <2>1 DEF Onward, Still, Taught, NoneFailed
  <2>3. Begun' = Begun /\ Attributing(c)' = Attributing(c)
    BY <1>0, <1>1 DEF Begun, AllApplied, Attributing, AtCredits
  <2>4. Own(c)'
    BY <1>0, <1>1, <2>1, <2>3 DEF Own, Attributing, AtCredits, Past
  <2>5. \A d \in Members : Minds(c, d) => Minds(c, d)'
    BY <1>0, <1>1 DEF Minds, AtCredits
  <2> QED BY <1>0, <1>1, <2>2, <2>3, <2>4, <2>5 DEF Goes
<1>2. CASE /\ event' = [event EXCEPT ![x] = Created(@)]
           /\ cur' = [cur EXCEPT ![c] = x] /\ Goto(c, "apply") /\ UNCHANGED todo
  <2>1. /\ pc'[c] = "apply"
        /\ \A k \in Callers : k # c => pc'[k] = pc[k] /\ cur'[k] = cur[k]
        /\ event'[x] = Created(event[x])
        /\ \A y \in Experiences : y # x => event'[y] = event[y]
    BY <1>2 DEF Goto, LInv, LearningTypeOK
  <2>2. Onward
    BY <1>0, <2>1 DEF Onward, Taught, NoneFailed, Created, Status
  <2>3. \A k \in Callers : k # c => Still(k)
    BY <1>0, <1>2, <2>1 DEF Still
  <2>4. Begun' /\ (Begun \/ Attributing(c))
    <3>1. event'[x] # "NONE"
      BY <2>1 DEF Created
    <3> QED BY <1>0, <3>1 DEF Begun, Own, Attributing, AtCredits
  <2>5. Attributing(c)' = Attributing(c)
    BY <1>0, <2>1 DEF Attributing, AtCredits
  <2>6. Own(c)'
    <3>1. \A y \in Experiences : event[y] = "APPLIED" => event'[y] = "APPLIED"
      BY <2>2 DEF Onward
    <3> QED BY <1>0, <1>2, <2>1, <2>4, <2>5, <3>1 DEF Own, AtCredits, Past
  <2>7. \A d \in Members : Minds(c, d) => Minds(c, d)'
    BY <1>0, <2>1 DEF Minds, AtCredits
  <2>8. \A d \in Members : event'[d[1]] = "APPLIED" => event[d[1]] = "APPLIED"
    BY <1>0, <2>1, MembersDerived DEF Created
  <2> QED BY <1>0, <2>2, <2>3, <2>4, <2>5, <2>6, <2>7, <2>8 DEF Goes
<1> QED BY <1>1, <1>2 DEF Take

LEMMA ApplyGoes ==
  ASSUME LInv, Taught, NEW c \in Callers, Apply(c)
  PROVE  Goes(c)
<1>0. /\ pc[c] = "apply" /\ cur[c] \in Experiences /\ Own(c)
      /\ UNCHANGED <<pevent, pbeta, fresh, seen, puts, todoP, live>>
      /\ event[cur[c]] \in Status
  BY DEF Apply, At, env, Taught, LInv, LearningTypeOK, AtWork, Commit
<1>1. /\ event'[cur[c]] = "APPLIED" /\ \A y \in Experiences : y # cur[c] => event'[y] = event[y]
      /\ todo'[c] = todo[c] \ {cur[c]}
      /\ pc'[c] = IF event[cur[c]] = "APPLIED" THEN "credits" ELSE "find"
      /\ event[cur[c]] # "APPLIED" => cur'[c] = cur[c]
      /\ \A k \in Callers : k # c => pc'[k] = pc[k] /\ cur'[k] = cur[k] /\ todo'[k] = todo[k]
  BY <1>0 DEF Apply, Commit, Goto, LInv, LearningTypeOK
<1>2. Onward
  BY <1>0, <1>1 DEF Onward, Taught, NoneFailed
<1>3. \A k \in Callers : k # c => Still(k)
  BY <1>0, <1>1 DEF Still
<1>4. Begun' /\ Attributing(c)' = Attributing(c) /\ (Begun \/ Attributing(c))
  <2>1. Begun'
    BY <1>0, <1>1 DEF Begun
  <2>2. Attributing(c)' = Attributing(c)
    BY <1>0, <1>1 DEF Attributing, AtCredits
  <2>3. Begun \/ Attributing(c)
    BY <1>0 DEF Own, Attributing, AtCredits
  <2> QED BY <2>1, <2>2, <2>3
<1>5. Own(c)'
  BY <1>0, <1>1, <1>4 DEF Own, Attributing, AtCredits, Past
<1>6. \A d \in Members : Minds(c, d) => Minds(c, d)'
  BY <1>0, <1>1 DEF Minds, AtCredits
<1>7. \A d \in Members : event'[d[1]] = "APPLIED" /\ event[d[1]] # "APPLIED" => Minds(c, d)'
  <2> SUFFICES ASSUME NEW d \in Members, event'[d[1]] = "APPLIED", event[d[1]] # "APPLIED"
               PROVE  Minds(c, d)'
    OBVIOUS
  <2>1. d[1] = cur[c]
    BY <1>1, MembersDerived
  <2> QED BY <1>1, <2>1 DEF Minds
<1> QED BY <1>0, <1>2, <1>3, <1>4, <1>5, <1>6, <1>7 DEF Goes

LEMMA RevisitGoes ==
  ASSUME LInv, Taught, NEW c \in Callers, NEW x \in Experiences, Revisit(c, x)
  PROVE  Goes(c)
<1>0. /\ pc[c] = "credits" /\ puts[c] = {} /\ Own(c) /\ pc'[c] = "find" /\ cur'[c] = x
      /\ UNCHANGED <<ledgers, fresh, todo, puts, todoP, live>>
      /\ \A k \in Callers : k # c => pc'[k] = pc[k] /\ cur'[k] = cur[k]
  BY DEF Revisit, At, Goto, env, Taught, LInv, LearningTypeOK
<1>1. Onward /\ \A k \in Callers : k # c => Still(k)
  BY <1>0 DEF Onward, Still, Taught, NoneFailed, ledgers
<1>2. Begun' = Begun /\ Attributing(c)' = Attributing(c)
  BY <1>0 DEF Begun, AllApplied, Attributing, AtCredits, ledgers
<1>3. Own(c)'
  BY <1>0, <1>2 DEF Own, Attributing, AtCredits, Past, ledgers
<1>4. \A d \in Members : Minds(c, d) => Minds(c, d)'
  BY <1>0 DEF Minds, AtCredits, ledgers
<1> QED BY <1>0, <1>1, <1>2, <1>3, <1>4 DEF Goes, ledgers

LEMMA FindGoes ==
  ASSUME LInv, Taught, NEW c \in Callers, Find(c)
  PROVE  Goes(c)
<1>0. /\ pc[c] = "find" /\ puts[c] = {} /\ Own(c) /\ pc'[c] = "credits"
      /\ puts'[c] = {cur[c]} \X PatternsOf(cur[c])
      /\ UNCHANGED <<ledgers, fresh, todo, todoP, live>>
      /\ \A k \in Callers : k # c => pc'[k] = pc[k] /\ cur'[k] = cur[k] /\ puts'[k] = puts[k]
  BY DEF Find, At, Goto, env, Taught, LInv, LearningTypeOK, Own
<1>1. Onward /\ \A k \in Callers : k # c => Still(k)
  BY <1>0 DEF Onward, Still, Taught, NoneFailed, ledgers
<1>2. Begun' = Begun /\ Attributing(c)' = Attributing(c)
  BY <1>0 DEF Begun, AllApplied, Attributing, AtCredits, ledgers
<1>3. Own(c)'
  BY <1>0, <1>2 DEF Own, Attributing, AtCredits, Past, ledgers
<1>4. ASSUME NEW d \in Members, Due(d), Minds(c, d)
      PROVE  Minds(c, d)'
  <2>1. CASE cur[c] = d[1]
    <3>1. d = <<d[1], d[2]>> /\ d[2] \in PatternsOf(d[1])
      BY <1>4, LearningAssumption DEF LearningAssumption, Due, PatternsOf
    <3>2. d \in puts'[c]
      BY <1>0, <2>1, <3>1
    <3> QED BY <1>0, <3>2 DEF Minds
  <2>2. CASE pevent[d] # "NONE"
    BY <1>0, <2>2 DEF Minds, AtCredits, ledgers
  <2> QED BY <1>0, <1>4, <2>1, <2>2 DEF Minds
<1> QED BY <1>0, <1>1, <1>2, <1>3, <1>4 DEF Goes, ledgers


LEMMA CreditsDoneGoes ==
  ASSUME LInv, Taught, NEW c \in Callers, CreditsDone(c)
  PROVE  Goes(c)
<1>0. /\ pc[c] = "credits" /\ puts[c] = {} /\ todo[c] = {} /\ Own(c) /\ pc'[c] = "usage"
      /\ puts'[c] = {Usage} \X InContext
      /\ UNCHANGED <<ledgers, fresh, todo, todoP, cur, live>>
      /\ \A k \in Callers : k # c => pc'[k] = pc[k] /\ puts'[k] = puts[k]
  BY DEF CreditsDone, At, Goto, env, Taught, LInv, LearningTypeOK
<1>1. Onward /\ \A k \in Callers : k # c => Still(k)
  BY <1>0 DEF Onward, Still, Taught, NoneFailed, ledgers
<1>2. Begun' = Begun /\ Begun /\ (Attributing(c) => AllApplied)
  BY <1>0 DEF Begun, AllApplied, Attributing, AtCredits, Own, ledgers
<1>3. Own(c)'
  BY <1>0, <1>2 DEF Own, Attributing, AtCredits, Past, ledgers
<1>4. \A d \in Members : Minds(c, d) => Minds(c, d)'
  BY <1>0 DEF Minds, AtCredits, ledgers
<1> QED BY <1>0, <1>1, <1>2, <1>3, <1>4 DEF Goes, ledgers

LEMMA PutGoes ==
  ASSUME LInv, Taught, NEW c \in Callers, NEW e \in Derived, Put(c, e)
  PROVE  Goes(c)
<1>0. /\ pc[c] \in {"credits", "usage"} /\ Own(c) /\ pevent[e] \in Status
      /\ pevent'[e] = Created(pevent[e])
      /\ \A d \in Derived : d # e => pevent'[d] = pevent[d]
      /\ puts'[c] = puts[c] \ {e}
      /\ UNCHANGED <<event, beta, pc, fresh, todo, todoP, cur, live>>
      /\ \A k \in Callers : k # c => puts'[k] = puts[k]
  BY DEF Put, env, Taught, LInv, LearningTypeOK
<1>1. Onward
  BY <1>0 DEF Onward, Taught, NoneFailed, Created, Status
<1>2. \A k \in Callers : k # c => Still(k)
  BY <1>0 DEF Still
<1>3. Begun' = Begun /\ Attributing(c)' = Attributing(c) /\ pevent'[e] # "NONE"
  BY <1>0 DEF Begun, AllApplied, Attributing, AtCredits, Created, Status
<1>4. Own(c)'
  <2>1. \A p \in InContext : <<Usage, p>> \in Derived
    BY DEF Derived
  <2>2. \A p \in InContext : pc[c] = "usage" =>
          <<Usage, p>> \in puts'[c] \/ pevent'[<<Usage, p>>] # "NONE"
    BY <1>0, <1>1, <1>3, <2>1 DEF Own, Onward
  <2> QED BY <1>0, <1>3, <2>2 DEF Own, Attributing, AtCredits, Past
<1>5. ASSUME NEW d \in Members, Minds(c, d)
      PROVE  Minds(c, d)'
  <2>1. d \in Derived
    BY MembersDerived
  <2>2. pevent[d] # "NONE" => pevent'[d] # "NONE"
    BY <1>1, <2>1 DEF Onward
  <2> QED BY <1>0, <1>3, <1>5, <2>2 DEF Minds, AtCredits
<1> QED BY <1>0, <1>1, <1>2, <1>3, <1>4, <1>5 DEF Goes

LEMMA ListPatternsGoes ==
  ASSUME LInv, Taught, NEW c \in Callers, ListPatterns(c)
  PROVE  Goes(c)
<1>0. /\ pc[c] = "usage" /\ puts[c] = {} /\ Own(c) /\ pc'[c] = "patterns"
      /\ todoP'[c] = {d \in Derived : pevent[d] \in Unapplied}
      /\ UNCHANGED <<ledgers, fresh, todo, puts, cur, live>>
      /\ \A k \in Callers : k # c => pc'[k] = pc[k] /\ todoP'[k] = todoP[k]
  BY DEF ListPatterns, At, Goto, env, Taught, LInv, LearningTypeOK
<1>1. Onward /\ \A k \in Callers : k # c => Still(k)
  BY <1>0 DEF Onward, Still, Taught, NoneFailed, ledgers
<1>2. Begun' = Begun /\ Begun /\ ~Attributing(c)
  BY <1>0 DEF Begun, AllApplied, Attributing, AtCredits, Past, Own, ledgers
<1>3. \A d \in Derived : pevent[d] # "NONE" => d \in todoP'[c] \/ pevent'[d] = "APPLIED"
  BY <1>0 DEF LInv, LearningTypeOK, Status, Unapplied, ledgers
<1>4. Own(c)'
  <2>1. \A p \in InContext : <<Usage, p>> \in Derived
    BY DEF Derived
  <2> QED BY <1>0, <1>2, <1>3, <2>1 DEF Own, Attributing, AtCredits, Past
<1>5. \A d \in Members : Minds(c, d) => pevent'[d] = "APPLIED" \/ Minds(c, d)'
  BY <1>0, <1>3, MembersDerived DEF Minds, AtCredits
<1> QED BY <1>0, <1>1, <1>2, <1>4, <1>5 DEF Goes, ledgers

LEMMA ApplyPatternGoes ==
  ASSUME LInv, Taught, NEW c \in Callers, NEW e \in Derived, ApplyPattern(c, e)
  PROVE  Goes(c)
<1>0. /\ pc[c] = "patterns" /\ Own(c) /\ pevent'[e] = "APPLIED"
      /\ \A d \in Derived : d # e => pevent'[d] = pevent[d]
      /\ todoP'[c] = todoP[c] \ {e}
      /\ UNCHANGED <<event, beta, pc, fresh, todo, puts, cur, live>>
      /\ \A k \in Callers : k # c => todoP'[k] = todoP[k]
  BY DEF ApplyPattern, CommitPattern, At, env, Taught, LInv, LearningTypeOK
<1>1. Onward /\ \A k \in Callers : k # c => Still(k)
  BY <1>0 DEF Onward, Still, Taught, NoneFailed
<1>2. Begun' = Begun /\ Begun /\ ~Attributing(c)
  BY <1>0 DEF Begun, AllApplied, Attributing, AtCredits, Past, Own
<1>3. Own(c)'
  <2>1. \A p \in InContext : <<Usage, p>> \in Derived
    BY DEF Derived
  <2>2. \A p \in InContext : <<Usage, p>> \in todoP'[c] \/ pevent'[<<Usage, p>>] = "APPLIED"
    BY <1>0, <1>1, <2>1 DEF Own, Onward
  <2> QED BY <1>0, <1>2, <2>2 DEF Own, Attributing, AtCredits, Past
<1>4. \A d \in Members : Minds(c, d) => pevent'[d] = "APPLIED" \/ Minds(c, d)'
  BY <1>0 DEF Minds, AtCredits
<1> QED BY <1>0, <1>1, <1>2, <1>3, <1>4 DEF Goes

LEMMA AnswerGoes ==
  ASSUME LInv, Taught, NEW c \in Callers, Answer(c)
  PROVE  Goes(c)
<1>0. /\ pc[c] = "patterns" /\ todoP[c] = {} /\ Own(c) /\ pc'[c] = "done"
      /\ UNCHANGED <<ledgers, live>>
      /\ \A k \in Callers : k # c => Still(k)
  BY DEF Answer, Return, Still, At, Goto, env, Taught, LInv, LearningTypeOK
<1>1. Onward
  BY <1>0 DEF Onward, Taught, NoneFailed, ledgers
<1>2. Begun' = Begun /\ Begun /\ ~Attributing(c)
  BY <1>0 DEF Begun, AllApplied, Attributing, AtCredits, Past, Own, ledgers
<1>3. Own(c)'
  BY <1>0, <1>2 DEF Own, Attributing, AtCredits, Past, ledgers
<1>4. \A d : ~Minds(c, d)
  BY <1>0 DEF Minds, AtCredits
<1> QED BY <1>0, <1>1, <1>2, <1>3, <1>4 DEF Goes, ledgers

\* A step that fails, or crashes, ends the calm.
LEMMA CalmBefore ==
  ASSUME LInv, [Next]_vars, Calm'
  PROVE  /\ Calm
         /\ \A c \in Callers : ~ApplyFails(c) /\ ~Crash(c) /\ \A d \in Derived : ~PatternFails(c, d)
<1>0. failures \in Nat /\ crashes \in Nat
  BY LearningAssumption DEF LearningAssumption, LInv, LearningTypeOK
<1>1. failures + 1 # 0 /\ crashes + 1 # 0
  BY <1>0
<1>2. \A c \in Callers : ~ApplyFails(c) /\ ~Crash(c) /\ \A d \in Derived : ~PatternFails(c, d)
  BY <1>1 DEF Calm, ApplyFails, Crash, PatternFails
<1>3. ASSUME NEW c \in Callers, Submission(c)
      PROVE  failures' = failures /\ crashes' = crashes
  BY <1>3 DEF Submission, Lookup, Insert, List, Take, Revisit, Apply, MarkFailed, Find,
     CreditsDone, ListPatterns, Put, ApplyPattern, MarkPatternFailed, Answer, env
<1>4. ASSUME NEW p \in Patterns, Retire(p)
      PROVE  failures' = failures /\ crashes' = crashes
  BY <1>4 DEF Retire
<1>5. UNCHANGED vars => failures' = failures /\ crashes' = crashes
  BY DEF vars, env
<1> QED BY <1>2, <1>3, <1>4, <1>5 DEF Next, Calm

LEMMA TaughtStep == LInv /\ CalmTaught /\ [Next]_vars => CalmTaught'
<1> SUFFICES ASSUME LInv, CalmTaught, [Next]_vars, Calm'
             PROVE  Taught'
  BY DEF CalmTaught
<1>1. /\ Taught
      /\ \A c \in Callers : ~ApplyFails(c) /\ ~Crash(c) /\ \A d \in Derived : ~PatternFails(c, d)
  BY CalmBefore DEF CalmTaught
<1>2. ASSUME NEW c \in Callers, Submission(c)
      PROVE  Taught'
  <2>1. ~MarkFailed(c) /\ ~MarkPatternFailed(c)
    BY <1>1 DEF MarkFailed, MarkPatternFailed, At, Taught, Own
  <2>2. Goes(c)
    BY <1>1, <1>2, <2>1, LookupGoes, ListGoes, TakeGoes, ApplyGoes, RevisitGoes, FindGoes,
       CreditsDoneGoes, PutGoes, ListPatternsGoes, ApplyPatternGoes, AnswerGoes DEF Submission
  <2> QED BY <1>1, <2>2, GoesTaught
<1>3. ASSUME UNCHANGED <<ledgers, pc, locals>>, live' \subseteq live
      PROVE  Taught'
  <2>1. Begun' = Begun /\ AllApplied' = AllApplied /\ NoneFailed'
    BY <1>1, <1>3 DEF Begun, AllApplied, ledgers, Taught, NoneFailed
  <2>2. \A k \in Callers : Own(k)' /\ Attributing(k)' = Attributing(k)
    BY <1>1, <1>3, <2>1 DEF Taught, Own, Attributing, AtCredits, Past, ledgers, locals
  <2>3. \A d \in Members : Due(d)' => Due(d)
    BY <1>3 DEF Due
  <2>4. \A k \in Callers, d \in Members : Minds(k, d)' = Minds(k, d)
    BY <1>3 DEF Minds, AtCredits, ledgers, locals
  <2>5. \A d \in Members : event'[d[1]] = event[d[1]] /\ pevent'[d] = pevent[d]
    BY <1>3 DEF ledgers
  <2> QED BY <1>1, <2>1, <2>2, <2>3, <2>4, <2>5 DEF Taught
<1>4. CASE \E p \in Patterns : Retire(p)
  BY <1>3, <1>4 DEF Retire
<1>5. CASE UNCHANGED vars
  BY <1>3, <1>5 DEF vars, env
<1> QED BY <1>1, <1>2, <1>4, <1>5 DEF Next

\* When nothing fails, a feedback whose submissions have been answered has taught everything,
\* for any number of submissions that find each other's events half-created
\* (ApplyFeedbackReward and its retry of existing events).
THEOREM NothingLeftOut == Spec => []AnsweredMeansLearned
<1>1. Init => CalmTaught
  <2> SUFFICES ASSUME Init PROVE Taught
    BY DEF CalmTaught
  <2>1. \A c \in Callers : pc[c] = "idle"
    BY DEF Init
  <2>2. \A c \in Callers : Own(c)
    BY <2>1 DEF Own, Attributing, AtCredits, Past
  <2>3. \A x \in Experiences : event[x] = "NONE"
    BY DEF Init
  <2>4. NoneFailed
    <3>1. \A d \in Derived : pevent[d] = "NONE"
      BY DEF Init
    <3> QED BY <2>3, <3>1 DEF NoneFailed
  <2>5. Begun => AllApplied
    BY <2>3 DEF Begun
  <2>6. \A d \in Members : event[d[1]] # "APPLIED"
    BY <2>3, MembersDerived
  <2> QED BY <2>2, <2>4, <2>5, <2>6 DEF Taught
<1>2. LInv /\ CalmTaught => AnsweredMeansLearned
  <2> SUFFICES ASSUME LInv, CalmTaught, Finished, failures = 0, crashes = 0
               PROVE  /\ AllApplied
                      /\ \A d \in Members : pevent[d] = "APPLIED" \/ d[2] \notin live
                                              \/ d[2] \in InContext
                      /\ \A p \in InContext : pevent[<<Usage, p>>] = "APPLIED"
    BY DEF AnsweredMeansLearned, AllApplied
  <2>1. Taught
    BY DEF CalmTaught, Calm
  <2>2. PICK c \in Callers : pc[c] = "done"
    BY DEF Finished
  <2>3. Begun /\ \A p \in InContext : pevent[<<Usage, p>>] = "APPLIED"
    BY <2>1, <2>2 DEF Taught, Own, Past
  <2>4. \A k \in Callers : ~Attributing(k) /\ \A d : ~Minds(k, d)
    BY DEF Finished, Attributing, AtCredits, Minds
  <2>5. AllApplied
    BY <2>1, <2>3, <2>4 DEF Taught
  <2>6. \A d \in Members : Due(d) => pevent[d] = "APPLIED"
    BY <2>1, <2>4, <2>5, MembersDerived DEF Taught, AllApplied
  <2> QED BY <2>3, <2>5, <2>6 DEF Due
<1> QED BY LInvInit, LInvStep, TaughtStep, <1>1, <1>2, PTL DEF Spec

=============================================================================
