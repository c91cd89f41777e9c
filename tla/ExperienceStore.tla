--------------------------- MODULE ExperienceStore ---------------------------
(***************************************************************************)
(* The store pipeline of experiences (internal/experience/store_pipeline.go,*)
(* reinforce.go, supersede.go, conflict.go and the Postgres repositories of *)
(* experiences and their relations): what an episode taught is compared    *)
(* with what is already known, reinforces it, is stored beside it, or is   *)
(* stored against it and the conflict resolved by authority.               *)
(*                                                                         *)
(* Pipelines of several episodes, or of one episode twice, run at the same *)
(* time as feedback and operators; each read and each write of the store   *)
(* is a step.  A text is a member of Statement and Judge says how two of   *)
(* them compare; confidence, utility and evidence are small levels whose   *)
(* sum is the authority.                                                   *)
(***************************************************************************)
EXTENDS Integers, FiniteSets, Sequences

CONSTANTS
    Pipeline,       \* the runs of the pipeline that may be under way together
    Episode,
    Statement,      \* what an experience says, its type and scope included
    Judge,          \* SAME, RELATED, DIFFERENT or CONFLICT, for each pair
    Candidates,     \* the candidates of an episode: a sequence of
                    \* [says |-> statement, quality |-> level]
    ActiveMin, CandidateMin,   \* the quality that makes ACTIVE and CANDIDATE
    Margin,         \* the gap of authority that decides a conflict
    MaxLevel, MaxAttempts,   \* of utility; of a reinforcement
    None,
    MaxRows, MaxRuns, MaxRatings, MaxOperations, MaxFaults    \* bounds

Level == 0..MaxLevel
Row == 1..MaxRows

ASSUME StoreAssumption ==
    /\ Judge \in [Statement \X Statement ->
                    {"SAME", "RELATED", "DIFFERENT", "CONFLICT"}]
    /\ \A s, t \in Statement : Judge[<<s, t>>] = Judge[<<t, s>>]
    /\ \A s \in Statement : Judge[<<s, s>>] = "SAME"
    /\ Candidates \in [Episode -> Seq([says : Statement, quality : Level])]
    /\ None \notin Row /\ None \notin Episode
    /\ MaxLevel \in Nat /\ MaxAttempts \in Nat \ {0}
    /\ Margin \in Nat \ {0}   \* DefaultAuthorityMargin is not 0
    /\ MaxRows \in Nat

VARIABLES
    rows,       \* how many experiences have been inserted
    row,        \* the experience of an id, or None: what it says, its episode and status,
                \* version, confidence, utility, support and what it supersedes
    relations,  \* <<from, to, type>>
    at, of, cursor,     \* where a pipeline is, its episode and its candidate
    target, copy, tries,    \* the row it reinforces, as read; the tries made
    created, peers, peer,   \* the row it stored, the rows against it, and the
    left, right,            \*   one at hand; the two authorities as read
    runs, ratings, operations, faults,   \* how much of the bounds is used
    rated,      \* history: the feedback applied to a row
    claimed,    \* history: the reinforcements a pipeline was told of
    known,      \* history: the rows there were when a pipeline searched
    unseen,     \* history: pairs whose younger row was inserted unaware
    dropped,    \* history: pairs a pipeline that failed left unresolved
    relapsed    \* history: rows that came back after they were deprecated

storeVars == <<rows, row, relations>>
pipeVars == <<at, of, cursor, target, copy, tries, created, peers, peer, left,
              right>>
boundVars == <<runs, ratings, operations, faults>>
historyVars == <<rated, claimed, known, unseen, dropped, relapsed>>
vars == <<storeVars, pipeVars, boundVars, historyVars>>

Init ==
    /\ rows = 0
    /\ row = [r \in Row |-> None]
    /\ relations = {}
    /\ at = [p \in Pipeline |-> "idle"]
    /\ of = [p \in Pipeline |-> None]
    /\ cursor = [p \in Pipeline |-> 0]
    /\ target = [p \in Pipeline |-> None]
    /\ copy = [p \in Pipeline |-> None]
    /\ tries = [p \in Pipeline |-> 0]
    /\ created = [p \in Pipeline |-> None]
    /\ peers = [p \in Pipeline |-> {}]
    /\ peer = [p \in Pipeline |-> None]
    /\ left = [p \in Pipeline |-> 0]
    /\ right = [p \in Pipeline |-> 0]
    /\ runs = 0 /\ ratings = 0 /\ operations = 0 /\ faults = 0
    /\ rated = [r \in Row |-> 0]
    /\ claimed = {}
    /\ known = [p \in Pipeline |-> {}]
    /\ unseen = {} /\ dropped = {} /\ relapsed = {}

-----------------------------------------------------------------------------
(* The store.                                                              *)

Rows == 1..rows

Retrievable(r) == row[r].status \in {"ACTIVE", "CANDIDATE"}

(* The row an insert with this episode and fingerprint runs into. *)
GetByEpisodeDedup(e, s) ==
    {r \in Rows : row[r].episode = e /\ row[r].says = s}

(* Evidence, success ratio, confidence, utility and freshness in one level *)
(* each; only those that change with the steps of this module are kept.    *)
Authority(r) ==
    row[r].confidence + row[r].utility + Cardinality(row[r].support)

(* StatusFromConfidence; None when the candidate is not worth storing. *)
StatusFromConfidence(quality) ==
    IF quality >= ActiveMin THEN "ACTIVE"
    ELSE IF quality >= CandidateMin THEN "CANDIDATE" ELSE None

\* Faulty: the update does not ask for the version that was read.
UpdateUnversioned(r, exp) ==
    row' = [row EXCEPT ![r] = [exp EXCEPT !.version = row[r].version + 1]]

(* Update writes every column of the experience that was read, its status  *)
(* and its supersedes_id among them, if the version is still the same.     *)
Update(r, exp) ==
    /\ row[r].version = exp.version
    /\ row' = [row EXCEPT ![r] = [exp EXCEPT !.version = @ + 1]]

(* Supersede writes the status of the one and the link of the other, and   *)
(* leaves both versions as they are.                                       *)
Supersede(old, new) ==
    row' = [row EXCEPT ![old].status = "DEPRECATED", ![new].supersedes = old]

Relate(from, to, type) == relations' = relations \cup {<<from, to, type>>}

-----------------------------------------------------------------------------
(* A pipeline.                                                             *)

Candidate(p) == Candidates[of[p]][cursor[p]]

Forget(p) ==
    /\ target' = [target EXCEPT ![p] = None]
    /\ copy' = [copy EXCEPT ![p] = None]
    /\ tries' = [tries EXCEPT ![p] = 0]
    /\ created' = [created EXCEPT ![p] = None]
    /\ peers' = [peers EXCEPT ![p] = {}]
    /\ peer' = [peer EXCEPT ![p] = None]
    /\ left' = [left EXCEPT ![p] = 0]
    /\ right' = [right EXCEPT ![p] = 0]
    /\ known' = [known EXCEPT ![p] = {}]

(* StoreCandidatesWithOptions, asked for by the learning job of an episode *)
(* or by its retry.                                                        *)
StoreCandidates(p, e) ==
    /\ at[p] = "idle" /\ Candidates[e] # <<>>
    /\ runs < MaxRuns /\ runs' = runs + 1
    /\ at' = [at EXCEPT ![p] = "search"]
    /\ of' = [of EXCEPT ![p] = e]
    /\ cursor' = [cursor EXCEPT ![p] = 1]
    /\ UNCHANGED <<storeVars, target, copy, tries, created, peers, peer, left,
                   right, ratings, operations, faults, historyVars>>

(* On to the next candidate, or done. *)
NextCandidate(p) ==
    /\ IF cursor[p] < Len(Candidates[of[p]])
       THEN /\ at' = [at EXCEPT ![p] = "search"]
            /\ cursor' = [cursor EXCEPT ![p] = @ + 1]
            /\ UNCHANGED of
       ELSE /\ at' = [at EXCEPT ![p] = "idle"]
            /\ cursor' = [cursor EXCEPT ![p] = 0]
            /\ of' = [of EXCEPT ![p] = None]
    /\ Forget(p)

(* The evaluator does not want the candidate. *)
SkipCandidate(p) ==
    /\ at[p] = "search"
    /\ StatusFromConfidence(Candidate(p).quality) = None
    /\ NextCandidate(p)
    /\ UNCHANGED <<storeVars, boundVars, rated, claimed, unseen, dropped,
                   relapsed>>

(* trySemanticMerge.  The neighbours are judged as the search returned     *)
(* them: one that says the SAME ends it, and the conflicts found before    *)
(* are let go.  The rows of the search have no dedup key, so that a row of *)
(* the episode's own is a neighbour like any other.                        *)
TrySemanticMerge(p) ==
    LET s == Candidate(p).says
        Neighbours == {r \in Rows : Retrievable(r)}
        Same == {r \in Neighbours : Judge[<<s, row[r].says>>] = "SAME"}
        Against == {r \in Neighbours : Judge[<<s, row[r].says>>] = "CONFLICT"}
    IN
    /\ at[p] = "search"
    /\ StatusFromConfidence(Candidate(p).quality) # None
    /\ known' = [known EXCEPT ![p] = Rows]
    /\ \/ \E r \in Same :
            /\ target' = [target EXCEPT ![p] = r]
            /\ at' = [at EXCEPT ![p] = "read"]
            /\ UNCHANGED peers
       \/ /\ Same = {}
          /\ peers' = [peers EXCEPT ![p] = Against]
          /\ at' = [at EXCEPT ![p] = "create"]
          /\ UNCHANGED target
    /\ UNCHANGED <<storeVars, of, cursor, copy, tries, created, peer, left,
                   right, boundVars, rated, claimed, unseen, dropped, relapsed>>

(* Reinforce: read the experience ... *)
ReadExperience(p) ==
    /\ at[p] = "read"
    /\ copy' = [copy EXCEPT ![p] = row[target[p]]]
    /\ tries' = [tries EXCEPT ![p] = @ + 1]
    /\ at' = [at EXCEPT ![p] = "write"]
    /\ UNCHANGED <<storeVars, of, cursor, target, created, peers, peer, left,
                   right, boundVars, historyVars>>

Larger(a, b) == IF a >= b THEN a ELSE b

(* mergeEvidence and bumpConfidence, on the copy that was read. *)
Reinforced(p) ==
    [copy[p] EXCEPT
        !.support = @ \cup {of[p]},
        !.confidence = IF Larger(@, Candidate(p).quality) < MaxLevel
                       THEN Larger(@, Candidate(p).quality) + 1
                       ELSE MaxLevel]

(* ... and write it back, if nobody updated it in between. *)
WriteExperience(p) ==
    LET r == target[p] IN
    /\ at[p] = "write"
    /\ Update(r, Reinforced(p))
    /\ claimed' = claimed \cup {<<r, of[p]>>}
    /\ relapsed' = IF row[r].status = "DEPRECATED" /\
                      copy[p].status # "DEPRECATED"
                   THEN relapsed \cup {r} ELSE relapsed
    /\ NextCandidate(p)
    /\ UNCHANGED <<rows, relations, boundVars, rated, unseen, dropped>>

(* An update in between: read again, a few times. *)
RereadExperience(p) ==
    /\ at[p] = "write"
    /\ row[target[p]].version # copy[p].version
    /\ tries[p] < MaxAttempts
    /\ at' = [at EXCEPT ![p] = "read"]
    /\ copy' = [copy EXCEPT ![p] = None]
    /\ UNCHANGED <<storeVars, of, cursor, target, tries, created, peers, peer,
                   left, right, boundVars, historyVars>>

(* The end of a pipeline that fails, with its conflicts unresolved. *)
FailPipeline(p) ==
    /\ at' = [at EXCEPT ![p] = "idle"]
    /\ of' = [of EXCEPT ![p] = None]
    /\ cursor' = [cursor EXCEPT ![p] = 0]
    /\ dropped' = dropped \cup
         {{created[p], r} : r \in {x \in peers[p] \cup {peer[p]} :
                                    created[p] # None /\ x # None}}
    /\ Forget(p)
    /\ UNCHANGED <<storeVars, rated, claimed, unseen, relapsed>>

GiveUpReinforcing(p) ==
    /\ at[p] = "write"
    /\ row[target[p]].version # copy[p].version
    /\ tries[p] = MaxAttempts
    /\ FailPipeline(p)
    /\ UNCHANGED boundVars

-----------------------------------------------------------------------------
(* A new experience and the conflicts it starts.                           *)

\* Faulty: nothing keeps an episode from storing the same twice.
InsertAlways(p) ==
    /\ rows < MaxRows
    /\ rows' = rows + 1
    /\ row' = [row EXCEPT ![rows + 1] =
                [says |-> Candidate(p).says, episode |-> of[p],
                 status |-> StatusFromConfidence(Candidate(p).quality),
                 version |-> 1, confidence |-> Candidate(p).quality,
                 utility |-> 1, support |-> {of[p]}, supersedes |-> None]]
    /\ created' = [created EXCEPT ![p] = rows + 1]
    /\ unseen' = unseen \cup {{rows + 1, r} : r \in Rows \ known[p]}

(* Create of the service: an insert that runs into the index of episode    *)
(* and fingerprint returns the row that is there.                          *)
Insert(p) ==
    LET there == GetByEpisodeDedup(of[p], Candidate(p).says) IN
    \/ /\ there # {}
       /\ \E r \in there : created' = [created EXCEPT ![p] = r]
       /\ UNCHANGED <<rows, row, unseen>>
    \/ /\ there = {} /\ rows < MaxRows
       /\ rows' = rows + 1
       /\ row' = [row EXCEPT ![rows + 1] =
                   [says |-> Candidate(p).says, episode |-> of[p],
                    status |-> StatusFromConfidence(Candidate(p).quality),
                    version |-> 1, confidence |-> Candidate(p).quality,
                    utility |-> 1, support |-> {of[p]}, supersedes |-> None]]
       /\ created' = [created EXCEPT ![p] = rows + 1]
       /\ unseen' = unseen \cup {{rows + 1, r} : r \in Rows \ known[p]}

CreateExperience(p) ==
    /\ at[p] = "create"
    /\ Insert(p)
    /\ at' = [at EXCEPT ![p] = "left"]
    /\ UNCHANGED <<relations, of, cursor, target, copy, tries, peers, peer,
                   left, right, boundVars, rated, claimed, known, dropped, relapsed>>

(* ResolveConflict for one of the peers: the authority of the new row ... *)
ReadLeft(p) ==
    /\ at[p] = "left"
    /\ \E r \in peers[p] :
        /\ peer' = [peer EXCEPT ![p] = r]
        /\ peers' = [peers EXCEPT ![p] = @ \ {r}]
    /\ left' = [left EXCEPT ![p] = Authority(created[p])]
    /\ at' = [at EXCEPT ![p] = "right"]
    /\ UNCHANGED <<storeVars, of, cursor, target, copy, tries, created, right,
                   boundVars, historyVars>>

(* ... and that of the peer, whatever their status has become. *)
ReadRight(p) ==
    /\ at[p] = "right"
    /\ right' = [right EXCEPT ![p] = Authority(peer[p])]
    /\ at' = [at EXCEPT ![p] = "decide"]
    /\ UNCHANGED <<storeVars, of, cursor, target, copy, tries, created, peers,
                   peer, left, boundVars, historyVars>>

Clear(p) ==
    (IF left[p] >= right[p] THEN left[p] - right[p] ELSE right[p] - left[p])
        >= Margin

\* Faulty: the other way round.
PeerIsOutranked(p) == right[p] < left[p]

PeerOutranks(p) == right[p] > left[p]

Winner(p) == IF PeerOutranks(p) THEN peer[p] ELSE created[p]
Loser(p) == IF PeerOutranks(p) THEN created[p] ELSE peer[p]

\* Faulty: the first resolution ends the loop.
NoNextPeer(p) ==
    /\ at' = [at EXCEPT ![p] = "left"]
    /\ peer' = [peer EXCEPT ![p] = None]
    /\ peers' = [peers EXCEPT ![p] = {}]
    /\ UNCHANGED <<of, cursor, target, copy, tries, created, left, right, known>>

NextPeer(p) ==
    /\ at' = [at EXCEPT ![p] = "left"]
    /\ peer' = [peer EXCEPT ![p] = None]
    /\ left' = [left EXCEPT ![p] = 0]
    /\ right' = [right EXCEPT ![p] = 0]
    /\ UNCHANGED <<of, cursor, target, copy, tries, created, peers, known>>

AllResolved(p) ==
    /\ at[p] = "left" /\ peers[p] = {}
    /\ NextCandidate(p)
    /\ UNCHANGED <<storeVars, boundVars, rated, claimed, unseen, dropped,
                   relapsed>>

(* Authorities that are close: both stay, with a CONFLICTS relation. *)
RecordConflict(p) ==
    /\ at[p] = "decide" /\ ~Clear(p)
    /\ Relate(created[p], peer[p], "CONFLICTS")
    /\ NextPeer(p)
    /\ UNCHANGED <<rows, row, boundVars, rated, claimed, unseen, dropped,
                   relapsed>>

SupersedeLoser(p) ==
    /\ at[p] = "decide" /\ Clear(p)
    /\ Supersede(Loser(p), Winner(p))
    /\ at' = [at EXCEPT ![p] = "relate"]
    /\ UNCHANGED <<rows, relations, of, cursor, target, copy, tries, created,
                   peers, peer, left, right, boundVars, historyVars>>

RecordSupersedes(p) ==
    /\ at[p] = "relate"
    /\ Relate(Winner(p), Loser(p), "SUPERSEDES")
    /\ NextPeer(p)
    /\ UNCHANGED <<rows, row, boundVars, rated, claimed, unseen, dropped,
                   relapsed>>

-----------------------------------------------------------------------------
(* What else happens to the store.                                         *)

(* The application of a learning event, in a transaction that locks the    *)
(* experience it reads.                                                    *)
ApplyReward(r, up) ==
    /\ r \in Rows /\ ratings < MaxRatings
    /\ ratings' = ratings + 1
    /\ IF up THEN row[r].utility < MaxLevel ELSE row[r].utility > 0
    /\ row' = [row EXCEPT ![r].utility = IF up THEN @ + 1 ELSE @ - 1,
                          ![r].version = @ + 1]
    /\ rated' = [rated EXCEPT ![r] = IF up THEN @ + 1 ELSE @ - 1]
    /\ UNCHANGED <<rows, relations, pipeVars, runs, operations, faults, claimed,
                   known, unseen, dropped, relapsed>>

(* The operator's request to supersede one experience with another. *)
SupersedeByHand(old, new) ==
    /\ old \in Rows /\ new \in Rows /\ old # new
    /\ operations < MaxOperations
    /\ operations' = operations + 1
    /\ Supersede(old, new)
    /\ UNCHANGED <<rows, relations, pipeVars, runs, ratings, faults, historyVars>>

(* A call of the store, of the embedder or of the judge fails, or the      *)
(* server dies: the pipeline ends where it is.                             *)
PipelineFails(p) ==
    /\ at[p] # "idle" /\ faults < MaxFaults
    /\ faults' = faults + 1
    /\ FailPipeline(p)
    /\ UNCHANGED <<runs, ratings, operations>>

-----------------------------------------------------------------------------

PipelineStep(p) ==
    \/ \E e \in Episode : StoreCandidates(p, e)
    \/ SkipCandidate(p) \/ TrySemanticMerge(p)
    \/ ReadExperience(p) \/ WriteExperience(p) \/ RereadExperience(p)
    \/ GiveUpReinforcing(p)
    \/ CreateExperience(p) \/ ReadLeft(p) \/ ReadRight(p)
    \/ AllResolved(p)
    \/ RecordConflict(p) \/ SupersedeLoser(p) \/ RecordSupersedes(p)

Next ==
    \/ \E p \in Pipeline : PipelineStep(p) \/ PipelineFails(p)
    \/ \E r \in Row, up \in BOOLEAN : ApplyReward(r, up)
    \/ \E old, new \in Row : SupersedeByHand(old, new)

Spec == Init /\ [][Next]_vars

-----------------------------------------------------------------------------
(* Properties.                                                             *)

(* No update is lost: the utility of an experience is the sum of the       *)
(* feedback applied to it, although reinforcements write the utility they  *)
(* read back, and an episode a pipeline was told has reinforced it is      *)
(* among its support.                                                      *)
UpdatesKept ==
    /\ \A r \in Rows : row[r].utility = 1 + rated[r]
    /\ \A c \in claimed : c[2] \in row[c[1]].support

(* An episode stores a lesson once, however often and with however many    *)
(* pipelines at a time it is learnt from.                                  *)
OneRowPerLesson ==
    \A r, t \in Rows :
        r # t => row[r].episode # row[t].episode \/ row[r].says # row[t].says

(* Two experiences that contradict each other and may both be retrieved    *)
(* are known to: their conflict is recorded, or about to be resolved.  The *)
(* exceptions are the pairs that were stored without one pipeline seeing   *)
(* the other's row, that a failed pipeline left, and rows that came back.  *)
OppositesKnown ==
    \A a, b \in Rows :
        (/\ Judge[<<row[a].says, row[b].says>>] = "CONFLICT"
         /\ Retrievable(a) /\ Retrievable(b))
        => \/ \E r \in relations : {r[1], r[2]} = {a, b} /\ r[3] = "CONFLICTS"
           \/ \E p \in Pipeline :
                \/ created[p] = a /\ b \in peers[p] \cup {peer[p]}
                \/ created[p] = b /\ a \in peers[p] \cup {peer[p]}
           \/ {a, b} \in unseen \cup dropped
           \/ a \in relapsed \/ b \in relapsed

(* No feedback, no operator, and no reinforcement of a row that another    *)
(* one contradicts.                                                        *)
Undisturbed ==
    /\ ratings = 0 /\ operations = 0
    /\ \A c \in claimed, r \in Rows :
         Judge[<<row[c[1]].says, row[r].says>>] # "CONFLICT"

(* Resolutions do not end with nothing: although they decide on authorities *)
(* they read one after the other, of rows others are deprecating meanwhile, *)
(* each deprecated experience leaves one of no less authority retrievable. *)
(* Not so once the authority of a party may change between the reads and   *)
(* the decision.                                                           *)
LosersAnswered ==
    Undisturbed =>
        \A r \in Rows : row[r].status = "DEPRECATED" =>
            \E w \in Rows : Retrievable(w) /\ Authority(w) >= Authority(r)

=============================================================================
